---------------------------- MODULE GatewayProofs ----------------------------
(***************************************************************************)
(* What a client that walks the pages of GetTelemetry may rely on, for     *)
(* every page size, window and table, whatever collectors and the          *)
(* retention job do between two queries.                                   *)
(*                                                                         *)
(* A page is a piece of the order of its rows, and a row's place in that   *)
(* order is its rank.  The inductive invariant says where the rows lie     *)
(* that the walk still owes its client: behind the cursor or, by offset,   *)
(* at a rank that the offset has not passed.                               *)
(***************************************************************************)
EXTENDS PartitionsProofs, FiniteSetTheorems

Row == Nat \X Nat

-----------------------------------------------------------------------------
(* The order of the rows.                                                    *)

\* Newest first, and by metric within a timestamp: a strict total order.
LEMMA BeforeOrder ==
    /\ \A a \in Row : ~Before(a, a)
    /\ \A a, b \in Row : a # b => Before(a, b) \/ Before(b, a)
    /\ \A a, b, c \in Row : Before(a, b) /\ Before(b, c) => Before(a, c)
<1>1. \A a \in Row : a[1] \in Nat /\ a[2] \in Nat /\ a = <<a[1], a[2]>>
  BY DEF Row
<1>2. \A a \in Row : ~Before(a, a)
  BY <1>1 DEF Before
<1>3. \A a, b \in Row : a # b => Before(a, b) \/ Before(b, a)
  <2>. SUFFICES ASSUME NEW a \in Row, NEW b \in Row, a # b
                PROVE  Before(a, b) \/ Before(b, a)
    OBVIOUS
  <2>1. a[1] # b[1] \/ a[2] # b[2]
    BY <1>1
  <2>. QED BY <2>1, <1>1 DEF Before
<1>4. \A a, b, c \in Row : Before(a, b) /\ Before(b, c) => Before(a, c)
  BY <1>1 DEF Before
<1>. QED BY <1>2, <1>3, <1>4

\* A rank is a number below the number of rows.
LEMMA RankType ==
    ASSUME NEW S \in SUBSET Row, IsFiniteSet(S), NEW r \in Row
    PROVE  /\ IsFiniteSet({q \in S : Before(q, r)})
           /\ Rank(r, S) \in Nat
           /\ r \in S => Rank(r, S) < Cardinality(S)
<1>. DEFINE B == {q \in S : Before(q, r)}
<1>1. B \in SUBSET S
  OBVIOUS
<1>2. /\ IsFiniteSet(B) /\ Cardinality(B) <= Cardinality(S)
      /\ Cardinality(S) = Cardinality(B) => S = B
  BY <1>1, FS_Subset
<1>3. Cardinality(B) \in Nat /\ Cardinality(S) \in Nat
  BY <1>2, FS_CardinalityType
<1>4. r \in S => S # B
  BY BeforeOrder
<1>. QED
  BY <1>2, <1>3, <1>4 DEF Rank

\* An earlier row has a smaller rank.
LEMMA RankOrder ==
    ASSUME NEW S \in SUBSET Row, IsFiniteSet(S), NEW a \in S, NEW b \in Row, Before(a, b)
    PROVE  Rank(a, S) < Rank(b, S)
<1>. DEFINE A == {q \in S : Before(q, a)}
            B == {q \in S : Before(q, b)}
<1>1. A \in SUBSET B /\ a \in B /\ a \notin A
  BY BeforeOrder
<1>2. IsFiniteSet(B) /\ Rank(a, S) \in Nat /\ Rank(b, S) \in Nat
  BY RankType
<1>3. Cardinality(A) <= Cardinality(B) /\ Cardinality(B) # Cardinality(A)
  BY <1>1, <1>2, FS_Subset
<1>. QED
  BY <1>2, <1>3 DEF Rank

\* Ranks tell rows apart and order them.
LEMMA RankCompare ==
    ASSUME NEW S \in SUBSET Row, IsFiniteSet(S), NEW a \in S, NEW b \in S
    PROVE  /\ Rank(a, S) < Rank(b, S) => Before(a, b)
           /\ Rank(a, S) = Rank(b, S) => a = b
<1>1. Rank(a, S) \in Nat /\ Rank(b, S) \in Nat
  BY RankType
<1>2. Before(b, a) => Rank(b, S) < Rank(a, S)
  BY RankOrder
<1>3. Before(a, b) => Rank(a, S) < Rank(b, S)
  BY RankOrder
<1>4. a = b \/ Before(a, b) \/ Before(b, a)
  BY BeforeOrder
<1>. QED
  BY <1>1, <1>2, <1>3, <1>4

\* Every place is taken: n rows have the ranks 0 to n - 1.
LEMMA RankOnto ==
    ASSUME NEW S \in SUBSET Row, IsFiniteSet(S), NEW k \in Nat, k < Cardinality(S)
    PROVE  \E r \in S : Rank(r, S) = k
<1>. DEFINE n == Cardinality(S)
            T == 0..(n - 1)
            f == [r \in S |-> Rank(r, S)]
<1>1. n \in Nat /\ n > 0
  BY FS_CardinalityType
<1>2. IsFiniteSet(T) /\ Cardinality(T) = n
  <2>1. 0 \in Int /\ n - 1 \in Int
    BY <1>1
  <2>2. IsFiniteSet(T) /\ Cardinality(T) = IF 0 > n - 1 THEN 0 ELSE (n - 1) - 0 + 1
    BY ONLY <2>1, FS_Interval
  <2>. HIDE DEF n, T
  <2>. QED BY <2>2, <1>1
<1>3. \A r \in S : Rank(r, S) \in T
  <2>1. \A r \in S : Rank(r, S) \in Nat /\ Rank(r, S) < n
    BY RankType
  <2>. HIDE DEF n
  <2>. QED BY <2>1, <1>1
<1>4. f \in Injection(S, T)
  <2>1. f \in [S -> T]
    BY <1>3
  <2>2. \A a, b \in S : f[a] = f[b] => a = b
    BY RankCompare
  <2>. HIDE DEF T, f
  <2>. QED BY <2>1, <2>2 DEF Injection, IsInjective
<1>5. f \in Surjection(S, T)
  <2>. HIDE DEF T, f
  <2>. QED BY <1>2, <1>4, FS_Injection
<1>6. k \in T
  BY <1>1
<1>. QED
  BY <1>5, <1>6 DEF Surjection

\* Rows that come in push others back; they never bring them forward.
LEMMA RankGrows ==
    ASSUME NEW S, NEW T \in SUBSET Row, IsFiniteSet(T), S \subseteq T, NEW r \in Row
    PROVE  Rank(r, S) <= Rank(r, T)
<1>. DEFINE A == {q \in S : Before(q, r)}
            B == {q \in T : Before(q, r)}
<1>1. A \in SUBSET B /\ IsFiniteSet(B)
  BY RankType
<1>. QED
  BY <1>1, FS_Subset DEF Rank

-----------------------------------------------------------------------------
(* Pages.                                                                    *)

\* A slice holds the rows of ranks offset, offset + 1, ... in order.
LEMMA SliceFacts ==
    ASSUME NEW S \in SUBSET Row, IsFiniteSet(S), NEW offset \in Nat, NEW limit \in Nat
    PROVE  LET d    == Slice(S, offset, limit)
               left == Cardinality(S) - offset
           IN  /\ d \in Seq(S)
               /\ Len(d) = IF left < 0 THEN 0 ELSE IF left < limit THEN left ELSE limit
               /\ \A i \in 1..Len(d) : d[i] \in S /\ Rank(d[i], S) = offset + i - 1
<1>. DEFINE left == Cardinality(S) - offset
            top  == IF left < limit THEN left ELSE limit
            d    == Slice(S, offset, limit)
            row(i) == CHOOSE r \in S : Rank(r, S) = offset + i - 1
<1>1. Cardinality(S) \in Nat /\ left \in Int /\ top \in Int
  BY FS_CardinalityType
<1>2. d = [i \in 1..top |-> row(i)]
  BY DEF Slice
<1>3. \A i \in 1..top : row(i) \in S /\ Rank(row(i), S) = offset + i - 1
  <2>. TAKE i \in 1..top
  <2>1. offset + i - 1 \in Nat /\ offset + i - 1 < Cardinality(S)
    BY <1>1
  <2>2. \E r \in S : Rank(r, S) = offset + i - 1
    BY <2>1, RankOnto
  <2>. QED BY <2>2
<1>. HIDE DEF row, top, d
<1>4. d \in [1..top -> S] /\ \A i \in 1..top : d[i] = row(i)
  BY <1>2, <1>3
<1>5. d \in Seq(S) /\ Len(d) = IF top < 0 THEN 0 ELSE top
  <2>1. CASE top >= 0
    BY <2>1, <1>1, <1>4
  <2>2. CASE top < 0
    <3>1. d \in [1..0 -> S]
      BY <2>2, <1>1, <1>4
    <3>. QED BY <3>1, <2>2, <1>1
  <2>. QED BY <2>1, <2>2, <1>1
<1>6. \A i \in 1..Len(d) : i \in 1..top
  BY <1>1, <1>5
<1>7. Len(d) = IF left < 0 THEN 0 ELSE IF left < limit THEN left ELSE limit
  BY <1>1, <1>5 DEF top
<1>. QED
  BY <1>3, <1>4, <1>5, <1>6, <1>7 DEF d

\* What the handler makes of the rows a query finds: the page without its
\* sentinel, and whether there was one.
PageHasNext(S, offset, limit) == Len(Slice(S, offset, limit + 1)) > limit

PageData(S, offset, limit) ==
    LET metrics == Slice(S, offset, limit + 1)
    IN  IF PageHasNext(S, offset, limit) THEN SubSeq(metrics, 1, limit) ELSE metrics

\* The sentinel tells the truth, a page is in order, and what it leaves for later
\* comes after all of it.
LEMMA PageFacts ==
    ASSUME NEW S \in SUBSET Row, IsFiniteSet(S), NEW offset \in Nat, NEW limit \in Nat \ {0}
    PROVE  LET data == PageData(S, offset, limit)
               more == PageHasNext(S, offset, limit)
           IN  /\ data \in Seq(S)
               /\ more <=> Cardinality(S) > offset + limit
               /\ more => Len(data) = limit
               /\ \A i \in 1..(Len(data) - 1) : Before(data[i], data[i + 1])
               /\ \A r \in S : offset <= Rank(r, S) /\ r \notin Range(data) =>
                     /\ more /\ offset + limit <= Rank(r, S)
                     /\ Before(data[Len(data)], r)
<1>. DEFINE metrics == Slice(S, offset, limit + 1)
            data == PageData(S, offset, limit)
            more == PageHasNext(S, offset, limit)
            left == Cardinality(S) - offset
<1>1. /\ Cardinality(S) \in Nat /\ left \in Int /\ limit + 1 \in Nat
  BY FS_CardinalityType
<1>2. /\ metrics \in Seq(S)
      /\ Len(metrics) = IF left < 0 THEN 0 ELSE IF left < limit + 1 THEN left ELSE limit + 1
      /\ \A i \in 1..Len(metrics) : metrics[i] \in S /\ Rank(metrics[i], S) = offset + i - 1
  BY <1>1, SliceFacts
<1>3. more <=> Len(metrics) > limit
  BY DEF PageHasNext
<1>4. data = IF more THEN SubSeq(metrics, 1, limit) ELSE metrics
  BY DEF PageData
<1>. HIDE DEF metrics, data, more
<1>5. more <=> Cardinality(S) > offset + limit
  BY <1>1, <1>2, <1>3
<1>6. /\ data \in Seq(S)
      /\ Len(data) = IF more THEN limit ELSE Len(metrics)
      /\ \A i \in 1..Len(data) : data[i] = metrics[i]
  <2>1. CASE more
    BY <2>1, <1>2, <1>3, <1>4
  <2>2. CASE ~more
    BY <2>2, <1>2, <1>4
  <2>. QED BY <2>1, <2>2
<1>7. Len(data) <= Len(metrics) /\ Len(data) \in Nat /\ Len(metrics) \in Nat
  BY <1>2, <1>3, <1>6
<1>8. \A i \in 1..Len(data) : data[i] \in S /\ Rank(data[i], S) = offset + i - 1
  BY <1>2, <1>6, <1>7
<1>9. ASSUME NEW i \in 1..(Len(data) - 1) PROVE Before(data[i], data[i + 1])
  <2>1. i \in 1..Len(data) /\ i + 1 \in 1..Len(data)
    BY <1>7
  <2>2. Rank(data[i], S) < Rank(data[i + 1], S) /\ data[i] \in S /\ data[i + 1] \in S
    BY <2>1, <1>8
  <2>. QED BY <2>2, RankCompare
<1>10. ASSUME NEW r \in S, offset <= Rank(r, S), r \notin Range(data)
       PROVE  more /\ offset + limit <= Rank(r, S) /\ Before(data[Len(data)], r)
  <2>. DEFINE k == Rank(r, S)
  <2>1. k \in Nat /\ k < Cardinality(S)
    BY RankType
  <2>2. ~(k < offset + Len(data))
    <3>. SUFFICES ASSUME k < offset + Len(data) PROVE FALSE
      OBVIOUS
    <3>. DEFINE i == k - offset + 1
    <3>1. i \in 1..Len(data) /\ offset + i - 1 = k
      BY <2>1, <1>7, <1>10
    <3>2. data[i] \in S /\ Rank(data[i], S) = k
      BY <3>1, <1>8
    <3>3. data[i] = r
      BY <3>2, RankCompare
    <3>4. DOMAIN data = 1..Len(data)
      BY <1>6
    <3>. QED BY <3>1, <3>3, <3>4, <1>10 DEF Range
  <2>. HIDE DEF k
  <2>3. more
    BY <2>1, <2>2, <1>1, <1>2, <1>3, <1>6
  <2>4. Len(data) = limit /\ offset + limit <= k
    BY <2>1, <2>2, <2>3, <1>6
  <2>5. Len(data) \in 1..Len(data)
    BY <2>4
  <2>6. data[Len(data)] \in S /\ Rank(data[Len(data)], S) < k
    BY <2>4, <2>5, <1>8, <2>1
  <2>. QED BY <2>3, <2>4, <2>6, RankCompare DEF k
<1>. QED
  BY <1>3, <1>5, <1>6, <1>9, <1>10 DEF data, more

-----------------------------------------------------------------------------
(* The inductive invariant.                                                  *)

\* The rows a query of the walk ranges over.
Found == Matching(stored)

ReqRecord ==
    [at : {"idle", "count", "page", "done", "gone"}, window : Windows,
     mode : {"offset", "keyset"}, limit : 0..MaxRows, offset : Nat,
     cursor : [ts : Int, mn : Int], total : Nat \cup {Unknown}, hasNext : BOOLEAN]

WalkRecord == [rows : Seq(Row), due : SUBSET Row, dropped : BOOLEAN, drift : Nat \X Nat]

\* A query has a limit, only offset mode counts, and a cursor is the last row.
RequestOK ==
    /\ req \in ReqRecord
    /\ req.at \in {"count", "page"} => req.limit > 0
    /\ req.at = "count" => req.mode = "offset"
    /\ req.mode = "keyset" /\ req.at \in {"idle", "page"} =>
          walk.rows # <<>> /\ req.cursor = encodeCursor(Last(walk.rows))

\* What was shown is in order, and what is due is still there.
WalkOK ==
    /\ walk \in WalkRecord
    /\ walk.due \subseteq Found
    /\ CursorNeverRepeats

\* What is due lies where the next pages will find it.
DueOK ==
    /\ req.mode = "offset" /\ ~walk.dropped =>
          \A r \in walk.due : req.offset <= Rank(r, Found)
    /\ req.mode = "keyset" /\ req.at \in {"idle", "page"} /\ ~walk.dropped =>
          \A r \in walk.due : Before(Last(walk.rows), r)
    /\ WalkComplete

\* Between count and page the drift explains every difference.
BooksOK ==
    /\ req.at = "count" => walk.drift = <<0, 0>>
    /\ req.at = "page" /\ req.mode = "offset" =>
          /\ req.total \in Nat
          /\ req.total + walk.drift[1] = Cardinality(Found) + walk.drift[2]
    /\ req.at = "page" /\ req.mode = "keyset" => req.total = Unknown
    /\ TotalExplainsHasNext

StoredOK == stored \subseteq Row /\ IsFiniteSet(stored)

GatewayInv == StoredOK /\ RequestOK /\ WalkOK /\ DueOK /\ BooksOK

-----------------------------------------------------------------------------
(* The table.                                                                *)

\* What is stored is a row.
LEMMA RowType == ASSUME NEW d \in Int, NEW r \in (0..d) \X Metrics PROVE r \in Row
<1>1. r[1] \in 0..d /\ r[2] \in Metrics /\ r = <<r[1], r[2]>>
  OBVIOUS
<1>2. 0..d \subseteq Nat /\ Metrics \subseteq Nat
  BY PartitionsAssumption
<1>3. r[1] \in Nat /\ r[2] \in Nat
  BY <1>1, <1>2, Zenon
<1>. QED
  BY <1>1, <1>3 DEF Row

\* The table is finite, since it starts with one row at most.
LEMMA StoredInit == TableInit => StoredOK
<1>. SUFFICES ASSUME TableInit PROVE StoredOK
  OBVIOUS
<1>1. stored = {} \/ \E x \in (0..FirstDay) \X Metrics : stored = {x}
  BY DEF TableInit
<1>2. stored \subseteq Row
  BY <1>1, RowType, PartitionsAssumption
<1>. QED
  BY <1>1, <1>2, FS_EmptySet, FS_Singleton DEF StoredOK

LEMMA StoredStep == ASSUME TableInv, StoredOK, [TableNext]_tableVars PROVE StoredOK'
<1>1. CASE \E r \in (0..(today + Skew)) \X Metrics : Insert(r)
  <2>1. PICK r \in (0..(today + Skew)) \X Metrics : stored' = stored \cup {r}
    BY <1>1 DEF Insert
  <2>2. r \in Row
    <3>1. today + Skew \in Int
      BY PartitionsAssumption DEF TableInv, Types
    <3>. QED BY <3>1, RowType
  <2>. QED
    BY <2>1, <2>2, FS_AddElement DEF StoredOK
<1>2. CASE stored' \subseteq stored
  BY <1>2, FS_Subset DEF StoredOK
<1>. QED
  BY <1>1, <1>2 DEF TableNext, NextDay, JobDrops, DropBefore, JobEnsures, JobFails, tableVars

\* What a query finds is a finite set of rows.
LEMMA FoundFinite ==
    ASSUME StoredOK
    PROVE  Found \in SUBSET Row /\ IsFiniteSet(Found) /\ Cardinality(Found) \in Nat
<1>1. Found \in SUBSET stored
  BY DEF Found, Matching
<1>. QED
  BY <1>1, FS_Subset, FS_CardinalityType DEF StoredOK

\* What comes in and what goes makes up the difference.
LEMMA DriftFacts ==
    ASSUME NEW A, NEW B, IsFiniteSet(A), IsFiniteSet(B)
    PROVE  /\ Cardinality(A) \in Nat /\ Cardinality(B) \in Nat
           /\ Cardinality(A \ B) \in Nat /\ Cardinality(B \ A) \in Nat
           /\ Cardinality(B) + Cardinality(A \ B) = Cardinality(A) + Cardinality(B \ A)
<1>1. A \cap B = B \cap A
  OBVIOUS
<1>2. /\ IsFiniteSet(A \ B) /\ Cardinality(A \ B) = Cardinality(A) - Cardinality(A \cap B)
      /\ IsFiniteSet(B \ A) /\ Cardinality(B \ A) = Cardinality(B) - Cardinality(B \cap A)
      /\ IsFiniteSet(A \cap B)
  BY FS_Difference, FS_Intersection
<1>3. /\ Cardinality(A) \in Nat /\ Cardinality(B) \in Nat /\ Cardinality(A \cap B) \in Nat
      /\ Cardinality(A \ B) \in Nat /\ Cardinality(B \ A) \in Nat
  BY <1>2, FS_CardinalityType
<1>4. Cardinality(A \cap B) = Cardinality(B \cap A)
  BY <1>1
<1>. DEFINE a == Cardinality(A) b == Cardinality(B) c == Cardinality(A \cap B)
            e == Cardinality(B \cap A) x == Cardinality(A \ B) y == Cardinality(B \ A)
<1>5. /\ a \in Nat /\ b \in Nat /\ c \in Nat /\ c = e /\ x = a - c /\ y = b - e
      /\ x \in Nat /\ y \in Nat
  BY <1>2, <1>3, <1>4
<1>. HIDE DEF a, b, c, e, x, y
<1>6. b + x = a + y
  BY <1>5
<1>. QED
  BY <1>3, <1>6 DEF a, b, x, y

\* A walk begins with nothing due and nothing shown.
LEMMA GatewayInit == Init => GatewayInv
<1>. SUFFICES ASSUME Init PROVE GatewayInv
  OBVIOUS
<1>1. StoredOK
  BY StoredInit DEF Init
<1>2. /\ req.at = "idle" /\ req.window \in Windows /\ req.mode = "offset" /\ req.limit = 0
      /\ req.offset = 0 /\ req.cursor = NoCursor /\ req.total = Unknown /\ req.hasNext = FALSE
      /\ req = [at |-> "idle", window |-> req.window, mode |-> "offset", limit |-> 0, offset |-> 0,
                cursor |-> NoCursor, total |-> Unknown, hasNext |-> FALSE]
  BY DEF Init
<1>3. walk = [rows |-> <<>>, due |-> {}, dropped |-> FALSE, drift |-> <<0, 0>>]
  BY DEF Init
<1>4. RequestOK
  <2>1. 0 \in 0..MaxRows /\ NoCursor \in [ts : Int, mn : Int]
    BY GatewayAssumption DEF NoCursor, Unknown
  <2>2. Unknown \in Nat \cup {Unknown} /\ 0 \in Nat /\ FALSE \in BOOLEAN
    OBVIOUS
  <2>3. req \in ReqRecord
    BY <2>1, <2>2, <1>2, Zenon DEF ReqRecord
  <2>. QED BY <2>3, <1>2 DEF RequestOK
<1>5. WalkOK
  BY <1>3 DEF WalkOK, WalkRecord, CursorNeverRepeats
<1>6. DueOK
  BY <1>2, <1>3 DEF DueOK, WalkComplete
<1>7. BooksOK
  BY <1>2 DEF BooksOK, TotalExplainsHasNext
<1>. QED
  BY <1>1, <1>4, <1>5, <1>6, <1>7 DEF GatewayInv

-----------------------------------------------------------------------------
(* The steps of a request.                                                   *)

\* Neither table nor history changes, and the walk stays where it is.
LEMMA FrameStep ==
    ASSUME GatewayInv, UNCHANGED stored, req' \in ReqRecord,
           req'.window = req.window, req'.mode = req.mode, req'.offset = req.offset,
           req'.cursor = req.cursor, req'.at # "done",
           walk' \in WalkRecord, walk'.rows = walk.rows, walk'.due = walk.due,
           walk'.dropped = walk.dropped,
           req.at \in {"idle", "page"} \/ req.mode = "offset"
    PROVE  /\ StoredOK' /\ Found' = Found /\ WalkOK' /\ DueOK'
           /\ req'.mode = "keyset" => walk'.rows # <<>> /\ req'.cursor = encodeCursor(Last(walk'.rows))
<1>. USE DEF GatewayInv
<1>1. StoredOK'
  BY DEF StoredOK
<1>2. Found' = Found
  BY DEF Found, Matching, InWindow
<1>3. WalkOK'
  BY <1>2 DEF WalkOK, CursorNeverRepeats
<1>4. WalkComplete'
  BY DEF WalkComplete
<1>5. req'.mode = "keyset" => req.mode = "keyset" /\ req.at \in {"idle", "page"}
  BY DEF RequestOK, ReqRecord
<1>6. DueOK'
  BY <1>2, <1>4, <1>5 DEF DueOK
<1>7. req'.mode = "keyset" => walk'.rows # <<>> /\ req'.cursor = encodeCursor(Last(walk'.rows))
  BY <1>5 DEF RequestOK
<1>. QED
  BY <1>1, <1>2, <1>3, <1>6, <1>7

LEMMA GetTelemetryStep ==
    ASSUME GatewayInv, NEW n \in Asked, GetTelemetry(n)
    PROVE  GatewayInv'
<1>. DEFINE lim == IF n = 0 \/ n > MaxRows THEN MaxRows ELSE n
            next == IF ~GPUExists THEN "gone" ELSE IF req.mode = "offset" THEN "count" ELSE "page"
<1>1. lim \in 0..MaxRows /\ lim > 0
  BY GatewayAssumption
<1>2. next \in {"gone", "count", "page"} /\ (next = "count" => req.mode = "offset")
      /\ (next = "page" => req.mode # "offset")
  OBVIOUS
<1>. HIDE DEF lim, next
<1>3. req \in ReqRecord /\ walk \in WalkRecord
  BY DEF GatewayInv, RequestOK, WalkOK
<1>4. req' = [req EXCEPT !.limit = lim, !.total = Unknown, !.hasNext = FALSE, !.at = next]
  BY DEF GetTelemetry, lim, next
<1>5. /\ req'.at = next /\ req'.limit = lim /\ req'.total = Unknown /\ req'.hasNext = FALSE
      /\ req'.window = req.window /\ req'.mode = req.mode /\ req'.offset = req.offset
      /\ req'.cursor = req.cursor
  BY <1>3, <1>4 DEF ReqRecord
<1>6. req' \in ReqRecord
  BY <1>1, <1>2, <1>3, <1>4 DEF ReqRecord
<1>7. walk' = [walk EXCEPT !.drift = <<0, 0>>] /\ UNCHANGED stored /\ req.at = "idle"
  BY DEF GetTelemetry, tableVars
<1>8. /\ walk' \in WalkRecord /\ walk'.rows = walk.rows /\ walk'.due = walk.due
      /\ walk'.dropped = walk.dropped /\ walk'.drift = <<0, 0>>
  BY <1>3, <1>7 DEF WalkRecord
<1>9. /\ StoredOK' /\ Found' = Found /\ WalkOK' /\ DueOK'
      /\ req'.mode = "keyset" => walk'.rows # <<>> /\ req'.cursor = encodeCursor(Last(walk'.rows))
  BY <1>2, <1>5, <1>6, <1>7, <1>8, FrameStep
<1>10. RequestOK'
  BY <1>1, <1>2, <1>5, <1>6, <1>9 DEF RequestOK
<1>11. BooksOK'
  <2>1. TotalExplainsHasNext'
    BY <1>5 DEF TotalExplainsHasNext
  <2>2. req'.at = "page" => req'.mode # "offset"
    BY <1>2, <1>5
  <2>. QED BY <2>1, <2>2, <1>5, <1>8 DEF BooksOK
<1>. QED
  BY <1>9, <1>10, <1>11 DEF GatewayInv

LEMMA CountStep == ASSUME GatewayInv, Count PROVE GatewayInv'
<1>1. req \in ReqRecord /\ walk \in WalkRecord /\ req.mode = "offset" /\ req.limit > 0
  BY DEF GatewayInv, RequestOK, WalkOK, Count
<1>2. /\ req.at = "count" /\ req' = [req EXCEPT !.at = "page", !.total = Cardinality(Found)]
      /\ UNCHANGED stored /\ walk' = walk
  BY DEF Count, TelemetryCount, Found, tableVars
<1>3. Cardinality(Found) \in Nat
  BY FoundFinite DEF GatewayInv
<1>4. /\ req'.at = "page" /\ req'.limit = req.limit /\ req'.total = Cardinality(Found)
      /\ req'.window = req.window /\ req'.mode = req.mode /\ req'.offset = req.offset
      /\ req'.cursor = req.cursor
  BY <1>1, <1>2 DEF ReqRecord
<1>5. req' \in ReqRecord
  BY <1>1, <1>2, <1>3 DEF ReqRecord
<1>6. /\ StoredOK' /\ Found' = Found /\ WalkOK' /\ DueOK'
      /\ req'.mode = "keyset" => walk'.rows # <<>> /\ req'.cursor = encodeCursor(Last(walk'.rows))
  BY <1>1, <1>2, <1>4, <1>5, FrameStep
<1>7. RequestOK'
  BY <1>1, <1>4, <1>5, <1>6 DEF RequestOK
<1>8. BooksOK'
  <2>1. walk.drift = <<0, 0>>
    BY <1>2 DEF GatewayInv, BooksOK
  <2>2. TotalExplainsHasNext'
    BY <1>4 DEF TotalExplainsHasNext
  <2>3. Cardinality(Found)' = Cardinality(Found)
    BY <1>6
  <2>. QED BY <2>1, <2>2, <2>3, <1>1, <1>2, <1>3, <1>4 DEF BooksOK
<1>. QED
  BY <1>6, <1>7, <1>8 DEF GatewayInv

LEMMA QueryFailsStep == ASSUME GatewayInv, QueryFails PROVE GatewayInv'
<1>1. req \in ReqRecord /\ walk \in WalkRecord
  BY DEF GatewayInv, RequestOK, WalkOK
<1>2. /\ req.at \in {"count", "page"} /\ req' = [req EXCEPT !.at = "idle", !.total = Unknown]
      /\ UNCHANGED stored /\ walk' = walk
  BY DEF QueryFails, tableVars
<1>3. req.at \in {"idle", "page"} \/ req.mode = "offset"
  BY <1>2 DEF GatewayInv, RequestOK
<1>4. /\ req'.at = "idle" /\ req'.total = Unknown
      /\ req'.window = req.window /\ req'.mode = req.mode /\ req'.offset = req.offset
      /\ req'.cursor = req.cursor
  BY <1>1, <1>2 DEF ReqRecord
<1>5. req' \in ReqRecord
  BY <1>1, <1>2 DEF ReqRecord
<1>6. /\ StoredOK' /\ Found' = Found /\ WalkOK' /\ DueOK'
      /\ req'.mode = "keyset" => walk'.rows # <<>> /\ req'.cursor = encodeCursor(Last(walk'.rows))
  BY <1>1, <1>2, <1>3, <1>4, <1>5, FrameStep
<1>7. RequestOK'
  BY <1>4, <1>5, <1>6 DEF RequestOK
<1>8. BooksOK'
  BY <1>4 DEF BooksOK, TotalExplainsHasNext
<1>. QED
  BY <1>6, <1>7, <1>8 DEF GatewayInv

\* Rows come and go under the walk.
LEMMA TableStep == ASSUME GatewayInv, TableInv, Table PROVE GatewayInv'
<1>. DEFINE new == Found' \ Found
            gone == Found \ Found'
            moving == req.at = "page" /\ req.mode = "offset"
            drift == IF moving
                     THEN <<walk.drift[1] + Cardinality(new), walk.drift[2] + Cardinality(gone)>>
                     ELSE walk.drift
<1>1. req' = req /\ TableNext
  BY DEF Table
<1>2. Matching(stored' \ stored) = new /\ Matching(stored \ stored') = gone
  BY <1>1 DEF Found, Matching, InWindow, Day
<1>3. walk' = [walk EXCEPT !.due = @ \ gone,
                           !.dropped = @ \/ (gone # {} /\ req.mode = "offset"),
                           !.drift = drift]
  BY <1>2 DEF Table
<1>4. req \in ReqRecord /\ walk \in WalkRecord
  BY DEF GatewayInv, RequestOK, WalkOK
<1>5. StoredOK'
  BY <1>1, StoredStep DEF GatewayInv
<1>6. /\ Found \in SUBSET Row /\ IsFiniteSet(Found)
      /\ Found' \in SUBSET Row /\ IsFiniteSet(Found')
  <2>1. (Found \in SUBSET Row /\ IsFiniteSet(Found))'
    BY <1>5, FoundFinite, PTL
  <2>2. Found \in SUBSET Row /\ IsFiniteSet(Found)
    BY FoundFinite DEF GatewayInv
  <2>. QED BY <2>1, <2>2
<1>7. /\ Cardinality(Found) \in Nat /\ Cardinality(Found') \in Nat
      /\ Cardinality(new) \in Nat /\ Cardinality(gone) \in Nat
      /\ Cardinality(Found') + Cardinality(gone) = Cardinality(Found) + Cardinality(new)
  BY <1>6, DriftFacts
<1>. HIDE DEF new, gone
<1>8. walk.drift \in Nat \X Nat /\ drift \in Nat \X Nat
  BY <1>4, <1>7 DEF WalkRecord
<1>. HIDE DEF drift
<1>9. /\ walk'.rows = walk.rows /\ walk'.due = walk.due \ gone
      /\ walk'.dropped = (walk.dropped \/ (gone # {} /\ req.mode = "offset"))
      /\ walk'.drift = drift
  BY <1>3, <1>4 DEF WalkRecord
<1>10. walk' \in WalkRecord
  BY <1>3, <1>4, <1>8 DEF WalkRecord
<1>11. RequestOK'
  BY <1>1, <1>9 DEF GatewayInv, RequestOK
<1>12. WalkOK'
  <2>1. walk.due \subseteq Found
    BY DEF GatewayInv, WalkOK
  <2>2. walk'.due \subseteq Found'
    BY <2>1, <1>9 DEF gone
  <2>3. CursorNeverRepeats'
    BY <1>9 DEF GatewayInv, WalkOK, CursorNeverRepeats
  <2>. QED BY <1>10, <2>2, <2>3 DEF WalkOK
<1>13. DueOK'
  <2>1. ASSUME req.mode = "offset", ~walk'.dropped, NEW r \in walk'.due
        PROVE  req.offset <= Rank(r, Found)'
    <3>1. ~walk.dropped /\ gone = {} /\ r \in walk.due
      BY <2>1, <1>9
    <3>2. Found \subseteq Found'
      BY <3>1 DEF gone
    <3>3. r \in Row /\ req.offset \in Nat
      BY <3>1, <1>4 DEF WalkRecord, ReqRecord
    <3>4. Rank(r, Found) <= Rank(r, Found')
      BY <1>6, <3>2, <3>3, RankGrows
    <3>5. req.offset <= Rank(r, Found)
      BY <2>1, <3>1 DEF GatewayInv, DueOK
    <3>6. Rank(r, Found) \in Nat /\ Rank(r, Found') \in Nat
      BY <1>6, <3>3, RankType
    <3>7. Rank(r, Found)' = Rank(r, Found')
      BY DEF Rank, Before
    <3>. QED BY <3>3, <3>4, <3>5, <3>6, <3>7
  <2>2. ASSUME req.mode = "keyset", req.at \in {"idle", "page"}, ~walk'.dropped, NEW r \in walk'.due
        PROVE  Before(Last(walk'.rows), r)
    BY <2>2, <1>9 DEF GatewayInv, DueOK
  <2>3. WalkComplete'
    BY <1>1, <1>9 DEF GatewayInv, DueOK, WalkComplete
  <2>. QED BY <1>1, <2>1, <2>2, <2>3 DEF DueOK
<1>14. BooksOK'
  <2>1. ASSUME moving
        PROVE  req.total + drift[1] = Cardinality(Found') + drift[2] /\ req.total \in Nat
    <3>1. req.total \in Nat /\ req.total + walk.drift[1] = Cardinality(Found) + walk.drift[2]
      BY <2>1 DEF GatewayInv, BooksOK
    <3>2. drift[1] = walk.drift[1] + Cardinality(new) /\ drift[2] = walk.drift[2] + Cardinality(gone)
      BY <2>1 DEF drift
    <3>3. walk.drift[1] \in Nat /\ walk.drift[2] \in Nat
      BY <1>8
    <3>. QED BY <3>1, <3>2, <3>3, <1>7
  <2>2. ~moving => walk'.drift = walk.drift
    BY <1>9 DEF drift
  <2>3. TotalExplainsHasNext'
    <3>1. TotalExplainsHasNext
      BY DEF GatewayInv, BooksOK
    <3>2. CASE moving
      BY <3>2, <1>1 DEF TotalExplainsHasNext
    <3>3. CASE ~moving
      BY <3>1, <3>3, <2>2, <1>1 DEF TotalExplainsHasNext
    <3>. QED BY <3>2, <3>3
  <2>4. req.at = "count" => walk'.drift = <<0, 0>>
    BY <2>2 DEF GatewayInv, BooksOK
  <2>5. req.at = "page" /\ req.mode = "keyset" => req.total = Unknown
    BY DEF GatewayInv, BooksOK
  <2>. QED BY <1>1, <1>9, <2>1, <2>3, <2>4, <2>5 DEF BooksOK
<1>. QED
  BY <1>5, <1>11, <1>12, <1>13, <1>14 DEF GatewayInv

-----------------------------------------------------------------------------
(* The page.                                                                 *)

\* The rows the page query ranges over, and how many of them it skips.
Candidates == IF req.mode = "offset" THEN Found ELSE {r \in Found : Before(Position, r)}

Skipped == IF req.mode = "offset" THEN req.offset ELSE 0

Data == PageData(Candidates, Skipped, req.limit)

HasNext == PageHasNext(Candidates, Skipped, req.limit)

\* Page in these terms.
LEMMA PageShape ==
    ASSUME Page
    PROVE  /\ req.at = "page" /\ UNCHANGED stored
           /\ walk' = Received(Data)
           /\ \E mode \in IF HasNext THEN {req.mode, "keyset"} ELSE {req.mode} :
                 req' = [req EXCEPT !.at = IF HasNext THEN "idle" ELSE "done", !.mode = mode,
                                    !.hasNext = HasNext,
                                    !.offset = IF HasNext /\ req.mode = "offset" THEN @ + req.limit ELSE @,
                                    !.cursor = IF HasNext THEN encodeCursor(Last(Data)) ELSE NoCursor]
<1>. DEFINE metrics == IF req.mode = "offset" THEN Telemetry(req.limit + 1) ELSE TelemetryAfter(req.limit + 1)
<1>1. metrics = Slice(Candidates, Skipped, req.limit + 1)
  BY DEF Telemetry, TelemetryAfter, Candidates, Skipped, Found
<1>2. HasNext = (Len(metrics) > req.limit)
  BY <1>1 DEF HasNext, PageHasNext
<1>3. Data = IF HasNext THEN SubSeq(metrics, 1, req.limit) ELSE metrics
  BY <1>1 DEF Data, PageData, HasNext
<1>. HIDE DEF metrics
<1>4. /\ req.at = "page" /\ UNCHANGED tableVars
      /\ walk' = Received(IF Len(metrics) > req.limit THEN SubSeq(metrics, 1, req.limit) ELSE metrics)
      /\ \E mode \in IF Len(metrics) > req.limit THEN {req.mode, "keyset"} ELSE {req.mode} :
            req' = [req EXCEPT !.at = IF Len(metrics) > req.limit THEN "idle" ELSE "done", !.mode = mode,
                               !.hasNext = Len(metrics) > req.limit,
                               !.offset = IF Len(metrics) > req.limit /\ req.mode = "offset"
                                          THEN @ + req.limit ELSE @,
                               !.cursor = IF Len(metrics) > req.limit
                                          THEN encodeCursor(Last(IF Len(metrics) > req.limit
                                                                 THEN SubSeq(metrics, 1, req.limit)
                                                                 ELSE metrics))
                                          ELSE NoCursor]
  BY Zenon DEF Page, metrics
<1>. QED
  BY <1>2, <1>3, <1>4, Zenon DEF tableVars

\* The page after a cursor holds only rows behind it.
LEMMA PageRows ==
    ASSUME GatewayInv, req.at = "page"
    PROVE  /\ Candidates \in SUBSET Row /\ IsFiniteSet(Candidates) /\ Candidates \subseteq Found
           /\ Skipped \in Nat /\ req.limit \in Nat \ {0}
           /\ req.mode = "keyset" => Candidates = {r \in Found : Before(Last(walk.rows), r)}
<1>1. Found \in SUBSET Row /\ IsFiniteSet(Found)
  BY FoundFinite DEF GatewayInv
<1>2. Candidates \in SUBSET Found
  BY DEF Candidates
<1>3. Candidates \in SUBSET Row /\ IsFiniteSet(Candidates)
  BY <1>1, <1>2, FS_Subset
<1>4. req \in ReqRecord /\ req.limit > 0
  BY DEF GatewayInv, RequestOK
<1>5. Skipped \in Nat /\ req.limit \in Nat \ {0}
  BY <1>4, GatewayAssumption DEF Skipped, ReqRecord
<1>6. ASSUME req.mode = "keyset" PROVE Candidates = {r \in Found : Before(Last(walk.rows), r)}
  <2>1. req.cursor = encodeCursor(Last(walk.rows))
    BY <1>6 DEF GatewayInv, RequestOK
  <2>2. Position[1] = Last(walk.rows)[1] /\ Position[2] = Last(walk.rows)[2]
    BY <2>1 DEF Position, encodeCursor, Day
  <2>. QED BY <1>6, <2>2 DEF Candidates, Before
<1>. QED
  BY <1>2, <1>3, <1>5, <1>6

\* What PageFacts says of this page.
LEMMA PageHere ==
    ASSUME GatewayInv, req.at = "page"
    PROVE  /\ Data \in Seq(Candidates) /\ Data \in Seq(Row) /\ HasNext \in BOOLEAN
           /\ HasNext <=> Cardinality(Candidates) > Skipped + req.limit
           /\ HasNext => Len(Data) = req.limit
           /\ \A i \in 1..(Len(Data) - 1) : Before(Data[i], Data[i + 1])
           /\ \A r \in Candidates : Skipped <= Rank(r, Candidates) /\ r \notin Range(Data) =>
                 /\ HasNext /\ Skipped + req.limit <= Rank(r, Candidates)
                 /\ Before(Last(Data), r)
<1>1. /\ Candidates \in SUBSET Row /\ IsFiniteSet(Candidates)
      /\ Skipped \in Nat /\ req.limit \in Nat \ {0}
  BY PageRows
<1>2. /\ Data \in Seq(Candidates)
      /\ HasNext <=> Cardinality(Candidates) > Skipped + req.limit
      /\ HasNext => Len(Data) = req.limit
      /\ \A i \in 1..(Len(Data) - 1) : Before(Data[i], Data[i + 1])
      /\ \A r \in Candidates : Skipped <= Rank(r, Candidates) /\ r \notin Range(Data) =>
            /\ HasNext /\ Skipped + req.limit <= Rank(r, Candidates)
            /\ Before(Data[Len(Data)], r)
  BY <1>1, PageFacts DEF Data, HasNext
<1>3. Data \in Seq(Row)
  BY <1>1, <1>2
<1>4. HasNext \in BOOLEAN
  BY DEF HasNext, PageHasNext
<1>. QED
  BY <1>2, <1>3, <1>4 DEF Last

\* What is due and not on this page comes after it, at a rank behind it.
LEMMA PageDue ==
    ASSUME GatewayInv, req.at = "page", ~walk.dropped \/ (req.mode = "offset" /\ req.offset = 0),
           NEW r \in Found, r \notin Range(Data),
           r \in walk.due \/ (req.mode = "offset" /\ req.offset = 0)
    PROVE  /\ HasNext /\ Before(Last(Data), r)
           /\ req.mode = "offset" => req.offset + req.limit <= Rank(r, Found)
<1>1. req.mode \in {"offset", "keyset"} /\ req.offset \in Nat
  BY DEF GatewayInv, RequestOK, ReqRecord
<1>2. Found \in SUBSET Row /\ IsFiniteSet(Found)
  BY FoundFinite DEF GatewayInv
<1>3. Rank(r, Found) \in Nat
  BY <1>2, RankType
<1>4. CASE req.mode = "offset"
  <2>1. Candidates = Found /\ Skipped = req.offset
    BY <1>4 DEF Candidates, Skipped
  <2>2. req.offset <= Rank(r, Found)
    BY <1>1, <1>3, <1>4 DEF GatewayInv, DueOK
  <2>. QED BY <2>1, <2>2, PageHere
<1>5. CASE req.mode = "keyset"
  <2>1. Before(Last(walk.rows), r)
    BY <1>5 DEF GatewayInv, DueOK
  <2>2. r \in Candidates /\ Skipped = 0
    BY <2>1, <1>5, PageRows DEF Skipped
  <2>3. Rank(r, Candidates) \in Nat
    BY <2>2, PageRows, RankType
  <2>. QED BY <1>5, <2>2, <2>3, PageHere
<1>. QED
  BY <1>1, <1>4, <1>5

\* The rows shown stay in order: an offset page begins anew, a cursor page goes
\* on behind the last row.
LEMMA PageOrder ==
    ASSUME GatewayInv, req.at = "page",
           walk'.rows = IF req.mode = "offset" THEN Data ELSE walk.rows \o Data
    PROVE  /\ walk'.rows \in Seq(Row) /\ CursorNeverRepeats'
           /\ HasNext => walk'.rows # <<>> /\ Last(walk'.rows) = Last(Data)
<1>. DEFINE old == walk.rows
<1>1. /\ Data \in Seq(Row) /\ \A i \in 1..(Len(Data) - 1) : Before(Data[i], Data[i + 1])
      /\ HasNext => Len(Data) = req.limit
      /\ Data \in Seq(Candidates) /\ req.limit \in Nat \ {0}
  BY PageHere, PageRows
<1>2. req.mode \in {"offset", "keyset"} /\ old \in Seq(Row)
  BY DEF GatewayInv, RequestOK, ReqRecord, WalkOK, WalkRecord
<1>3. \A i \in 1..(Len(old) - 1) : Before(old[i], old[i + 1])
  BY DEF GatewayInv, WalkOK, CursorNeverRepeats
<1>4. CASE req.mode = "offset"
  BY <1>1, <1>4 DEF CursorNeverRepeats, Last
<1>5. CASE req.mode = "keyset"
  <2>1. old # <<>>
    BY <1>5 DEF GatewayInv, RequestOK
  <2>2. \A r \in Candidates : Before(old[Len(old)], r)
    BY <1>5, PageRows DEF Last
  <2>. HIDE DEF old
  <2>3. walk'.rows = old \o Data
    BY <1>5 DEF old
  <2>. DEFINE all == old \o Data
  <2>4. /\ all \in Seq(Row) /\ Len(all) = Len(old) + Len(Data)
        /\ Len(old) \in Nat \ {0} /\ Len(Data) \in Nat
        /\ \A i \in 1..Len(old) : all[i] = old[i]
        /\ \A i \in 1..Len(Data) : all[Len(old) + i] = Data[i]
    BY <1>1, <1>2, <2>1
  <2>. HIDE DEF all
  <2>5. ASSUME NEW i \in 1..(Len(all) - 1) PROVE Before(all[i], all[i + 1])
    <3>1. CASE i < Len(old)
      <4>1. i \in 1..(Len(old) - 1) /\ i \in 1..Len(old) /\ i + 1 \in 1..Len(old)
        BY <3>1, <2>4
      <4>. QED BY <4>1, <2>4, <1>3
    <3>2. CASE i = Len(old)
      <4>1. 1 \in 1..Len(Data) /\ i \in 1..Len(old)
        BY <3>2, <2>4, <2>5
      <4>2. all[i] = old[Len(old)] /\ all[i + 1] = Data[1] /\ Data[1] \in Candidates
        BY <4>1, <3>2, <2>4, <1>1
      <4>. QED BY <4>2, <2>2
    <3>3. CASE i > Len(old)
      <4>. DEFINE j == i - Len(old)
      <4>1. /\ j \in 1..(Len(Data) - 1) /\ j \in 1..Len(Data) /\ j + 1 \in 1..Len(Data)
            /\ i = Len(old) + j /\ i + 1 = Len(old) + (j + 1)
        BY <3>3, <2>4, <2>5
      <4>. HIDE DEF j
      <4>2. all[i] = Data[j] /\ all[i + 1] = Data[j + 1]
        BY <4>1, <2>4
      <4>. QED BY <4>1, <4>2, <1>1
    <3>. QED BY <3>1, <3>2, <3>3, <2>4
  <2>6. ASSUME HasNext PROVE all # <<>> /\ Last(all) = Last(Data)
    <3>1. Len(Data) \in 1..Len(Data)
      BY <2>6, <1>1
    <3>. QED BY <3>1, <2>4 DEF Last
  <2>. QED BY <2>3, <2>4, <2>5, <2>6 DEF all, CursorNeverRepeats
<1>. QED
  BY <1>2, <1>4, <1>5

\* A page keeps the walk's promises.
LEMMA PageStep == ASSUME GatewayInv, Page PROVE GatewayInv'
<1>. DEFINE first == req.mode = "offset" /\ req.offset = 0
            due == (IF first THEN Found ELSE walk.due) \ Range(Data)
<1>1. req.at = "page" /\ UNCHANGED stored /\ walk' = Received(Data)
  BY PageShape
<1>2. PICK mode \in IF HasNext THEN {req.mode, "keyset"} ELSE {req.mode} :
            req' = [req EXCEPT !.at = IF HasNext THEN "idle" ELSE "done", !.mode = mode,
                               !.hasNext = HasNext,
                               !.offset = IF HasNext /\ req.mode = "offset" THEN @ + req.limit ELSE @,
                               !.cursor = IF HasNext THEN encodeCursor(Last(Data)) ELSE NoCursor]
  BY PageShape, Zenon
<1>3. req \in ReqRecord /\ walk \in WalkRecord /\ req.limit > 0
  BY <1>1 DEF GatewayInv, RequestOK, WalkOK
<1>4. /\ Data \in Seq(Row) /\ HasNext \in BOOLEAN
      /\ HasNext <=> Cardinality(Candidates) > Skipped + req.limit
      /\ HasNext => Len(Data) = req.limit
  BY <1>1, PageHere
<1>5. /\ req'.at = (IF HasNext THEN "idle" ELSE "done") /\ req'.mode = mode
      /\ req'.hasNext = HasNext /\ req'.window = req.window /\ req'.limit = req.limit
      /\ req'.offset = IF HasNext /\ req.mode = "offset" THEN req.offset + req.limit ELSE req.offset
      /\ req'.cursor = IF HasNext THEN encodeCursor(Last(Data)) ELSE NoCursor
      /\ req'.total = req.total
  BY <1>2, <1>3 DEF ReqRecord
<1>6. req.limit \in Nat \ {0} /\ req.offset \in Nat /\ req.mode \in {"offset", "keyset"}
  BY <1>3, GatewayAssumption DEF ReqRecord
<1>7. mode \in {"offset", "keyset"} /\ (~HasNext => mode = req.mode)
      /\ (mode = "offset" => req.mode = "offset")
  BY <1>2, <1>6
<1>8. walk' = [walk EXCEPT !.rows = IF req.mode = "offset" THEN Data ELSE @ \o Data,
                           !.due = due, !.dropped = IF first THEN FALSE ELSE @]
  BY <1>1 DEF Received, Found
<1>9. /\ walk'.rows = IF req.mode = "offset" THEN Data ELSE walk.rows \o Data
      /\ walk'.due = due /\ walk'.dropped = (IF first THEN FALSE ELSE walk.dropped)
      /\ walk'.drift = walk.drift
  BY <1>3, <1>8 DEF WalkRecord
<1>10. /\ walk'.rows \in Seq(Row) /\ CursorNeverRepeats'
       /\ HasNext => walk'.rows # <<>> /\ Last(walk'.rows) = Last(Data)
  BY <1>1, <1>9, PageOrder
<1>11. StoredOK' /\ Found' = Found
  BY <1>1, <1>5 DEF GatewayInv, StoredOK, Found, Matching, InWindow
<1>12. Found \in SUBSET Row /\ IsFiniteSet(Found) /\ Cardinality(Found) \in Nat
  BY FoundFinite DEF GatewayInv
<1>13. due \subseteq Found
  BY DEF GatewayInv, WalkOK
<1>14. WalkOK'
  <2>1. due \in SUBSET Row
    BY <1>12, <1>13
  <2>2. walk' \in WalkRecord
    <3>. HIDE DEF due, first
    <3>. QED BY <1>3, <1>8, <1>9, <1>10, <2>1 DEF WalkRecord
  <2>. QED BY <1>9, <1>10, <1>11, <1>13, <2>2 DEF WalkOK
<1>15. RequestOK'
  <2>1. HasNext => Last(Data) \in Row
    BY <1>4, <1>6 DEF Last
  <2>2. req'.cursor \in [ts : Int, mn : Int]
    BY <2>1, <1>5 DEF Row, encodeCursor, Day, NoCursor, Unknown
  <2>3. req' \in ReqRecord
    <3>. DEFINE at == req'.at
                offset == req'.offset
                cursor == req'.cursor
                more == HasNext
    <3>1. /\ req' = [req EXCEPT !.at = at, !.mode = mode, !.hasNext = more,
                               !.offset = offset, !.cursor = cursor]
      BY <1>2, <1>5
    <3>2. at \in {"idle", "done"} /\ offset \in Nat /\ cursor \in [ts : Int, mn : Int]
      BY <1>5, <1>6, <2>2
    <3>3. more \in BOOLEAN
      BY <1>4
    <3>. HIDE DEF at, offset, cursor, more
    <3>. QED BY <3>1, <3>2, <3>3, <1>3, <1>7 DEF ReqRecord
  <2>. QED BY <2>3, <1>5, <1>10 DEF RequestOK
<1>16. ASSUME ~walk'.dropped, NEW r \in due
       PROVE  /\ HasNext /\ Before(Last(Data), r)
              /\ req.mode = "offset" => req.offset + req.limit <= Rank(r, Found)
  <2>1. ~walk.dropped \/ first
    BY <1>9, <1>16
  <2>2. r \in Found /\ r \notin Range(Data) /\ (r \in walk.due \/ first)
    BY <1>13, <1>16
  <2>. QED BY <2>1, <2>2, <1>1, PageDue
<1>17. DueOK'
  <2>. HIDE DEF due
  <2>1. ASSUME req'.mode = "offset", ~walk'.dropped, NEW r \in walk'.due
        PROVE  req'.offset <= Rank(r, Found)'
    <3>1. /\ req.mode = "offset" /\ HasNext /\ req.offset + req.limit <= Rank(r, Found)
      BY <2>1, <1>5, <1>7, <1>9, <1>16
    <3>2. Rank(r, Found)' = Rank(r, Found)
      BY <1>11 DEF Rank, Before
    <3>. QED BY <3>1, <3>2, <1>5
  <2>2. ASSUME req'.at = "idle", ~walk'.dropped, NEW r \in walk'.due
        PROVE  Before(Last(walk'.rows), r)
    BY <2>2, <1>9, <1>10, <1>16
  <2>3. WalkComplete'
    BY <1>5, <1>9, <1>16 DEF WalkComplete
  <2>4. req'.at # "page"
    BY <1>5
  <2>. QED BY <2>1, <2>2, <2>3, <2>4 DEF DueOK
<1>18. BooksOK'
  <2>1. TotalExplainsHasNext'
    <3>1. CASE req.mode = "keyset"
      <4>1. req.total = Unknown
        BY <1>1, <3>1 DEF GatewayInv, BooksOK
      <4>. QED BY <4>1, <1>5 DEF TotalExplainsHasNext
    <3>2. CASE req.mode = "offset"
      <4>1. req.total \in Nat /\ req.total + walk.drift[1] = Cardinality(Found) + walk.drift[2]
        BY <1>1, <3>2 DEF GatewayInv, BooksOK
      <4>2. HasNext <=> Cardinality(Found) > req.offset + req.limit
        BY <1>4, <3>2 DEF Candidates, Skipped
      <4>3. walk.drift[1] \in Nat /\ walk.drift[2] \in Nat
        BY <1>3 DEF WalkRecord
      <4>4. CASE HasNext
        <5>1. req'.offset = req.offset + req.limit
          BY <4>4, <3>2, <1>5
        <5>2. req.total + walk.drift[1] > req'.offset
          BY <5>1, <4>1, <4>2, <4>3, <4>4, <1>6, <1>12
        <5>. QED BY <5>2, <4>4, <1>5, <1>9 DEF TotalExplainsHasNext
      <4>5. CASE ~HasNext
        <5>1. req.total - walk.drift[2] <= req.offset + req.limit
          BY <4>1, <4>2, <4>3, <4>5, <1>6, <1>12
        <5>. QED BY <5>1, <4>5, <1>5, <1>9 DEF TotalExplainsHasNext
      <4>. QED BY <4>4, <4>5
    <3>. QED BY <3>1, <3>2, <1>6
  <2>. QED BY <2>1, <1>5 DEF BooksOK
<1>. QED
  BY <1>11, <1>14, <1>15, <1>17, <1>18 DEF GatewayInv

-----------------------------------------------------------------------------
(* The results.                                                              *)

LEMMA GatewayStep == ASSUME TableInv, GatewayInv, [Next]_vars PROVE GatewayInv'
<1>1. CASE \E n \in Asked : GetTelemetry(n)
  BY <1>1, GetTelemetryStep
<1>2. CASE Count
  BY <1>2, CountStep
<1>3. CASE Page
  BY <1>3, PageStep
<1>4. CASE QueryFails
  BY <1>4, QueryFailsStep
<1>5. CASE Table
  BY <1>5, TableStep
<1>6. CASE UNCHANGED vars
  <2>1. UNCHANGED <<stored, req, walk>>
    BY <1>6 DEF vars, tableVars
  <2>2. Found' = Found /\ \A r : Rank(r, Found)' = Rank(r, Found)
    BY <2>1 DEF Found, Matching, InWindow, Rank, Before
  <2>3. StoredOK' /\ RequestOK' /\ WalkOK' /\ BooksOK'
    BY <2>1, <2>2 DEF GatewayInv, StoredOK, RequestOK, WalkOK, CursorNeverRepeats, BooksOK,
                      TotalExplainsHasNext
  <2>4. DueOK'
    BY <2>1, <2>2 DEF GatewayInv, DueOK, WalkComplete
  <2>. QED BY <2>3, <2>4 DEF GatewayInv
<1>. QED
  BY <1>1, <1>2, <1>3, <1>4, <1>5, <1>6 DEF Next

\* The invariant behind the results below: whatever the table does between and
\* within the requests of a walk, what it owes its client lies ahead of it.
THEOREM GatewayCorrect == Spec => []GatewayInv
<1>1. Init => GatewayInv
  BY GatewayInit
<1>2. TableInv /\ GatewayInv /\ [Next]_vars => GatewayInv'
  BY GatewayStep
<1>. QED
  BY <1>1, <1>2, AlwaysTableInv, PTL DEF Spec

\* The days and rows of the table stay within their bounds.
LEMMA TableTypes ==
    ASSUME TableTypeOK, [TableNext]_tableVars
    PROVE  TableTypeOK'
<1>. USE PartitionsAssumption DEF TableTypeOK
<1>1. ASSUME NEW r \in (0..(today + Skew)) \X Metrics, Insert(r) PROVE TableTypeOK'
  <2>1. 0..(today + Skew) \subseteq 0..(LastDay + Skew)
    OBVIOUS
  <2>2. r \in (0..(LastDay + Skew)) \X Metrics
    BY <2>1
  <2>. QED BY <1>1, <2>2 DEF Insert
<1>2. CASE NextDay
  BY <1>2 DEF NextDay
<1>3. CASE JobDrops
  <2>1. parts' \subseteq parts /\ stored' \subseteq stored
    BY <1>3 DEF JobDrops, DropBefore
  <2>2. /\ today' = today /\ job' = "ensure" /\ ensuredTo' = ensuredTo
        /\ lastDropped' = today
    BY <1>3 DEF JobDrops
  <2>. QED BY <2>1, <2>2
<1>4. CASE JobEnsures
  BY <1>4 DEF JobEnsures, EnsuredDays, Reached
<1>5. CASE JobFails
  BY <1>5 DEF JobFails
<1>6. CASE UNCHANGED tableVars
  BY <1>6 DEF tableVars
<1>. QED
  BY <1>1, <1>2, <1>3, <1>4, <1>5, <1>6 DEF TableNext

\* Types of the table and of a request: a query of GetTelemetry has a limit in
\* range, and the cursor a client goes on with is the last row it was shown.
THEOREM GatewayTypes == Spec => []TypeOK
<1>1. Init => TableTypeOK
  <2>. SUFFICES ASSUME TableInit PROVE TableTypeOK
    BY DEF Init
  <2>. USE PartitionsAssumption
  <2>1. stored \subseteq (0..FirstDay) \X Metrics
    BY DEF TableInit
  <2>2. 0..FirstDay \subseteq 0..(LastDay + Skew)
    OBVIOUS
  <2>3. stored \subseteq (0..(LastDay + Skew)) \X Metrics
    BY <2>1, <2>2
  <2>. QED BY <2>3 DEF TableInit, TableTypeOK, EnsuredDays
<1>2. TableTypeOK /\ [Next]_vars => TableTypeOK'
  BY GatewayLeavesTable, TableTypes
<1>3. TableTypeOK /\ GatewayInv => TypeOK
  BY DEF TypeOK, GatewayInv, RequestOK, ReqRecord
<1>. QED
  BY <1>1, <1>2, <1>3, GatewayCorrect, PTL DEF Spec

\* TelemetryAfter by cursor never shows a row twice and never goes back, for
\* every page size and whatever comes in or is dropped between two pages.
THEOREM CursorWalkDescends == Spec => []CursorNeverRepeats
<1>1. GatewayInv => CursorNeverRepeats
  BY DEF GatewayInv, WalkOK
<1>. QED BY <1>1, GatewayCorrect, PTL

\* A walk that ends has shown every row that was there from its first page on:
\* by cursor always, by offset unless the retention job dropped rows meanwhile.
THEOREM WalkMissesNothing == Spec => []WalkComplete
<1>1. GatewayInv => WalkComplete
  BY DEF GatewayInv, DueOK
<1>. QED BY <1>1, GatewayCorrect, PTL

\* The count and the page of GetTelemetry are two queries; total and has_next
\* contradict each other by no more than what came and went in between.
THEOREM TotalAndHasNextAgree == Spec => []TotalExplainsHasNext
<1>1. GatewayInv => TotalExplainsHasNext
  BY DEF GatewayInv, BooksOK
<1>. QED BY <1>1, GatewayCorrect, PTL
=============================================================================
