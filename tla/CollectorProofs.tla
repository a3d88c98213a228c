--------------------------- MODULE CollectorProofs ---------------------------
(***************************************************************************)
(* The collector's safety, for any number of collectors, streams and       *)
(* readings, any batch size and window, and any number of failures: what   *)
(* is acked is durable, a reading has at most one row, bisection covers    *)
(* its batch and isolates exactly the poison rows, and each message is     *)
(* dead-lettered no more often than failures had it delivered.             *)
(*                                                                         *)
(* What concerns one collector is stated of its record, the issued ids,    *)
(* the durable ids and the streams opened so far.  All three sets only     *)
(* grow, so the other collectors are not disturbed.                        *)
(***************************************************************************)
EXTENDS Collector, StoreProofs, TotalsProofs, SequenceTheorems

CollRecord(D) ==
    [pc : {"idle", "select", "persist", "ack"}, stream : Consumers \cup {"none"},
     recv : {"running", "done"}, msgCh : Seq(D), batch : Seq(D), work : Seq(Seq(D)),
     unacked : Seq(D), last : BOOLEAN]

\* The ids whose message is handled for good.
DurableIds == {i \in Ids : Durable(i)}

\* The slices of the work list are consecutive pieces of the batch, and the ids
\* before the first one are in G.  cut[j] is where slice j ends.
Cuts(q, G, cut) ==
    /\ cut[Len(q.work)] = Len(q.batch)
    /\ \A j \in 1..Len(q.work) :
          /\ cut[j - 1] < cut[j]
          /\ Len(q.work[j]) = cut[j] - cut[j - 1]
          /\ \A m \in 1..Len(q.work[j]) : q.work[j][m] = q.batch[cut[j - 1] + m]
    /\ \A m \in 1..cut[0] : q.batch[m] \in G

\* The first slice of the work list starts after position c of the batch.
CutAt(q, G, c) == \E cut \in [0..Len(q.work) -> 0..Len(q.batch)] : Cuts(q, G, cut) /\ cut[0] = c

\* One collector: its record, D issued ids, G of them durable, O opened streams.
CollOK(q, D, G, O) ==
    /\ q \in CollRecord(D)
    /\ Len(q.msgCh) <= Credit /\ Len(q.batch) <= BatchSize
    /\ q.pc = "idle" => q.recv = "done"
    /\ q.pc # "idle" => q.stream \in Consumers /\ q.stream \in O
    /\ q.pc = "select" => Len(q.batch) < BatchSize
    /\ q.pc = "persist" => q.work # <<>> /\ \E cut \in [0..Len(q.work) -> 0..Len(q.batch)] : Cuts(q, G, cut)
    /\ q.pc = "ack" => q.unacked # <<>> /\ q.unacked \in Seq(G)

CollsOK ==
    /\ coll = [k \in Collectors |-> coll[k]]
    /\ \A k \in Collectors : CollOK(coll[k], Ids, DurableIds, opened)

\* Rows are unique, and the two tables hold what belongs there.
TablesOK ==
    /\ content \in Seq(Readings) /\ Len(content) = issued
    /\ rows \in [Readings -> Nat] /\ dlqRows \in [Readings -> Nat]
    /\ RowOnce /\ PoisonIsolated

\* What is acked, on the server or on the way to it, is durable.
AcksOK ==
    /\ opened \subseteq Consumers /\ ended \subseteq opened
    /\ acks \in [Consumers -> Seq(DurableIds)]
    /\ acked \subseteq DurableIds

\* The inductive invariant of the collectors.
CollectorInv == StoreInv /\ TablesOK /\ AcksOK /\ CollsOK

-----------------------------------------------------------------------------
(* What the steps have in common.                                            *)

\* A sequence stays one when its set of elements grows.
LEMMA SeqGrows ==
    ASSUME NEW D, NEW E, D \subseteq E
    PROVE  Seq(D) \subseteq Seq(E)
  OBVIOUS

\* A sequence whose elements are in H is a sequence over H.
LEMMA SeqInto ==
    ASSUME NEW D, NEW H, NEW q \in Seq(D), \A m \in 1..Len(q) : q[m] \in H
    PROVE  q \in Seq(H)
<1>1. Len(q) \in Nat /\ q \in [1..Len(q) -> H]
  BY LenProperties
<1>. QED
  BY <1>1

\* A sequence with an element is not empty.
LEMMA SeqNonEmpty ==
    ASSUME NEW q, Len(q) > 0
    PROVE  q # <<>>
<1>1. Len(<<>>) = 0
  BY EmptySeq
<1>. QED
  BY <1>1

\* What a collector knows stays true when ids, durable ids and streams are added.
LEMMA CollGrows ==
    ASSUME NEW D, NEW E, NEW G, NEW H, NEW O, NEW P,
           D \subseteq E, G \subseteq H, O \subseteq P,
           NEW q, CollOK(q, D, G, O)
    PROVE  CollOK(q, E, H, P)
<1>1. Seq(D) \subseteq Seq(E) /\ Seq(Seq(D)) \subseteq Seq(Seq(E)) /\ Seq(G) \subseteq Seq(H)
  BY SeqGrows
<1>2. q \in CollRecord(E)
  <2>1. q \in CollRecord(D)
    BY DEF CollOK
  <2>. QED
    BY <1>1, <2>1 DEF CollRecord
<1>3. ASSUME q.pc = "persist"
      PROVE  q.work # <<>> /\ \E cut \in [0..Len(q.work) -> 0..Len(q.batch)] : Cuts(q, H, cut)
  <2>1. q.work # <<>>
    BY <1>3 DEF CollOK
  <2>2. PICK cut \in [0..Len(q.work) -> 0..Len(q.batch)] : Cuts(q, G, cut)
    BY <1>3 DEF CollOK
  <2>3. Cuts(q, H, cut)
    BY <2>2 DEF Cuts
  <2>. QED
    BY <2>1, <2>2, <2>3
<1>. QED
  BY <1>1, <1>2, <1>3 DEF CollOK

\* Durability is for good: ids keep their content and tables never lose a row.
LEMMA DurableGrows ==
    ASSUME issued \in Nat, issued' \in Nat, issued <= issued', content \in [Ids -> Readings],
           \A i \in Ids : content'[i] = content[i],
           \A x \in Readings : rows[x] > 0 => rows'[x] > 0,
           \A x \in Readings : dlqRows[x] > 0 => dlqRows'[x] > 0
    PROVE  Ids \subseteq Ids' /\ DurableIds \subseteq DurableIds'
<1>1. Ids \subseteq Ids'
  BY DEF Ids
<1>2. ASSUME NEW i \in Ids, Durable(i)
      PROVE  Durable(i)'
  <2>1. content[i] \in Readings /\ content'[i] = content[i]
    OBVIOUS
  <2>. QED
    BY <1>2, <2>1 DEF Durable, Parses
<1>. QED
  BY <1>1, <1>2 DEF DurableIds

\* The content as a function on the ids.
LEMMA ContentType ==
    ASSUME TablesOK
    PROVE  content \in [Ids -> Readings] /\ DOMAIN content = Ids
  BY DEF TablesOK, Ids

\* One collector moves, the others stay.
LEMMA OneColl ==
    ASSUME CollsOK, NEW k \in Collectors, NEW r,
           coll' = [coll EXCEPT ![k] = r],
           Ids \subseteq Ids', DurableIds \subseteq DurableIds', opened \subseteq opened',
           CollOK(r, Ids', DurableIds', opened')
    PROVE  CollsOK'
<1>1. coll' = [c \in Collectors |-> IF c = k THEN r ELSE coll[c]]
  BY DEF CollsOK
<1>2. ASSUME NEW c \in Collectors
      PROVE  CollOK(coll[c], Ids', DurableIds', opened')
  BY CollGrows DEF CollsOK
<1>3. ASSUME NEW c \in Collectors
      PROVE  CollOK(coll'[c], Ids', DurableIds', opened')
  BY <1>1, <1>2
<1>4. coll' = [c \in Collectors |-> coll'[c]]
  BY <1>1
<1>. QED
  BY <1>3, <1>4 DEF CollsOK

\* No collector moves.
LEMMA SameColls ==
    ASSUME CollsOK, coll' = coll,
           Ids \subseteq Ids', DurableIds \subseteq DurableIds', opened \subseteq opened'
    PROVE  CollsOK'
<1>1. ASSUME NEW c \in Collectors
      PROVE  CollOK(coll[c], Ids', DurableIds', opened')
  BY CollGrows DEF CollsOK
<1>. QED
  BY <1>1 DEF CollsOK

-----------------------------------------------------------------------------
(* One collector's record, step by step.                                     *)

\* Waiting to reconnect.
LEMMA RecordIdle ==
    ASSUME NEW D, NEW G, NEW O
    PROVE  CollOK(Idle, D, G, O)
<1>1. <<>> \in Seq(D) /\ <<>> \in Seq(Seq(D))
  OBVIOUS
<1>2. Idle \in CollRecord(D)
  BY <1>1 DEF Idle, CollRecord
<1>. QED
  BY <1>2, CollectorAssumption DEF Idle, CollOK

\* A new stream is opened.
LEMMA RecordOpen ==
    ASSUME NEW D, NEW G, NEW O, NEW s \in Consumers, s \in O
    PROVE  CollOK([Idle EXCEPT !.pc = "select", !.stream = s, !.recv = "running"], D, G, O)
<1>. DEFINE r == [Idle EXCEPT !.pc = "select", !.stream = s, !.recv = "running"]
<1>1. <<>> \in Seq(D) /\ <<>> \in Seq(Seq(D))
  OBVIOUS
<1>2. r \in CollRecord(D)
  BY <1>1 DEF Idle, CollRecord
<1>3. r.pc = "select" /\ r.stream = s /\ r.msgCh = <<>> /\ r.batch = <<>>
  BY DEF Idle
<1>. QED
  BY <1>2, <1>3, CollectorAssumption DEF CollOK

\* A message arrives.
LEMMA RecordDeliver ==
    ASSUME NEW D, NEW G, NEW O, NEW q, CollOK(q, D, G, O),
           NEW i \in D, Len(q.msgCh) < Credit
    PROVE  CollOK([q EXCEPT !.msgCh = Append(@, i)], D, G, O)
<1>. DEFINE r == [q EXCEPT !.msgCh = Append(@, i)]
<1>0. q \in CollRecord(D)
  BY DEF CollOK
<1>1. /\ q.msgCh \in Seq(D)
      /\ Append(q.msgCh, i) \in Seq(D)
      /\ Len(Append(q.msgCh, i)) = Len(q.msgCh) + 1 /\ Len(q.msgCh) \in Nat
  BY <1>0 DEF CollRecord
<1>2. r \in CollRecord(D)
  BY <1>0, <1>1 DEF CollRecord
<1>3. /\ r.pc = q.pc /\ r.stream = q.stream /\ r.recv = q.recv /\ r.batch = q.batch
      /\ r.work = q.work /\ r.unacked = q.unacked /\ r.msgCh = Append(q.msgCh, i)
  BY <1>0 DEF CollRecord
<1>. HIDE DEF r
<1>4. Len(r.msgCh) <= Credit
  BY <1>1, <1>3, CollectorAssumption
<1>5. \A cut : Cuts(r, G, cut) <=> Cuts(q, G, cut)
  BY <1>3 DEF Cuts
<1>. QED
  BY <1>2, <1>3, <1>4, <1>5 DEF CollOK, r

\* The stream breaks.
LEMMA RecordRecvEnds ==
    ASSUME NEW D, NEW G, NEW O, NEW q, CollOK(q, D, G, O)
    PROVE  CollOK([q EXCEPT !.recv = "done"], D, G, O)
<1>. DEFINE r == [q EXCEPT !.recv = "done"]
<1>0. q \in CollRecord(D)
  BY DEF CollOK
<1>2. r \in CollRecord(D)
  BY <1>0 DEF CollRecord
<1>3. /\ r.pc = q.pc /\ r.stream = q.stream /\ r.recv = "done" /\ r.batch = q.batch
      /\ r.work = q.work /\ r.unacked = q.unacked /\ r.msgCh = q.msgCh
  BY <1>0 DEF CollRecord
<1>. HIDE DEF r
<1>5. \A cut : Cuts(r, G, cut) <=> Cuts(q, G, cut)
  BY <1>3 DEF Cuts
<1>. QED
  BY <1>2, <1>3, <1>5 DEF CollOK, r

\* persistResilient starts with the whole batch as its only slice.
LEMMA StartsAtZero ==
    ASSUME NEW D, NEW G, NEW q, q.batch \in Seq(D), q.work = <<q.batch>>, q.batch # <<>>
    PROVE  CutAt(q, G, 0)
<1>. DEFINE n == Len(q.batch)
            cut == [j \in 0..1 |-> IF j = 0 THEN 0 ELSE n]
<1>1. q.batch \in Seq(D) /\ n \in Nat \ {0}
  OBVIOUS
<1>2. Len(q.work) = 1 /\ q.work[1] = q.batch
  OBVIOUS
<1>. HIDE DEF n
<1>3. cut \in [0..Len(q.work) -> 0..n] /\ cut[0] = 0 /\ cut[1] = n
  BY <1>1, <1>2
<1>. HIDE DEF cut
<1>4. Cuts(q, G, cut)
  <2>1. \A j \in 1..Len(q.work) : j = 1
    BY <1>2
  <2>2. \A m \in 1..cut[0] : FALSE
    BY <1>3
  <2>3. /\ cut[1 - 1] < cut[1]
        /\ Len(q.work[1]) = cut[1] - cut[1 - 1]
        /\ \A m \in 1..Len(q.work[1]) : q.work[1][m] = q.batch[cut[1 - 1] + m]
    BY <1>1, <1>2, <1>3 DEF n
  <2>. QED
    BY <1>2, <1>3, <2>1, <2>2, <2>3 DEF Cuts, n
<1>. QED
  BY <1>3, <1>4 DEF CutAt, n

LEMMA RecordStarts ==
    ASSUME NEW D, NEW G, NEW O, NEW q \in CollRecord(D),
           q.pc = "persist", q.work = <<q.batch>>, q.batch # <<>>,
           q.stream \in Consumers, q.stream \in O,
           Len(q.msgCh) <= Credit, Len(q.batch) <= BatchSize
    PROVE  CollOK(q, D, G, O)
<1>1. q.batch \in Seq(D) /\ q.work # <<>>
  BY DEF CollRecord
<1>2. CutAt(q, G, 0)
  BY <1>1, StartsAtZero
<1>. QED
  BY <1>1, <1>2 DEF CollOK, CutAt

\* The next message of msgCh joins the batch, which is flushed when it is full.
LEMMA RecordTakeMsg ==
    ASSUME NEW D, NEW G, NEW O, NEW q, CollOK(q, D, G, O), q.pc = "select", q.msgCh # <<>>
    PROVE  LET batch == Append(q.batch, Head(q.msgCh))
               taken == [q EXCEPT !.msgCh = Tail(@), !.batch = batch]
           IN  /\ Len(batch) < BatchSize => CollOK(taken, D, G, O)
               /\ ~(Len(batch) < BatchSize) =>
                     CollOK([taken EXCEPT !.pc = "persist", !.work = <<batch>>], D, G, O)
<1>. DEFINE batch == Append(q.batch, Head(q.msgCh))
            taken == [q EXCEPT !.msgCh = Tail(@), !.batch = batch]
            full == [taken EXCEPT !.pc = "persist", !.work = <<batch>>]
<1>0. q \in CollRecord(D)
  BY DEF CollOK
<1>1. /\ q.msgCh \in Seq(D) /\ q.batch \in Seq(D) /\ Head(q.msgCh) \in D
      /\ Tail(q.msgCh) \in Seq(D) /\ Len(Tail(q.msgCh)) = Len(q.msgCh) - 1
      /\ Len(q.msgCh) \in Nat /\ Len(q.batch) \in Nat
  BY <1>0 DEF CollRecord
<1>2. batch \in Seq(D) /\ Len(batch) = Len(q.batch) + 1 /\ batch # <<>>
  <2>1. batch \in Seq(D) /\ Len(batch) = Len(q.batch) + 1
    BY <1>1
  <2>. HIDE DEF batch
  <2>. QED
    BY <1>1, <2>1
<1>3. /\ Len(q.msgCh) <= Credit /\ Len(q.batch) < BatchSize
      /\ q.stream \in Consumers /\ q.stream \in O
  BY DEF CollOK
<1>4. <<batch>> \in Seq(Seq(D))
  BY <1>2
<1>. HIDE DEF batch
<1>5. taken \in CollRecord(D) /\ full \in CollRecord(D)
  BY <1>0, <1>1, <1>2, <1>4 DEF CollRecord
<1>6. /\ taken.pc = q.pc /\ taken.stream = q.stream
      /\ taken.msgCh = Tail(q.msgCh) /\ taken.batch = batch
      /\ full.pc = "persist" /\ full.stream = q.stream /\ full.work = <<batch>>
      /\ full.msgCh = Tail(q.msgCh) /\ full.batch = batch
  BY <1>0 DEF CollRecord
<1>. HIDE DEF taken, full
<1>7. Len(Tail(q.msgCh)) <= Credit /\ Len(batch) <= BatchSize
  BY <1>1, <1>2, <1>3, CollectorAssumption
<1>8. ASSUME Len(batch) < BatchSize
      PROVE  CollOK(taken, D, G, O)
  BY <1>3, <1>5, <1>6, <1>7, <1>8 DEF CollOK
<1>9. CollOK(full, D, G, O)
  BY <1>2, <1>3, <1>5, <1>6, <1>7, RecordStarts
<1>. QED
  BY <1>8, <1>9 DEF batch, taken, full

\* A non-empty batch is flushed.
LEMMA RecordFlush ==
    ASSUME NEW D, NEW G, NEW O, NEW q, CollOK(q, D, G, O), q.pc = "select", q.batch # <<>>,
           NEW last \in BOOLEAN
    PROVE  CollOK([q EXCEPT !.batch = q.batch, !.last = last, !.pc = "persist",
                            !.work = <<q.batch>>], D, G, O)
<1>. DEFINE r == [q EXCEPT !.batch = q.batch, !.last = last, !.pc = "persist",
                           !.work = <<q.batch>>]
<1>0. q \in CollRecord(D)
  BY DEF CollOK
<1>1. q.batch \in Seq(D) /\ <<q.batch>> \in Seq(Seq(D))
  BY <1>0 DEF CollRecord
<1>2. r \in CollRecord(D)
  BY <1>0, <1>1 DEF CollRecord
<1>3. /\ r.pc = "persist" /\ r.stream = q.stream /\ r.batch = q.batch
      /\ r.work = <<q.batch>> /\ r.msgCh = q.msgCh
  BY <1>0 DEF CollRecord
<1>4. /\ Len(q.msgCh) <= Credit /\ Len(q.batch) <= BatchSize
      /\ q.stream \in Consumers /\ q.stream \in O
  BY DEF CollOK
<1>. HIDE DEF r
<1>5. CollOK(r, D, G, O)
  BY <1>2, <1>3, <1>4, RecordStarts
<1>. QED
  BY <1>5 DEF r

\* The first slice is done, its ids are durable: the next slice is on, or the
\* whole batch is durable and can be acked.
LEMMA RecordSliceDone ==
    ASSUME NEW D, NEW G, NEW H, NEW O, NEW q, CollOK(q, D, G, O), q.pc = "persist",
           G \subseteq H, \A m \in 1..Len(Head(q.work)) : Head(q.work)[m] \in H,
           NEW c, CutAt(q, G, c)
    PROVE  LET r == [q EXCEPT !.work = Tail(@),
                              !.pc = IF Len(q.work) = 1 THEN "ack" ELSE "persist",
                              !.unacked = IF Len(q.work) = 1 THEN q.batch ELSE <<>>]
           IN  /\ CollOK(r, D, H, O)
               /\ Len(q.work) # 1 => CutAt(r, H, c + Len(Head(q.work)))
<1>. DEFINE n == Len(q.work)
            r == [q EXCEPT !.work = Tail(@),
                           !.pc = IF n = 1 THEN "ack" ELSE "persist",
                           !.unacked = IF n = 1 THEN q.batch ELSE <<>>]
<1>0. q \in CollRecord(D)
  BY DEF CollOK
<1>1. /\ q.work \in Seq(Seq(D)) /\ q.batch \in Seq(D) /\ q.work # <<>>
      /\ <<>> \in Seq(D)
  BY <1>0 DEF CollRecord, CollOK
<1>2. PICK cut \in [0..n -> 0..Len(q.batch)] : Cuts(q, G, cut) /\ cut[0] = c
  BY DEF CutAt
<1>3. /\ n \in Nat \ {0} /\ Tail(q.work) \in Seq(Seq(D)) /\ Len(Tail(q.work)) = n - 1
      /\ \A j \in 1..(n - 1) : Tail(q.work)[j] = q.work[j + 1]
      /\ Head(q.work) = q.work[1]
  BY <1>1
<1>. HIDE DEF n
<1>4. r \in CollRecord(D)
  BY <1>0, <1>1, <1>3 DEF CollRecord
<1>5. /\ r.pc = (IF n = 1 THEN "ack" ELSE "persist")
      /\ r.unacked = (IF n = 1 THEN q.batch ELSE <<>>)
      /\ r.work = Tail(q.work)
      /\ r.stream = q.stream /\ r.batch = q.batch /\ r.msgCh = q.msgCh
  BY <1>0 DEF CollRecord
<1>. HIDE DEF r
<1>6. cut[0] \in Nat /\ cut[1] \in Nat /\ cut[0] < cut[1] /\ Len(q.work[1]) = cut[1] - cut[0]
  <2>1. 0 \in 0..n /\ 1 \in 0..n /\ 1 \in 1..n /\ 1 - 1 = 0
    BY <1>3
  <2>2. cut[1 - 1] < cut[1] /\ Len(q.work[1]) = cut[1] - cut[1 - 1]
    BY <1>2, <2>1 DEF Cuts, n
  <2>. QED
    BY <1>2, <2>1, <2>2
<1>7. \A m \in 1..cut[1] : q.batch[m] \in H
  <2>1. \A m \in 1..cut[0] : q.batch[m] \in H
    BY <1>2 DEF Cuts
  <2>2. \A m \in 1..Len(q.work[1]) : q.work[1][m] = q.batch[cut[0] + m]
    BY <1>2, <1>3 DEF Cuts, n
  <2>4. \A m \in 1..Len(q.work[1]) : q.work[1][m] \in H
    BY <1>3
  <2>3. ASSUME NEW m \in 1..cut[1], m > cut[0]
        PROVE  q.batch[m] \in H
    <3>1. m - cut[0] \in 1..Len(q.work[1]) /\ cut[0] + (m - cut[0]) = m
      BY <1>6, <2>3
    <3>2. q.work[1][m - cut[0]] = q.batch[m]
      BY <2>2, <3>1
    <3>. QED
      BY <2>4, <3>1, <3>2
  <2>. QED
    BY <1>6, <2>1, <2>3
<1>8. CASE n = 1
  <2>1. cut[1] = Len(q.batch)
    BY <1>2, <1>8 DEF Cuts, n
  <2>2. q.batch \in Seq(H) /\ q.batch # <<>>
    <3>1. \A m \in 1..Len(q.batch) : q.batch[m] \in H
      BY <1>7, <2>1
    <3>2. Len(q.batch) > 0
      BY <1>6, <2>1
    <3>. QED
      BY <1>1, <3>1, <3>2, SeqInto, SeqNonEmpty
  <2>. QED
    BY <1>4, <1>5, <1>8, <2>2 DEF CollOK, r, n
<1>9. CASE n # 1
  <2>. DEFINE rest == [j \in 0..(n - 1) |-> cut[j + 1]]
  <2>1. rest \in [0..(n - 1) -> 0..Len(q.batch)] /\ Tail(q.work) # <<>>
    <3>1. \A j \in 0..(n - 1) : j + 1 \in 0..n
      BY <1>3
    <3>2. Len(Tail(q.work)) > 0
      BY <1>3, <1>9
    <3>3. rest \in [0..(n - 1) -> 0..Len(q.batch)]
      BY <1>2, <3>1
    <3>. QED
      BY <3>2, <3>3, SeqNonEmpty
  <2>2. Cuts(r, H, rest)
    <3>1. rest[n - 1] = Len(q.batch)
      BY <1>2, <1>3 DEF Cuts, n
    <3>2. \A m \in 1..rest[0] : q.batch[m] \in H
      BY <1>3, <1>7
    <3>3. ASSUME NEW j \in 1..(n - 1)
          PROVE  /\ rest[j - 1] < rest[j]
                 /\ Len(Tail(q.work)[j]) = rest[j] - rest[j - 1]
                 /\ \A m \in 1..Len(Tail(q.work)[j]) : Tail(q.work)[j][m] = q.batch[rest[j - 1] + m]
      <4>1. j + 1 \in 1..n /\ (j + 1) - 1 = j
        BY <1>3
      <4>2. rest[j] = cut[j + 1] /\ rest[j - 1] = cut[j] /\ Tail(q.work)[j] = q.work[j + 1]
        BY <1>3
      <4>3. /\ cut[j] < cut[j + 1] /\ Len(q.work[j + 1]) = cut[j + 1] - cut[j]
            /\ \A m \in 1..Len(q.work[j + 1]) : q.work[j + 1][m] = q.batch[cut[j] + m]
        BY <1>2, <4>1 DEF Cuts, n
      <4>. QED
        BY <4>2, <4>3
    <3>. HIDE DEF rest
    <3>4. r.work = Tail(q.work) /\ Len(r.work) = n - 1 /\ r.batch = q.batch
      BY <1>3, <1>5
    <3>. QED
      BY <3>1, <3>2, <3>3, <3>4 DEF Cuts
  <2>. QED
    <3>1. CollOK(r, D, H, O)
      BY <1>3, <1>4, <1>5, <1>9, <2>1, <2>2 DEF CollOK
    <3>2. rest[0] = c + Len(Head(q.work)) /\ Len(r.work) = n - 1 /\ r.batch = q.batch
      <4>1. rest[0] = cut[1] /\ cut[1] = cut[0] + Len(q.work[1])
        BY <1>3, <1>6
      <4>. QED
        BY <1>2, <1>3, <1>5, <4>1
    <3>. HIDE DEF rest
    <3>3. CutAt(r, H, c + Len(Head(q.work)))
      BY <2>1, <2>2, <3>2 DEF CutAt
    <3>. QED
      BY <3>1, <3>3 DEF r, n
<1>. QED
  BY <1>8, <1>9

\* A slice of more than one message is replaced by its two halves.
LEMMA RecordBisect ==
    ASSUME NEW D, NEW G, NEW O, NEW q, CollOK(q, D, G, O), q.pc = "persist",
           Len(Head(q.work)) > 1, NEW c, CutAt(q, G, c)
    PROVE  LET h == Head(q.work)
               mid == Len(h) \div 2
               r == [q EXCEPT !.work =
                        <<SubSeq(h, 1, mid), SubSeq(h, mid + 1, Len(h))>> \o Tail(@)]
           IN  CollOK(r, D, G, O) /\ CutAt(r, G, c)
<1>. DEFINE n == Len(q.work)
            h == Head(q.work)
            len == Len(h)
            mid == len \div 2
            left == SubSeq(h, 1, mid)
            right == SubSeq(h, mid + 1, len)
            work == <<left, right>> \o Tail(q.work)
            r == [q EXCEPT !.work = <<left, right>> \o Tail(@)]
<1>0. q \in CollRecord(D)
  BY DEF CollOK
<1>1. q.work \in Seq(Seq(D)) /\ q.batch \in Seq(D) /\ q.work # <<>>
  BY <1>0 DEF CollRecord, CollOK
<1>2. PICK cut \in [0..n -> 0..Len(q.batch)] : Cuts(q, G, cut) /\ cut[0] = c
  BY DEF CutAt
<1>3. /\ n \in Nat \ {0} /\ Tail(q.work) \in Seq(Seq(D)) /\ Len(Tail(q.work)) = n - 1
      /\ \A j \in 1..(n - 1) : Tail(q.work)[j] = q.work[j + 1]
      /\ h = q.work[1] /\ h \in Seq(D)
  BY <1>1
<1>4. len \in Nat /\ mid \in Nat /\ 0 < mid /\ mid < len
  <2>1. len \in Nat /\ len > 1
    BY <1>3, LenProperties
  <2>. HIDE DEF len
  <2>. QED
    BY <2>1
<1>. HIDE DEF mid
<1>5. /\ left \in Seq(D) /\ Len(left) = mid
      /\ \A m \in 1..mid : left[m] = h[m]
  <2>1. \A m \in 1..mid : h[m] \in D
    BY <1>3, <1>4, ElementOfSeq
  <2>2. /\ left \in Seq(D) /\ Len(left) = (IF 1 <= mid THEN mid - 1 + 1 ELSE 0)
        /\ \A m \in 1..(mid - 1 + 1) : left[m] = h[1 + m - 1]
    BY <1>4, <2>1, SubSeqProperties
  <2>3. mid - 1 + 1 = mid /\ 1 <= mid /\ \A m \in 1..mid : 1 + m - 1 = m
    BY <1>4
  <2>. QED
    BY <2>2, <2>3
<1>6. /\ right \in Seq(D) /\ Len(right) = len - mid
      /\ \A m \in 1..(len - mid) : right[m] = h[mid + m]
  <2>1. \A m \in (mid + 1)..len : h[m] \in D
    BY <1>3, <1>4, ElementOfSeq
  <2>2. /\ right \in Seq(D) /\ Len(right) = (IF mid + 1 <= len THEN len - (mid + 1) + 1 ELSE 0)
        /\ \A m \in 1..(len - (mid + 1) + 1) : right[m] = h[(mid + 1) + m - 1]
    <3>1. mid + 1 \in Int /\ len \in Int
      BY <1>4
    <3>. QED
      BY <2>1, <3>1, SubSeqProperties
  <2>3. /\ len - (mid + 1) + 1 = len - mid /\ mid + 1 <= len
        /\ \A m \in 1..(len - mid) : (mid + 1) + m - 1 = mid + m
    BY <1>4
  <2>. QED
    BY <2>2, <2>3
<1>. HIDE DEF left, right
<1>7. /\ work \in Seq(Seq(D)) /\ Len(work) = n + 1
      /\ work[1] = left /\ work[2] = right
      /\ \A j \in 3..(n + 1) : work[j] = q.work[j - 1]
  <2>. DEFINE two == <<left, right>>
  <2>1. two \in Seq(Seq(D)) /\ Len(two) = 2 /\ two[1] = left /\ two[2] = right
    BY <1>5, <1>6
  <2>. HIDE DEF two
  <2>2. /\ two \o Tail(q.work) \in Seq(Seq(D))
        /\ Len(two \o Tail(q.work)) = Len(two) + Len(Tail(q.work))
        /\ \A j \in 1..(Len(two) + Len(Tail(q.work))) : (two \o Tail(q.work))[j] =
              IF j <= Len(two) THEN two[j] ELSE Tail(q.work)[j - Len(two)]
    BY <1>3, <2>1, ConcatProperties
  <2>3. work = two \o Tail(q.work)
    BY DEF two
  <2>. HIDE DEF work
  <2>4. 2 + (n - 1) = n + 1 /\ 1 \in 1..(n + 1) /\ 2 \in 1..(n + 1)
    BY <1>3
  <2>5. /\ work \in Seq(Seq(D)) /\ Len(work) = n + 1
        /\ \A j \in 1..(n + 1) : work[j] = IF j <= 2 THEN two[j] ELSE Tail(q.work)[j - 2]
    BY <1>3, <2>1, <2>2, <2>3, <2>4
  <2>6. ASSUME NEW j \in 3..(n + 1)
        PROVE  work[j] = q.work[j - 1]
    <3>1. j \in 1..(n + 1) /\ ~(j <= 2) /\ j - 2 \in 1..(n - 1) /\ (j - 2) + 1 = j - 1
      BY <1>3
    <3>2. work[j] = Tail(q.work)[j - 2]
      BY <2>5, <3>1
    <3>3. Tail(q.work)[j - 2] = q.work[(j - 2) + 1]
      BY <1>3, <3>1
    <3>. QED
      BY <3>1, <3>2, <3>3
  <2>. QED
    BY <2>1, <2>4, <2>5, <2>6
<1>8. r.work = work /\ r = [q EXCEPT !.work = work]
  BY <1>0 DEF CollRecord
<1>. HIDE DEF work
<1>9. r \in CollRecord(D)
  BY <1>0, <1>7, <1>8 DEF CollRecord
<1>10. /\ r.pc = q.pc /\ r.stream = q.stream /\ r.batch = q.batch /\ r.msgCh = q.msgCh
       /\ r.recv = q.recv
  BY <1>0 DEF CollRecord
<1>. HIDE DEF r, n, h
<1>. DEFINE c0 == cut[0]
            new == [j \in 0..(n + 1) |-> IF j = 0 THEN c0 ELSE IF j = 1 THEN c0 + mid ELSE cut[j - 1]]
<1>11. /\ c0 \in Nat /\ cut[1] \in 0..Len(q.batch) /\ len = cut[1] - c0
       /\ \A m \in 1..len : h[m] = q.batch[c0 + m]
       /\ \A m \in 1..c0 : q.batch[m] \in G
       /\ cut[n] = Len(q.batch)
  <2>1. 0 \in 0..n /\ 1 \in 0..n /\ 1 \in 1..n /\ 1 - 1 = 0
    BY <1>3
  <2>2. /\ Len(q.work[1]) = cut[1] - cut[1 - 1]
        /\ \A m \in 1..Len(q.work[1]) : q.work[1][m] = q.batch[cut[1 - 1] + m]
    BY <1>2, <2>1 DEF Cuts, n
  <2>3. cut[n] = Len(q.batch) /\ \A m \in 1..cut[0] : q.batch[m] \in G
    BY <1>2 DEF Cuts, n
  <2>. QED
    BY <1>2, <1>3, <2>1, <2>2, <2>3
<1>12. Len(q.batch) \in Nat
  BY <1>1, LenProperties
<1>13. new \in [0..(n + 1) -> 0..Len(q.batch)]
  <2>1. c0 \in 0..Len(q.batch)
    BY <1>4, <1>11, <1>12
  <2>2. c0 + mid \in 0..Len(q.batch)
    BY <1>4, <1>11, <1>12
  <2>3. \A j \in 0..(n + 1) : j # 0 /\ j # 1 => j - 1 \in 0..n
    BY <1>3
  <2>4. \A j \in 0..(n + 1) : j # 0 /\ j # 1 => cut[j - 1] \in 0..Len(q.batch)
    BY <1>2, <2>3
  <2>. QED
    BY <2>1, <2>2, <2>4
<1>14. /\ new[0] = c0 /\ new[1] = c0 + mid
       /\ \A j \in 2..(n + 1) : new[j] = cut[j - 1]
  BY <1>3
<1>. HIDE DEF new, c0, len
<1>15. Cuts(r, G, new)
  <2>1. new[n + 1] = Len(q.batch)
    BY <1>3, <1>11, <1>14
  <2>2. \A m \in 1..new[0] : q.batch[m] \in G
    BY <1>11, <1>14
  <2>3. /\ new[1 - 1] < new[1] /\ Len(work[1]) = new[1] - new[1 - 1]
        /\ \A m \in 1..Len(work[1]) : work[1][m] = q.batch[new[1 - 1] + m]
    <3>1. \A m \in 1..mid : m \in 1..len
      BY <1>4
    <3>2. \A m \in 1..mid : left[m] = q.batch[c0 + m]
      BY <1>5, <1>11, <3>1
    <3>3. c0 < c0 + mid /\ mid = (c0 + mid) - c0 /\ 1 - 1 = 0
      BY <1>4, <1>11
    <3>. QED
      BY <1>5, <1>7, <1>14, <3>2, <3>3
  <2>4. /\ new[2 - 1] < new[2] /\ Len(work[2]) = new[2] - new[2 - 1]
        /\ \A m \in 1..Len(work[2]) : work[2][m] = q.batch[new[2 - 1] + m]
    <3>1. ASSUME NEW m \in 1..(len - mid)
          PROVE  right[m] = q.batch[(c0 + mid) + m]
      <4>1. mid + m \in 1..len /\ c0 + (mid + m) = (c0 + mid) + m
        BY <1>4, <1>11
      <4>. QED
        BY <1>6, <1>11, <4>1
    <3>2. new[2] = cut[1]
      BY <1>3, <1>14
    <3>3. new[2] \in Nat /\ new[2] - (c0 + mid) = len - mid /\ (c0 + mid) < new[2]
      BY <1>4, <1>11, <1>12, <3>2
    <3>. QED
      BY <1>6, <1>7, <1>14, <3>1, <3>3
  <2>5. ASSUME NEW j \in 3..(n + 1)
        PROVE  /\ new[j - 1] < new[j] /\ Len(work[j]) = new[j] - new[j - 1]
               /\ \A m \in 1..Len(work[j]) : work[j][m] = q.batch[new[j - 1] + m]
    <3>1. j - 1 \in 1..n /\ j - 1 \in 2..(n + 1) /\ j \in 2..(n + 1)
      <4>1. n \in Nat
        BY <1>3
      <4>. QED
        BY <4>1
    <3>2. new[j] = cut[j - 1] /\ new[j - 1] = cut[(j - 1) - 1] /\ work[j] = q.work[j - 1]
      BY <1>7, <1>14, <3>1
    <3>3. /\ cut[(j - 1) - 1] < cut[j - 1]
          /\ Len(q.work[j - 1]) = cut[j - 1] - cut[(j - 1) - 1]
          /\ \A m \in 1..Len(q.work[j - 1]) : q.work[j - 1][m] = q.batch[cut[(j - 1) - 1] + m]
      BY <1>2, <3>1 DEF Cuts, n
    <3>. QED
      BY <3>2, <3>3
  <2>6. \A j \in 1..(n + 1) : j = 1 \/ j = 2 \/ j \in 3..(n + 1)
    BY <1>3
  <2>7. r.work = work /\ Len(r.work) = n + 1 /\ r.batch = q.batch
    BY <1>7, <1>8, <1>10
  <2>. QED
    BY <2>1, <2>2, <2>3, <2>4, <2>5, <2>6, <2>7 DEF Cuts
<1>16. r.work # <<>>
  BY <1>3, <1>7, <1>8, SeqNonEmpty
<1>17. CollOK(r, D, G, O) /\ CutAt(r, G, c)
  <2>1. new \in [0..Len(r.work) -> 0..Len(r.batch)]
    BY <1>7, <1>8, <1>10, <1>13
  <2>. QED
    BY <1>2, <1>9, <1>10, <1>14, <1>15, <1>16, <2>1 DEF CollOK, CutAt, c0
<1>. QED
  BY <1>17 DEF r, left, right, mid, len, h

\* An ack is sent: the next one, or the batch is done.
LEMMA RecordSendAck ==
    ASSUME NEW D, NEW G, NEW O, NEW q, CollOK(q, D, G, O), q.pc = "ack"
    PROVE  LET done == Len(q.unacked) = 1
           IN  CollOK([q EXCEPT !.unacked = Tail(@), !.pc = IF done THEN "select" ELSE "ack",
                                !.batch = IF done THEN <<>> ELSE @], D, G, O)
<1>. DEFINE done == Len(q.unacked) = 1
            r == [q EXCEPT !.unacked = Tail(@), !.pc = IF done THEN "select" ELSE "ack",
                           !.batch = IF done THEN <<>> ELSE @]
<1>0. q \in CollRecord(D)
  BY DEF CollOK
<1>1. /\ q.unacked \in Seq(D) /\ q.unacked \in Seq(G) /\ q.unacked # <<>>
      /\ q.batch \in Seq(D) /\ <<>> \in Seq(D)
  BY <1>0 DEF CollRecord, CollOK
<1>2. /\ Tail(q.unacked) \in Seq(D) /\ Tail(q.unacked) \in Seq(G)
      /\ Len(Tail(q.unacked)) = Len(q.unacked) - 1 /\ Len(q.unacked) \in Nat \ {0}
  BY <1>1
<1>. HIDE DEF done
<1>3. r \in CollRecord(D)
  BY <1>0, <1>1, <1>2 DEF CollRecord
<1>4. /\ r.pc = (IF done THEN "select" ELSE "ack") /\ r.unacked = Tail(q.unacked)
      /\ r.batch = (IF done THEN <<>> ELSE q.batch)
      /\ r.stream = q.stream /\ r.msgCh = q.msgCh
  BY <1>0 DEF CollRecord
<1>. HIDE DEF r
<1>5. Len(r.batch) <= BatchSize /\ (done => Len(r.batch) < BatchSize)
  BY <1>4, CollectorAssumption DEF CollOK
<1>6. ~done => r.unacked # <<>>
  <2>1. ASSUME ~done
        PROVE  Len(Tail(q.unacked)) > 0
    <3>1. Len(q.unacked) # 1
      BY <2>1 DEF done
    <3>2. \A n \in Nat \ {0} : n # 1 => n - 1 > 0
      OBVIOUS
    <3>3. Len(q.unacked) - 1 > 0
      BY <1>2, <3>1, <3>2
    <3>. QED
      BY <1>2, <3>3
  <2>. QED
    BY <1>4, <2>1, SeqNonEmpty
<1>7. CollOK(r, D, G, O)
  BY <1>2, <1>3, <1>4, <1>5, <1>6 DEF CollOK
<1>. QED
  BY <1>7 DEF r, done

-----------------------------------------------------------------------------
(* The steps of the system.                                                  *)

\* What the invariant says of one collector.
LEMMA CollFacts ==
    ASSUME CollectorInv, NEW k \in Collectors
    PROVE  /\ CollOK(coll[k], Ids, DurableIds, opened)
           /\ coll[k] \in CollRecord(Ids)
           /\ coll[k].recv = "running" => coll[k].stream \in Consumers
           /\ coll[k].pc # "idle" => coll[k].stream \in Consumers /\ coll[k].stream \in opened
  BY DEF CollectorInv, CollsOK, CollOK

\* Whatever collectors and server do, the store sees its own operations.
LEMMA StoreStep == CollectorInv /\ Next => [StoreNext]_storeVars
<1>. SUFFICES ASSUME CollectorInv, Next PROVE [StoreNext]_storeVars
  OBVIOUS
<1>1. Leased \subseteq 1..issued /\ queued \cup retrying \subseteq 1..issued
  BY DEF CollectorInv, StoreInv, StoreTypeOK
<1>2. ASSUME NEW x \in Readings, Offer(x) PROVE StoreNext
  BY <1>2 DEF Offer, StoreNext
<1>3. ASSUME NEW k \in Collectors, NEW i \in queued \cup retrying, Deliver(k, i) PROVE StoreNext
  <2>1. coll[k].stream \in Consumers
    BY <1>3, CollFacts DEF Deliver
  <2>. QED
    BY <1>1, <1>3, <2>1 DEF Deliver, StoreNext
<1>4. ASSUME NEW s \in Consumers, AckArrives(s) PROVE [StoreNext]_storeVars
  <2>1. CASE Head(acks[s]) \in Owned(s)
    <3>1. Head(acks[s]) \in 1..issued /\ StoreAck(s, Head(acks[s]))
      BY <1>1, <1>4, <2>1 DEF AckArrives, Owned
    <3>. QED
      BY <3>1 DEF StoreNext
  <2>2. CASE Head(acks[s]) \notin Owned(s)
    BY <1>4, <2>2 DEF AckArrives
  <2>. QED
    BY <2>1, <2>2
<1>5. ASSUME NEW s \in Consumers, NEW i \in Leased, ServerReleases(s, i) PROVE StoreNext
  BY <1>1, <1>5 DEF ServerReleases, StoreNext
<1>6. ASSUME NEW i \in Leased, LeaseExpires(i) PROVE StoreNext
  BY <1>1, <1>6 DEF LeaseExpires, StoreNext
<1>7. ASSUME NEW s \in Consumers, AcksLost(s) PROVE UNCHANGED storeVars
  BY <1>7 DEF AcksLost
<1>8. ASSUME NEW k \in Collectors, NEW s \in Consumers, OpenStream(k, s) PROVE UNCHANGED storeVars
  BY <1>8 DEF OpenStream
<1>9. ASSUME NEW k \in Collectors,
             \/ SelectStep(k) \/ FlushStep(k)
             \/ RecvEnds(k) \/ Crash(k) \/ PersistFails(k) \/ SendAckFails(k)
      PROVE  UNCHANGED storeVars
  BY <1>9 DEF SelectStep, TakeMsg, Ticker, StreamOver, FlushStep, PersistOk, Bisect,
              DeadLetterRow, SendAck, RecvEnds, Crash, PersistFails, SendAckFails
<1>. QED
  BY <1>2, <1>3, <1>4, <1>5, <1>6, <1>7, <1>8, <1>9 DEF Next

\* The slice under way holds issued ids, and only what its messages carry is
\* queued in the transaction.
LEMMA SliceFacts ==
    ASSUME CollectorInv, NEW k \in Collectors, coll[k].pc = "persist"
    PROVE  /\ Slice(k) \in Seq(Ids) /\ Len(Slice(k)) \in Nat
           /\ \A m \in 1..Len(Slice(k)) : Slice(k)[m] \in Ids /\ content[Slice(k)[m]] \in Readings
           /\ \A m \in 1..Len(Slice(k)) :
                 Parses(content[Slice(k)[m]]) => content[Slice(k)[m]] \in Queued(k)
           /\ \A x \in Queued(k) : \E m \in 1..Len(Slice(k)) : x = content[Slice(k)[m]]
           /\ Queued(k) \subseteq Readings
<1>1. coll[k].work \in Seq(Seq(Ids)) /\ coll[k].work # <<>>
  BY CollFacts DEF CollRecord, CollOK
<1>2. Slice(k) \in Seq(Ids)
  BY <1>1 DEF Slice
<1>3. /\ Len(Slice(k)) \in Nat /\ DOMAIN Slice(k) = 1..Len(Slice(k))
      /\ \A m \in 1..Len(Slice(k)) : Slice(k)[m] \in Ids
  BY <1>2, LenProperties, ElementOfSeq
<1>4. content \in [Ids -> Readings]
  BY ContentType DEF CollectorInv
<1>5. ToSet(Slice(k)) = {Slice(k)[m] : m \in 1..Len(Slice(k))}
  BY <1>3 DEF ToSet
<1>6. Queued(k) = {x \in {content[i] : i \in {Slice(k)[m] : m \in 1..Len(Slice(k))}} : Parses(x)}
  BY <1>5 DEF Queued
<1>. QED
  BY <1>2, <1>3, <1>4, <1>6

\* The transaction of a slice commits, ON CONFLICT DO NOTHING.
Commits(k) ==
    /\ coll[k].pc = "persist" /\ ~PoisonErr(k)
    /\ rows' = Upsert(Queued(k))
    /\ UNCHANGED <<issued, content, dlqRows>>

\* A poison row, alone in its slice, is dead-lettered.
Isolates(k) ==
    /\ coll[k].pc = "persist" /\ PoisonErr(k) /\ Len(Slice(k)) = 1
    /\ dlqRows' = [dlqRows EXCEPT ![content[Slice(k)[1]]] = @ + 1]
    /\ UNCHANGED <<issued, content, rows>>

\* What a step can do to the content of the queue and to the two tables.
LEMMA DataStep ==
    ASSUME CollectorInv, Next
    PROVE  \/ \E x \in Readings :
                 issued' = issued + 1 /\ content' = Append(content, x) /\ UNCHANGED <<rows, dlqRows>>
           \/ \E k \in Collectors : Commits(k) \/ Isolates(k)
           \/ UNCHANGED <<issued, content, rows, dlqRows>>
<1>. DEFINE Same == UNCHANGED <<issued, content, rows, dlqRows>>
<1>1. ASSUME NEW x \in Readings, Offer(x)
      PROVE  issued' = issued + 1 /\ content' = Append(content, x) /\ UNCHANGED <<rows, dlqRows>>
  BY <1>1 DEF Offer, Admit, database
<1>2. ASSUME NEW k \in Collectors, NEW i \in queued \cup retrying, Deliver(k, i) PROVE Same
  BY <1>2 DEF Deliver, StoreLease, database
<1>3. ASSUME NEW s \in Consumers, AckArrives(s) PROVE Same
  BY <1>3 DEF AckArrives, StoreAck, database, storeVars
<1>4. ASSUME NEW s \in Consumers, NEW i \in Leased, ServerReleases(s, i) PROVE Same
  BY <1>4 DEF ServerReleases, StoreRequeue, StoreDeadLetter, database
<1>5. ASSUME NEW i \in Leased, LeaseExpires(i) PROVE Same
  BY <1>5 DEF LeaseExpires, StoreRequeue, StoreDeadLetter, database
<1>6. ASSUME NEW s \in Consumers, AcksLost(s) PROVE Same
  BY <1>6 DEF AcksLost, database, storeVars
<1>7. ASSUME NEW k \in Collectors, NEW s \in Consumers, OpenStream(k, s) PROVE Same
  BY <1>7 DEF OpenStream, database, storeVars
<1>8. ASSUME NEW k \in Collectors,
             \/ SelectStep(k) \/ RecvEnds(k) \/ Crash(k) \/ SendAckFails(k)
             \/ Bisect(k) \/ SendAck(k)
      PROVE  Same
  BY <1>8 DEF SelectStep, TakeMsg, Ticker, StreamOver, Bisect, SendAck, RecvEnds, Crash,
              SendAckFails, database, storeVars
<1>9. ASSUME NEW k \in Collectors, PersistOk(k) PROVE Commits(k)
  BY <1>9 DEF PersistOk, Commits, storeVars
<1>10. ASSUME NEW k \in Collectors, DeadLetterRow(k) PROVE Isolates(k)
  BY <1>10 DEF DeadLetterRow, Isolates, storeVars
<1>11. ASSUME NEW k \in Collectors, PersistFails(k) PROVE Commits(k) \/ Isolates(k) \/ Same
  BY <1>11 DEF PersistFails, Commits, Isolates, database, storeVars
<1>. QED
  BY <1>1, <1>2, <1>3, <1>4, <1>5, <1>6, <1>7, <1>8, <1>9, <1>10, <1>11 DEF Next, FlushStep

\* A commit adds rows the database accepts, none of them twice, and makes every
\* message of the slice durable.
LEMMA CommitStep ==
    ASSUME CollectorInv, NEW k \in Collectors, Commits(k)
    PROVE  /\ TablesOK' /\ Ids' = Ids /\ DurableIds \subseteq DurableIds'
           /\ \A m \in 1..Len(Slice(k)) : Slice(k)[m] \in DurableIds'
<1>0. TablesOK /\ issued \in Nat
  BY DEF CollectorInv, StoreInv, StoreTypeOK
<1>1. /\ UNCHANGED <<issued, content, dlqRows>> /\ Queued(k) \cap Poison = {}
      /\ rows' = [x \in Readings |-> IF x \in Queued(k) /\ rows[x] = 0 THEN 1 ELSE rows[x]]
  BY DEF Commits, PoisonErr, Upsert
<1>2. \A x \in Readings : /\ rows'[x] \in Nat /\ rows'[x] <= 1
                          /\ rows[x] > 0 => rows'[x] > 0
                          /\ x \in Queued(k) => rows'[x] > 0
                          /\ rows'[x] > 0 => x \notin Poison
  BY <1>0, <1>1 DEF TablesOK, RowOnce, PoisonIsolated
<1>3. TablesOK'
  <2>1. rows' \in [Readings -> Nat]
    BY <1>1, <1>2
  <2>. QED
    BY <1>0, <1>1, <1>2, <2>1 DEF TablesOK, RowOnce, PoisonIsolated
<1>4. Ids' = Ids
  BY <1>1 DEF Ids
<1>5. DurableIds \subseteq DurableIds'
  BY <1>0, <1>1, <1>2, ContentType, DurableGrows
<1>6. ASSUME NEW i \in Ids, content[i] \in Readings,
             Parses(content[i]) => content[i] \in Queued(k)
      PROVE  i \in DurableIds'
  <2>1. Durable(i)'
    BY <1>1, <1>2, <1>6 DEF Durable, Parses
  <2>. QED
    BY <1>4, <2>1 DEF DurableIds
<1>7. \A m \in 1..Len(Slice(k)) : Slice(k)[m] \in DurableIds'
  <2>1. coll[k].pc = "persist"
    BY DEF Commits
  <2>. QED
    BY <1>6, <2>1, SliceFacts
<1>. QED
  BY <1>3, <1>4, <1>5, <1>7

\* What is dead-lettered is the poison row itself, and is durable with that.
LEMMA IsolateStep ==
    ASSUME CollectorInv, NEW k \in Collectors, Isolates(k)
    PROVE  /\ TablesOK' /\ Ids' = Ids /\ DurableIds \subseteq DurableIds'
           /\ \A m \in 1..Len(Slice(k)) : Slice(k)[m] \in DurableIds'
<1>. DEFINE i == Slice(k)[1]
            x == content[i]
<1>0. TablesOK /\ issued \in Nat
  BY DEF CollectorInv, StoreInv, StoreTypeOK
<1>1. /\ UNCHANGED <<issued, content, rows>> /\ Queued(k) \cap Poison # {}
      /\ dlqRows' = [dlqRows EXCEPT ![x] = @ + 1]
      /\ Len(Slice(k)) = 1 /\ coll[k].pc = "persist"
  BY DEF Isolates, PoisonErr
<1>2. /\ \A m \in 1..Len(Slice(k)) : m = 1
      /\ 1 \in 1..Len(Slice(k))
  BY <1>1
<1>3. i \in Ids /\ x \in Readings
  BY <1>1, <1>2, SliceFacts
<1>4. x \in Poison
  <2>1. PICK y \in Queued(k) : y \in Poison
    BY <1>1
  <2>2. PICK m \in 1..Len(Slice(k)) : y = content[Slice(k)[m]]
    BY <1>1, <2>1, SliceFacts
  <2>. QED
    BY <1>2, <2>1, <2>2
<1>. HIDE DEF i, x
<1>5. /\ dlqRows' \in [Readings -> Nat] /\ dlqRows'[x] > 0
      /\ \A y \in Readings : dlqRows[y] > 0 => dlqRows'[y] > 0
      /\ \A y \in Readings : y # x => dlqRows'[y] = dlqRows[y]
  BY <1>0, <1>1, <1>3 DEF TablesOK
<1>6. TablesOK'
  BY <1>0, <1>1, <1>4, <1>5 DEF TablesOK, RowOnce, PoisonIsolated
<1>7. Ids' = Ids
  BY <1>1 DEF Ids
<1>8. DurableIds \subseteq DurableIds'
  BY <1>0, <1>1, <1>5, ContentType, DurableGrows
<1>9. ASSUME NEW j \in Ids, content[j] = x
      PROVE  j \in DurableIds'
  <2>1. content'[j] = x
    BY <1>1, <1>9
  <2>2. Durable(j)'
    BY <1>4, <1>5, <2>1 DEF Durable
  <2>. QED
    BY <1>7, <2>2 DEF DurableIds
<1>10. i \in DurableIds'
  BY <1>3, <1>9 DEF x
<1>. QED
  BY <1>2, <1>6, <1>7, <1>8, <1>10 DEF i

\* The tables stay right, and no id stops being durable.
LEMMA TablesStep ==
    ASSUME CollectorInv, Next
    PROVE  TablesOK' /\ Ids \subseteq Ids' /\ DurableIds \subseteq DurableIds'
<1>0. TablesOK /\ issued \in Nat
  BY DEF CollectorInv, StoreInv, StoreTypeOK
<1>1. ASSUME NEW x \in Readings,
             issued' = issued + 1, content' = Append(content, x), UNCHANGED <<rows, dlqRows>>
      PROVE  TablesOK' /\ Ids \subseteq Ids' /\ DurableIds \subseteq DurableIds'
  <2>1. /\ content' \in Seq(Readings) /\ Len(content') = Len(content) + 1
        /\ \A i \in 1..Len(content) : content'[i] = content[i]
    BY <1>0, <1>1 DEF TablesOK
  <2>2. TablesOK'
    BY <1>0, <1>1, <2>1 DEF TablesOK, RowOnce, PoisonIsolated
  <2>3. issued' \in Nat /\ issued <= issued' /\ \A i \in Ids : content'[i] = content[i]
    BY <1>0, <1>1, <2>1 DEF TablesOK, Ids
  <2>. QED
    BY <1>0, <1>1, <2>2, <2>3, ContentType, DurableGrows
<1>2. ASSUME UNCHANGED <<issued, content, rows, dlqRows>>
      PROVE  TablesOK' /\ Ids \subseteq Ids' /\ DurableIds \subseteq DurableIds'
  BY <1>0, <1>2, ContentType DEF TablesOK, RowOnce, PoisonIsolated, DurableIds, Durable, Ids, Parses
<1>. QED
  BY <1>1, <1>2, CommitStep, IsolateStep, DataStep

\* Only what is durable is acked.
LEMMA AcksStep ==
    ASSUME CollectorInv, Next
    PROVE  AcksOK'
<1>0. AcksOK /\ DurableIds \subseteq DurableIds'
  BY TablesStep DEF CollectorInv
<1>1. /\ acks \in [Consumers -> Seq(DurableIds)] /\ acked \subseteq DurableIds
      /\ opened \subseteq Consumers /\ ended \subseteq opened
  BY <1>0 DEF AcksOK
<1>2. Seq(DurableIds) \subseteq Seq(DurableIds')
  BY <1>0, SeqGrows
<1>3. ASSUME acks' = acks PROVE acks' \in [Consumers -> Seq(DurableIds')]
  BY <1>1, <1>2, <1>3
<1>4. ASSUME acked' = acked PROVE acked' \subseteq DurableIds'
  BY <1>0, <1>1, <1>4
<1>5. ASSUME opened' = opened, ended' = ended PROVE opened' \subseteq Consumers /\ ended' \subseteq opened'
  BY <1>1, <1>5
<1>6. ASSUME NEW k \in Collectors, Return(k), opened' = opened, coll[k].pc # "idle"
      PROVE  opened' \subseteq Consumers /\ ended' \subseteq opened'
  BY <1>1, <1>6, CollFacts DEF Return
<1>7. ASSUME acks' = acks, acked' = acked, opened' = opened, ended' = ended PROVE AcksOK'
  BY <1>3, <1>4, <1>5, <1>7 DEF AcksOK
<1>8. ASSUME NEW k \in Collectors, Return(k), coll[k].pc # "idle",
             acks' = acks, acked' = acked, opened' = opened
      PROVE  AcksOK'
  BY <1>3, <1>4, <1>6, <1>8 DEF AcksOK
<1>9. ASSUME NEW x \in Readings, Offer(x) PROVE AcksOK'
  BY <1>7, <1>9 DEF Offer, Admit
<1>10. ASSUME NEW k \in Collectors, NEW i \in queued \cup retrying, Deliver(k, i) PROVE AcksOK'
  BY <1>7, <1>10 DEF Deliver, StoreLease
<1>11. ASSUME NEW s \in Consumers, AckArrives(s) PROVE AcksOK'
  <2>1. acks[s] \in Seq(DurableIds) /\ acks[s] # <<>>
    BY <1>1, <1>11 DEF AckArrives
  <2>2. Head(acks[s]) \in DurableIds /\ Tail(acks[s]) \in Seq(DurableIds)
    BY <2>1
  <2>3. acks' \in [Consumers -> Seq(DurableIds')]
    BY <1>1, <1>2, <1>11, <2>2 DEF AckArrives
  <2>4. acked' = acked \/ acked' = acked \cup {Head(acks[s])}
    BY <1>11 DEF AckArrives, StoreAck, storeVars
  <2>5. acked' \subseteq DurableIds'
    BY <1>0, <1>1, <2>2, <2>4
  <2>6. opened' = opened /\ ended' = ended
    BY <1>11 DEF AckArrives
  <2>. QED
    BY <1>5, <2>3, <2>5, <2>6 DEF AcksOK
<1>12. ASSUME NEW s \in Consumers, AcksLost(s) PROVE AcksOK'
  <2>1. <<>> \in Seq(DurableIds') /\ acks' = [acks EXCEPT ![s] = <<>>]
    BY <1>12 DEF AcksLost
  <2>2. acks' \in [Consumers -> Seq(DurableIds')]
    BY <1>1, <1>2, <2>1
  <2>3. acked' = acked /\ opened' = opened /\ ended' = ended
    BY <1>12 DEF AcksLost, storeVars
  <2>. QED
    BY <1>4, <1>5, <2>2, <2>3 DEF AcksOK
<1>13. ASSUME NEW i \in Leased, LeaseExpires(i) \/ \E s \in Consumers : ServerReleases(s, i) PROVE AcksOK'
  BY <1>7, <1>13 DEF LeaseExpires, ServerReleases, StoreRequeue, StoreDeadLetter
<1>14. ASSUME NEW k \in Collectors, NEW s \in Consumers, OpenStream(k, s) PROVE AcksOK'
  <2>1. acks' = acks /\ acked' = acked /\ opened' = opened \cup {s} /\ ended' = ended
    BY <1>14 DEF OpenStream, storeVars
  <2>2. opened' \subseteq Consumers /\ ended' \subseteq opened'
    BY <1>1, <2>1
  <2>. QED
    BY <1>3, <1>4, <2>1, <2>2 DEF AcksOK
<1>15. ASSUME NEW k \in Collectors,
              TakeMsg(k) \/ Ticker(k) \/ PersistOk(k) \/ Bisect(k) \/ DeadLetterRow(k) \/ RecvEnds(k)
       PROVE  AcksOK'
  BY <1>7, <1>15 DEF TakeMsg, Ticker, PersistOk, Bisect, DeadLetterRow, RecvEnds, storeVars
<1>16. ASSUME NEW k \in Collectors,
              StreamOver(k) \/ Crash(k) \/ PersistFails(k) \/ SendAckFails(k)
       PROVE  AcksOK'
  <2>1. acks' = acks /\ acked' = acked /\ opened' = opened /\ coll[k].pc # "idle"
    BY <1>16 DEF StreamOver, Crash, PersistFails, SendAckFails, storeVars
  <2>2. Return(k) \/ ended' = ended
    BY <1>16 DEF StreamOver, Crash, PersistFails, SendAckFails
  <2>. QED
    BY <1>7, <1>8, <2>1, <2>2
<1>17. ASSUME NEW k \in Collectors, SendAck(k) PROVE AcksOK'
  <2>. DEFINE s == coll[k].stream
              i == Head(coll[k].unacked)
  <2>1. coll[k].pc = "ack" /\ acks' = [acks EXCEPT ![s] = Append(@, i)]
    BY <1>17 DEF SendAck
  <2>2. s \in Consumers /\ coll[k].unacked \in Seq(DurableIds) /\ coll[k].unacked # <<>>
    BY <2>1, CollFacts DEF CollOK
  <2>3. i \in DurableIds
    BY <2>2
  <2>. HIDE DEF s, i
  <2>4. Append(acks[s], i) \in Seq(DurableIds)
    BY <1>1, <2>2, <2>3
  <2>5. acks' \in [Consumers -> Seq(DurableIds')]
    BY <1>1, <1>2, <2>1, <2>4
  <2>6. acked' = acked /\ opened' = opened /\ (Return(k) \/ ended' = ended)
    BY <1>17 DEF SendAck, storeVars
  <2>7. opened' \subseteq Consumers /\ ended' \subseteq opened'
    BY <1>5, <1>6, <2>1, <2>6
  <2>. QED
    BY <1>4, <2>5, <2>6, <2>7 DEF AcksOK
<1>. QED
  BY <1>9, <1>10, <1>11, <1>12, <1>13, <1>14, <1>15, <1>16, <1>17 DEF Next, SelectStep, FlushStep

\* Every collector stays in order.
LEMMA CollsStep ==
    ASSUME CollectorInv, Next
    PROVE  CollsOK'
<1>0. CollsOK /\ Ids \subseteq Ids' /\ DurableIds \subseteq DurableIds'
  BY TablesStep DEF CollectorInv
<1>1. ASSUME coll' = coll, opened \subseteq opened' PROVE CollsOK'
  BY <1>0, <1>1, SameColls
<1>2. ASSUME NEW k \in Collectors, NEW r, coll' = [coll EXCEPT ![k] = r], opened' = opened,
             CollOK(r, Ids, DurableIds, opened)
      PROVE  CollsOK'
  <2>1. CollOK(r, Ids', DurableIds', opened')
    BY <1>0, <1>2, CollGrows
  <2>. QED
    BY <1>0, <1>2, <2>1, OneColl
<1>3. ASSUME NEW k \in Collectors, Return(k), opened' = opened PROVE CollsOK'
  <2>1. coll' = [coll EXCEPT ![k] = Idle]
    BY <1>3 DEF Return
  <2>. QED
    BY <1>2, <1>3, <2>1, RecordIdle
<1>4. \A k \in Collectors : CollOK(coll[k], Ids, DurableIds, opened)
  BY CollFacts
<1>5. ASSUME \/ \E x \in Readings : Offer(x)
             \/ \E s \in Consumers : \/ AckArrives(s) \/ AcksLost(s)
                                     \/ \E i \in Leased : ServerReleases(s, i)
             \/ \E i \in Leased : LeaseExpires(i)
      PROVE  CollsOK'
  <2>1. coll' = coll /\ opened' = opened
    BY <1>5 DEF Offer, AckArrives, AcksLost, ServerReleases, LeaseExpires
  <2>. QED
    BY <1>1, <2>1
<1>6. ASSUME NEW k \in Collectors, NEW s \in Consumers, OpenStream(k, s) PROVE CollsOK'
  <2>. DEFINE r == [Idle EXCEPT !.pc = "select", !.stream = s, !.recv = "running"]
  <2>1. coll' = [coll EXCEPT ![k] = r] /\ opened \subseteq opened' /\ s \in opened'
    BY <1>6 DEF OpenStream
  <2>2. CollOK(r, Ids', DurableIds', opened')
    BY <2>1, RecordOpen
  <2>. HIDE DEF r
  <2>. QED
    BY <1>0, <2>1, <2>2, OneColl
<1>7. ASSUME NEW k \in Collectors, NEW i \in queued \cup retrying, Deliver(k, i) PROVE CollsOK'
  <2>. DEFINE r == [coll[k] EXCEPT !.msgCh = Append(@, i)]
  <2>1. coll' = [coll EXCEPT ![k] = r] /\ opened' = opened /\ Len(coll[k].msgCh) < Credit
    BY <1>7 DEF Deliver
  <2>2. i \in Ids
    BY DEF CollectorInv, StoreInv, StoreTypeOK, Ids
  <2>3. CollOK(r, Ids, DurableIds, opened)
    BY <1>4, <2>1, <2>2, RecordDeliver
  <2>. HIDE DEF r
  <2>. QED
    BY <1>2, <2>1, <2>3
<1>8. ASSUME NEW k \in Collectors, TakeMsg(k) PROVE CollsOK'
  <2>. DEFINE q == coll[k]
              batch == Append(q.batch, Head(q.msgCh))
              taken == [q EXCEPT !.msgCh = Tail(@), !.batch = batch]
              full == [taken EXCEPT !.pc = "persist", !.work = <<batch>>]
  <2>1. q.pc = "select" /\ q.msgCh # <<>> /\ opened' = opened
    BY <1>8 DEF TakeMsg
  <2>2. /\ Len(batch) < BatchSize => CollOK(taken, Ids, DurableIds, opened)
        /\ ~(Len(batch) < BatchSize) => CollOK(full, Ids, DurableIds, opened)
    BY <1>4, <2>1, RecordTakeMsg
  <2>3. /\ Len(batch) < BatchSize => coll' = [coll EXCEPT ![k] = taken]
        /\ ~(Len(batch) < BatchSize) => coll' = [coll EXCEPT ![k] = full]
    BY <1>0, <1>8 DEF TakeMsg, CollsOK
  <2>. HIDE DEF taken, full
  <2>. QED
    BY <1>2, <2>1, <2>2, <2>3
<1>9. ASSUME NEW k \in Collectors, NEW last \in BOOLEAN, Flush(k, coll[k].batch, last),
             coll[k].pc = "select", coll[k].batch # <<>>, opened' = opened
      PROVE  CollsOK'
  <2>. DEFINE r == [coll[k] EXCEPT !.batch = coll[k].batch, !.last = last, !.pc = "persist",
                                   !.work = <<coll[k].batch>>]
  <2>1. coll' = [coll EXCEPT ![k] = r]
    BY <1>9 DEF Flush
  <2>2. CollOK(r, Ids, DurableIds, opened)
    BY <1>4, <1>9, RecordFlush
  <2>. HIDE DEF r
  <2>. QED
    BY <1>2, <1>9, <2>1, <2>2
<1>10. ASSUME NEW k \in Collectors, Ticker(k) PROVE CollsOK'
  BY <1>9, <1>10 DEF Ticker
<1>11. ASSUME NEW k \in Collectors, StreamOver(k) PROVE CollsOK'
  BY <1>3, <1>9, <1>11 DEF StreamOver
<1>12. ASSUME NEW k \in Collectors, RecvEnds(k) PROVE CollsOK'
  <2>. DEFINE r == [coll[k] EXCEPT !.recv = "done"]
  <2>1. coll' = [coll EXCEPT ![k] = r] /\ opened' = opened
    BY <1>12 DEF RecvEnds
  <2>2. CollOK(r, Ids, DurableIds, opened)
    BY <1>4, RecordRecvEnds
  <2>. HIDE DEF r
  <2>. QED
    BY <1>2, <2>1, <2>2
<1>13. ASSUME NEW k \in Collectors, Crash(k) \/ PersistFails(k) \/ SendAckFails(k) PROVE CollsOK'
  BY <1>3, <1>13 DEF Crash, PersistFails, SendAckFails
<1>14. ASSUME NEW k \in Collectors, coll[k].pc = "persist", SliceDone(k), opened' = opened,
              Ids' = Ids, \A m \in 1..Len(Slice(k)) : Slice(k)[m] \in DurableIds'
       PROVE  CollsOK'
  <2>. DEFINE q == coll[k]
              r == [q EXCEPT !.work = Tail(@),
                             !.pc = IF Len(q.work) = 1 THEN "ack" ELSE "persist",
                             !.unacked = IF Len(q.work) = 1 THEN q.batch ELSE <<>>]
  <2>1. coll' = [coll EXCEPT ![k] = r]
    BY <1>14 DEF SliceDone
  <2>2. \A m \in 1..Len(Head(q.work)) : Head(q.work)[m] \in DurableIds'
    BY <1>14 DEF Slice
  <2>3. PICK c : CutAt(q, DurableIds, c)
    BY <1>4, <1>14 DEF CollOK, CutAt
  <2>4. CollOK(r, Ids, DurableIds', opened)
    BY <1>0, <1>4, <1>14, <2>2, <2>3, RecordSliceDone
  <2>. HIDE DEF r
  <2>. QED
    BY <1>0, <1>14, <2>1, <2>4, OneColl
<1>15. ASSUME NEW k \in Collectors, PersistOk(k) PROVE CollsOK'
  <2>1. Commits(k) /\ SliceDone(k) /\ opened' = opened /\ coll[k].pc = "persist"
    BY <1>15 DEF PersistOk, Commits, storeVars
  <2>. QED
    BY <1>14, <2>1, CommitStep
<1>16. ASSUME NEW k \in Collectors, DeadLetterRow(k) PROVE CollsOK'
  <2>1. Isolates(k) /\ SliceDone(k) /\ opened' = opened /\ coll[k].pc = "persist"
    BY <1>16 DEF DeadLetterRow, Isolates, storeVars
  <2>. QED
    BY <1>14, <2>1, IsolateStep
<1>17. ASSUME NEW k \in Collectors, Bisect(k) PROVE CollsOK'
  <2>. DEFINE q == coll[k]
              h == Head(q.work)
              mid == Len(h) \div 2
              r == [q EXCEPT !.work =
                       <<SubSeq(h, 1, mid), SubSeq(h, mid + 1, Len(h))>> \o Tail(@)]
  <2>1. q.pc = "persist" /\ Len(h) > 1 /\ opened' = opened
    BY <1>17 DEF Bisect, Slice
  <2>2. coll' = [coll EXCEPT ![k] = r]
    BY <1>17 DEF Bisect, Slice
  <2>3. PICK c : CutAt(q, DurableIds, c)
    BY <1>4, <2>1 DEF CollOK, CutAt
  <2>4. CollOK(r, Ids, DurableIds, opened)
    BY <1>4, <2>1, <2>3, RecordBisect
  <2>. HIDE DEF r
  <2>. QED
    BY <1>2, <2>1, <2>2, <2>4
<1>18. ASSUME NEW k \in Collectors, SendAck(k) PROVE CollsOK'
  <2>. DEFINE q == coll[k]
              done == Len(q.unacked) = 1
              r == [q EXCEPT !.unacked = Tail(@), !.pc = IF done THEN "select" ELSE "ack",
                             !.batch = IF done THEN <<>> ELSE @]
  <2>1. q.pc = "ack" /\ opened' = opened /\ (Return(k) \/ coll' = [coll EXCEPT ![k] = r])
    BY <1>18 DEF SendAck
  <2>2. CollOK(r, Ids, DurableIds, opened)
    BY <1>4, <2>1, RecordSendAck
  <2>. HIDE DEF r
  <2>. QED
    BY <1>2, <1>3, <2>1, <2>2
<1>. QED
  BY <1>5, <1>6, <1>7, <1>8, <1>10, <1>11, <1>12, <1>13, <1>15, <1>16, <1>17, <1>18
     DEF Next, SelectStep, FlushStep

-----------------------------------------------------------------------------
(* The theorems.                                                             *)

LEMMA CollectorInit == Init => CollectorInv
<1>. SUFFICES ASSUME Init PROVE CollectorInv
  OBVIOUS
<1>1. StoreInv
  BY StoreInitInv DEF Init
<1>2. TablesOK
  BY DEF Init, StoreInit, TablesOK, RowOnce, PoisonIsolated
<1>3. AcksOK
  BY DEF Init, StoreInit, AcksOK
<1>4. CollsOK
  <2>1. coll = [k \in Collectors |-> Idle]
    BY DEF Init
  <2>2. CollOK(Idle, Ids, DurableIds, opened)
    BY RecordIdle
  <2>. QED
    BY <2>1, <2>2 DEF CollsOK
<1>. QED
  BY <1>1, <1>2, <1>3, <1>4 DEF CollectorInv

LEMMA CollectorStutter == CollectorInv /\ UNCHANGED vars => CollectorInv'
<1>. SUFFICES ASSUME CollectorInv, UNCHANGED vars PROVE CollectorInv'
  OBVIOUS
<1>1. /\ UNCHANGED storeVars /\ UNCHANGED <<issued, acked>>
      /\ UNCHANGED <<content, rows, dlqRows, coll, opened, ended, acks>>
  BY DEF vars, database, storeVars
<1>2. StoreInv'
  BY <1>1, StoreStutterInv DEF CollectorInv
<1>3. Ids' = Ids /\ DurableIds' = DurableIds
  BY <1>1 DEF Ids, DurableIds, Durable, Parses
<1>4. TablesOK' /\ AcksOK'
  BY <1>1, <1>3 DEF CollectorInv, TablesOK, AcksOK, RowOnce, PoisonIsolated
<1>5. CollsOK'
  BY <1>1, <1>3, SameColls DEF CollectorInv
<1>. QED
  BY <1>2, <1>4, <1>5 DEF CollectorInv

\* The collectors' invariant: buffers, work lists, acks under way, tables and
\* store are in order after every step, whatever fails.
THEOREM CollectorCorrect == Spec => []CollectorInv
<1>1. ASSUME CollectorInv, Next PROVE CollectorInv'
  <2>1. StoreInv'
    BY <1>1, StoreStep, StoreStepInv, StoreStutterInv DEF CollectorInv
  <2>. QED
    BY <1>1, <2>1, TablesStep, AcksStep, CollsStep DEF CollectorInv
<1>2. CollectorInv /\ [Next]_vars => CollectorInv'
  BY <1>1, CollectorStutter
<1>. QED
  BY CollectorInit, <1>2, PTL DEF Spec

\* Collectors, their network and their crashes use the broker only through the
\* Store contract: the composed system implements it.
THEOREM CollectorUsesStore == Spec => StoreSpec
<1>1. Init => StoreInit
  BY DEF Init
<1>2. CollectorInv /\ [Next]_vars => [StoreNext]_storeVars
  BY StoreStep DEF vars
<1>. QED
  BY <1>1, <1>2, CollectorCorrect, PTL DEF Spec, StoreSpec

\* The buffers stay within their limits and hold issued ids.
THEOREM CollectorTypes == Spec => []TypeOK
<1>1. ASSUME CollectorInv PROVE TypeOK
  <2>1. /\ StoreTypeOK /\ content \in [Ids -> Readings]
        /\ rows \in [Readings -> Nat] /\ dlqRows \in [Readings -> Nat]
        /\ opened \subseteq Consumers /\ ended \subseteq opened
    BY <1>1, ContentType DEF CollectorInv, StoreInv, TablesOK, AcksOK
  <2>2. ASSUME NEW s \in Consumers PROVE acks[s] \in Seq(Ids)
    <3>1. acks[s] \in Seq(DurableIds) /\ DurableIds \subseteq Ids
      BY <1>1 DEF CollectorInv, AcksOK, DurableIds
    <3>. QED
      BY <3>1, SeqGrows
  <2>3. ASSUME NEW k \in Collectors
        PROVE  /\ coll[k].pc \in {"idle", "select", "persist", "ack"}
               /\ coll[k].msgCh \in Seq(Ids) /\ Len(coll[k].msgCh) <= Credit
               /\ coll[k].batch \in Seq(Ids) /\ Len(coll[k].batch) <= BatchSize
               /\ coll[k].unacked \in Seq(Ids)
    BY <1>1, CollFacts DEF CollOK, CollRecord
  <2>. QED
    BY <2>1, <2>2, <2>3 DEF TypeOK
<1>. QED
  BY <1>1, CollectorCorrect, PTL

\* Ack after persist: nothing is acked that a crash could still lose.
THEOREM CollectorAcksDurable == Spec => []AckedIsDurable
<1>1. ASSUME CollectorInv PROVE AckedIsDurable
  <2>1. acked \subseteq DurableIds /\ acks \in [Consumers -> Seq(DurableIds)]
    BY <1>1 DEF CollectorInv, AcksOK
  <2>2. ASSUME NEW s \in Consumers, NEW n \in DOMAIN acks[s] PROVE acks[s][n] \in DurableIds
    <3>1. acks[s] \in Seq(DurableIds) /\ n \in 1..Len(acks[s])
      BY <2>1, LenProperties
    <3>. QED
      BY <3>1, ElementOfSeq
  <2>. QED
    BY <2>1, <2>2 DEF AckedIsDurable, DurableIds
<1>. QED
  BY <1>1, CollectorCorrect, PTL

\* What is durable stays durable: no step deletes or replaces what the ack of a
\* message relied on.
THEOREM CollectorDurableForever == Spec => [][DurableIds \subseteq DurableIds']_vars
<1>1. CollectorInv /\ [Next]_vars => [DurableIds \subseteq DurableIds']_vars
  BY TablesStep
<1>. QED
  BY <1>1, CollectorCorrect, PTL DEF Spec

\* Effectively once: a reading never gets a second row.
THEOREM CollectorRowOnce == Spec => []RowOnce
<1>1. CollectorInv => RowOnce
  BY DEF CollectorInv, TablesOK
<1>. QED
  BY <1>1, CollectorCorrect, PTL

\* Bisection dead-letters exactly the rows the database rejects.
THEOREM CollectorIsolatesPoison == Spec => []PoisonIsolated
<1>1. CollectorInv => PoisonIsolated
  BY DEF CollectorInv, TablesOK
<1>. QED
  BY <1>1, CollectorCorrect, PTL

\* persistResilient covers the whole batch, each message once.
THEOREM CollectorBisection == Spec => []BisectCoversBatch
<1>1. ASSUME CollectorInv PROVE BisectCoversBatch
  <2>. SUFFICES ASSUME NEW k \in Collectors, coll[k].pc = "persist"
                PROVE  \E cut \in [0..Len(coll[k].work) -> 0..Len(coll[k].batch)] :
                          /\ cut[Len(coll[k].work)] = Len(coll[k].batch)
                          /\ \A j \in 1..Len(coll[k].work) :
                                /\ cut[j - 1] < cut[j]
                                /\ coll[k].work[j] = SubSeq(coll[k].batch, cut[j - 1] + 1, cut[j])
                          /\ \A m \in 1..cut[0] : Durable(coll[k].batch[m])
    BY DEF BisectCoversBatch
  <2>. DEFINE work == coll[k].work
              batch == coll[k].batch
  <2>1. work \in Seq(Seq(Ids)) /\ batch \in Seq(Ids)
    BY <1>1, CollFacts DEF CollRecord
  <2>2. PICK cut \in [0..Len(work) -> 0..Len(batch)] : Cuts(coll[k], DurableIds, cut)
    BY <1>1, CollFacts DEF CollOK
  <2>3. /\ cut[Len(work)] = Len(batch)
        /\ \A j \in 1..Len(work) :
              /\ cut[j - 1] < cut[j] /\ Len(work[j]) = cut[j] - cut[j - 1]
              /\ \A m \in 1..Len(work[j]) : work[j][m] = batch[cut[j - 1] + m]
        /\ \A m \in 1..cut[0] : batch[m] \in DurableIds
    BY <2>2 DEF Cuts
  <2>. HIDE DEF work, batch
  <2>4. Len(work) \in Nat /\ Len(batch) \in Nat
    BY <2>1, LenProperties
  <2>5. ASSUME NEW j \in 1..Len(work)
        PROVE  work[j] = SubSeq(batch, cut[j - 1] + 1, cut[j])
    <3>. DEFINE a == cut[j - 1]
                b == cut[j]
                t == SubSeq(batch, a + 1, b)
    <3>1. j - 1 \in 0..Len(work) /\ j \in 0..Len(work)
      BY <2>4
    <3>2. a \in 0..Len(batch) /\ b \in 0..Len(batch)
      BY <2>2, <3>1
    <3>3. /\ a < b /\ Len(work[j]) = b - a
          /\ \A m \in 1..Len(work[j]) : work[j][m] = batch[a + m]
      BY <2>3
    <3>4. work[j] \in Seq(Ids)
      BY <2>1, ElementOfSeq
    <3>. HIDE DEF a, b
    <3>5. \A m \in (a + 1)..b : batch[m] \in Ids
      <4>1. \A m \in (a + 1)..b : m \in 1..Len(batch)
        BY <2>4, <3>2
      <4>. QED
        BY <2>1, <4>1, ElementOfSeq
    <3>6. /\ t \in Seq(Ids) /\ Len(t) = (IF a + 1 <= b THEN b - (a + 1) + 1 ELSE 0)
          /\ \A m \in 1..(b - (a + 1) + 1) : t[m] = batch[(a + 1) + m - 1]
      <4>1. a + 1 \in Int /\ b \in Int
        BY <2>4, <3>2
      <4>. QED
        BY <3>5, <4>1, SubSeqProperties
    <3>. HIDE DEF t
    <3>7. /\ b - (a + 1) + 1 = b - a /\ a + 1 <= b
          /\ \A m \in 1..(b - a) : (a + 1) + m - 1 = a + m
      BY <2>4, <3>2, <3>3
    <3>8. Len(t) = Len(work[j]) /\ \A m \in 1..Len(work[j]) : work[j][m] = t[m]
      BY <3>3, <3>6, <3>7
    <3>9. work[j] = t
      BY <3>4, <3>6, <3>8, SeqEqual
    <3>. QED
      BY <3>9 DEF t, a, b
  <2>6. \A m \in 1..cut[0] : Durable(batch[m])
    BY <2>3 DEF DurableIds
  <2>. QED
    BY <2>2, <2>3, <2>5, <2>6 DEF work, batch
<1>. QED
  BY <1>1, CollectorCorrect, PTL

-----------------------------------------------------------------------------
(* Dead-letter rows.  The insert into gpu_metrics_dlq is not idempotent, so  *)
(* the number of rows is bounded by counting deliveries, message by message. *)

\* The positions of q after position c that hold message i.
Later(q, c, i) == {p \in 1..Len(q) : p > c /\ q[p] = i}

\* How often a collector that has handled c positions of its batch still holds
\* message i.
Load(q, c, i) == Cardinality(Later(q.msgCh, 0, i)) + Cardinality(Later(q.batch, c, i))

\* Positions are counted.
LEMMA LaterFinite ==
    ASSUME NEW D, NEW q \in Seq(D), NEW c \in Nat, NEW i
    PROVE  IsFiniteSet(Later(q, c, i)) /\ Cardinality(Later(q, c, i)) \in Nat
<1>1. Len(q) \in Nat
  BY LenProperties
<1>2. IsFiniteSet(1..Len(q)) /\ Later(q, c, i) \subseteq 1..Len(q)
  BY <1>1, FS_Interval DEF Later
<1>. QED
  BY <1>2, FS_Subset, FS_CardinalityType

\* Handling more positions leaves less to handle.
LEMMA LaterShrinks ==
    ASSUME NEW D, NEW q \in Seq(D), NEW c \in Nat, NEW d \in Nat, c <= d, NEW i
    PROVE  Cardinality(Later(q, d, i)) <= Cardinality(Later(q, c, i))
<1>1. Later(q, d, i) \subseteq Later(q, c, i)
  BY LenProperties DEF Later
<1>. QED
  BY <1>1, LaterFinite, FS_Subset

\* Handling the next position takes its message off the load.
LEMMA LaterNext ==
    ASSUME NEW D, NEW q \in Seq(D), NEW c \in Nat, c < Len(q), NEW i
    PROVE  Cardinality(Later(q, c, i))
             = Cardinality(Later(q, c + 1, i)) + (IF q[c + 1] = i THEN 1 ELSE 0)
<1>. DEFINE L == Later(q, c + 1, i)
<1>1. Len(q) \in Nat /\ c + 1 \in 1..Len(q) /\ c + 1 \in Nat
  BY LenProperties
<1>2. IsFiniteSet(L) /\ Cardinality(L) \in Nat
  BY <1>1, LaterFinite
<1>3. CASE q[c + 1] = i
  <2>1. Later(q, c, i) = L \cup {c + 1} /\ c + 1 \notin L
    BY <1>1, <1>3 DEF Later
  <2>. HIDE DEF L
  <2>2. Cardinality(L \cup {c + 1}) = Cardinality(L) + 1
    BY <1>2, <2>1, FS_AddElement
  <2>. QED
    BY <1>3, <2>1, <2>2 DEF L
<1>4. CASE q[c + 1] # i
  <2>1. Later(q, c, i) = L
    BY <1>1, <1>4 DEF Later
  <2>. QED
    BY <1>2, <1>4, <2>1
<1>. QED
  BY <1>3, <1>4

\* A message that arrives adds itself.
LEMMA LaterAppend ==
    ASSUME NEW D, NEW q \in Seq(D), NEW x \in D, NEW c \in Nat, c <= Len(q), NEW i
    PROVE  Cardinality(Later(Append(q, x), c, i))
             = Cardinality(Later(q, c, i)) + (IF x = i THEN 1 ELSE 0)
<1>. DEFINE L == Later(q, c, i)
            r == Append(q, x)
            n == Len(q)
<1>1. /\ n \in Nat /\ Len(r) = n + 1 /\ r[n + 1] = x
      /\ \A p \in 1..n : r[p] = q[p]
  BY AppendProperties, LenProperties
<1>2. IsFiniteSet(L) /\ Cardinality(L) \in Nat
  BY LaterFinite
<1>3. n + 1 \notin L /\ \A p \in 1..(n + 1) : p = n + 1 \/ p \in 1..n
  BY <1>1 DEF Later
<1>. HIDE DEF r
<1>4. CASE x = i
  <2>1. Later(r, c, i) = L \cup {n + 1}
    BY <1>1, <1>3, <1>4 DEF Later
  <2>2. Cardinality(L \cup {n + 1}) = Cardinality(L) + 1
    BY <1>2, <1>3, FS_AddElement
  <2>. QED
    BY <1>4, <2>1, <2>2 DEF r
<1>5. CASE x # i
  <2>1. Later(r, c, i) = L
    BY <1>1, <1>3, <1>5 DEF Later
  <2>. QED
    BY <1>2, <1>5, <2>1 DEF r
<1>. QED
  BY <1>4, <1>5

\* Taking the first message off a queue: the others move up.
LEMMA LaterTail ==
    ASSUME NEW D, NEW q \in Seq(D), q # <<>>, NEW i
    PROVE  Cardinality(Later(q, 0, i))
             = Cardinality(Later(Tail(q), 0, i)) + (IF Head(q) = i THEN 1 ELSE 0)
<1>. DEFINE t == Tail(q)
            A == Later(t, 0, i)
            B == Later(q, 1, i)
            up == [p \in A |-> p + 1]
<1>1. /\ Len(q) \in Nat \ {0} /\ t \in Seq(D) /\ Len(t) = Len(q) - 1
      /\ \A p \in 1..(Len(q) - 1) : t[p] = q[p + 1]
      /\ Head(q) = q[1]
  OBVIOUS
<1>. HIDE DEF t
<1>2. IsFiniteSet(A) /\ IsFiniteSet(B)
  BY <1>1, LaterFinite
<1>3. up \in Bijection(A, B)
  <2>1. ASSUME NEW p \in A PROVE p \in Int /\ p + 1 \in B
    BY <1>1 DEF Later
  <2>2. ASSUME NEW p \in B PROVE p - 1 \in A /\ (p - 1) + 1 = p
    <3>1. p \in 1..Len(q) /\ p > 1 /\ q[p] = i
      BY DEF Later
    <3>2. p - 1 \in 1..(Len(q) - 1) /\ p - 1 > 0 /\ (p - 1) + 1 = p
      BY <1>1, <3>1
    <3>. QED
      BY <1>1, <3>1, <3>2 DEF Later
  <2>. HIDE DEF A, B
  <2>3. up \in [A -> B]
    BY <2>1
  <2>4. \A p1, p2 \in A : up[p1] = up[p2] => p1 = p2
    BY <2>1
  <2>5. \A p \in B : \E p1 \in A : up[p1] = p
    BY <2>2
  <2>. HIDE DEF up
  <2>. QED
    BY <2>3, <2>4, <2>5 DEF Bijection, Injection, Surjection, IsInjective
<1>4. Cardinality(A) = Cardinality(B)
  <2>. HIDE DEF A, B, up
  <2>1. ExistsBijection(A, B)
    BY <1>3 DEF ExistsBijection
  <2>. QED
    BY <1>2, <2>1, FS_Bijection
<1>5. Cardinality(Later(q, 0, i))
        = Cardinality(Later(q, 0 + 1, i)) + (IF q[0 + 1] = i THEN 1 ELSE 0)
  BY <1>1, LaterNext
<1>. QED
  BY <1>1, <1>4, <1>5 DEF t

\* A load is a number, and none for an id no buffer can hold.
LEMMA LoadType ==
    ASSUME NEW D, NEW q \in CollRecord(D), NEW c \in Nat, NEW i
    PROVE  Load(q, c, i) \in Nat /\ (i \notin D => Load(q, c, i) = 0)
<1>1. q.msgCh \in Seq(D) /\ q.batch \in Seq(D)
  BY DEF CollRecord
<1>2. /\ Cardinality(Later(q.msgCh, 0, i)) \in Nat
      /\ Cardinality(Later(q.batch, c, i)) \in Nat
  BY <1>1, LaterFinite
<1>3. ASSUME NEW s \in Seq(D), NEW d \in Nat, i \notin D
      PROVE  Cardinality(Later(s, d, i)) = 0
  <2>1. \A p \in 1..Len(s) : s[p] \in D
    BY ElementOfSeq
  <2>2. Later(s, d, i) = {}
    BY <1>3, <2>1 DEF Later
  <2>. QED
    BY <2>2, FS_EmptySet
<1>. QED
  BY <1>1, <1>2, <1>3 DEF Load

\* What an idle collector holds.
LEMMA LoadIdle ==
    ASSUME NEW c \in Nat, NEW i
    PROVE  Load(Idle, c, i) = 0
<1>1. <<>> \in Seq({}) /\ Idle \in CollRecord({})
  <2>1. <<>> \in Seq({}) /\ <<>> \in Seq(Seq({}))
    OBVIOUS
  <2>. QED
    BY <2>1 DEF Idle, CollRecord
<1>. QED
  BY <1>1, LoadType

\* Positions of the batch are handled; the buffers stay.
LEMMA LoadSame ==
    ASSUME NEW D, NEW q \in CollRecord(D), NEW r, NEW c \in Nat, NEW d \in Nat, c <= d, NEW i,
           r.msgCh = q.msgCh, r.batch = q.batch
    PROVE  Load(r, d, i) <= Load(q, c, i)
<1>1. q.msgCh \in Seq(D) /\ q.batch \in Seq(D)
  BY DEF CollRecord
<1>2. /\ Cardinality(Later(q.msgCh, 0, i)) \in Nat
      /\ Cardinality(Later(q.batch, c, i)) \in Nat /\ Cardinality(Later(q.batch, d, i)) \in Nat
      /\ Cardinality(Later(q.batch, d, i)) <= Cardinality(Later(q.batch, c, i))
  BY <1>1, LaterFinite, LaterShrinks
<1>. QED
  BY <1>2 DEF Load

\* The next position of the batch is handled.
LEMMA LoadNext ==
    ASSUME NEW D, NEW q \in CollRecord(D), NEW r, NEW c \in Nat, c < Len(q.batch), NEW i,
           r.msgCh = q.msgCh, r.batch = q.batch
    PROVE  Load(q, c, i) = Load(r, c + 1, i) + (IF q.batch[c + 1] = i THEN 1 ELSE 0)
<1>1. q.msgCh \in Seq(D) /\ q.batch \in Seq(D)
  BY DEF CollRecord
<1>2. /\ Cardinality(Later(q.msgCh, 0, i)) \in Nat /\ c + 1 \in Nat
      /\ Cardinality(Later(q.batch, c, i)) \in Nat /\ Cardinality(Later(q.batch, c + 1, i)) \in Nat
  BY <1>1, LaterFinite
<1>3. Cardinality(Later(q.batch, c, i))
        = Cardinality(Later(q.batch, c + 1, i)) + (IF q.batch[c + 1] = i THEN 1 ELSE 0)
  BY <1>1, LaterNext
<1>. QED
  BY <1>2, <1>3 DEF Load

\* The batch is empty again.
LEMMA LoadEmptied ==
    ASSUME NEW D, NEW q \in CollRecord(D), NEW r, NEW c \in Nat, NEW i,
           r.msgCh = q.msgCh, r.batch = <<>>
    PROVE  Load(r, 0, i) <= Load(q, c, i)
<1>1. q.msgCh \in Seq(D) /\ q.batch \in Seq(D)
  BY DEF CollRecord
<1>2. /\ Cardinality(Later(q.msgCh, 0, i)) \in Nat
      /\ Cardinality(Later(q.batch, c, i)) \in Nat
  BY <1>1, LaterFinite
<1>3. Cardinality(Later(<<>>, 0, i)) = 0
  <2>1. Later(<<>>, 0, i) = {}
    BY DEF Later
  <2>. QED
    BY <2>1, FS_EmptySet
<1>. QED
  BY <1>2, <1>3 DEF Load

\* A message moves from msgCh to the batch.
LEMMA LoadTaken ==
    ASSUME NEW D, NEW q \in CollRecord(D), NEW r, NEW i, q.msgCh # <<>>,
           r.msgCh = Tail(q.msgCh), r.batch = Append(q.batch, Head(q.msgCh))
    PROVE  Load(r, 0, i) = Load(q, 0, i)
<1>1. q.msgCh \in Seq(D) /\ q.batch \in Seq(D)
  BY DEF CollRecord
<1>2. /\ Tail(q.msgCh) \in Seq(D) /\ Head(q.msgCh) \in D /\ Len(q.batch) \in Nat
  BY <1>1
<1>3. /\ Cardinality(Later(Tail(q.msgCh), 0, i)) \in Nat
      /\ Cardinality(Later(q.batch, 0, i)) \in Nat
  BY <1>1, <1>2, LaterFinite
<1>4. Cardinality(Later(q.msgCh, 0, i))
        = Cardinality(Later(Tail(q.msgCh), 0, i)) + (IF Head(q.msgCh) = i THEN 1 ELSE 0)
  BY <1>1, LaterTail
<1>5. Cardinality(Later(Append(q.batch, Head(q.msgCh)), 0, i))
        = Cardinality(Later(q.batch, 0, i)) + (IF Head(q.msgCh) = i THEN 1 ELSE 0)
  BY <1>1, <1>2, LaterAppend
<1>. QED
  BY <1>3, <1>4, <1>5 DEF Load

-----------------------------------------------------------------------------
(* The streams that broke.  Each cost a failure, and none is used again.     *)

Gone == {s \in Consumers : Broken(s)}

StreamsOK ==
    /\ faults \in Nat
    /\ revoked \in [Consumers -> Nat] /\ IsFiniteSet(Units(revoked))
    /\ \A k \in Collectors :
          /\ coll[k].pc = "idle" => coll[k] = Idle
          /\ coll[k].pc # "idle" => coll[k].stream \notin ended
          /\ coll[k].last => coll[k].recv = "done"
    /\ \A k, l \in Collectors :
          coll[k].pc # "idle" /\ coll[l].pc # "idle" /\ coll[k].stream = coll[l].stream => k = l
    /\ IsFiniteSet(Gone) /\ Cardinality(Gone) <= faults

\* The stream of a collector is broken exactly when its receive loop has ended.
LEMMA StreamBroken ==
    ASSUME CollectorInv, StreamsOK, NEW k \in Collectors, coll[k].pc # "idle"
    PROVE  coll[k].stream \in Consumers /\ (coll[k].stream \in Gone <=> coll[k].recv = "done")
<1>. DEFINE s == coll[k].stream
<1>1. s \in Consumers /\ s \notin ended
  BY CollFacts DEF StreamsOK
<1>2. ASSUME NEW l \in Collectors, coll[l].stream = s PROVE l = k
  <2>1. coll[l].pc # "idle"
    <3>1. "none" \notin Consumers /\ Idle.stream = "none"
      BY CollectorAssumption DEF Idle
    <3>. QED
      BY <1>1, <1>2, <3>1 DEF StreamsOK
  <2>. QED
    BY <1>2, <2>1 DEF StreamsOK
<1>. QED
  BY <1>1, <1>2 DEF Gone, Broken

\* One collector moves on its stream or leaves it.  What was broken stays
\* broken, and only a failure breaks another stream.
LEMMA StreamsMove ==
    ASSUME CollectorInv, StreamsOK, NEW k \in Collectors, NEW r, coll[k].pc # "idle",
           coll' = [coll EXCEPT ![k] = r], revoked' = revoked,
           \/ r = Idle /\ ended' = ended \cup {coll[k].stream}
           \/ /\ r.pc # "idle" /\ r.stream = coll[k].stream /\ ended' = ended
              /\ r.recv \in {coll[k].recv, "done"} /\ (r.last => r.recv = "done"),
           \/ faults' = faults + 1
           \/ faults' = faults /\ (coll[k].recv = "done" \/ r.recv = "running")
    PROVE  StreamsOK' /\ Gone \subseteq Gone'
<1>. DEFINE s == coll[k].stream
<1>0. Idle.stream = "none" /\ Idle.pc = "idle" /\ Idle.recv = "done" /\ Idle.last = FALSE
  BY DEF Idle
<1>1. s \in Consumers /\ s \notin ended /\ "none" \notin Consumers
  BY CollFacts, CollectorAssumption DEF StreamsOK
<1>2. /\ coll'[k] = r
      /\ \A l \in Collectors : l # k => coll'[l] = coll[l]
  BY DEF CollectorInv, CollsOK
<1>3. Gone \subseteq Gone'
  <2>1. ended \subseteq ended'
    OBVIOUS
  <2>2. ASSUME NEW t \in Consumers, NEW l \in Collectors, coll[l].stream = t, coll[l].recv = "done"
        PROVE  t \in Gone'
    <3>1. CASE l # k
      BY <1>2, <2>2, <3>1 DEF Gone, Broken
    <3>2. CASE l = k /\ r = Idle
      BY <2>2, <3>2 DEF Gone, Broken, Idle
    <3>3. CASE l = k /\ r.stream = s /\ r.recv = "done"
      BY <1>2, <2>2, <3>3 DEF Gone, Broken
    <3>. QED
      BY <2>2, <3>1, <3>2, <3>3
  <2>. QED
    BY <2>1, <2>2 DEF Gone, Broken
<1>4. Gone' \subseteq Gone \cup {s}
  <2>1. ended' \subseteq ended \cup {s}
    OBVIOUS
  <2>2. ASSUME NEW t \in Consumers, NEW l \in Collectors, coll'[l].stream = t, coll'[l].recv = "done"
        PROVE  t \in Gone \cup {s}
    <3>1. CASE l # k
      BY <1>2, <2>2, <3>1 DEF Gone, Broken
    <3>2. CASE l = k
      BY <1>0, <1>1, <1>2, <2>2, <3>2
    <3>. QED
      BY <3>1, <3>2
  <2>. QED
    BY <2>1, <2>2 DEF Gone, Broken
<1>5. ASSUME faults' = faults PROVE Gone' = Gone
  <2>1. faults' # faults + 1
    BY <1>5 DEF StreamsOK
  <2>2. CASE coll[k].recv = "done"
    BY <1>3, <1>4, <2>2, StreamBroken
  <2>3. CASE r.recv = "running"
    <3>1. ended' = ended
      BY <1>0, <2>3
    <3>2. ASSUME NEW t \in Consumers, NEW l \in Collectors, coll'[l].stream = t, coll'[l].recv = "done"
          PROVE  t \in Gone
      BY <1>2, <2>3, <3>2 DEF Gone, Broken
    <3>. QED
      BY <1>3, <3>1, <3>2 DEF Gone, Broken
  <2>. QED
    BY <1>5, <2>1, <2>2, <2>3
<1>6. IsFiniteSet(Gone') /\ Cardinality(Gone') <= faults' /\ faults' \in Nat
  <2>1. IsFiniteSet(Gone) /\ Cardinality(Gone) <= faults /\ faults \in Nat
    BY DEF StreamsOK
  <2>2. /\ IsFiniteSet(Gone \cup {s}) /\ Cardinality(Gone) \in Nat
        /\ Cardinality(Gone \cup {s}) \in Nat
        /\ Cardinality(Gone \cup {s}) <= Cardinality(Gone) + 1
    <3>1. IsFiniteSet(Gone \cup {s}) /\ Cardinality(Gone) \in Nat
      BY <2>1, FS_AddElement, FS_CardinalityType
    <3>2. Cardinality(Gone \cup {s}) \in 0..(Cardinality(Gone) + 1)
      BY <2>1, CardStep
    <3>. QED
      BY <3>1, <3>2
  <2>3. IsFiniteSet(Gone') /\ Cardinality(Gone') <= Cardinality(Gone \cup {s})
    BY <1>4, <2>2, FS_Subset
  <2>4. Cardinality(Gone') \in Nat
    BY <2>3, FS_CardinalityType
  <2>. QED
    BY <1>5, <2>1, <2>2, <2>3, <2>4
<1>7. ASSUME NEW l \in Collectors
      PROVE  /\ coll'[l].pc = "idle" => coll'[l] = Idle
             /\ coll'[l].pc # "idle" => coll'[l].stream \notin ended'
             /\ coll'[l].last => coll'[l].recv = "done"
  <2>1. CASE l = k
    BY <1>0, <1>1, <1>2, <2>1
  <2>2. CASE l # k
    <3>1. coll[l].pc # "idle" => coll[l].stream # s
      BY <2>2 DEF StreamsOK
    <3>. QED
      BY <1>2, <2>2, <3>1 DEF StreamsOK
  <2>. QED
    BY <2>1, <2>2
<1>8. ASSUME NEW l \in Collectors, NEW m \in Collectors, coll'[l].pc # "idle",
             coll'[m].pc # "idle", coll'[l].stream = coll'[m].stream
      PROVE  l = m
  BY <1>0, <1>2, <1>8 DEF StreamsOK
<1>9. revoked' \in [Consumers -> Nat] /\ IsFiniteSet(Units(revoked'))
  BY DEF StreamsOK
<1>. QED
  BY <1>3, <1>6, <1>7, <1>8, <1>9 DEF StreamsOK

-----------------------------------------------------------------------------
(* What the steps of a collector do to its load.                             *)

\* c positions of the collector's batch are handled.
Holds(q, c) ==
    /\ q.pc = "select" => c = 0
    /\ q.pc = "persist" => CutAt(q, Nat, c)

\* Going from q to r, a collector takes up nothing, and it handles the messages
\* in X.
Handles(q, r, X) ==
    \A c \in Nat : Holds(q, c) =>
        \E d \in Nat : /\ Holds(r, d)
                       /\ \A i \in Nat : Load(r, d, i) + (IF i \in X THEN 1 ELSE 0) <= Load(q, c, i)

\* The first slice begins with the next message of the batch.
LEMMA CutFirst ==
    ASSUME NEW D, NEW q \in CollRecord(D), q.work # <<>>, NEW G, NEW c, CutAt(q, G, c)
    PROVE  /\ c \in Nat /\ c < Len(q.batch) /\ Len(Head(q.work)) \in Nat \ {0}
           /\ Head(q.work)[1] = q.batch[c + 1]
<1>1. PICK cut \in [0..Len(q.work) -> 0..Len(q.batch)] : Cuts(q, G, cut) /\ cut[0] = c
  BY DEF CutAt
<1>2. q.work \in Seq(Seq(D)) /\ q.batch \in Seq(D)
  BY DEF CollRecord
<1>3. Len(q.work) \in Nat \ {0} /\ Head(q.work) = q.work[1] /\ Len(q.batch) \in Nat
  BY <1>2
<1>4. 0 \in 0..Len(q.work) /\ 1 \in 0..Len(q.work) /\ 1 \in 1..Len(q.work) /\ 1 - 1 = 0
  BY <1>3
<1>5. /\ cut[0] < cut[1] /\ Len(q.work[1]) = cut[1] - cut[0]
      /\ \A m \in 1..Len(q.work[1]) : q.work[1][m] = q.batch[cut[0] + m]
      /\ cut[0] \in 0..Len(q.batch) /\ cut[1] \in 0..Len(q.batch)
  BY <1>1, <1>4 DEF Cuts
<1>6. Len(q.work[1]) \in Nat \ {0} /\ 1 \in 1..Len(q.work[1])
  BY <1>3, <1>5
<1>. QED
  BY <1>1, <1>3, <1>5, <1>6

\* A stream is left: what its collector held is forgotten.
LEMMA HandlesReturn ==
    ASSUME NEW D, NEW q \in CollRecord(D)
    PROVE  Handles(q, Idle, {})
<1>1. Holds(Idle, 0)
  BY DEF Holds, Idle
<1>2. ASSUME NEW c \in Nat, NEW i \in Nat PROVE Load(Idle, 0, i) + 0 <= Load(q, c, i)
  BY LoadIdle, LoadType
<1>. QED
  BY <1>1, <1>2 DEF Handles

\* It is left with the first message of the slice under way handled.
LEMMA HandlesLast ==
    ASSUME NEW D, NEW q \in CollRecord(D), q.work # <<>>, q.pc = "persist"
    PROVE  Handles(q, Idle, {Head(q.work)[1]})
<1>1. Holds(Idle, 0)
  BY DEF Holds, Idle
<1>2. ASSUME NEW c \in Nat, Holds(q, c), NEW i \in Nat
      PROVE  Load(Idle, 0, i) + (IF i \in {Head(q.work)[1]} THEN 1 ELSE 0) <= Load(q, c, i)
  <2>1. c < Len(q.batch) /\ Head(q.work)[1] = q.batch[c + 1] /\ c + 1 \in Nat
    BY <1>2, CutFirst DEF Holds
  <2>2. Load(q, c, i) = Load(q, c + 1, i) + (IF q.batch[c + 1] = i THEN 1 ELSE 0)
    BY <2>1, LoadNext
  <2>3. Load(q, c + 1, i) \in Nat
    BY <2>1, LoadType
  <2>4. Load(Idle, 0, i) = 0
    BY LoadIdle
  <2>. QED
    BY <2>1, <2>2, <2>3, <2>4
<1>. QED
  BY <1>1, <1>2 DEF Handles

\* The buffers stay as they are.
LEMMA HandlesSame ==
    ASSUME NEW D, NEW q \in CollRecord(D), NEW r, r.msgCh = q.msgCh, r.batch = q.batch,
           \A c \in Nat : Holds(q, c) => Holds(r, c)
    PROVE  Handles(q, r, {})
<1>1. ASSUME NEW c \in Nat, NEW i \in Nat PROVE Load(r, c, i) + 0 <= Load(q, c, i)
  <2>1. Load(r, c, i) = Load(q, c, i) /\ Load(q, c, i) \in Nat
    BY LoadType DEF Load
  <2>. QED
    BY <2>1
<1>. QED
  BY <1>1 DEF Handles

\* A message joins the batch, which may be flushed.
LEMMA HandlesTaken ==
    ASSUME NEW D, NEW q \in CollRecord(D), NEW r, q.pc = "select", q.msgCh # <<>>,
           r.msgCh = Tail(q.msgCh), r.batch = Append(q.batch, Head(q.msgCh)), Holds(r, 0)
    PROVE  Handles(q, r, {})
<1>1. ASSUME NEW i \in Nat PROVE Load(r, 0, i) + 0 <= Load(q, 0, i)
  <2>1. Load(r, 0, i) = Load(q, 0, i) /\ Load(q, 0, i) \in Nat
    BY LoadTaken, LoadType
  <2>. QED
    BY <2>1
<1>. QED
  BY <1>1 DEF Handles, Holds

\* The batch is acked and emptied.
LEMMA HandlesAcked ==
    ASSUME NEW D, NEW q \in CollRecord(D), NEW r, r.msgCh = q.msgCh, r.batch = <<>>,
           r.pc = "select"
    PROVE  Handles(q, r, {})
<1>1. Holds(r, 0)
  BY DEF Holds
<1>2. <<>> \in Seq(D) /\ q.msgCh \in Seq(D)
  BY DEF CollRecord
<1>3. ASSUME NEW c \in Nat, NEW i \in Nat PROVE Load(r, 0, i) + 0 <= Load(q, c, i)
  <2>1. Load(r, 0, i) <= Load(q, c, i)
    BY LoadEmptied
  <2>2. Load(r, 0, i) \in Nat
    <3>1. Cardinality(Later(q.msgCh, 0, i)) \in Nat /\ Cardinality(Later(<<>>, 0, i)) \in Nat
      BY <1>2, LaterFinite
    <3>. QED
      BY <3>1 DEF Load
  <2>. QED
    BY <2>1, <2>2
<1>. QED
  BY <1>1, <1>3 DEF Handles

\* The slice under way is done; if it is a single message, that one is handled.
LEMMA HandlesSlice ==
    ASSUME NEW D, NEW O, NEW q, CollOK(q, D, Nat, O), D \subseteq Nat, q.pc = "persist",
           NEW X, X = {} \/ (X = {Head(q.work)[1]} /\ Len(Head(q.work)) = 1)
    PROVE  Handles(q, [q EXCEPT !.work = Tail(@),
                                !.pc = IF Len(q.work) = 1 THEN "ack" ELSE "persist",
                                !.unacked = IF Len(q.work) = 1 THEN q.batch ELSE <<>>], X)
<1>. DEFINE h == Head(q.work)
            r == [q EXCEPT !.work = Tail(@),
                           !.pc = IF Len(q.work) = 1 THEN "ack" ELSE "persist",
                           !.unacked = IF Len(q.work) = 1 THEN q.batch ELSE <<>>]
<1>1. q \in CollRecord(D) /\ q.work # <<>>
  BY DEF CollOK
<1>2. h \in Seq(D) /\ \A m \in 1..Len(h) : h[m] \in Nat
  <2>1. h \in Seq(D)
    BY <1>1 DEF CollRecord
  <2>. QED
    BY <2>1, ElementOfSeq
<1>3. /\ r.msgCh = q.msgCh /\ r.batch = q.batch
      /\ r.pc = (IF Len(q.work) = 1 THEN "ack" ELSE "persist")
  BY <1>1 DEF CollRecord
<1>4. ASSUME NEW c \in Nat, Holds(q, c)
      PROVE  \E d \in Nat : /\ Holds(r, d)
                            /\ \A i \in Nat : Load(r, d, i) + (IF i \in X THEN 1 ELSE 0) <= Load(q, c, i)
  <2>1. CutAt(q, Nat, c)
    BY <1>4 DEF Holds
  <2>2. c < Len(q.batch) /\ Len(h) \in Nat \ {0} /\ h[1] = q.batch[c + 1]
    BY <1>1, <2>1, CutFirst
  <2>3. Len(q.work) # 1 => CutAt(r, Nat, c + Len(h))
    BY <1>2, <2>1, RecordSliceDone
  <2>. HIDE DEF r
  <2>4. c + Len(h) \in Nat /\ Holds(r, c + Len(h)) /\ c + 1 <= c + Len(h) /\ c + 1 \in Nat
    BY <1>3, <2>2, <2>3 DEF Holds
  <2>5. ASSUME NEW i \in Nat
        PROVE  Load(r, c + Len(h), i) + (IF i \in X THEN 1 ELSE 0) <= Load(q, c, i)
    <3>1. Load(q, c, i) = Load(r, c + 1, i) + (IF q.batch[c + 1] = i THEN 1 ELSE 0)
      BY <1>1, <1>3, <2>2, LoadNext
    <3>2. Load(r, c + Len(h), i) <= Load(q, c + 1, i) /\ Load(r, c + 1, i) = Load(q, c + 1, i)
      BY <1>1, <1>3, <2>4, LoadSame DEF Load
    <3>3. Load(q, c + 1, i) \in Nat /\ Load(r, c + Len(h), i) \in Nat
      <4>1. Load(r, c + Len(h), i) = Load(q, c + Len(h), i)
        BY <1>3 DEF Load
      <4>. QED
        BY <1>1, <2>4, <4>1, LoadType
    <3>4. i \in X => q.batch[c + 1] = i
      BY <2>2
    <3>. QED
      BY <3>1, <3>2, <3>3, <3>4
  <2>. QED
    BY <2>4, <2>5
<1>. QED
  BY <1>4 DEF Handles

\* Collector k moves on its stream or leaves it, and writes a dead-letter row for
\* each message in X, at most one.
Moves(k, r, X) ==
    /\ coll[k].pc # "idle" /\ coll' = [coll EXCEPT ![k] = r]
    /\ \/ r = Idle /\ ended' = ended \cup {coll[k].stream}
       \/ /\ r.pc # "idle" /\ r.stream = coll[k].stream /\ ended' = ended
          /\ r.recv \in {coll[k].recv, "done"} /\ (r.last => r.recv = "done")
    /\ \/ faults' = faults + 1
       \/ faults' = faults /\ (coll[k].recv = "done" \/ r.recv = "running")
    /\ Handles(coll[k], r, X)
    /\ \/ X = {} /\ dlqRows' = dlqRows
       \/ \E x \in Ids : X = {x} /\ dlqRows' = [dlqRows EXCEPT ![content[x]] = @ + 1]
    /\ UNCHANGED <<issued, queued, retrying, owner, content, revoked>>

\* Every step of a collector between opening a stream and leaving it is such a
\* move.
LEMMA CollectorMoves ==
    ASSUME CollectorInv, StreamsOK, NEW k \in Collectors,
           \/ SelectStep(k) \/ FlushStep(k)
           \/ RecvEnds(k) \/ Crash(k) \/ PersistFails(k) \/ SendAckFails(k)
    PROVE  \E r, X : Moves(k, r, X)
<1>. DEFINE q == coll[k]
            Same == UNCHANGED <<issued, queued, retrying, owner, content, revoked>>
<1>1. q \in CollRecord(Ids) /\ CollOK(q, Ids, DurableIds, opened)
  BY CollFacts
<1>2. Ids \subseteq Nat /\ CollOK(q, Ids, Nat, opened)
  <2>1. Ids \subseteq Nat /\ DurableIds \subseteq Nat
    BY DEF CollectorInv, StoreInv, StoreTypeOK, Ids, DurableIds
  <2>. QED
    BY <1>1, <2>1, CollGrows
<1>3. /\ coll = [c \in Collectors |-> coll[c]] /\ q.recv \in {"running", "done"}
      /\ q.last \in BOOLEAN /\ (q.pc = "idle" => q = Idle) /\ (q.last => q.recv = "done")
  BY <1>1 DEF CollectorInv, CollsOK, StreamsOK, CollRecord
<1>4. ASSUME Return(k), q.pc # "idle", Same, dlqRows' = dlqRows,
             faults' = faults + 1 \/ (faults' = faults /\ q.recv = "done")
      PROVE  \E r, X : Moves(k, r, X)
  <2>1. Handles(q, Idle, {})
    BY <1>1, HandlesReturn
  <2>2. Moves(k, Idle, {})
    BY <1>4, <2>1 DEF Moves, Return
  <2>. QED
    BY <2>2
<1>5. ASSUME NEW r, NEW X, q.pc # "idle", coll' = [coll EXCEPT ![k] = r],
             r.pc # "idle", r.stream = q.stream, r.recv = q.recv, r.last => r.recv = "done",
             ended' = ended, faults' = faults, Same, Handles(q, r, X),
             \/ X = {} /\ dlqRows' = dlqRows
             \/ \E x \in Ids : X = {x} /\ dlqRows' = [dlqRows EXCEPT ![content[x]] = @ + 1]
      PROVE  \E rr, XX : Moves(k, rr, XX)
  <2>1. Moves(k, r, X)
    BY <1>3, <1>5 DEF Moves
  <2>. QED
    BY <2>1
<1>6. ASSUME TakeMsg(k) PROVE \E r, X : Moves(k, r, X)
  <2>. DEFINE batch == Append(q.batch, Head(q.msgCh))
              taken == [q EXCEPT !.msgCh = Tail(@), !.batch = batch]
              full == [taken EXCEPT !.pc = "persist", !.work = <<batch>>]
              r == IF Len(batch) < BatchSize THEN taken ELSE full
  <2>1. /\ q.pc = "select" /\ q.msgCh # <<>> /\ ended' = ended /\ faults' = faults
        /\ Same /\ dlqRows' = dlqRows
    BY <1>6 DEF TakeMsg, storeVars, database
  <2>2. coll' = [coll EXCEPT ![k] = r]
    BY <1>3, <1>6 DEF TakeMsg
  <2>3. batch \in Seq(Ids) /\ batch # <<>>
    <3>1. q.msgCh \in Seq(Ids) /\ q.batch \in Seq(Ids) /\ Head(q.msgCh) \in Ids
      BY <1>1, <2>1 DEF CollRecord
    <3>2. batch \in Seq(Ids) /\ Len(batch) = Len(q.batch) + 1 /\ Len(q.batch) \in Nat
      BY <3>1
    <3>. HIDE DEF batch
    <3>. QED
      BY <3>2, SeqNonEmpty
  <2>4. /\ taken.pc = "select" /\ taken.stream = q.stream /\ taken.recv = q.recv
        /\ taken.last = q.last /\ taken.msgCh = Tail(q.msgCh) /\ taken.batch = batch
        /\ full.pc = "persist" /\ full.stream = q.stream /\ full.recv = q.recv
        /\ full.last = q.last /\ full.msgCh = Tail(q.msgCh) /\ full.batch = batch
        /\ full.work = <<batch>>
    BY <1>1, <2>1 DEF CollRecord
  <2>. HIDE DEF taken, full
  <2>5. Holds(taken, 0) /\ Holds(full, 0)
    BY <2>3, <2>4, StartsAtZero DEF Holds
  <2>6. Handles(q, taken, {}) /\ Handles(q, full, {})
    BY <1>1, <2>1, <2>4, <2>5, HandlesTaken
  <2>. HIDE DEF batch
  <2>7. /\ r.pc # "idle" /\ r.stream = q.stream /\ r.recv = q.recv /\ r.last = q.last
        /\ Handles(q, r, {})
    BY <2>4, <2>6
  <2>. HIDE DEF r
  <2>. QED
    BY <1>3, <1>5, <2>1, <2>2, <2>7
<1>7. ASSUME NEW last \in BOOLEAN, Flush(k, q.batch, last), last => q.recv = "done",
             q.pc = "select", q.batch # <<>>, ended' = ended, faults' = faults,
             Same, dlqRows' = dlqRows
      PROVE  \E r, X : Moves(k, r, X)
  <2>. DEFINE r == [q EXCEPT !.batch = q.batch, !.last = last, !.pc = "persist",
                             !.work = <<q.batch>>]
  <2>1. coll' = [coll EXCEPT ![k] = r]
    BY <1>7 DEF Flush
  <2>2. /\ r.pc = "persist" /\ r.stream = q.stream /\ r.recv = q.recv /\ r.last = last
        /\ r.msgCh = q.msgCh /\ r.batch = q.batch /\ r.work = <<q.batch>>
        /\ q.batch \in Seq(Ids)
    BY <1>1 DEF CollRecord
  <2>. HIDE DEF r
  <2>3. Holds(r, 0)
    BY <1>7, <2>2, StartsAtZero DEF Holds
  <2>4. Handles(q, r, {})
    BY <1>1, <1>7, <2>2, <2>3, HandlesSame DEF Holds
  <2>. QED
    BY <1>5, <1>7, <2>1, <2>2, <2>4
<1>8. ASSUME Ticker(k) PROVE \E r, X : Moves(k, r, X)
  BY <1>7, <1>8 DEF Ticker, storeVars, database
<1>9. ASSUME StreamOver(k) PROVE \E r, X : Moves(k, r, X)
  <2>1. /\ q.pc = "select" /\ q.recv = "done" /\ faults' = faults
        /\ Same /\ dlqRows' = dlqRows
    BY <1>9 DEF StreamOver, storeVars, database
  <2>2. \/ Return(k)
        \/ q.batch # <<>> /\ Flush(k, q.batch, TRUE) /\ ended' = ended
    BY <1>9 DEF StreamOver
  <2>. QED
    BY <1>4, <1>7, <2>1, <2>2
<1>10. ASSUME Crash(k) PROVE \E r, X : Moves(k, r, X)
  BY <1>4, <1>10 DEF Crash, Fault, storeVars, database
<1>11. ASSUME SendAckFails(k) PROVE \E r, X : Moves(k, r, X)
  <2>1. /\ Return(k) /\ q.pc = "ack" /\ Same /\ dlqRows' = dlqRows
        /\ faults' = faults + 1 \/ (faults' = faults /\ q.recv = "done")
    BY <1>11 DEF SendAckFails, Fault, storeVars, database
  <2>. QED
    BY <1>4, <2>1
<1>12. ASSUME RecvEnds(k) PROVE \E r, X : Moves(k, r, X)
  <2>. DEFINE r == [q EXCEPT !.recv = "done"]
  <2>1. /\ coll' = [coll EXCEPT ![k] = r] /\ q.recv = "running" /\ ended' = ended
        /\ faults' = faults + 1 /\ Same /\ dlqRows' = dlqRows
    BY <1>12 DEF RecvEnds, Fault, storeVars, database
  <2>2. q.pc # "idle"
    BY <1>3, <2>1 DEF Idle
  <2>3. /\ r.pc = q.pc /\ r.stream = q.stream /\ r.recv = "done" /\ r.msgCh = q.msgCh
        /\ r.batch = q.batch /\ r.work = q.work
    BY <1>1 DEF CollRecord
  <2>. HIDE DEF r
  <2>4. \A c \in Nat : Holds(q, c) => Holds(r, c)
    <3>1. \A cut : Cuts(r, Nat, cut) <=> Cuts(q, Nat, cut)
      BY <2>3 DEF Cuts
    <3>. QED
      BY <2>3, <3>1 DEF Holds, CutAt
  <2>5. Handles(q, r, {})
    BY <1>1, <2>3, <2>4, HandlesSame
  <2>6. Moves(k, r, {})
    BY <2>1, <2>2, <2>3, <2>5 DEF Moves
  <2>. QED
    BY <2>6
<1>13. ASSUME NEW X, q.pc = "persist", SliceDone(k), ended' = ended, faults' = faults, Same,
              X = {} \/ (X = {Slice(k)[1]} /\ Len(Slice(k)) = 1),
              \/ X = {} /\ dlqRows' = dlqRows
              \/ \E x \in Ids : X = {x} /\ dlqRows' = [dlqRows EXCEPT ![content[x]] = @ + 1]
       PROVE  \E r, XX : Moves(k, r, XX)
  <2>. DEFINE r == [q EXCEPT !.work = Tail(@),
                             !.pc = IF Len(q.work) = 1 THEN "ack" ELSE "persist",
                             !.unacked = IF Len(q.work) = 1 THEN q.batch ELSE <<>>]
  <2>1. coll' = [coll EXCEPT ![k] = r]
    BY <1>13 DEF SliceDone
  <2>2. r.pc # "idle" /\ r.stream = q.stream /\ r.recv = q.recv /\ r.last = q.last
    BY <1>1 DEF CollRecord
  <2>3. Handles(q, r, X)
    BY <1>2, <1>13, HandlesSlice DEF Slice
  <2>. HIDE DEF r
  <2>. QED
    BY <1>3, <1>5, <1>13, <2>1, <2>2, <2>3
<1>14. ASSUME PersistOk(k) PROVE \E r, X : Moves(k, r, X)
  BY <1>13, <1>14 DEF PersistOk, storeVars
<1>15. ASSUME DeadLetterRow(k) PROVE \E r, X : Moves(k, r, X)
  <2>1. /\ q.pc = "persist" /\ Len(Slice(k)) = 1 /\ SliceDone(k)
        /\ ended' = ended /\ faults' = faults /\ Same
        /\ dlqRows' = [dlqRows EXCEPT ![content[Slice(k)[1]]] = @ + 1]
    BY <1>15 DEF DeadLetterRow, storeVars
  <2>2. Slice(k)[1] \in Ids
    BY <2>1, SliceFacts
  <2>. QED
    BY <1>13, <2>1, <2>2
<1>16. ASSUME Bisect(k) PROVE \E r, X : Moves(k, r, X)
  <2>. DEFINE h == Head(q.work)
              mid == Len(h) \div 2
              r == [q EXCEPT !.work =
                       <<SubSeq(h, 1, mid), SubSeq(h, mid + 1, Len(h))>> \o Tail(@)]
  <2>1. /\ q.pc = "persist" /\ Len(h) > 1 /\ coll' = [coll EXCEPT ![k] = r]
        /\ ended' = ended /\ faults' = faults /\ Same /\ dlqRows' = dlqRows
    BY <1>16 DEF Bisect, Slice, storeVars, database
  <2>2. /\ r.pc = "persist" /\ r.stream = q.stream /\ r.recv = q.recv /\ r.last = q.last
        /\ r.msgCh = q.msgCh /\ r.batch = q.batch
    BY <1>1, <2>1 DEF CollRecord
  <2>3. ASSUME NEW c \in Nat, CutAt(q, Nat, c) PROVE CutAt(r, Nat, c)
    BY <1>2, <2>1, <2>3, RecordBisect
  <2>. HIDE DEF r
  <2>4. Handles(q, r, {})
    BY <1>1, <2>1, <2>2, <2>3, HandlesSame DEF Holds
  <2>. QED
    BY <1>3, <1>5, <2>1, <2>2, <2>4
<1>17. ASSUME PersistFails(k) PROVE \E r, X : Moves(k, r, X)
  <2>1. q.pc = "persist" /\ Return(k) /\ faults' = faults + 1 /\ Same
    BY <1>17 DEF PersistFails, Fault, storeVars
  <2>2. CASE dlqRows' = dlqRows
    BY <1>4, <2>1, <2>2
  <2>3. CASE dlqRows' = [dlqRows EXCEPT ![content[Slice(k)[1]]] = @ + 1] /\ Len(Slice(k)) = 1
    <3>1. Slice(k)[1] \in Ids
      BY <2>1, <2>3, SliceFacts
    <3>2. Handles(q, Idle, {Slice(k)[1]})
      BY <1>1, <2>1, HandlesLast DEF Slice, CollOK
    <3>3. Moves(k, Idle, {Slice(k)[1]})
      BY <2>1, <2>3, <3>1, <3>2 DEF Moves, Return
    <3>. QED
      BY <3>3
  <2>. QED
    BY <1>17, <2>2, <2>3 DEF PersistFails, database
<1>18. ASSUME SendAck(k) PROVE \E r, X : Moves(k, r, X)
  <2>. DEFINE done == Len(q.unacked) = 1
              r == [q EXCEPT !.unacked = Tail(@), !.pc = IF done THEN "select" ELSE "ack",
                             !.batch = IF done THEN <<>> ELSE @]
  <2>1. /\ q.pc = "ack" /\ faults' = faults /\ Same /\ dlqRows' = dlqRows
        /\ \/ q.last /\ Return(k)
           \/ coll' = [coll EXCEPT ![k] = r] /\ ended' = ended
    BY <1>18 DEF SendAck, storeVars, database
  <2>2. /\ r.pc = (IF done THEN "select" ELSE "ack") /\ r.stream = q.stream
        /\ r.recv = q.recv /\ r.last = q.last
        /\ r.msgCh = q.msgCh /\ r.batch = (IF done THEN <<>> ELSE q.batch)
    BY <1>1 DEF CollRecord
  <2>. HIDE DEF r, done
  <2>3. Handles(q, r, {})
    <3>1. CASE done
      BY <1>1, <2>2, <3>1, HandlesAcked
    <3>2. CASE ~done
      BY <1>1, <2>2, <3>2, HandlesSame DEF Holds
    <3>. QED
      BY <3>1, <3>2
  <2>. QED
    BY <1>3, <1>4, <1>5, <2>1, <2>2, <2>3
<1>. QED
  BY <1>6, <1>8, <1>9, <1>10, <1>11, <1>12, <1>14, <1>15, <1>16, <1>17, <1>18
     DEF SelectStep, FlushStep

\* The broker, the network and the sweeper break no stream.
LEMMA StreamsKeep ==
    ASSUME StreamsOK, coll' = coll, ended' = ended, faults' = faults,
           revoked' \in [Consumers -> Nat], IsFiniteSet(Units(revoked'))
    PROVE  StreamsOK' /\ Gone' = Gone
<1>1. Gone' = Gone
  BY DEF Gone, Broken
<1>. QED
  BY <1>1 DEF StreamsOK

\* One more lease expired.
LEMMA ExpiresOnce ==
    ASSUME StreamsOK, NEW s \in Consumers, revoked' = [revoked EXCEPT ![s] = @ + 1]
    PROVE  /\ revoked' \in [Consumers -> Nat] /\ IsFiniteSet(Units(revoked'))
           /\ Expired \in Nat /\ Expired' = Expired + 1
<1>1. revoked \in [Consumers -> Nat] /\ IsFiniteSet(Units(revoked))
  BY DEF StreamsOK
<1>2. /\ IsFiniteSet(Units(revoked')) /\ revoked' \in [Consumers -> Nat]
      /\ Total(revoked) \in Nat /\ Total(revoked') = Total(revoked) + 1
  BY <1>1, TotalIncrement
<1>. QED
  BY <1>2 DEF Expired

\* A collector that receives has a stream of its own.
LEMMA ReceiverBusy ==
    ASSUME StreamsOK, NEW k \in Collectors, coll[k].recv = "running"
    PROVE  coll[k].pc # "idle"
  BY DEF StreamsOK, Idle

\* Broken streams stay broken, and there are no more of them than failures.
LEMMA StreamsStep ==
    ASSUME CollectorInv, StreamsOK, Next
    PROVE  StreamsOK' /\ Gone \subseteq Gone'
<1>1. revoked \in [Consumers -> Nat] /\ IsFiniteSet(Units(revoked))
  BY DEF StreamsOK
<1>2. ASSUME \/ \E x \in Readings : Offer(x)
             \/ \E s \in Consumers : \/ AckArrives(s) \/ AcksLost(s)
                                     \/ \E i \in Leased : ServerReleases(s, i)
      PROVE  StreamsOK' /\ Gone \subseteq Gone'
  <2>1. coll' = coll /\ ended' = ended /\ faults' = faults /\ revoked' = revoked
    BY <1>2 DEF Offer, AckArrives, AcksLost, ServerReleases
  <2>. QED
    BY <1>1, <2>1, StreamsKeep
<1>3. ASSUME NEW i \in Leased, LeaseExpires(i) PROVE StreamsOK' /\ Gone \subseteq Gone'
  <2>1. /\ coll' = coll /\ ended' = ended /\ faults' = faults
        /\ revoked' = [revoked EXCEPT ![owner[i]] = @ + 1]
    BY <1>3 DEF LeaseExpires
  <2>2. owner[i] \in Consumers
    BY DEF CollectorInv, StoreInv, StoreTypeOK
  <2>3. revoked' \in [Consumers -> Nat] /\ IsFiniteSet(Units(revoked'))
    BY <2>1, <2>2, ExpiresOnce
  <2>. QED
    BY <2>1, <2>3, StreamsKeep
<1>4. ASSUME NEW k \in Collectors, NEW i \in queued \cup retrying, Deliver(k, i)
      PROVE  StreamsOK' /\ Gone \subseteq Gone'
  <2>. DEFINE r == [coll[k] EXCEPT !.msgCh = Append(@, i)]
  <2>1. /\ coll' = [coll EXCEPT ![k] = r] /\ revoked' = revoked /\ ended' = ended
        /\ faults' = faults /\ coll[k].recv = "running"
    BY <1>4 DEF Deliver
  <2>2. coll[k].pc # "idle"
    BY <2>1, ReceiverBusy
  <2>3. coll[k] \in CollRecord(Ids) /\ (coll[k].last => coll[k].recv = "done")
    BY CollFacts DEF StreamsOK
  <2>4. /\ r.pc = coll[k].pc /\ r.stream = coll[k].stream /\ r.recv = coll[k].recv
        /\ r.last = coll[k].last
    BY <2>3 DEF CollRecord
  <2>. HIDE DEF r
  <2>. QED
    BY <2>1, <2>2, <2>3, <2>4, StreamsMove
<1>5. ASSUME NEW k \in Collectors, NEW r, NEW X, Moves(k, r, X)
      PROVE  StreamsOK' /\ Gone \subseteq Gone'
  BY <1>5, StreamsMove DEF Moves
<1>6. ASSUME NEW k \in Collectors, NEW s \in Consumers, OpenStream(k, s)
      PROVE  StreamsOK' /\ Gone \subseteq Gone'
  <2>. DEFINE r == [Idle EXCEPT !.pc = "select", !.stream = s, !.recv = "running"]
  <2>1. /\ coll[k].pc = "idle" /\ s \notin opened /\ coll' = [coll EXCEPT ![k] = r]
        /\ ended' = ended /\ revoked' = revoked /\ faults' = faults
    BY <1>6 DEF OpenStream
  <2>2. r.pc = "select" /\ r.stream = s /\ r.recv = "running" /\ r.last = FALSE
    BY DEF Idle
  <2>. HIDE DEF r
  <2>3. coll'[k] = r /\ \A l \in Collectors : l # k => coll'[l] = coll[l]
    BY <2>1 DEF CollectorInv, CollsOK
  <2>4. coll[k].stream = "none" /\ "none" \notin Consumers
    BY <2>1, CollectorAssumption DEF StreamsOK, Idle
  <2>5. \A t \in Consumers : Broken(t)' <=> Broken(t)
    BY <2>1, <2>2, <2>3, <2>4 DEF Broken
  <2>6. Gone' = Gone
    BY <2>5 DEF Gone
  <2>7. ASSUME NEW l \in Collectors
        PROVE  /\ coll'[l].pc = "idle" => coll'[l] = Idle
               /\ coll'[l].pc # "idle" => coll'[l].stream \notin ended'
               /\ coll'[l].last => coll'[l].recv = "done"
    <3>1. s \notin ended
      BY <2>1 DEF CollectorInv, AcksOK
    <3>2. CASE l = k
      BY <2>1, <2>2, <2>3, <3>1, <3>2
    <3>3. CASE l # k
      BY <2>1, <2>3, <3>3 DEF StreamsOK
    <3>. QED
      BY <3>2, <3>3
  <2>8. ASSUME NEW l \in Collectors, NEW m \in Collectors, coll'[l].pc # "idle",
               coll'[m].pc # "idle", coll'[l].stream = coll'[m].stream
        PROVE  l = m
    <3>1. \A c \in Collectors : c # k /\ coll'[c].pc # "idle" => coll'[c].stream # s
      BY <2>1, <2>3, CollFacts
    <3>. QED
      BY <2>2, <2>3, <2>8, <3>1 DEF StreamsOK
  <2>. QED
    BY <1>1, <2>1, <2>6, <2>7, <2>8 DEF StreamsOK
<1>. QED
  BY <1>2, <1>3, <1>4, <1>5, <1>6, CollectorMoves DEF Next

-----------------------------------------------------------------------------
(* The ledger.  written[r][i] is how many dead-letter rows of reading r      *)
(* message i has cost, at[k] how far collector k is in its batch.  Rows      *)
(* written, copies in buffers and a delivery to come are paid for by the     *)
(* first delivery, the broken streams that had the message, and expired      *)
(* leases.                                                                   *)

\* Who still has copies of message i.
Loads(at, i) == [k \in Collectors |-> Load(coll[k], at[k], i)]

\* Message i waits for a delivery.
Waiting(i) == IF i \in queued \cup retrying THEN 1 ELSE 0

\* Broken streams that do not hold the lease of message i.
Away(i) == {s \in Gone : i \notin Owned(s)}

Pays(written, at, i) ==
    /\ IsFiniteSet(Units(Loads(at, i)))
    /\ written[content[i]][i] + Total(Loads(at, i)) + Waiting(i) <= 1 + Cardinality(Away(i)) + Expired

Rows(written, r) ==
    /\ IsFiniteSet(Units(written[r])) /\ dlqRows[r] = Total(written[r])
    /\ \A i \in Nat : written[r][i] > 0 => i \in Ids /\ content[i] = r

Balanced(written, at) ==
    /\ \A r \in Readings : Rows(written, r)
    /\ \A k \in Collectors : Holds(coll[k], at[k])
    /\ \A i \in Ids : Pays(written, at, i)

Ledger ==
    \E written \in [Readings -> [Nat -> Nat]], at \in [Collectors -> Nat] : Balanced(written, at)

\* One collector's load changes, and with it the copies of a message.
LEMMA LoadsChange ==
    ASSUME CollectorInv, CollectorInv', NEW i, NEW k \in Collectors, NEW r,
           coll' = [coll EXCEPT ![k] = r],
           NEW at \in [Collectors -> Nat], NEW now \in [Collectors -> Nat],
           \A l \in Collectors : l # k => now[l] = at[l],
           IsFiniteSet(Units(Loads(at, i)))
    PROVE  /\ IsFiniteSet(Units(Loads(now, i)'))
           /\ Total(Loads(at, i)) \in Nat /\ Total(Loads(now, i)') \in Nat
           /\ Load(coll[k], at[k], i) \in Nat /\ Load(r, now[k], i) \in Nat
           /\ Total(Loads(now, i)') + Load(coll[k], at[k], i)
                = Total(Loads(at, i)) + Load(r, now[k], i)
<1>. DEFINE d == now[k]
            f == Loads(at, i)
            g == [f EXCEPT ![k] = Load(r, d, i)]
<1>1. coll'[k] = r /\ \A l \in Collectors : l # k => coll'[l] = coll[l]
  BY DEF CollectorInv, CollsOK
<1>2. d \in Nat /\ d = now[k]
  OBVIOUS
<1>. HIDE DEF d
<1>3. \A l \in Collectors : coll[l] \in CollRecord(Ids)
  BY CollFacts
<1>4. r \in CollRecord(Ids')
  BY <1>1 DEF CollectorInv, CollsOK, CollOK
<1>5. f \in [Collectors -> Nat]
  BY <1>3, LoadType DEF Loads
<1>6. Load(r, d, i) \in Nat /\ f[k] = Load(coll[k], at[k], i) /\ f[k] \in Nat
  BY <1>2, <1>4, <1>5, LoadType DEF Loads
<1>7. Loads(now, i)' = [l \in Collectors |-> Load(coll'[l], now[l], i)]
  BY DEF Loads
<1>8. Loads(now, i)' = g
  <2>1. ASSUME NEW l \in Collectors PROVE g[l] = Load(coll'[l], now[l], i)
    BY <1>1, <1>2, <1>5, <1>6 DEF Loads
  <2>2. g = [l \in Collectors |-> g[l]]
    BY <1>5
  <2>. QED
    BY <1>7, <2>1, <2>2
<1>9. /\ IsFiniteSet(Units(g)) /\ Total(f) \in Nat /\ Total(g) \in Nat
      /\ Total(g) = (Total(f) - f[k]) + Load(r, d, i)
  <2>. HIDE DEF f
  <2>. QED
    BY <1>5, <1>6, TotalChange DEF f
<1>. HIDE DEF f, g
<1>10. Total(g) + f[k] = Total(f) + Load(r, d, i)
  BY <1>6, <1>9
<1>. QED
  BY <1>2, <1>6, <1>8, <1>9, <1>10 DEF f

\* A part of at most n elements has at most n elements.
LEMMA PartCounted ==
    ASSUME NEW n \in Nat, NEW S, IsFiniteSet(S), Cardinality(S) <= n, NEW T, T \subseteq S
    PROVE  IsFiniteSet(T) /\ Cardinality(T) \in Nat /\ Cardinality(T) <= n
<1>1. IsFiniteSet(T) /\ Cardinality(T) <= Cardinality(S)
  BY FS_Subset
<1>2. Cardinality(T) \in Nat /\ Cardinality(S) \in Nat
  BY <1>1, FS_CardinalityType
<1>. QED
  BY <1>1, <1>2

\* The broken streams a message has left are counted.
LEMMA AwayFinite ==
    ASSUME StreamsOK, NEW i
    PROVE  /\ IsFiniteSet(Away(i)) /\ Cardinality(Away(i)) \in Nat
           /\ Cardinality(Away(i)) <= faults
           /\ Waiting(i) \in Nat /\ Waiting(i) <= 1 /\ Expired \in Nat
<1>1. /\ IsFiniteSet(Away(i)) /\ Cardinality(Away(i)) \in Nat
      /\ Cardinality(Away(i)) <= faults
  <2>1. Away(i) \subseteq Gone
    BY DEF Away
  <2>. QED
    BY <2>1, PartCounted DEF StreamsOK
<1>2. Expired \in Nat
  BY FS_CardinalityType DEF StreamsOK, Expired, Total
<1>3. Waiting(i) \in Nat /\ Waiting(i) <= 1
  BY DEF Waiting
<1>. QED
  BY <1>1, <1>2, <1>3

\* They are after a step, too.
LEMMA AwayFiniteNext ==
    ASSUME StreamsOK', NEW i
    PROVE  /\ IsFiniteSet(Away(i)') /\ Cardinality(Away(i)') \in Nat
           /\ Waiting(i)' \in Nat /\ Waiting(i)' <= 1 /\ Expired' \in Nat
<1>1. IsFiniteSet(Away(i)') /\ Cardinality(Away(i)') \in Nat
  <2>1. Away(i)' \subseteq Gone'
    BY DEF Away
  <2>. QED
    BY <2>1, PartCounted DEF StreamsOK
<1>2. Expired' \in Nat
  BY FS_CardinalityType DEF StreamsOK, Expired, Total
<1>3. Waiting(i)' \in Nat /\ Waiting(i)' <= 1
  BY DEF Waiting
<1>. QED
  BY <1>1, <1>2, <1>3

\* A message leaves no broken stream behind by a step that gives it no lease.
LEMMA AwayGrows ==
    ASSUME StreamsOK, StreamsOK', Gone \subseteq Gone', NEW i,
           \A s \in Gone : i \in Owned(s)' => i \in Owned(s)
    PROVE  Cardinality(Away(i)) <= Cardinality(Away(i)')
<1>1. Away(i) \subseteq Away(i)'
  BY DEF Away
<1>2. IsFiniteSet(Away(i)')
  BY AwayFiniteNext
<1>. QED
  BY <1>1, <1>2, FS_Subset

\* One more row for a message.
LEMMA OneRow ==
    ASSUME NEW old \in [Nat -> Nat], NEW x \in Nat, IsFiniteSet(Units(old)),
           NEW new, new = [old EXCEPT ![x] = old[x] + 1]
    PROVE  IsFiniteSet(Units(new)) /\ Total(new) = Total(old) + 1 /\ Total(old) \in Nat
  BY TotalIncrement

\* The rows of the ledger follow the table.
LEMMA RowsWritten ==
    ASSUME CollectorInv, NEW written \in [Readings -> [Nat -> Nat]],
           \A y \in Readings : Rows(written, y), UNCHANGED <<issued, content>>, NEW X
    PROVE  \/ X = {} /\ dlqRows' = dlqRows
           \/ \E x \in Ids : X = {x} /\ dlqRows' = [dlqRows EXCEPT ![content[x]] = @ + 1]
           => \E now \in [Readings -> [Nat -> Nat]] :
              /\ \A y \in Readings : Rows(now, y)'
              /\ \A i \in Ids : now[content[i]][i]
                                  = written[content[i]][i] + (IF i \in X THEN 1 ELSE 0)
<1>0. /\ Ids' = Ids /\ content' = content /\ content \in [Ids -> Readings] /\ Ids \subseteq Nat
      /\ dlqRows \in [Readings -> Nat]
  BY ContentType DEF CollectorInv, TablesOK, StoreInv, StoreTypeOK, Ids
<1>1. CASE X = {} /\ dlqRows' = dlqRows
  <2>1. \A y \in Readings : Rows(written, y)'
    BY <1>0, <1>1 DEF Rows
  <2>2. \A i \in Ids : written[content[i]][i] \in Nat
    BY <1>0
  <2>3. \A i \in Ids : written[content[i]][i]
                         = written[content[i]][i] + (IF i \in X THEN 1 ELSE 0)
    BY <1>1, <2>2
  <2>. QED
    BY <2>1, <2>3
<1>2. ASSUME NEW x \in Ids, X = {x}, dlqRows' = [dlqRows EXCEPT ![content[x]] = @ + 1]
      PROVE  \E now \in [Readings -> [Nat -> Nat]] :
                /\ \A y \in Readings : Rows(now, y)'
                /\ \A i \in Ids : now[content[i]][i]
                                    = written[content[i]][i] + (IF i \in X THEN 1 ELSE 0)
  <2>1. PICK z \in Readings : z = content[x]
    BY <1>0
  <2>. DEFINE old == written[z]
              n == old[x] + 1
              new == [old EXCEPT ![x] = n]
              now == [written EXCEPT ![z] = new]
  <2>2. old \in [Nat -> Nat] /\ x \in Nat /\ n \in Nat /\ old[x] \in Nat
    BY <1>0
  <2>3. new \in [Nat -> Nat] /\ new[x] = n /\ \A i \in Nat : i # x => new[i] = old[i]
    <3>. HIDE DEF n, old
    <3>. QED
      BY <2>2
  <2>4. now \in [Readings -> [Nat -> Nat]] /\ now[z] = new
        /\ \A y \in Readings : y # z => now[y] = written[y]
    <3>. HIDE DEF new
    <3>. QED
      BY <2>3
  <2>5. IsFiniteSet(Units(new)) /\ Total(new) = Total(old) + 1 /\ Total(old) \in Nat
    <3>1. IsFiniteSet(Units(old))
      BY DEF Rows
    <3>2. new = [old EXCEPT ![x] = old[x] + 1]
      OBVIOUS
    <3>. HIDE DEF old, new
    <3>. QED
      BY <2>2, <3>1, <3>2, OneRow
  <2>6. old = written[z] /\ n = old[x] + 1
    OBVIOUS
  <2>. HIDE DEF now, new, n, old
  <2>7. ASSUME NEW y \in Readings PROVE Rows(now, y)'
    <3>1. CASE y # z
      <4>1. now[y] = written[y] /\ dlqRows'[y] = dlqRows[y] /\ Rows(written, y)
        BY <1>0, <1>2, <2>1, <2>4, <3>1
      <4>. QED
        BY <1>0, <4>1 DEF Rows
    <3>2. CASE y = z
      <4>1. dlqRows'[z] = dlqRows[z] + 1 /\ dlqRows[z] = Total(old)
        BY <1>0, <1>2, <2>1, <2>6 DEF Rows
      <4>2. \A i \in Nat : new[i] > 0 => i \in Ids /\ content[i] = z
        BY <2>1, <2>3, <2>6 DEF Rows
      <4>. QED
        BY <1>0, <2>4, <2>5, <3>2, <4>1, <4>2 DEF Rows
    <3>. QED
      BY <3>1, <3>2
  <2>8. ASSUME NEW i \in Ids
        PROVE  now[content[i]][i] = written[content[i]][i] + (IF i \in X THEN 1 ELSE 0)
    <3>1. content[i] \in Readings /\ i \in Nat /\ written[content[i]][i] \in Nat
      BY <1>0
    <3>2. CASE i = x
      <4>1. now[content[i]][i] = new[x] /\ written[content[i]][i] = old[x]
        BY <2>1, <2>4, <2>6, <3>2
      <4>. QED
        BY <1>2, <2>3, <2>6, <3>2, <4>1
    <3>3. CASE i # x
      <4>1. now[content[i]][i] = written[content[i]][i]
        BY <2>3, <2>4, <2>6, <3>1, <3>3
      <4>. QED
        BY <1>2, <3>1, <3>3, <4>1
    <3>. QED
      BY <3>2, <3>3
  <2>. QED
    BY <2>4, <2>7, <2>8
<1>. QED
  BY <1>1, <1>2

\* A step of one collector is paid for.
LEMMA LedgerOneColl ==
    ASSUME CollectorInv, CollectorInv', StreamsOK, StreamsOK',
           NEW written \in [Readings -> [Nat -> Nat]], NEW at \in [Collectors -> Nat],
           Balanced(written, at), UNCHANGED <<issued, content>>,
           NEW k \in Collectors, NEW r, coll' = [coll EXCEPT ![k] = r],
           NEW d \in Nat, Holds(r, d), NEW X
    PROVE  /\ \/ X = {} /\ dlqRows' = dlqRows
              \/ \E x \in Ids : X = {x} /\ dlqRows' = [dlqRows EXCEPT ![content[x]] = @ + 1]
           /\ \A i \in Ids :
                 Load(r, d, i) + (IF i \in X THEN 1 ELSE 0) + Waiting(i)'
                      + Cardinality(Away(i)) + Expired
                   <= Load(coll[k], at[k], i) + Waiting(i) + Cardinality(Away(i)') + Expired'
           => Ledger'
<1>5. SUFFICES ASSUME \/ X = {} /\ dlqRows' = dlqRows
                      \/ \E x \in Ids : X = {x} /\ dlqRows' = [dlqRows EXCEPT ![content[x]] = @ + 1],
                      \A i \in Ids :
                         Load(r, d, i) + (IF i \in X THEN 1 ELSE 0) + Waiting(i)'
                              + Cardinality(Away(i)) + Expired
                           <= Load(coll[k], at[k], i) + Waiting(i) + Cardinality(Away(i)') + Expired'
               PROVE  Ledger'
  OBVIOUS
<1>0. Ids' = Ids /\ content' = content /\ content \in [Ids -> Readings] /\ Ids \subseteq Nat
  BY ContentType DEF CollectorInv, StoreInv, StoreTypeOK, Ids
<1>1. PICK rowsNow \in [Readings -> [Nat -> Nat]] :
              /\ \A y \in Readings : Rows(rowsNow, y)'
              /\ \A i \in Ids : rowsNow[content[i]][i]
                                  = written[content[i]][i] + (IF i \in X THEN 1 ELSE 0)
  <2>1. \A y \in Readings : Rows(written, y)
    BY DEF Balanced
  <2>. QED
    BY <1>5, <2>1, RowsWritten
<1>2. PICK now \in [Collectors -> Nat] : now = [at EXCEPT ![k] = d]
  OBVIOUS
<1>3. ASSUME NEW l \in Collectors PROVE Holds(coll[l], now[l])'
  <2>1. coll'[k] = r /\ \A m \in Collectors : m # k => coll'[m] = coll[m]
    BY DEF CollectorInv, CollsOK
  <2>2. now[k] = d /\ \A m \in Collectors : m # k => now[m] = at[m]
    BY <1>2
  <2>3. Holds(coll'[l], now[l])
    BY <2>1, <2>2 DEF Balanced
  <2>. QED
    BY <2>3
<1>4. ASSUME NEW i \in Ids PROVE Pays(rowsNow, now, i)'
  <2>. DEFINE a == written[content[i]][i]
              L == Total(Loads(at, i))
              LL == Total(Loads(now, i)')
              x == IF i \in X THEN 1 ELSE 0
              q == Load(coll[k], at[k], i)
              p == Load(r, d, i)
  <2>1. IsFiniteSet(Units(Loads(at, i))) /\ a + L + Waiting(i) <= 1 + Cardinality(Away(i)) + Expired
    BY DEF Balanced, Pays
  <2>2. /\ IsFiniteSet(Units(Loads(now, i)')) /\ L \in Nat /\ LL \in Nat /\ q \in Nat /\ p \in Nat
        /\ LL + q = L + p
    <3>1. IsFiniteSet(Units(Loads(at, i)))
      BY <2>1
    <3>2. now[k] = d /\ \A l \in Collectors : l # k => now[l] = at[l]
      BY <1>2
    <3>3. /\ IsFiniteSet(Units(Loads(now, i)')) /\ L \in Nat /\ LL \in Nat /\ q \in Nat
          /\ Load(r, now[k], i) \in Nat /\ LL + q = L + Load(r, now[k], i)
      BY <3>1, <3>2, LoadsChange
    <3>. QED
      BY <3>2, <3>3
  <2>3. a \in Nat /\ x \in Nat
    BY <1>0
  <2>4. Cardinality(Away(i)) \in Nat /\ Waiting(i) \in Nat /\ Expired \in Nat
    BY AwayFinite
  <2>5. Cardinality(Away(i)') \in Nat /\ Waiting(i)' \in Nat /\ Expired' \in Nat
    BY AwayFiniteNext
  <2>6. p + x + Waiting(i)' + Cardinality(Away(i)) + Expired
          <= q + Waiting(i) + Cardinality(Away(i)') + Expired'
    BY <1>5
  <2>7. rowsNow[content[i]][i] = a + x
    BY <1>1
  <2>. HIDE DEF a, L, LL, x, q, p
  <2>8. (a + x) + LL + Waiting(i)' <= 1 + Cardinality(Away(i)') + Expired'
    BY <2>1, <2>2, <2>3, <2>4, <2>5, <2>6
  <2>9. rowsNow[content'[i]][i] = a + x
    BY <1>0, <2>7
  <2>. QED
    BY <2>2, <2>8, <2>9 DEF Pays, LL
<1>. QED
  BY <1>0, <1>1, <1>3, <1>4 DEF Ledger, Balanced

\* A step of the broker, the network or the sweeper is paid for.
LEMMA LedgerKeeps ==
    ASSUME CollectorInv, CollectorInv', StreamsOK, StreamsOK', Ledger,
           coll' = coll, dlqRows' = dlqRows, Ids \subseteq Ids',
           \A i \in Ids : content'[i] = content[i]
    PROVE  (\A i \in Ids : Waiting(i)' + Cardinality(Away(i)) + Expired
                             <= Waiting(i) + Cardinality(Away(i)') + Expired')
           => Ledger'
<1>1. SUFFICES ASSUME \A i \in Ids : Waiting(i)' + Cardinality(Away(i)) + Expired
                                       <= Waiting(i) + Cardinality(Away(i)') + Expired'
               PROVE  Ledger'
  OBVIOUS
<1>2. PICK written \in [Readings -> [Nat -> Nat]], at \in [Collectors -> Nat] :
              Balanced(written, at)
  BY DEF Ledger
<1>3. /\ content \in [Ids -> Readings] /\ content' \in [Ids' -> Readings]
      /\ Ids \subseteq Nat /\ Ids' \subseteq Nat
  <2>1. content \in [Ids -> Readings] /\ content' \in [Ids' -> Readings]
    BY DEF CollectorInv, TablesOK, Ids
  <2>2. Ids \subseteq Nat /\ Ids' \subseteq Nat
    BY DEF CollectorInv, StoreInv, StoreTypeOK, Ids
  <2>. QED
    BY <2>1, <2>2
<1>4. \A y \in Readings : Rows(written, y)'
  BY <1>2 DEF Balanced, Rows
<1>5. \A k \in Collectors : Holds(coll[k], at[k])'
  BY <1>2 DEF Balanced
<1>6. ASSUME NEW i PROVE Loads(at, i)' = Loads(at, i)
  BY DEF Loads
<1>7. ASSUME NEW i \in Ids PROVE Pays(written, at, i)'
  <2>. DEFINE a == written[content[i]][i]
              L == Total(Loads(at, i))
  <2>1. /\ IsFiniteSet(Units(Loads(at, i)))
        /\ a + L + Waiting(i) <= 1 + Cardinality(Away(i)) + Expired
    BY <1>2 DEF Balanced, Pays
  <2>2. a \in Nat /\ L \in Nat
    BY <1>3, <2>1, FS_CardinalityType DEF Total
  <2>3. Cardinality(Away(i)) \in Nat /\ Waiting(i) \in Nat /\ Expired \in Nat
    BY AwayFinite
  <2>4. Cardinality(Away(i)') \in Nat /\ Waiting(i)' \in Nat /\ Expired' \in Nat
    BY AwayFiniteNext
  <2>5. Waiting(i)' + Cardinality(Away(i)) + Expired
          <= Waiting(i) + Cardinality(Away(i)') + Expired'
    BY <1>1
  <2>6. written[content'[i]][i] = a /\ Loads(at, i)' = Loads(at, i)
    BY <1>6
  <2>. HIDE DEF a
  <2>7. a + L + Waiting(i)' <= 1 + Cardinality(Away(i)') + Expired'
    <3>. HIDE DEF L
    <3>. QED
      BY <2>1, <2>2, <2>3, <2>4, <2>5
  <2>. QED
    BY <2>1, <2>6, <2>7 DEF Pays
<1>8. ASSUME NEW i \in Ids', i \notin Ids PROVE Pays(written, at, i)'
  <2>1. written[content'[i]][i] = 0
    <3>1. i \in Nat /\ content'[i] \in Readings /\ written[content'[i]][i] \in Nat
      BY <1>3
    <3>2. ~(written[content'[i]][i] > 0)
      BY <1>2, <1>8, <3>1 DEF Balanced, Rows
    <3>. QED
      BY <3>1, <3>2
  <2>2. \A k \in Collectors : Load(coll[k], at[k], i) = 0
    BY <1>8, CollFacts, LoadType
  <2>3. IsFiniteSet(Units(Loads(at, i))) /\ Total(Loads(at, i)) = 0
    <3>1. /\ DOMAIN Loads(at, i) = Collectors
          /\ \A k \in Collectors : Loads(at, i)[k] = 0
      BY <2>2 DEF Loads
    <3>. QED
      BY <3>1, TotalZero
  <2>4. Cardinality(Away(i)') \in Nat /\ Waiting(i)' \in Nat /\ Waiting(i)' <= 1 /\ Expired' \in Nat
    BY AwayFiniteNext
  <2>5. 0 + 0 + Waiting(i)' <= 1 + Cardinality(Away(i)') + Expired'
    BY <2>4
  <2>. QED
    BY <1>6, <2>1, <2>3, <2>5 DEF Pays
<1>9. \A i \in Ids' : Pays(written, at, i)'
  BY <1>7, <1>8
<1>. QED
  BY <1>2, <1>4, <1>5, <1>9 DEF Ledger, Balanced

\* A lease ends: only its holder loses something.
LEMMA LeaseEnds ==
    ASSUME StoreTypeOK, NEW x \in Leased, owner' = DropLeases({x}), NEW s
    PROVE  Owned(s)' = Owned(s) \ {x}
<1>1. /\ Leased' = Leased \ {x} /\ \A i \in Leased' : owner'[i] = owner[i]
  BY DEF DropLeases, Leased
<1>. QED
  BY <1>1 DEF Owned

\* What a message may cost is covered when no lease comes and its place does
\* not change.
LEMMA StaysPaid ==
    ASSUME StreamsOK, StreamsOK', Gone \subseteq Gone', NEW i, Expired <= Expired',
           Waiting(i)' = Waiting(i), \A s \in Gone : i \in Owned(s)' => i \in Owned(s)
    PROVE  Waiting(i)' + Cardinality(Away(i)) + Expired
             <= Waiting(i) + Cardinality(Away(i)') + Expired'
<1>1. Cardinality(Away(i)) \in Nat /\ Waiting(i) \in Nat /\ Expired \in Nat
  BY AwayFinite
<1>2. Cardinality(Away(i)') \in Nat /\ Waiting(i)' \in Nat /\ Expired' \in Nat
  BY AwayFiniteNext
<1>3. Cardinality(Away(i)) <= Cardinality(Away(i)')
  BY AwayGrows
<1>. QED
  BY <1>1, <1>2, <1>3

\* Every step leaves the ledger balanced.
LEMMA LedgerStep ==
    ASSUME CollectorInv, CollectorInv', StreamsOK, Ledger, Next
    PROVE  Ledger'
<1>1. StreamsOK' /\ Gone \subseteq Gone'
  BY StreamsStep
<1>2. /\ StoreTypeOK /\ OneCustodian /\ issued \in Nat
      /\ queued \cup retrying \subseteq Ids /\ Leased \subseteq Ids
  BY DEF CollectorInv, StoreInv, StoreTypeOK, Ids
<1>3. \A k \in Collectors : coll[k] \in CollRecord(Ids)
  BY CollFacts
<1>4. ASSUME NEW x \in Readings, Offer(x) PROVE Ledger'
  <2>1. /\ coll' = coll /\ dlqRows' = dlqRows /\ revoked' = revoked /\ owner' = owner
        /\ issued' = issued + 1 /\ content' = Append(content, x)
        /\ queued' = queued \cup {issued + 1} /\ retrying' = retrying
    BY <1>4 DEF Offer, Admit, database
  <2>2. Ids \subseteq Ids' /\ issued + 1 \notin Ids
    BY <1>2, <2>1 DEF Ids
  <2>3. \A i \in Ids : content'[i] = content[i]
    BY <1>2, <2>1 DEF CollectorInv, TablesOK, Ids
  <2>4. ASSUME NEW i \in Ids
        PROVE  Waiting(i)' + Cardinality(Away(i)) + Expired
                 <= Waiting(i) + Cardinality(Away(i)') + Expired'
    <3>1. Waiting(i)' = Waiting(i)
      BY <2>1, <2>2 DEF Waiting
    <3>2. \A s \in Gone : Owned(s)' = Owned(s)
      BY <2>1 DEF Owned, Leased
    <3>3. Expired <= Expired'
      BY <2>1, AwayFinite DEF Expired
    <3>. QED
      BY <1>1, <3>1, <3>2, <3>3, StaysPaid
  <2>. QED
    BY <1>1, <2>1, <2>2, <2>3, <2>4, LedgerKeeps
<1>5. ASSUME coll' = coll, dlqRows' = dlqRows, issued' = issued, content' = content,
             \A i \in Ids : Waiting(i)' + Cardinality(Away(i)) + Expired
                              <= Waiting(i) + Cardinality(Away(i)') + Expired'
      PROVE  Ledger'
  <2>1. Ids' = Ids
    BY <1>5 DEF Ids
  <2>. QED
    BY <1>1, <1>5, <2>1, LedgerKeeps
<1>6. ASSUME NEW s \in Consumers, AckArrives(s) \/ AcksLost(s) PROVE Ledger'
  <2>1. /\ coll' = coll /\ dlqRows' = dlqRows /\ revoked' = revoked
        /\ issued' = issued /\ content' = content
        /\ queued' = queued /\ retrying' = retrying
        /\ owner' = owner \/ \E x \in Leased : owner' = DropLeases({x})
    BY <1>6 DEF AckArrives, AcksLost, StoreAck, storeVars, database
  <2>2. ASSUME NEW i \in Ids
        PROVE  Waiting(i)' + Cardinality(Away(i)) + Expired
                 <= Waiting(i) + Cardinality(Away(i)') + Expired'
    <3>1. Waiting(i)' = Waiting(i)
      BY <2>1 DEF Waiting
    <3>2. \A t \in Gone : Owned(t)' \subseteq Owned(t)
      <4>1. owner' = owner => \A t \in Gone : Owned(t)' = Owned(t)
        BY DEF Owned, Leased
      <4>. QED
        BY <1>2, <2>1, <4>1, LeaseEnds
    <3>3. Expired <= Expired'
      BY <2>1, AwayFinite DEF Expired
    <3>. QED
      BY <1>1, <3>1, <3>2, <3>3, StaysPaid
  <2>. QED
    BY <1>5, <2>1, <2>2
<1>7. ASSUME NEW x \in Leased, StoreRequeue(x) \/ StoreDeadLetter(x)
      PROVE  /\ issued' = issued /\ owner' = DropLeases({x})
             /\ \A t \in Gone : Owned(t)' \subseteq Owned(t)
             /\ \A i \in Ids : i # x => Waiting(i)' = Waiting(i)
  <2>1. /\ issued' = issued /\ owner' = DropLeases({x}) /\ queued' = queued
        /\ retrying' \in {retrying, retrying \cup {x}}
    BY <1>7 DEF StoreRequeue, StoreDeadLetter
  <2>2. \A t \in Gone : Owned(t)' = Owned(t) \ {x}
    BY <1>2, <2>1, LeaseEnds
  <2>3. ASSUME NEW i \in Ids, i # x PROVE Waiting(i)' = Waiting(i)
    BY <2>1, <2>3 DEF Waiting
  <2>. QED
    BY <2>1, <2>2, <2>3
<1>8. ASSUME NEW s \in Consumers, NEW x \in Leased, ServerReleases(s, x) PROVE Ledger'
  <2>1. /\ coll' = coll /\ dlqRows' = dlqRows /\ revoked' = revoked /\ content' = content
        /\ x \in Owned(s) /\ Broken(s) /\ (StoreRequeue(x) \/ StoreDeadLetter(x))
    BY <1>8 DEF ServerReleases, database
  <2>2. /\ issued' = issued /\ \A t \in Gone : Owned(t)' \subseteq Owned(t)
        /\ \A i \in Ids : i # x => Waiting(i)' = Waiting(i)
    BY <1>7, <2>1
  <2>3. Expired' = Expired /\ Expired \in Nat
    BY <2>1, AwayFinite DEF Expired
  <2>4. ASSUME NEW i \in Ids
        PROVE  Waiting(i)' + Cardinality(Away(i)) + Expired
                 <= Waiting(i) + Cardinality(Away(i)') + Expired'
    <3>1. CASE i # x
      <4>1. Waiting(i)' = Waiting(i) /\ \A t \in Gone : i \in Owned(t)' => i \in Owned(t)
        BY <2>2, <3>1
      <4>. QED
        BY <1>1, <2>3, <4>1, StaysPaid
    <3>2. CASE i = x
      <4>1. Away(x) \cup {s} \subseteq Away(x)' /\ s \notin Away(x)
        <5>1. s \in Gone /\ Gone \subseteq Gone' /\ x \notin Owned(s)'
          BY <1>1, <1>2, <1>7, <2>1, LeaseEnds DEF Gone
        <5>. QED
          BY <2>1, <2>2, <5>1 DEF Away
      <4>2. /\ IsFiniteSet(Away(x)) /\ Cardinality(Away(x)) \in Nat
            /\ Waiting(x) \in Nat /\ Expired \in Nat
        BY AwayFinite
      <4>3. /\ IsFiniteSet(Away(x)') /\ Cardinality(Away(x)') \in Nat
            /\ Waiting(x)' \in Nat /\ Waiting(x)' <= 1
        BY <1>1, AwayFiniteNext
      <4>4. Cardinality(Away(x) \cup {s}) = Cardinality(Away(x)) + 1
        BY <4>1, <4>2, FS_AddElement
      <4>5. Cardinality(Away(x) \cup {s}) <= Cardinality(Away(x)')
        BY <4>1, <4>3, FS_Subset
      <4>. QED
        BY <2>3, <3>2, <4>2, <4>3, <4>4, <4>5
    <3>. QED
      BY <3>1, <3>2
  <2>. QED
    BY <1>5, <2>1, <2>2, <2>4
<1>9. ASSUME NEW x \in Leased, LeaseExpires(x) PROVE Ledger'
  <2>1. /\ coll' = coll /\ dlqRows' = dlqRows /\ content' = content
        /\ revoked' = [revoked EXCEPT ![owner[x]] = @ + 1]
        /\ StoreRequeue(x) \/ StoreDeadLetter(x)
    BY <1>9 DEF LeaseExpires, database
  <2>2. /\ issued' = issued /\ \A t \in Gone : Owned(t)' \subseteq Owned(t)
        /\ \A i \in Ids : i # x => Waiting(i)' = Waiting(i)
    BY <1>7, <2>1
  <2>3. Expired' = Expired + 1 /\ Expired \in Nat
    <3>1. owner[x] \in Consumers
      BY <1>2 DEF StoreTypeOK
    <3>. QED
      BY <2>1, <3>1, ExpiresOnce
  <2>4. ASSUME NEW i \in Ids
        PROVE  Waiting(i)' + Cardinality(Away(i)) + Expired
                 <= Waiting(i) + Cardinality(Away(i)') + Expired'
    <3>1. Cardinality(Away(i)) \in Nat /\ Waiting(i) \in Nat
      BY AwayFinite
    <3>2. Cardinality(Away(i)') \in Nat /\ Waiting(i)' \in Nat /\ Waiting(i)' <= 1
      BY <1>1, AwayFiniteNext
    <3>3. Cardinality(Away(i)) <= Cardinality(Away(i)')
      BY <1>1, <2>2, AwayGrows
    <3>4. Waiting(i)' <= Waiting(i) + 1
      BY <3>1, <3>2
    <3>. QED
      BY <2>3, <3>1, <3>2, <3>3, <3>4
  <2>. QED
    BY <1>5, <2>1, <2>2, <2>4
<1>10. PICK written \in [Readings -> [Nat -> Nat]], at \in [Collectors -> Nat] :
               Balanced(written, at)
  BY DEF Ledger
<1>11. ASSUME NEW k \in Collectors, NEW r, coll' = [coll EXCEPT ![k] = r],
              UNCHANGED <<issued, content>>, NEW d \in Nat, Holds(r, d), NEW X,
              \/ X = {} /\ dlqRows' = dlqRows
              \/ \E x \in Ids : X = {x} /\ dlqRows' = [dlqRows EXCEPT ![content[x]] = @ + 1],
              revoked' = revoked,
              \A i \in Ids : /\ \A s \in Gone : i \in Owned(s)' => i \in Owned(s)
                             /\ Load(r, d, i) \in Nat /\ Load(coll[k], at[k], i) \in Nat
                             /\ Load(r, d, i) + (IF i \in X THEN 1 ELSE 0) + Waiting(i)'
                                  <= Load(coll[k], at[k], i) + Waiting(i)
       PROVE  Ledger'
  <2>1. ASSUME NEW i \in Ids
        PROVE  Load(r, d, i) + (IF i \in X THEN 1 ELSE 0) + Waiting(i)'
                    + Cardinality(Away(i)) + Expired
                 <= Load(coll[k], at[k], i) + Waiting(i) + Cardinality(Away(i)') + Expired'
    <3>. DEFINE x == IF i \in X THEN 1 ELSE 0
    <3>1. Expired' = Expired
      BY <1>11 DEF Expired
    <3>2. Cardinality(Away(i)) \in Nat /\ Waiting(i) \in Nat /\ Expired \in Nat
      BY AwayFinite
    <3>3. Cardinality(Away(i)') \in Nat /\ Waiting(i)' \in Nat
      BY <1>1, AwayFiniteNext
    <3>4. Cardinality(Away(i)) <= Cardinality(Away(i)')
      BY <1>1, <1>11, AwayGrows
    <3>5. /\ x \in Nat /\ Load(r, d, i) \in Nat /\ Load(coll[k], at[k], i) \in Nat
          /\ Load(r, d, i) + x + Waiting(i)' <= Load(coll[k], at[k], i) + Waiting(i)
      BY <1>11
    <3>. HIDE DEF x
    <3>6. Load(r, d, i) + x + Waiting(i)' + Cardinality(Away(i)) + Expired
            <= Load(coll[k], at[k], i) + Waiting(i) + Cardinality(Away(i)') + Expired'
      BY <3>1, <3>2, <3>3, <3>4, <3>5
    <3>. QED
      BY <3>6 DEF x
  <2>. QED
    BY <1>1, <1>10, <1>11, <2>1, LedgerOneColl
<1>12. ASSUME NEW k \in Collectors, NEW r, coll' = [coll EXCEPT ![k] = r],
              UNCHANGED <<issued, content>>, NEW d \in Nat, Holds(r, d),
              dlqRows' = dlqRows, revoked' = revoked,
              \A i \in Ids : /\ \A s \in Gone : i \in Owned(s)' => i \in Owned(s)
                             /\ Load(r, d, i) \in Nat /\ Load(coll[k], at[k], i) \in Nat
                             /\ Load(r, d, i) + Waiting(i)' <= Load(coll[k], at[k], i) + Waiting(i)
       PROVE  Ledger'
  <2>1. PICK X : X = {}
    OBVIOUS
  <2>2. ASSUME NEW i \in Ids
        PROVE  Load(r, d, i) + (IF i \in X THEN 1 ELSE 0) + Waiting(i)'
                 <= Load(coll[k], at[k], i) + Waiting(i)
    <3>1. Load(r, d, i) + (IF i \in X THEN 1 ELSE 0) = Load(r, d, i)
      BY <1>12, <2>1
    <3>. QED
      BY <1>12, <3>1
  <2>. QED
    BY <1>11, <1>12, <2>1, <2>2
<1>13. ASSUME NEW k \in Collectors, NEW x \in queued \cup retrying, Deliver(k, x) PROVE Ledger'
  <2>. DEFINE q == coll[k]
              r == [q EXCEPT !.msgCh = Append(@, x)]
  <2>1. /\ coll' = [coll EXCEPT ![k] = r] /\ q.recv = "running" /\ revoked' = revoked
        /\ dlqRows' = dlqRows /\ UNCHANGED <<issued, content>>
        /\ queued' = queued \ {x} /\ retrying' = retrying \ {x}
        /\ owner' = [j \in Leased \cup {x} |-> IF j = x THEN q.stream ELSE owner[j]]
    BY <1>13 DEF Deliver, StoreLease, database
  <2>8. PICK d \in Nat : d = at[k]
    BY <1>10
  <2>2. q \in CollRecord(Ids) /\ x \in Ids /\ Holds(q, d)
    BY <1>2, <1>3, <1>10, <2>8 DEF Balanced
  <2>3. r.msgCh = Append(q.msgCh, x) /\ r.batch = q.batch /\ r.pc = q.pc /\ r.work = q.work
    BY <2>2 DEF CollRecord
  <2>4. Holds(r, d)
    <3>. HIDE DEF r
    <3>1. \A cut : Cuts(r, Nat, cut) <=> Cuts(q, Nat, cut)
      BY <2>3 DEF Cuts
    <3>. QED
      BY <2>2, <2>3, <3>1 DEF Holds, CutAt
  <2>5. q.stream \notin Gone
    BY <2>1, ReceiverBusy, StreamBroken
  <2>6. ASSUME NEW i \in Ids, NEW s \in Gone, i \in Owned(s)' PROVE i \in Owned(s)
    <3>1. Leased' = Leased \cup {x}
      BY <2>1 DEF Leased
    <3>2. i \in Leased' /\ owner'[i] = s /\ s # q.stream
      BY <2>5, <2>6 DEF Owned
    <3>. QED
      BY <2>1, <3>1, <3>2 DEF Owned
  <2>7. ASSUME NEW i \in Ids
        PROVE  /\ Load(r, d, i) \in Nat /\ Load(q, d, i) \in Nat
               /\ Load(r, d, i) + Waiting(i)' <= Load(q, d, i) + Waiting(i)
    <3>1. /\ Load(q, d, i) \in Nat
          /\ Load(r, d, i) = Load(q, d, i) + (IF x = i THEN 1 ELSE 0)
      <4>1. Load(q, d, i) \in Nat
        BY <2>2, LoadType
      <4>2. q.msgCh \in Seq(Ids) /\ q.batch \in Seq(Ids) /\ 0 <= Len(q.msgCh)
        BY <2>2, LenProperties DEF CollRecord
      <4>. HIDE DEF q, r
      <4>3. /\ Cardinality(Later(q.msgCh, 0, i)) \in Nat
            /\ Cardinality(Later(q.batch, d, i)) \in Nat
        BY <4>2, LaterFinite
      <4>4. Cardinality(Later(Append(q.msgCh, x), 0, i))
              = Cardinality(Later(q.msgCh, 0, i)) + (IF x = i THEN 1 ELSE 0)
        BY <2>2, <4>2, LaterAppend
      <4>5. Load(r, d, i) = Load(q, d, i) + (IF x = i THEN 1 ELSE 0)
        BY <2>3, <4>3, <4>4 DEF Load
      <4>. QED
        BY <4>1, <4>5
    <3>2. /\ x = i => Waiting(i) = 1 /\ Waiting(i)' = 0
          /\ x # i => Waiting(i)' = Waiting(i)
          /\ Waiting(i) \in Nat
      BY <2>1 DEF Waiting
    <3>. HIDE DEF r, q
    <3>. QED
      BY <3>1, <3>2
  <2>. HIDE DEF r
  <2>. QED
    BY <1>12, <2>1, <2>4, <2>6, <2>7, <2>8
<1>14. ASSUME NEW k \in Collectors, NEW s \in Consumers, OpenStream(k, s) PROVE Ledger'
  <2>. DEFINE r == [Idle EXCEPT !.pc = "select", !.stream = s, !.recv = "running"]
  <2>1. /\ coll' = [coll EXCEPT ![k] = r] /\ revoked' = revoked /\ dlqRows' = dlqRows
        /\ UNCHANGED <<issued, content>> /\ UNCHANGED <<queued, retrying, owner>>
    BY <1>14 DEF OpenStream, storeVars, database
  <2>2. r.pc = "select" /\ r.msgCh = Idle.msgCh /\ r.batch = Idle.batch
    BY DEF Idle
  <2>. HIDE DEF r
  <2>3. Holds(r, 0)
    BY <2>2 DEF Holds
  <2>4. ASSUME NEW i \in Ids
        PROVE  /\ \A t \in Gone : i \in Owned(t)' => i \in Owned(t)
               /\ Load(r, 0, i) \in Nat /\ Load(coll[k], at[k], i) \in Nat
               /\ Load(r, 0, i) + Waiting(i)' <= Load(coll[k], at[k], i) + Waiting(i)
    <3>1. Load(r, 0, i) = 0
      <4>1. Load(r, 0, i) = Load(Idle, 0, i)
        BY <2>2 DEF Load
      <4>. QED
        BY <4>1, LoadIdle
    <3>2. Load(coll[k], at[k], i) \in Nat
      BY <1>3, <1>10, LoadType
    <3>3. Waiting(i)' = Waiting(i) /\ Waiting(i) \in Nat
      BY <2>1 DEF Waiting
    <3>4. \A t \in Gone : Owned(t)' = Owned(t)
      BY <2>1 DEF Owned, Leased
    <3>. QED
      BY <3>1, <3>2, <3>3, <3>4
  <2>. QED
    BY <1>12, <2>1, <2>3, <2>4
<1>15. ASSUME NEW k \in Collectors, NEW r, NEW X, Moves(k, r, X) PROVE Ledger'
  <2>1. /\ coll' = [coll EXCEPT ![k] = r] /\ revoked' = revoked
        /\ UNCHANGED <<issued, content>> /\ UNCHANGED <<queued, retrying, owner>>
        /\ Handles(coll[k], r, X)
        /\ \/ X = {} /\ dlqRows' = dlqRows
           \/ \E x \in Ids : X = {x} /\ dlqRows' = [dlqRows EXCEPT ![content[x]] = @ + 1]
    BY <1>15 DEF Moves
  <2>2. at[k] \in Nat /\ Holds(coll[k], at[k])
    BY <1>10 DEF Balanced
  <2>3. PICK d \in Nat :
              /\ Holds(r, d)
              /\ \A i \in Nat : Load(r, d, i) + (IF i \in X THEN 1 ELSE 0)
                                 <= Load(coll[k], at[k], i)
    BY <2>1, <2>2 DEF Handles
  <2>4. r \in CollRecord(Ids')
    <3>1. coll'[k] = r
      BY <2>1 DEF CollectorInv, CollsOK
    <3>. QED
      BY <3>1 DEF CollectorInv, CollsOK, CollOK
  <2>5. ASSUME NEW i \in Ids
        PROVE  /\ \A t \in Gone : i \in Owned(t)' => i \in Owned(t)
               /\ Load(r, d, i) \in Nat /\ Load(coll[k], at[k], i) \in Nat
               /\ Load(r, d, i) + (IF i \in X THEN 1 ELSE 0) + Waiting(i)'
                    <= Load(coll[k], at[k], i) + Waiting(i)
    <3>. DEFINE x == IF i \in X THEN 1 ELSE 0
    <3>1. Load(r, d, i) \in Nat /\ Load(coll[k], at[k], i) \in Nat
      BY <1>3, <2>2, <2>4, LoadType
    <3>2. i \in Nat
      BY <1>2 DEF Ids
    <3>3. x \in Nat /\ Load(r, d, i) + x <= Load(coll[k], at[k], i)
      BY <2>3, <3>2
    <3>4. Waiting(i)' = Waiting(i) /\ Waiting(i) \in Nat
      BY <2>1 DEF Waiting
    <3>5. \A t \in Gone : Owned(t)' = Owned(t)
      BY <2>1 DEF Owned, Leased
    <3>. HIDE DEF x
    <3>6. Load(r, d, i) + x + Waiting(i)' <= Load(coll[k], at[k], i) + Waiting(i)
      BY <3>1, <3>3, <3>4
    <3>. QED
      BY <3>1, <3>5, <3>6 DEF x
  <2>. QED
    BY <1>11, <2>1, <2>3, <2>5
<1>. QED
  BY <1>4, <1>6, <1>8, <1>9, <1>13, <1>14, <1>15, CollectorMoves DEF Next

-----------------------------------------------------------------------------
(* The bound on dead-letter rows.                                            *)

\* Before anything happened, no stream is broken and nothing is to be paid for.
LEMMA LedgerInit ==
    ASSUME Init
    PROVE  StreamsOK /\ Ledger
<1>1. /\ coll = [k \in Collectors |-> Idle] /\ ended = {} /\ faults = 0
      /\ revoked = [s \in Consumers |-> 0] /\ dlqRows = [r \in Readings |-> 0]
      /\ issued = 0
  BY DEF Init, StoreInit
<1>2. /\ Idle.pc = "idle" /\ Idle.stream = "none" /\ Idle.last = FALSE
  BY DEF Idle
<1>3. Gone = {}
  BY <1>1, <1>2, CollectorAssumption DEF Gone, Broken
<1>4. IsFiniteSet(Gone) /\ Cardinality(Gone) = 0
  BY <1>3, FS_EmptySet
<1>5. revoked \in [Consumers -> Nat] /\ IsFiniteSet(Units(revoked))
  <2>1. DOMAIN revoked = Consumers /\ \A s \in Consumers : revoked[s] = 0
    BY <1>1
  <2>2. IsFiniteSet(Units(revoked))
    BY <2>1, TotalZero
  <2>. QED
    BY <1>1, <2>2
<1>6. StreamsOK
  BY <1>1, <1>2, <1>4, <1>5 DEF StreamsOK
<1>7. Ids = {}
  BY <1>1 DEF Ids
<1>. DEFINE none == [i \in Nat |-> 0]
            written == [r \in Readings |-> none]
            at == [k \in Collectors |-> 0]
<1>8. IsFiniteSet(Units(none)) /\ Total(none) = 0
  <2>1. DOMAIN none = Nat /\ \A i \in Nat : none[i] = 0
    OBVIOUS
  <2>. HIDE DEF none
  <2>. QED
    BY <2>1, TotalZero
<1>9. ASSUME NEW r \in Readings PROVE Rows(written, r)
  <2>1. written[r] = none /\ \A i \in Nat : ~(written[r][i] > 0)
    OBVIOUS
  <2>. HIDE DEF written, none
  <2>. QED
    BY <1>1, <1>8, <2>1 DEF Rows
<1>10. ASSUME NEW k \in Collectors PROVE Holds(coll[k], at[k])
  BY <1>1, <1>2 DEF Holds
<1>11. written \in [Readings -> [Nat -> Nat]] /\ at \in [Collectors -> Nat]
  OBVIOUS
<1>. HIDE DEF written, at
<1>12. Balanced(written, at)
  BY <1>7, <1>9, <1>10 DEF Balanced
<1>. QED
  BY <1>6, <1>11, <1>12 DEF Ledger

\* A step that changes nothing costs nothing.
LEMMA LedgerStutter ==
    ASSUME CollectorInv, CollectorInv', StreamsOK, Ledger, UNCHANGED vars
    PROVE  StreamsOK' /\ Ledger'
<1>1. /\ coll' = coll /\ ended' = ended /\ faults' = faults /\ revoked' = revoked
      /\ dlqRows' = dlqRows /\ content' = content /\ UNCHANGED storeVars
  BY DEF vars, database
<1>2. revoked' \in [Consumers -> Nat] /\ IsFiniteSet(Units(revoked'))
  BY <1>1 DEF StreamsOK
<1>3. StreamsOK' /\ Gone' = Gone
  BY <1>1, <1>2, StreamsKeep
<1>4. Ids' = Ids /\ Expired' = Expired
  BY <1>1 DEF Ids, Expired, storeVars
<1>5. ASSUME NEW i \in Ids
      PROVE  Waiting(i)' + Cardinality(Away(i)) + Expired
               <= Waiting(i) + Cardinality(Away(i)') + Expired'
  <2>1. Waiting(i)' = Waiting(i) /\ Away(i)' = Away(i)
    BY <1>1, <1>3 DEF Waiting, Away, Owned, Leased, storeVars
  <2>2. Waiting(i) \in Nat /\ Cardinality(Away(i)) \in Nat /\ Expired \in Nat
    BY AwayFinite
  <2>. QED
    BY <1>4, <2>1, <2>2
<1>6. Ids \subseteq Ids' /\ \A i \in Ids : content'[i] = content[i]
  BY <1>1, <1>4
<1>. QED
  BY <1>1, <1>3, <1>5, <1>6, LedgerKeeps

\* The streams and the ledger are in order after every step: whatever fails,
\* every dead-letter row, every copy of a message in a collector's memory and
\* every delivery to come is paid for by the message's first delivery, by a
\* broken stream that gave it back, or by an expired lease.
THEOREM CollectorLedger == Spec => [](StreamsOK /\ Ledger)
<1>1. Init => StreamsOK /\ Ledger
  BY LedgerInit
<1>2. /\ CollectorInv /\ CollectorInv' /\ StreamsOK /\ Ledger /\ [Next]_vars
      => StreamsOK' /\ Ledger'
  BY StreamsStep, LedgerStep, LedgerStutter
<1>. QED
  BY <1>1, <1>2, CollectorCorrect, PTL DEF Spec

\* A balanced ledger bounds the rows of the dead-letter table.
LEMMA LedgerBounds ==
    ASSUME CollectorInv, StreamsOK, Ledger
    PROVE  OnlyPoisonDeadLettered
<1>1. PICK written \in [Readings -> [Nat -> Nat]], at \in [Collectors -> Nat] :
              Balanced(written, at)
  BY DEF Ledger
<1>. DEFINE n == 1 + faults + Expired
<1>2. /\ faults \in Nat /\ Expired \in Nat /\ n \in Nat
      /\ content \in [Ids -> Readings] /\ Ids \subseteq Nat /\ IsFiniteSet(Ids)
  <2>1. faults \in Nat /\ Expired \in Nat
    BY AwayFinite DEF StreamsOK
  <2>2. issued \in Nat /\ content \in [Ids -> Readings]
    BY DEF CollectorInv, StoreInv, StoreTypeOK, TablesOK, Ids
  <2>3. Ids \subseteq Nat /\ IsFiniteSet(Ids)
    BY <2>2, FS_Interval DEF Ids
  <2>. QED
    BY <2>1, <2>2, <2>3
<1>3. ASSUME NEW i \in Ids PROVE written[content[i]][i] <= n
  <2>1. /\ IsFiniteSet(Units(Loads(at, i)))
        /\ written[content[i]][i] + Total(Loads(at, i)) + Waiting(i)
             <= 1 + Cardinality(Away(i)) + Expired
    BY <1>1 DEF Balanced, Pays
  <2>2. Total(Loads(at, i)) \in Nat
    BY <2>1, FS_CardinalityType DEF Total
  <2>3. Waiting(i) \in Nat /\ Cardinality(Away(i)) \in Nat /\ Cardinality(Away(i)) <= faults
    BY AwayFinite
  <2>4. written[content[i]][i] \in Nat
    BY <1>2
  <2>. QED
    BY <1>2, <2>1, <2>2, <2>3, <2>4
<1>4. ASSUME NEW r \in Readings
      PROVE  dlqRows[r] <= Cardinality({i \in Ids : content[i] = r}) * n
  <2>. DEFINE P == {i \in Ids : content[i] = r}
              f == written[r]
  <2>1. f \in [Nat -> Nat] /\ dlqRows[r] = Total(f)
    BY <1>1 DEF Balanced, Rows
  <2>2. \A i \in Nat : f[i] > 0 => i \in P /\ f[i] <= n
    BY <1>1, <1>3 DEF Balanced, Rows
  <2>3. IsFiniteSet(P)
    BY <1>2, FS_Subset
  <2>. HIDE DEF P, f, n
  <2>4. Total(f) <= Cardinality(P) * n
    BY <1>2, <2>1, <2>2, <2>3, TotalBounded
  <2>. QED
    BY <2>1, <2>4 DEF P
<1>. QED
  BY <1>4 DEF OnlyPoisonDeadLettered, CollectorInv, TablesOK

\* The dead-letter insert is not idempotent, and yet its table stays bounded:
\* persistResilient writes only poison there, and a message again only after a
\* failed stream or an expired lease had the broker deliver it again.
THEOREM CollectorDeadLetters == Spec => []OnlyPoisonDeadLettered
<1>1. CollectorInv /\ StreamsOK /\ Ledger => OnlyPoisonDeadLettered
  BY LedgerBounds
<1>. QED
  BY <1>1, CollectorCorrect, CollectorLedger, PTL

=============================================================================
