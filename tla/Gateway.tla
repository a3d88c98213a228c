------------------------------- MODULE Gateway -------------------------------
(***************************************************************************)
(* GetTelemetry of internal/gateway over the queries of pkg/db/read.go: a  *)
(* client walks the pages of one GPU, newest row first, while collectors   *)
(* insert and the retention job drops partitions (module Partitions).      *)
(*                                                                         *)
(* One request is up to three queries with no common snapshot: the GPU's   *)
(* existence, the count (offset mode only) and the page.  The client       *)
(* starts at offset 0 and goes on by offset or, at any page, by cursor.    *)
(* Rejected requests (400) touch no state and are left out; a failed query *)
(* (500) makes the client ask again.                                       *)
(***************************************************************************)
EXTENDS Partitions, Sequences, SequencesExt

CONSTANTS
    Windows, \* pairs <<start_time, end_time>>, inclusive
    Asked,   \* values of the limit parameter, 0 when it is absent
    MaxRows  \* VANTAGE_GATEWAY_MAX_ROWS

ASSUME GatewayAssumption == MaxRows \in Nat \ {0} /\ Asked \subseteq Nat

VARIABLES
    req,  \* the walk's request: window, mode, limit, offset, cursor; its answer
    walk  \* history of the walk: see Init

vars == <<tableVars, req, walk>>

Unknown == -1

\* A cursor is the position of a row in the order of the pages: the token keeps
\* both parts of the key, timestamps to the microsecond that Postgres stores.
encodeCursor(r) == [ts |-> Day(r), mn |-> r[2]]

\* The zero cursor, which decodeCursor refuses.
NoCursor == [ts |-> Unknown, mn |-> Unknown]

\* rows: what the client got since its last offset page, that page included;
\* due: rows of the first page's snapshot that are still stored and that it did
\* not get yet; dropped: the job dropped such rows while it went by offset;
\* drift: rows inserted and dropped between count and page.
Init ==
    /\ TableInit
    /\ req \in [at : {"idle"}, window : Windows, mode : {"offset"}, limit : {0}, offset : {0},
                cursor : {NoCursor}, total : {Unknown}, hasNext : {FALSE}]
    /\ walk = [rows |-> <<>>, due |-> {}, dropped |-> FALSE, drift |-> <<0, 0>>]

-----------------------------------------------------------------------------
(* The queries                                                               *)

\* timestamp DESC, metric_name DESC
Before(a, b) == a[1] > b[1] \/ (a[1] = b[1] /\ a[2] > b[2])

InWindow(r) == req.window[1] <= Day(r) /\ Day(r) <= req.window[2]

Matching(rows) == {r \in rows : InWindow(r)}

\* How many of the rows come before r.
Rank(r, rows) == Cardinality({q \in rows : Before(q, r)})

\* ORDER BY ... LIMIT limit OFFSET offset
Slice(rows, offset, limit) ==
    LET left == Cardinality(rows) - offset
    IN  [i \in 1..(IF left < limit THEN left ELSE limit) |->
            CHOOSE r \in rows : Rank(r, rows) = offset + i - 1]

\* One GPU is modelled: it exists as long as the table has a row.
GPUExists == stored # {}

\* Mutant: the count does not look at the window.
CountsAll == Cardinality(stored)

TelemetryCount == Cardinality(Matching(stored))

Telemetry(limit) == Slice(Matching(stored), req.offset, limit)

\* The pair the cursor carries, for the row comparison.
Position == <<req.cursor.ts, req.cursor.mn>>

\* Mutant: the row comparison looks at the timestamps only.
AfterByTime(limit) == Slice({r \in Matching(stored) : Day(r) < req.cursor.ts}, 0, limit)

\* Mutant: <= instead of <.
AfterOrAt(limit) == Slice({r \in Matching(stored) : ~Before(r, Position)}, 0, limit)

\* (timestamp, metric_name) < cursor
TelemetryAfter(limit) == Slice({r \in Matching(stored) : Before(Position, r)}, 0, limit)

-----------------------------------------------------------------------------
(* The handler                                                               *)

\* Parameters are parsed, limit is clamped, and GPUExists decides on 404.
GetTelemetry(n) ==
    /\ req.at = "idle"
    /\ req' = [req EXCEPT !.limit = IF n = 0 \/ n > MaxRows THEN MaxRows ELSE n,
                          !.total = Unknown, !.hasNext = FALSE,
                          !.at = IF ~GPUExists THEN "gone"
                                 ELSE IF req.mode = "offset" THEN "count" ELSE "page"]
    /\ walk' = [walk EXCEPT !.drift = <<0, 0>>]
    /\ UNCHANGED tableVars

Count ==
    /\ req.at = "count"
    /\ req' = [req EXCEPT !.at = "page", !.total = TelemetryCount]
    /\ UNCHANGED <<tableVars, walk>>

\* What the client has after a page.
Received(data) ==
    LET first == req.mode = "offset" /\ req.offset = 0
    IN  [walk EXCEPT !.rows = IF req.mode = "offset" THEN data ELSE @ \o data,
                     !.due = (IF first THEN Matching(stored) ELSE @) \ Range(data),
                     !.dropped = IF first THEN FALSE ELSE @]

\* Mutant: the cursor names the sentinel, the first row of the next page.
PageCursorAtSentinel ==
    LET metrics == IF req.mode = "offset" THEN Telemetry(req.limit + 1) ELSE TelemetryAfter(req.limit + 1)
        hasNext == Len(metrics) > req.limit
        data    == IF hasNext THEN SubSeq(metrics, 1, req.limit) ELSE metrics
    IN  /\ req.at = "page"
        /\ walk' = Received(data)
        /\ \E mode \in IF hasNext THEN {req.mode, "keyset"} ELSE {req.mode} :
              req' = [req EXCEPT !.at = IF hasNext THEN "idle" ELSE "done", !.mode = mode,
                                 !.hasNext = hasNext,
                                 !.offset = IF hasNext /\ req.mode = "offset" THEN @ + req.limit ELSE @,
                                 !.cursor = IF hasNext THEN encodeCursor(Last(metrics)) ELSE NoCursor]
        /\ UNCHANGED tableVars

\* The page query asks for one row more than the page: the sentinel says whether
\* there is a next page.  next_cursor is the last row returned; the client goes
\* on in the mode it is in, or changes to the cursor.
Page ==
    LET metrics == IF req.mode = "offset" THEN Telemetry(req.limit + 1) ELSE TelemetryAfter(req.limit + 1)
        hasNext == Len(metrics) > req.limit
        data    == IF hasNext THEN SubSeq(metrics, 1, req.limit) ELSE metrics
    IN  /\ req.at = "page"
        /\ walk' = Received(data)
        /\ \E mode \in IF hasNext THEN {req.mode, "keyset"} ELSE {req.mode} :
              req' = [req EXCEPT !.at = IF hasNext THEN "idle" ELSE "done", !.mode = mode,
                                 !.hasNext = hasNext,
                                 !.offset = IF hasNext /\ req.mode = "offset" THEN @ + req.limit ELSE @,
                                 !.cursor = IF hasNext THEN encodeCursor(Last(data)) ELSE NoCursor]
        /\ UNCHANGED tableVars

\* A query fails or takes more than ten seconds: 500, and the client asks again.
QueryFails ==
    /\ req.at \in {"count", "page"}
    /\ req' = [req EXCEPT !.at = "idle", !.total = Unknown]
    /\ UNCHANGED <<tableVars, walk>>

-----------------------------------------------------------------------------
\* The table changes under the walk.
Table ==
    /\ TableNext
    /\ LET new  == Matching(stored' \ stored)
           gone == Matching(stored \ stored')
       IN  walk' = [walk EXCEPT !.due = @ \ gone,
                                !.dropped = @ \/ (gone # {} /\ req.mode = "offset"),
                                !.drift = IF req.at = "page" /\ req.mode = "offset"
                                          THEN <<@[1] + Cardinality(new), @[2] + Cardinality(gone)>>
                                          ELSE @]
    /\ UNCHANGED req

Next == (\E n \in Asked : GetTelemetry(n)) \/ Count \/ Page \/ QueryFails \/ Table

Spec == Init /\ [][Next]_vars

-----------------------------------------------------------------------------
\* The request goes through its states with a limit that is in range.
TypeOK ==
    /\ TableTypeOK
    /\ req.at \in {"idle", "count", "page", "done", "gone"}
    /\ req.mode \in {"offset", "keyset"}
    /\ req.limit \in 0..MaxRows /\ req.offset \in Nat
    /\ req.mode = "keyset" /\ req.at \in {"idle", "page"} => req.cursor = encodeCursor(Last(walk.rows))
    /\ req.total \in Nat \cup {Unknown}

\* A walk by cursor never shows a row twice and never goes back: from its last
\* offset page on, the rows come in strictly descending order, whatever is
\* inserted or dropped between the pages.
CursorNeverRepeats ==
    \A i \in 1..(Len(walk.rows) - 1) : Before(walk.rows[i], walk.rows[i + 1])

\* A walk that ends has shown every row that was there when it began and still
\* is.  By cursor this holds whatever happens meanwhile; by offset only while the
\* retention job drops nothing from the window, for a dropped partition lets the
\* older rows of DEFAULT slip into pages already passed.
WalkComplete == req.at = "done" /\ ~walk.dropped => walk.due = {}

\* total and has_next come from two queries; they contradict each other by no
\* more than the rows inserted and dropped between the two.
TotalExplainsHasNext ==
    LET end == IF req.hasNext THEN req.offset ELSE req.offset + req.limit
    IN  req.at \in {"idle", "done"} /\ req.total # Unknown
           => IF req.hasNext THEN req.total + walk.drift[1] > end
                             ELSE req.total - walk.drift[2] <= end

\* The comment of TelemetryAfter: pages are stable under concurrent ingest, new
\* rows land ahead of an already issued cursor, never inside earlier pages.
EarlierPagesStable ==
    \A r \in Matching(stored) :
        req.cursor # NoCursor /\ Before(walk.rows[1], r) /\ Before(r, Position)
            => r \in Range(walk.rows)
=============================================================================
