------------------------------ MODULE Collector -------------------------------
(***************************************************************************)
(* The Collector service (internal/collector) over the Store contract: it  *)
(* consumes a stream, batches, persists each batch in one transaction,     *)
(* isolates poison rows by bisection, and acks only what is durable.       *)
(*                                                                         *)
(* A stream identity is used once (the server assigns a new consumer id to *)
(* every Consume call), so a collector that reconnects continues on        *)
(* another one while the server still releases the old one's leases.       *)
(*                                                                         *)
(* Everything can fail: the database and the network at every call (with   *)
(* the work done or not), the process at every step.  What the server does *)
(* for a stream is reduced to what a client can see of it: deliveries      *)
(* within the credit window, acks applied or lost, leases that expire.     *)
(***************************************************************************)
EXTENDS Store, SequencesExt, Totals

CONSTANTS
    Collectors,   \* collector processes
    Readings,     \* telemetry readings, identified by their natural key
    Unparseable,  \* readings whose timestamp does not parse
    Poison,       \* readings the database rejects every time
    BatchSize,    \* Config.BatchSize
    Credit,       \* Config.Credit
    MaxMsgs,      \* bound: messages admitted (a producer's retry may duplicate)
    MaxFaults,    \* bound: database, network and process failures
    MaxExpired    \* bound: leases of one stream that expire

ASSUME CollectorAssumption ==
    /\ Unparseable \subseteq Readings /\ Poison \subseteq Readings
    /\ Unparseable \cap Poison = {}
    /\ BatchSize \in Nat \ {0} /\ Credit \in Nat \ {0}
    /\ MaxMsgs \in Nat /\ MaxFaults \in Nat /\ MaxExpired \in Nat
    /\ "none" \notin Consumers  \* the stream field of a collector between two streams

VARIABLES
    content,   \* broker id |-> the reading it carries
    rows,      \* gpu_metrics: reading |-> number of rows
    dlqRows,   \* gpu_metrics_dlq: reading |-> number of rows
    coll,      \* state of each collector process
    opened,    \* stream identities handed out so far
    ended,     \* streams the collector has left
    acks,      \* acks sent on a stream and not applied by the server yet
    revoked,   \* stream |-> credit lost with leases that expired
    faults

database == <<rows, dlqRows>>
vars == <<storeVars, content, database, coll, opened, ended, acks, revoked, faults>>

\* msgCh, batch: ids; work: slices persistResilient has still to persist, next
\* one first; unacked: the ids flush has still to ack; last: the final flush.
Idle == [pc |-> "idle", stream |-> "none", recv |-> "done", msgCh |-> <<>>,
         batch |-> <<>>, work |-> <<>>, unacked |-> <<>>, last |-> FALSE]

Init ==
    /\ StoreInit
    /\ content = <<>>
    /\ rows = [r \in Readings |-> 0] /\ dlqRows = [r \in Readings |-> 0]
    /\ coll = [k \in Collectors |-> Idle]
    /\ opened = {} /\ ended = {}
    /\ acks = [s \in Consumers |-> <<>>]
    /\ revoked = [s \in Consumers |-> 0]
    /\ faults = 0

Owned(s) == {i \in Leased : owner[i] = s}

\* The transport is gone, whether or not the collector has left the stream yet.
Broken(s) == s \in ended \/ \E k \in Collectors : coll[k].stream = s /\ coll[k].recv = "done"

\* A failure the environment may still inject.
Fault == faults < MaxFaults /\ faults' = faults + 1

-----------------------------------------------------------------------------
(* The broker, as far as a collector notices it.                             *)

\* A producer's message is admitted.  A retry after a lost response admits the
\* same reading again under a new id.
Offer(r) ==
    /\ issued < MaxMsgs
    /\ Admit
    /\ content' = Append(content, r)
    /\ UNCHANGED <<database, coll, opened, ended, acks, revoked, faults>>

\* A message is leased to the stream, within what is left of its window, and
\* arrives in msgCh.
Deliver(k, i) ==
    /\ coll[k].recv = "running"
    /\ Cardinality(Owned(coll[k].stream)) + revoked[coll[k].stream] < Credit
    /\ Len(coll[k].msgCh) < Credit
    /\ StoreLease(coll[k].stream, i)
    /\ coll' = [coll EXCEPT ![k].msgCh = Append(@, i)]
    /\ UNCHANGED <<content, database, opened, ended, acks, revoked, faults>>

\* The server applies the next ack, through the ownership guard.
AckArrives(s) ==
    /\ acks[s] # <<>>
    /\ IF Head(acks[s]) \in Owned(s) THEN StoreAck(s, Head(acks[s])) ELSE UNCHANGED storeVars
    /\ acks' = [acks EXCEPT ![s] = Tail(@)]
    /\ UNCHANGED <<content, database, coll, opened, ended, revoked, faults>>

\* The acks under way on a stream that broke may be lost with it.
AcksLost(s) ==
    /\ Broken(s) /\ acks[s] # <<>>
    /\ acks' = [acks EXCEPT ![s] = <<>>]
    /\ UNCHANGED <<storeVars, content, database, coll, opened, ended, revoked, faults>>

\* The server releases the leases of a broken stream, after the acks it got:
\* the collector may still be persisting what it releases.
ServerReleases(s, i) ==
    /\ Broken(s) /\ acks[s] = <<>>
    /\ i \in Owned(s)
    /\ StoreRequeue(i) \/ StoreDeadLetter(i)
    /\ UNCHANGED <<content, database, coll, opened, ended, acks, revoked, faults>>

\* The sweeper reclaims a lease, and with it the stream loses a credit for good.
LeaseExpires(i) ==
    /\ revoked[owner[i]] < MaxExpired
    /\ StoreRequeue(i) \/ StoreDeadLetter(i)
    /\ revoked' = [revoked EXCEPT ![owner[i]] = @ + 1]
    /\ UNCHANGED <<content, database, coll, opened, ended, acks, faults>>

-----------------------------------------------------------------------------
(* Run and consumeStream: the select of the batch goroutine.                 *)

\* consumeStream returns: its context is cancelled and the stream is gone.
Return(k) ==
    /\ coll' = [coll EXCEPT ![k] = Idle]
    /\ ended' = ended \cup {coll[k].stream}

\* The reconnect loop opens the next stream and sends the credit.
OpenStream(k, s) ==
    /\ coll[k].pc = "idle"
    /\ s \notin opened
    /\ opened' = opened \cup {s}
    /\ coll' = [coll EXCEPT ![k] = [Idle EXCEPT !.pc = "select", !.stream = s, !.recv = "running"]]
    /\ UNCHANGED <<storeVars, content, database, ended, acks, revoked, faults>>

\* flush of a non-empty batch: persistResilient starts with the whole batch.
Flush(k, batch, last) ==
    coll' = [coll EXCEPT ![k].batch = batch, ![k].last = last,
                         ![k].pc = "persist", ![k].work = <<batch>>]

\* Mutant: a full batch waits for one more message.
TakeMsgOffByOne(k) ==
    LET batch == Append(coll[k].batch, Head(coll[k].msgCh))
        taken == [coll EXCEPT ![k].msgCh = Tail(@), ![k].batch = batch]
    IN  /\ coll[k].pc = "select"
        /\ coll[k].msgCh # <<>>
        /\ coll' = IF Len(batch) <= BatchSize THEN taken
                   ELSE [taken EXCEPT ![k].pc = "persist", ![k].work = <<batch>>]
        /\ UNCHANGED <<storeVars, content, database, opened, ended, acks, revoked, faults>>

\* A message from msgCh joins the batch, and a full batch is flushed.
TakeMsg(k) ==
    LET batch == Append(coll[k].batch, Head(coll[k].msgCh))
        taken == [coll EXCEPT ![k].msgCh = Tail(@), ![k].batch = batch]
    IN  /\ coll[k].pc = "select"
        /\ coll[k].msgCh # <<>>
        /\ coll' = IF Len(batch) < BatchSize THEN taken
                   ELSE [taken EXCEPT ![k].pc = "persist", ![k].work = <<batch>>]
        /\ UNCHANGED <<storeVars, content, database, opened, ended, acks, revoked, faults>>

Ticker(k) ==
    /\ coll[k].pc = "select"
    /\ coll[k].batch # <<>>
    /\ Flush(k, coll[k].batch, FALSE)
    /\ UNCHANGED <<storeVars, content, database, opened, ended, acks, revoked, faults>>

\* The stream breaks: the receive goroutine closes msgCh.
RecvEnds(k) ==
    /\ coll[k].recv = "running"
    /\ Fault
    /\ coll' = [coll EXCEPT ![k].recv = "done"]
    /\ UNCHANGED <<storeVars, content, database, opened, ended, acks, revoked>>

\* msgCh is closed and empty: a final flush, whose error is ignored.
StreamOver(k) ==
    /\ coll[k].pc = "select"
    /\ coll[k].recv = "done" /\ coll[k].msgCh = <<>>
    /\ IF coll[k].batch = <<>> THEN Return(k)
       ELSE Flush(k, coll[k].batch, TRUE) /\ UNCHANGED ended
    /\ UNCHANGED <<storeVars, content, database, opened, acks, revoked, faults>>

\* SIGTERM, or the process dies: nothing in memory survives.
Crash(k) ==
    /\ coll[k].pc # "idle"
    /\ Fault
    /\ Return(k)
    /\ UNCHANGED <<storeVars, content, database, opened, acks, revoked>>

-----------------------------------------------------------------------------
(* flush: persistResilient, then the acks.                                   *)

\* FromProto succeeds.
Parses(r) == r \notin Unparseable

\* The slice persistResilient works on, and the rows queued in its transaction.
Slice(k) == Head(coll[k].work)
Queued(k) == {r \in {content[i] : i \in ToSet(Slice(k))} : Parses(r)}

\* The transaction fails on a row, and would fail again: isPoisonErr.
PoisonErr(k) == Queued(k) \cap Poison # {}

\* Mutant: a plain INSERT.
PlainInsert(batch) == [r \in Readings |-> IF r \in batch THEN rows[r] + 1 ELSE rows[r]]

\* ON CONFLICT DO NOTHING.
Upsert(batch) == [r \in Readings |-> IF r \in batch /\ rows[r] = 0 THEN 1 ELSE rows[r]]

\* The slice is done: go on with the next, or ack the batch.
SliceDone(k) ==
    coll' = [coll EXCEPT ![k].work = Tail(@),
                         ![k].pc = IF Len(coll[k].work) = 1 THEN "ack" ELSE "persist",
                         ![k].unacked = IF Len(coll[k].work) = 1 THEN coll[k].batch ELSE <<>>]

\* persistBatch commits its transaction; with no parseable row there is none.
PersistOk(k) ==
    /\ coll[k].pc = "persist"
    /\ ~PoisonErr(k)
    /\ rows' = Upsert(Queued(k))
    /\ SliceDone(k)
    /\ UNCHANGED <<storeVars, content, dlqRows, opened, ended, acks, revoked, faults>>

\* Mutant: the right half starts one message late.
BisectLosesMiddle(k) ==
    LET mid == Len(Slice(k)) \div 2
    IN  /\ coll[k].pc = "persist"
        /\ PoisonErr(k) /\ Len(Slice(k)) > 1
        /\ coll' = [coll EXCEPT ![k].work =
               <<SubSeq(Slice(k), 1, mid), SubSeq(Slice(k), mid + 2, Len(Slice(k)))>> \o Tail(@)]
        /\ UNCHANGED <<storeVars, content, database, opened, ended, acks, revoked, faults>>

\* Mutant: the message in the middle is in both halves.
BisectOverlaps(k) ==
    LET mid == Len(Slice(k)) \div 2
    IN  /\ coll[k].pc = "persist"
        /\ PoisonErr(k) /\ Len(Slice(k)) > 1
        /\ coll' = [coll EXCEPT ![k].work =
               <<SubSeq(Slice(k), 1, mid), SubSeq(Slice(k), mid, Len(Slice(k)))>> \o Tail(@)]
        /\ UNCHANGED <<storeVars, content, database, opened, ended, acks, revoked, faults>>

\* Mutant: no isolation, a poison row fails the flush like any other error.
BisectAbandons(k) ==
    /\ coll[k].pc = "persist"
    /\ PoisonErr(k) /\ Len(Slice(k)) > 1
    /\ Return(k)
    /\ UNCHANGED <<storeVars, content, database, opened, acks, revoked, faults>>

\* A poison row aborts the transaction: split the slice, left half first ...
Bisect(k) ==
    LET mid == Len(Slice(k)) \div 2
    IN  /\ coll[k].pc = "persist"
        /\ PoisonErr(k) /\ Len(Slice(k)) > 1
        /\ coll' = [coll EXCEPT ![k].work =
               <<SubSeq(Slice(k), 1, mid), SubSeq(Slice(k), mid + 1, Len(Slice(k)))>> \o Tail(@)]
        /\ UNCHANGED <<storeVars, content, database, opened, ended, acks, revoked, faults>>

\* ... or, if it is alone, insert it into gpu_metrics_dlq.
DeadLetterRow(k) ==
    /\ coll[k].pc = "persist"
    /\ PoisonErr(k) /\ Len(Slice(k)) = 1
    /\ dlqRows' = [dlqRows EXCEPT ![content[Slice(k)[1]]] = @ + 1]
    /\ SliceDone(k)
    /\ UNCHANGED <<storeVars, content, rows, opened, ended, acks, revoked, faults>>

\* Mutant: the error is logged and the flush goes on to ack.
PersistFailsAcks(k) ==
    /\ coll[k].pc = "persist"
    /\ Queued(k) # {}
    /\ Fault
    /\ SliceDone(k)
    /\ UNCHANGED <<storeVars, content, database, opened, ended, acks, revoked>>

\* A transient error of either insert, which may have been committed all the
\* same: no ack, the stream is abandoned.
PersistFails(k) ==
    /\ coll[k].pc = "persist"
    /\ Queued(k) # {}
    /\ Fault
    /\ \/ UNCHANGED database
       \/ /\ ~PoisonErr(k)
          /\ rows' = Upsert(Queued(k)) /\ UNCHANGED dlqRows
       \/ /\ PoisonErr(k) /\ Len(Slice(k)) = 1
          /\ dlqRows' = [dlqRows EXCEPT ![content[Slice(k)[1]]] = @ + 1]
          /\ UNCHANGED rows
    /\ Return(k)
    /\ UNCHANGED <<storeVars, content, opened, acks, revoked>>

\* Send the next ack; after the last one the batch is empty again.
SendAck(k) ==
    LET done == Len(coll[k].unacked) = 1
    IN  /\ coll[k].pc = "ack"
        /\ acks' = [acks EXCEPT ![coll[k].stream] = Append(@, Head(coll[k].unacked))]
        /\ IF done /\ coll[k].last THEN Return(k)
           ELSE /\ coll' = [coll EXCEPT ![k].unacked = Tail(@),
                               ![k].pc = IF done THEN "select" ELSE "ack",
                               ![k].batch = IF done THEN <<>> ELSE @]
                /\ UNCHANGED ended
        /\ UNCHANGED <<storeVars, content, database, opened, revoked, faults>>

\* Send fails: the acks not sent yet never are.  On a broken stream that is no
\* new failure.
SendAckFails(k) ==
    /\ coll[k].pc = "ack"
    /\ IF coll[k].recv = "done" THEN UNCHANGED faults ELSE Fault
    /\ Return(k)
    /\ UNCHANGED <<storeVars, content, database, opened, acks, revoked>>

-----------------------------------------------------------------------------
FlushStep(k) ==
    PersistOk(k) \/ Bisect(k) \/ DeadLetterRow(k) \/ SendAck(k)

SelectStep(k) == TakeMsg(k) \/ Ticker(k) \/ StreamOver(k)

Next ==
    \/ \E r \in Readings : Offer(r)
    \/ \E k \in Collectors :
          \/ \E s \in Consumers : OpenStream(k, s)
          \/ \E i \in queued \cup retrying : Deliver(k, i)
          \/ SelectStep(k) \/ FlushStep(k)
          \/ RecvEnds(k) \/ Crash(k) \/ PersistFails(k) \/ SendAckFails(k)
    \/ \E s \in Consumers :
          \/ AckArrives(s) \/ AcksLost(s)
          \/ \E i \in Leased : ServerReleases(s, i)
    \/ \E i \in Leased : LeaseExpires(i)

Spec == Init /\ [][Next]_vars

(* Fairness: the collector's goroutines keep running, its reconnect loop     *)
(* never gives up, the server delivers while it can, and applies acks and    *)
(* releases leases of broken streams.  There are at most MaxFaults failures. *)
Fairness ==
    /\ \A k \in Collectors :
          /\ WF_vars(\E s \in Consumers : OpenStream(k, s))
          /\ WF_vars(\E i \in queued \cup retrying : Deliver(k, i))
          /\ WF_vars(SelectStep(k)) /\ WF_vars(FlushStep(k))
    /\ \A s \in Consumers :
          WF_vars(AckArrives(s)) /\ WF_vars(\E i \in Leased : ServerReleases(s, i))

FairSpec == Spec /\ Fairness

-----------------------------------------------------------------------------
(* Safety.                                                                   *)

\* Handled for good: a row, a dead-letter row, or unparseable and skipped.
Durable(i) ==
    \/ ~Parses(content[i])
    \/ content[i] \in Poison /\ dlqRows[content[i]] > 0
    \/ rows[content[i]] > 0

Ids == 1..issued

\* Leases that expired so far.
Expired == Total(revoked)

\* The store is well typed; the collector's buffers hold issued ids, msgCh never
\* overflows its buffer and a batch never exceeds BatchSize.
TypeOK ==
    /\ StoreTypeOK
    /\ content \in [Ids -> Readings]
    /\ rows \in [Readings -> Nat] /\ dlqRows \in [Readings -> Nat]
    /\ opened \subseteq Consumers /\ ended \subseteq opened
    /\ \A s \in Consumers : acks[s] \in Seq(Ids)
    /\ \A k \in Collectors :
          /\ coll[k].pc \in {"idle", "select", "persist", "ack"}
          /\ coll[k].msgCh \in Seq(Ids) /\ Len(coll[k].msgCh) <= Credit
          /\ coll[k].batch \in Seq(Ids) /\ Len(coll[k].batch) <= BatchSize
          /\ coll[k].unacked \in Seq(Ids)

\* Ack after persist: what the broker counts as consumed, and every ack still
\* under way, is durable, whichever collector persisted it and however often
\* connections, transactions and processes failed in between.
AckedIsDurable ==
    \A i \in Ids :
        (i \in acked \/ \E s \in Consumers : \E n \in DOMAIN acks[s] : acks[s][n] = i)
        => Durable(i)

\* Effectively once: a reading has at most one row, however often it was
\* produced, delivered and persisted.
RowOnce == \A r \in Readings : rows[r] <= 1

\* Poison isolation is exact: bisection dead-letters only rows the database
\* rejects, never a good row of the same batch, and no poison row gets in.
PoisonIsolated ==
    \A r \in Readings : (dlqRows[r] > 0 => r \in Poison) /\ (rows[r] > 0 => r \notin Poison)

\* Only poison is dead-lettered, and although the dead-letter insert is not
\* idempotent, a message is written again only after a failure or an expired
\* lease had it delivered again.
OnlyPoisonDeadLettered ==
    /\ PoisonIsolated
    /\ \A r \in Readings :
          dlqRows[r] <= Cardinality({i \in Ids : content[i] = r}) * (1 + faults + Expired)

\* The slices still to persist are consecutive, non-empty pieces of the batch up
\* to its end, and what comes before them is handled: persistResilient covers the
\* whole batch, each message once.  Slice j ends at position cut[j].
BisectCoversBatch ==
    \A k \in Collectors : coll[k].pc = "persist" =>
        LET work == coll[k].work  batch == coll[k].batch
        IN  \E cut \in [0..Len(work) -> 0..Len(batch)] :
                /\ cut[Len(work)] = Len(batch)
                /\ \A j \in 1..Len(work) :
                      cut[j - 1] < cut[j] /\ work[j] = SubSeq(batch, cut[j - 1] + 1, cut[j])
                /\ \A m \in 1..cut[0] : Durable(batch[m])

-----------------------------------------------------------------------------
(* Liveness.                                                                 *)

\* No wedge: again and again, and at last for good, every admitted message is
\* consumed, dead-lettered by the broker or lost to a full dead-letter lane;
\* poison in a batch does not hold up the others.
EveryMessageSettles == []<>(Ids \subseteq acked \cup dead \cup lost)

(* What a comment says, and the broker does not do.                          *)

\* collector.go: each ack is sent "replenishing exactly one credit slot per ack
\* in the broker's sliding window".  A connected collector that keeps acking
\* keeps receiving what waits in the broker.
StreamKeepsFlowing ==
    \A i \in 1..MaxMsgs :
        (i \in queued \cup retrying) ~> (i \notin queued \cup retrying)
=============================================================================
