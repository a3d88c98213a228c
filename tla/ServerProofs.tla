---------------------------- MODULE ServerProofs -----------------------------
(***************************************************************************)
(* The MQ server's safety, for any number of streams, producers, messages  *)
(* and any windows: the server drives the store within its contract, and   *)
(* its streams conserve credit, keep their windows, lose no wakeup and     *)
(* leave no lease behind.                                                  *)
(*                                                                         *)
(* The invariant is a conjunction of parts.  What concerns one stream is   *)
(* stated of its record, the number of leases it holds, the deliveries     *)
(* that exist and the number of made-up acks, so that a step of one stream *)
(* is a fact about one record, and the other streams are untouched.        *)
(***************************************************************************)
EXTENDS Server, StoreProofs, TotalsProofs, SequenceTheorems

Looping == {"top", "acked", "acquire", "lease", "miss", "park", "sending"}

\* A handler that has ended one lease and is about to count it.
Owing == {"acked", "lateAcked", "failed"}

PCs == {"none", "init", "failed", "exiting", "lateAcked", "releasing", "notify", "done"}
         \cup Looping

StreamRecord(D) ==
    [pc : PCs, credit : Nat, sem : Nat, msg : D \cup {<<>>}, ackCh : Seq(D),
     recv : {"none", "running", "done"}, got : Seq(D),
     client : {"none", "up", "closed", "lost"}, inHand : SUBSET D, dropped : SUBSET D,
     revoked : Nat, uncounted : Nat]

\* Deliveries of this stream the client may still ack or has acked: in its
\* hands, with the goroutine, in the ack channel, or on the way to it.
Held(r) == Cardinality(r.inHand) + Len(r.got) + Len(r.ackCh)
             + (IF r.pc = "sending" THEN 1 ELSE 0)

\* Before the first message of a stream there is nothing.
Unopened(r) ==
    /\ r.credit = 0 /\ r.sem = 0 /\ r.revoked = 0
    /\ r.recv = "none" /\ r.ackCh = <<>> /\ r.got = <<>> /\ r.inHand = {} /\ r.dropped = {}

\* One stream: its record, k leases it holds, D deliveries and z stray acks.
StreamOK(r, k, D, z) ==
    /\ r \in StreamRecord(D) /\ IsFiniteSet(r.inHand)
    /\ r.sem <= r.credit /\ Len(r.ackCh) <= r.credit
    /\ r.pc \in {"none", "init"} => Unopened(r)
    /\ r.pc \in Looping =>
          /\ r.credit > 0
          /\ r.sem + (IF r.pc \in {"acked", "lease", "miss"} THEN 1 ELSE 0) + k + r.revoked
               = r.credit
          /\ Held(r) <= k + r.revoked + z
    /\ r.pc \in {"none", "init", "notify", "done"} => k = 0
    /\ r.pc \in {"releasing", "notify"} => r.recv = "done" /\ r.ackCh = <<>>
    /\ r.pc = "sending" => r.msg \in D
    /\ r.got # <<>> => r.recv = "running" /\ Len(r.got) = 1
    /\ r.dropped # {} => r.recv = "done" /\ r.client = "lost" /\ Cardinality(r.dropped) = 1
    /\ r.pc \in Owing => r.uncounted = 1
    /\ r.pc \notin Owing \cup {"releasing", "notify"} => r.uncounted = 0
    /\ Held(r) <= r.credit + z

StreamsOK ==
    /\ stream = [s \in Consumers |-> stream[s]]
    /\ \A s \in Consumers :
          StreamOK(stream[s], Cardinality(Owned(s)), Deliveries, count.strays)

\* The backoffs and the lease history are about ids in circulation.
LanesOK == visible \subseteq retrying /\ nth \in [1..issued -> Nat]

\* A call that still enqueues has something left, and an idle one owes nothing.
ProducersOK ==
    /\ producer \in [Producers -> [pc : {"idle", "enqueue", "waiting", "notify"},
                                   left : Nat, accepted : Nat]]
    /\ \A p \in Producers :
          /\ producer[p].pc \in {"enqueue", "waiting"} => producer[p].left > 0
          /\ producer[p].pc = "idle" => producer[p].accepted = 0

FlagsOK ==
    /\ woken \subseteq Consumers
    /\ sweeper \in {"idle", "sweeping", "notify"}
    /\ operator \in {"idle", "replaying", "notify"}
    /\ phase \in {"serving", "draining", "shutdown", "stopped"}

\* The promise of a wakeup holds from the moment a poll came back empty.
WakeupOK ==
    (queued # {} /\ \E s \in Consumers : stream[s].pc \in {"miss", "park"} /\ s \notin woken)
        => \/ \E p \in Producers : producer[p].accepted > 0
           \/ operator \in {"replaying", "notify"}

Sending == {s \in Consumers : stream[s].pc = "sending"}

\* What each handler has ended and not counted.
Uncounted == [s \in Consumers |-> stream[s].uncounted]

\* The counters are numbers, and only finitely many streams are sending or owe
\* the counters something.
CountOK ==
    /\ IsFiniteSet(Sending) /\ IsFiniteSet(Units(Uncounted))
    /\ count \in [produced : Nat, consumed : Nat, delivered : Nat, redelivered : Nat,
                  leaseExpired : Nat, failedSends : Nat, replays : Nat, strays : Nat]

\* The steps of a stream, its client and its goroutine that leave the store and
\* the stray acks alone.
StreamMove(s) ==
    \/ Open(s) \/ (\E request \in Requests : InitialCredit(s, request))
    \/ ClientAck(s) \/ (\E how \in {"closed", "lost"} : ClientLeaves(s, how))
    \/ InitialRecvFails(s) \/ RecvEnds(s) \/ AckPassed(s) \/ AckDropped(s)
    \/ DrainedAcks(s) \/ LoopEnds(s) \/ AcquireToken(s) \/ LeaseNone(s) \/ Park(s)
    \/ WakeUp(s) \/ SendOk(s) \/ CountAck(s) \/ FailedNotify(s)
    \/ CleanupCount(s) \/ CleanupRelease(s) \/ CleanupNotify(s)

\* Where an ack can be: not sent yet, with the goroutine, in the channel, dropped;
\* or the delivery itself is still being sent.
Elements(q) == {q[j] : j \in 1..Len(q)}
Traced(r) ==
    r.inHand \cup Elements(r.got) \cup Elements(r.ackCh) \cup r.dropped
        \cup (IF r.pc = "sending" THEN {r.msg} ELSE {})

\* The ack of every lease a stream holds is somewhere on its way.
TracedOK == \A s \in Consumers : \A i \in Owned(s) : <<i, nth[i]>> \in Traced(stream[s])

\* The inductive invariant of the server.
ServerInv ==
    /\ StoreInv /\ LanesOK /\ StreamsOK /\ ProducersOK /\ FlagsOK /\ WakeupOK /\ CountOK
    /\ DeliveriesAccounted

-----------------------------------------------------------------------------
(* Facts about one step of one record.                                       *)

\* A larger set of deliveries types whatever a smaller one did.
LEMMA SeqGrows ==
    ASSUME NEW D, NEW E, D \subseteq E, NEW q \in Seq(D)
    PROVE  q \in Seq(E)
  OBVIOUS

\* What a stream holds can be counted.
LEMMA HeldType ==
    ASSUME NEW D, NEW r \in StreamRecord(D), IsFiniteSet(r.inHand)
    PROVE  /\ Cardinality(r.inHand) \in Nat /\ Len(r.ackCh) \in Nat /\ Len(r.got) \in Nat
           /\ Held(r) \in Nat
<1>1. Cardinality(r.inHand) \in Nat
  BY FS_CardinalityType
<1>2. Len(r.ackCh) \in Nat /\ Len(r.got) \in Nat
  BY DEF StreamRecord
<1>. QED BY <1>1, <1>2 DEF Held

\* Another stream's step: more ids may exist, more stray acks may have been sent.
LEMMA StreamOKGrows ==
    ASSUME NEW r, NEW k \in Nat, NEW D, NEW E, D \subseteq E,
           NEW z \in Nat, NEW y \in Nat, z <= y, StreamOK(r, k, D, z)
    PROVE  StreamOK(r, k, E, y)
<1>1. r \in StreamRecord(E)
  <2>1. r.ackCh \in Seq(E) /\ r.got \in Seq(E)
    BY SeqGrows DEF StreamOK, StreamRecord
  <2>. QED BY <2>1 DEF StreamOK, StreamRecord
<1>2. Held(r) \in Nat /\ r.credit \in Nat /\ r.revoked \in Nat
  BY HeldType DEF StreamOK, StreamRecord
<1>3. Held(r) <= r.credit + y
  BY <1>2 DEF StreamOK
<1>4. r.pc \in Looping => Held(r) <= k + r.revoked + y
  BY <1>2 DEF StreamOK
<1>5. r.pc = "sending" => r.msg \in E
  BY DEF StreamOK
<1>. QED BY <1>1, <1>3, <1>4, <1>5 DEF StreamOK

\* The leases of a stream are finitely many issued ids.
LEMMA OwnedFinite ==
    ASSUME StoreTypeOK, NEW s
    PROVE  /\ Owned(s) \subseteq Leased /\ Owned(s) \subseteq 1..issued
           /\ IsFiniteSet(Owned(s)) /\ Cardinality(Owned(s)) \in Nat
           /\ Cardinality(Owned(s)) = 0 <=> Owned(s) = {}
<1>1. Owned(s) \subseteq Leased /\ Owned(s) \subseteq 1..issued
  BY DEF Owned, StoreTypeOK
<1>2. IsFiniteSet(Owned(s))
  <2>1. IsFiniteSet(1..issued)
    BY FS_Interval DEF StoreTypeOK
  <2>. QED BY <1>1, <2>1, FS_Subset
<1>. QED BY <1>1, <1>2, FS_CardinalityType, FS_EmptySet

\* Ending the lease of i takes i from its holder and from nobody else.
LEMMA OwnedDrop ==
    ASSUME StoreTypeOK, NEW c, NEW i \in Owned(c), owner' = DropLeases({i})
    PROVE  /\ Leased' = Leased \ {i}
           /\ Owned(c)' = Owned(c) \ {i}
           /\ Cardinality(Owned(c)') = Cardinality(Owned(c)) - 1
           /\ \A t : t # c => Owned(t)' = Owned(t)
<1>1. Leased' = Leased \ {i}
  BY DEF DropLeases, Leased
<1>2. \A t : Owned(t)' = Owned(t) \ {i}
  BY <1>1 DEF Owned, DropLeases, Leased
<1>3. \A t : t # c => i \notin Owned(t)
  BY DEF Owned
<1>4. Cardinality(Owned(c) \ {i}) = Cardinality(Owned(c)) - 1
  BY OwnedFinite, FS_RemoveElement
<1>. QED BY <1>1, <1>2, <1>3, <1>4

\* A new lease of i goes to c and to nobody else.
LEMMA OwnedLease ==
    ASSUME StoreTypeOK, NEW c, NEW i, i \notin Leased, StoreLease(c, i)
    PROVE  /\ Leased' = Leased \cup {i}
           /\ Cardinality(Owned(c)') = Cardinality(Owned(c)) + 1
           /\ \A t : t # c => Owned(t)' = Owned(t)
<1>1. Leased' = Leased \cup {i}
  BY DEF StoreLease, Leased
<1>2. Owned(c)' = Owned(c) \cup {i} /\ \A t : t # c => Owned(t)' = Owned(t)
  BY <1>1 DEF Owned, StoreLease, Leased
<1>3. i \notin Owned(c)
  BY DEF Owned
<1>4. Cardinality(Owned(c) \cup {i}) = Cardinality(Owned(c)) + 1
  BY <1>3, OwnedFinite, FS_AddElement
<1>. QED BY <1>1, <1>2, <1>4

\* No step of the store forgets an id it issued.
LEMMA DeliveriesGrow ==
    ASSUME StoreTypeOK, [StoreNext]_storeVars
    PROVE  issued' \in Nat /\ Deliveries \subseteq Deliveries'
<1>1. issued' \in {issued, issued + 1}
  BY DEF StoreNext, storeVars, Admit, AdmitEvicting, StoreLease, StoreAck, StoreRequeue,
         StoreDeadLetter, StoreReplay
<1>. QED BY <1>1 DEF StoreTypeOK, Deliveries

\* A step of stream s is a step of its record.
LEMMA OneStream ==
    ASSUME ServerInv, [StoreNext]_storeVars,
           count'.strays \in Nat, count.strays <= count'.strays,
           NEW s \in Consumers, NEW r, stream' = [stream EXCEPT ![s] = r],
           \A t \in Consumers : t # s => Owned(t)' = Owned(t),
           StreamOK(r, Cardinality(Owned(s)'), Deliveries', count'.strays)
    PROVE  StreamsOK'
<1>. USE DEF ServerInv, StoreInv
<1>1. stream' = [t \in Consumers |-> stream'[t]]
  BY DEF StreamsOK
<1>2. ASSUME NEW t \in Consumers
      PROVE  StreamOK(stream'[t], Cardinality(Owned(t)'), Deliveries', count'.strays)
  <2>1. CASE t = s
    BY <2>1 DEF StreamsOK
  <2>2. CASE t # s
    <3>1. stream'[t] = stream[t] /\ Owned(t)' = Owned(t)
      BY <2>2 DEF StreamsOK
    <3>2. Cardinality(Owned(t)) \in Nat /\ count.strays \in Nat /\ count'.strays \in Nat
      BY OwnedFinite DEF CountOK
    <3>3. StreamOK(stream[t], Cardinality(Owned(t)), Deliveries, count.strays)
      BY DEF StreamsOK
    <3>. QED BY <3>1, <3>2, <3>3, DeliveriesGrow, StreamOKGrows
  <2>. QED BY <2>1, <2>2
<1>. QED BY <1>1, <1>2 DEF StreamsOK

\* A step of stream s that leaves the store and the stray acks alone.
LEMMA LocalStep ==
    ASSUME ServerInv, UNCHANGED storeVars, count'.strays = count.strays,
           NEW s \in Consumers, NEW r, stream' = [stream EXCEPT ![s] = r],
           StreamOK(r, Cardinality(Owned(s)), Deliveries, count.strays)
    PROVE  StreamsOK'
<1>1. /\ \A t \in Consumers : Owned(t)' = Owned(t)
      /\ Deliveries' = Deliveries
  BY DEF storeVars, Owned, Leased, Deliveries
<1>2. count'.strays \in Nat /\ count.strays <= count'.strays
  BY DEF ServerInv, CountOK
<1>. QED BY <1>1, <1>2, OneStream

\* What StreamOK says of stream s, and the types of the numbers in it.
LEMMA StreamFacts ==
    ASSUME ServerInv, NEW s \in Consumers
    PROVE  /\ StreamOK(stream[s], Cardinality(Owned(s)), Deliveries, count.strays)
           /\ stream[s] \in StreamRecord(Deliveries)
           /\ Cardinality(Owned(s)) \in Nat /\ count.strays \in Nat
           /\ Cardinality(stream[s].inHand) \in Nat /\ Len(stream[s].ackCh) \in Nat
           /\ Len(stream[s].got) \in Nat /\ Held(stream[s]) \in Nat
<1>1. StreamOK(stream[s], Cardinality(Owned(s)), Deliveries, count.strays)
  BY DEF ServerInv, StreamsOK
<1>2. Cardinality(Owned(s)) \in Nat /\ count.strays \in Nat
  BY OwnedFinite DEF ServerInv, StoreInv, CountOK
<1>. QED BY <1>1, <1>2, HeldType DEF StreamOK

-----------------------------------------------------------------------------
(* One lemma per kind of step a stream's record takes.                       *)

Counted(q) ==
    /\ q.credit \in Nat /\ q.sem \in Nat /\ q.revoked \in Nat /\ q.uncounted \in Nat
    /\ Cardinality(q.inHand) \in Nat /\ Len(q.ackCh) \in Nat /\ Len(q.got) \in Nat
    /\ Held(q) \in Nat

\* The types of what StreamOK speaks of.
LEMMA RecordFacts ==
    ASSUME NEW k, NEW D, NEW z, NEW q, StreamOK(q, k, D, z)
    PROVE  /\ q \in StreamRecord(D) /\ Counted(q)
           /\ q.ackCh \in Seq(D) /\ q.got \in Seq(D) /\ q.inHand \in SUBSET D
  BY HeldType DEF StreamOK, StreamRecord, Counted

\* The program counter moves within the loop, out of it, or into the release.
LEMMA RecordGoTo ==
    ASSUME NEW k \in Nat, NEW D, NEW z \in Nat, NEW q, StreamOK(q, k, D, z), NEW pc,
           \/ q.pc = "top" /\ pc = "acquire"
           \/ q.pc = "lease" /\ pc = "miss"
           \/ q.pc = "park" /\ pc = "top"
           \/ q.pc \in {"top", "acquire", "park"} /\ pc = "exiting"
           \/ q.pc = "exiting" /\ pc = "releasing" /\ q.recv = "done" /\ q.ackCh = <<>>
    PROVE  StreamOK([q EXCEPT !.pc = pc], k, D, z)
<1>. DEFINE r == [q EXCEPT !.pc = pc]
<1>0. q \in StreamRecord(D) /\ Counted(q)
  BY RecordFacts
<1>1. pc \in PCs
  BY <1>0 DEF Counted, PCs, Looping
<1>2. /\ r \in StreamRecord(D) /\ r.pc = pc /\ r.sem = q.sem /\ r.credit = q.credit
      /\ r.revoked = q.revoked /\ r.ackCh = q.ackCh /\ r.inHand = q.inHand
      /\ r.got = q.got /\ r.dropped = q.dropped /\ r.recv = q.recv /\ r.client = q.client
      /\ r.uncounted = q.uncounted
  BY <1>0, <1>1 DEF StreamRecord
<1>. HIDE DEF r
<1>3. Held(r) = Held(q)
  BY <1>2, <1>0 DEF Held, Counted
<1>4. StreamOK(r, k, D, z)
  BY <1>2, <1>3, <1>0 DEF StreamOK, Looping, Owing, Counted
<1>. QED BY <1>4 DEF r

\* The loop takes a token.
LEMMA RecordAcquire ==
    ASSUME NEW k \in Nat, NEW D, NEW z \in Nat, NEW q, StreamOK(q, k, D, z),
           q.pc = "acquire", q.sem > 0
    PROVE  StreamOK([q EXCEPT !.pc = "lease", !.sem = @ - 1], k, D, z)
<1>. DEFINE r == [q EXCEPT !.pc = "lease", !.sem = @ - 1]
<1>0. q \in StreamRecord(D) /\ Counted(q)
  BY RecordFacts
<1>1. q.sem - 1 \in Nat /\ "lease" \in PCs
  BY <1>0 DEF Counted, PCs, Looping
<1>2. /\ r \in StreamRecord(D) /\ r.pc = "lease" /\ r.sem = q.sem - 1 /\ r.credit = q.credit
      /\ r.revoked = q.revoked /\ r.ackCh = q.ackCh /\ r.inHand = q.inHand
      /\ r.got = q.got /\ r.dropped = q.dropped /\ r.recv = q.recv /\ r.client = q.client
      /\ r.uncounted = q.uncounted
  BY <1>0, <1>1 DEF StreamRecord
<1>. HIDE DEF r
<1>3. Held(r) = Held(q)
  BY <1>2, <1>0 DEF Held, Counted
<1>4. StreamOK(r, k, D, z)
  BY <1>2, <1>3, <1>0 DEF StreamOK, Looping, Owing, Counted
<1>. QED BY <1>4 DEF r

\* The loop returns the unused token and parks.
LEMMA RecordPark ==
    ASSUME NEW k \in Nat, NEW D, NEW z \in Nat, NEW q, StreamOK(q, k, D, z), q.pc = "miss"
    PROVE  StreamOK([q EXCEPT !.pc = "park", !.sem = @ + 1], k, D, z)
<1>. DEFINE r == [q EXCEPT !.pc = "park", !.sem = @ + 1]
<1>0. q \in StreamRecord(D) /\ Counted(q)
  BY RecordFacts
<1>1. q.sem + 1 \in Nat /\ "park" \in PCs
  BY <1>0 DEF Counted, PCs, Looping
<1>2. /\ r \in StreamRecord(D) /\ r.pc = "park" /\ r.sem = q.sem + 1 /\ r.credit = q.credit
      /\ r.revoked = q.revoked /\ r.ackCh = q.ackCh /\ r.inHand = q.inHand
      /\ r.got = q.got /\ r.dropped = q.dropped /\ r.recv = q.recv /\ r.client = q.client
      /\ r.uncounted = q.uncounted
  BY <1>0, <1>1 DEF StreamRecord
<1>. HIDE DEF r
<1>3. Held(r) = Held(q)
  BY <1>2, <1>0 DEF Held, Counted
<1>5. q.sem \in Nat /\ q.credit \in Nat /\ q.revoked \in Nat
  BY <1>0 DEF Counted
<1>6. /\ q.credit > 0 /\ q.sem + 1 + k + q.revoked = q.credit
      /\ Held(q) <= k + q.revoked + z /\ Held(q) <= q.credit + z /\ Len(q.ackCh) <= q.credit
  BY DEF StreamOK, Looping
<1>7. q.sem + 1 <= q.credit /\ q.sem + 1 + 0 + k + q.revoked = q.credit
  BY ONLY <1>5, <1>6, k \in Nat
<1>4. StreamOK(r, k, D, z)
  BY <1>2, <1>3, <1>6, <1>7 DEF StreamOK, Looping, Owing
<1>. QED BY <1>4 DEF r

\* A lease is granted: the token in hand is now spent on it.
LEMMA RecordLease ==
    ASSUME NEW k \in Nat, NEW D, NEW z \in Nat, NEW q, StreamOK(q, k, D, z),
           q.pc = "lease", NEW m \in D
    PROVE  StreamOK([q EXCEPT !.pc = "sending", !.msg = m], k + 1, D, z)
<1>. DEFINE r == [q EXCEPT !.pc = "sending", !.msg = m]
<1>0. q \in StreamRecord(D) /\ Counted(q)
  BY RecordFacts
<1>1. m \in D \cup {<<>>} /\ "sending" \in PCs
  BY <1>0 DEF Counted, PCs, Looping
<1>2. /\ r \in StreamRecord(D) /\ r.pc = "sending" /\ r.sem = q.sem /\ r.credit = q.credit
      /\ r.revoked = q.revoked /\ r.ackCh = q.ackCh /\ r.inHand = q.inHand /\ r.msg = m
      /\ r.got = q.got /\ r.dropped = q.dropped /\ r.recv = q.recv /\ r.client = q.client
      /\ r.uncounted = q.uncounted
  BY <1>0, <1>1 DEF StreamRecord
<1>. HIDE DEF r
<1>3. Held(r) = Held(q) + 1
  BY <1>2, <1>0 DEF Held, Counted
<1>4. /\ q.credit > 0 /\ q.sem + 1 + k + q.revoked = q.credit
      /\ Held(q) <= k + q.revoked + z
  BY DEF StreamOK, Looping
<1>5. q.sem + 0 + (k + 1) + q.revoked = q.credit /\ Held(q) + 1 <= (k + 1) + q.revoked + z
  <2>1. /\ q.credit \in Nat /\ q.sem \in Nat /\ q.revoked \in Nat /\ Held(q) \in Nat
        /\ k \in Nat /\ z \in Nat
    BY <1>0 DEF Counted
  <2>. QED BY ONLY <1>4, <2>1
<1>6. Held(q) + 1 <= q.credit + z
  <2>1. /\ q.credit \in Nat /\ q.sem \in Nat /\ q.revoked \in Nat /\ Held(q) \in Nat
        /\ k \in Nat /\ z \in Nat
    BY <1>0 DEF Counted
  <2>. QED BY ONLY <1>5, <2>1
<1>7. StreamOK(r, k + 1, D, z)
  BY <1>2, <1>3, <1>4, <1>5, <1>6 DEF StreamOK, Looping, Owing
<1>. QED BY <1>7 DEF r

\* The delivery was sent: it is in the client's hands.
LEMMA RecordSent ==
    ASSUME NEW k \in Nat, NEW D, NEW z \in Nat, NEW q, StreamOK(q, k, D, z),
           q.pc = "sending", NEW h, h = q.inHand \cup {q.msg}
    PROVE  StreamOK([q EXCEPT !.pc = "top", !.msg = <<>>, !.inHand = h], k, D, z)
<1>. DEFINE r == [q EXCEPT !.pc = "top", !.msg = <<>>, !.inHand = h]
<1>0. q \in StreamRecord(D) /\ Counted(q)
  BY RecordFacts
<1>1. <<>> \in D \cup {<<>>} /\ "top" \in PCs /\ h \in SUBSET D
  BY RecordFacts DEF PCs, Looping, StreamOK
<1>2. /\ r \in StreamRecord(D) /\ r.pc = "top" /\ r.sem = q.sem /\ r.credit = q.credit
      /\ r.revoked = q.revoked /\ r.ackCh = q.ackCh /\ r.inHand = h
      /\ r.got = q.got /\ r.dropped = q.dropped /\ r.recv = q.recv /\ r.client = q.client
      /\ r.uncounted = q.uncounted
  BY <1>0, <1>1 DEF StreamRecord
<1>. HIDE DEF r
<1>3. IsFiniteSet(h) /\ Cardinality(h) \in Nat /\ Cardinality(h) <= Cardinality(q.inHand) + 1
  <2>1. IsFiniteSet(q.inHand) /\ Cardinality(q.inHand) \in Nat
    BY <1>0 DEF StreamOK, Counted
  <2>2. /\ IsFiniteSet(h)
        /\ Cardinality(h) \in {Cardinality(q.inHand), Cardinality(q.inHand) + 1}
    BY <2>1, FS_AddElement
  <2>. QED BY <2>1, <2>2
<1>4. /\ Held(r) = Cardinality(h) + Len(q.got) + Len(q.ackCh)
      /\ Held(q) = Cardinality(q.inHand) + Len(q.got) + Len(q.ackCh) + 1
  BY <1>2, <1>3, <1>0 DEF Held, Counted
<1>5. Held(r) \in Nat /\ Held(r) <= Held(q)
  <2>1. Cardinality(q.inHand) \in Nat /\ Len(q.got) \in Nat /\ Len(q.ackCh) \in Nat
    BY <1>0 DEF Counted
  <2>. QED BY ONLY <1>3, <1>4, <2>1
<1>6. /\ q.credit > 0 /\ q.sem + 0 + k + q.revoked = q.credit
      /\ Held(q) <= k + q.revoked + z /\ Held(q) <= q.credit + z
      /\ q.sem <= q.credit /\ Len(q.ackCh) <= q.credit
  BY DEF StreamOK, Looping
<1>7. Held(r) <= k + q.revoked + z /\ Held(r) <= q.credit + z
  <2>1. /\ q.credit \in Nat /\ q.revoked \in Nat /\ Held(q) \in Nat
        /\ k \in Nat /\ z \in Nat
    BY <1>0 DEF Counted
  <2>. QED BY ONLY <1>5, <1>6, <2>1
<1>8. StreamOK(r, k, D, z)
  BY <1>2, <1>3, <1>6, <1>7 DEF StreamOK, Looping, Owing
<1>. QED BY <1>8 DEF r

\* Send failed: the loop is left, whatever happens to the lease.
LEMMA RecordSendFails ==
    ASSUME NEW k \in Nat, NEW D, NEW z \in Nat, NEW q, StreamOK(q, k, D, z),
           q.pc = "sending", NEW n \in Nat, NEW pc, NEW u,
           (pc = "failed" /\ u = 1) \/ (pc = "exiting" /\ u = 0)
    PROVE  StreamOK([q EXCEPT !.pc = pc, !.msg = <<>>, !.uncounted = u], n, D, z)
<1>. DEFINE r == [q EXCEPT !.pc = pc, !.msg = <<>>, !.uncounted = u]
<1>0. q \in StreamRecord(D) /\ Counted(q)
  BY RecordFacts
<1>1. <<>> \in D \cup {<<>>} /\ pc \in PCs /\ u \in Nat
  BY <1>0 DEF Counted, PCs, Looping
<1>2. /\ r \in StreamRecord(D) /\ r.pc = pc /\ r.sem = q.sem /\ r.credit = q.credit
      /\ r.revoked = q.revoked /\ r.ackCh = q.ackCh /\ r.inHand = q.inHand
      /\ r.got = q.got /\ r.dropped = q.dropped /\ r.recv = q.recv /\ r.client = q.client
      /\ r.uncounted = u
  BY <1>0, <1>1 DEF StreamRecord
<1>. HIDE DEF r
<1>3. Held(r) = Held(q) - 1
  <2>1. /\ Held(r) = Cardinality(q.inHand) + Len(q.got) + Len(q.ackCh)
        /\ Held(q) = Cardinality(q.inHand) + Len(q.got) + Len(q.ackCh) + 1
    BY <1>2, <1>0 DEF Held, Counted
  <2>2. Cardinality(q.inHand) \in Nat /\ Len(q.got) \in Nat /\ Len(q.ackCh) \in Nat
    BY <1>0 DEF Counted
  <2>. QED BY ONLY <2>1, <2>2
<1>5. Held(q) \in Nat /\ q.credit \in Nat /\ Held(q) <= q.credit + z
  BY <1>0 DEF Counted, StreamOK
<1>6. Held(r) <= q.credit + z
  BY ONLY <1>3, <1>5, z \in Nat
<1>4. StreamOK(r, n, D, z)
  BY <1>2, <1>6 DEF StreamOK, Looping, Owing
<1>. QED BY <1>4 DEF r

\* A client opens the stream.
LEMMA RecordOpen ==
    ASSUME NEW k \in Nat, NEW D, NEW z \in Nat, NEW q, StreamOK(q, k, D, z), q.pc = "none"
    PROVE  StreamOK([q EXCEPT !.pc = "init", !.client = "up"], k, D, z)
<1>. DEFINE r == [q EXCEPT !.pc = "init", !.client = "up"]
<1>0. q \in StreamRecord(D) /\ Counted(q)
  BY RecordFacts
<1>1. "init" \in PCs
  BY DEF PCs
<1>2. /\ r \in StreamRecord(D) /\ r.pc = "init" /\ r.sem = q.sem /\ r.credit = q.credit
      /\ r.revoked = q.revoked /\ r.ackCh = q.ackCh /\ r.inHand = q.inHand
      /\ r.got = q.got /\ r.dropped = q.dropped /\ r.recv = q.recv
      /\ r.uncounted = q.uncounted
  BY <1>0, <1>1 DEF StreamRecord
<1>. HIDE DEF r
<1>3. Held(r) = Held(q)
  BY <1>2, <1>0 DEF Held, Counted
<1>4. StreamOK(r, k, D, z)
  BY <1>2, <1>3, <1>0 DEF StreamOK, Looping, Owing, Counted, Unopened
<1>. QED BY <1>4 DEF r

\* The window is granted: the semaphore is full and no lease exists yet.
LEMMA RecordCredit ==
    ASSUME NEW k \in Nat, NEW D, NEW z \in Nat, NEW q, StreamOK(q, k, D, z), q.pc = "init",
           NEW w \in Nat, w > 0
    PROVE  StreamOK([q EXCEPT !.pc = "top", !.recv = "running", !.credit = w, !.sem = w], k, D, z)
<1>. DEFINE r == [q EXCEPT !.pc = "top", !.recv = "running", !.credit = w, !.sem = w]
<1>0. q \in StreamRecord(D) /\ Counted(q)
  BY RecordFacts
<1>1. "top" \in PCs
  BY DEF PCs, Looping
<1>2. /\ r \in StreamRecord(D) /\ r.pc = "top" /\ r.sem = w /\ r.credit = w
      /\ r.revoked = q.revoked /\ r.ackCh = q.ackCh /\ r.inHand = q.inHand
      /\ r.got = q.got /\ r.dropped = q.dropped /\ r.recv = "running"
      /\ r.uncounted = q.uncounted
  BY <1>0, <1>1 DEF StreamRecord
<1>. HIDE DEF r
<1>3. /\ k = 0 /\ q.revoked = 0 /\ q.ackCh = <<>> /\ q.got = <<>>
      /\ q.inHand = {} /\ q.dropped = {} /\ q.uncounted = 0 /\ IsFiniteSet(q.inHand)
  BY DEF StreamOK, Unopened, Owing
<1>4. Held(r) = 0
  BY <1>2, <1>3, FS_EmptySet DEF Held
<1>5. StreamOK(r, k, D, z)
  BY <1>2, <1>3, <1>4 DEF StreamOK, Looping, Owing
<1>. QED BY <1>5 DEF r

\* The handler returns: nothing is left of the stream.
LEMMA RecordDone ==
    ASSUME NEW D, NEW z \in Nat
    PROVE  StreamOK([NoStream EXCEPT !.pc = "done"], 0, D, z)
<1>. DEFINE r == [NoStream EXCEPT !.pc = "done"]
<1>1. <<>> \in Seq(D) /\ Len(<<>>) = 0 /\ "done" \in PCs
  BY DEF PCs
<1>2. /\ r \in StreamRecord(D) /\ r.pc = "done" /\ r.sem = 0 /\ r.credit = 0
      /\ r.revoked = 0 /\ r.ackCh = <<>> /\ r.got = <<>> /\ r.inHand = {}
      /\ r.dropped = {} /\ r.uncounted = 0
  BY <1>1 DEF StreamRecord, NoStream
<1>. HIDE DEF r
<1>3. Held(r) = 0 /\ IsFiniteSet(r.inHand)
  BY <1>1, <1>2, FS_EmptySet DEF Held
<1>4. StreamOK(r, 0, D, z)
  BY <1>1, <1>2, <1>3 DEF StreamOK, Looping, Owing
<1>. QED BY <1>4 DEF r

\* Recv returns an ack of a delivery in the client's hands.
LEMMA RecordClientAck ==
    ASSUME NEW k \in Nat, NEW D, NEW z \in Nat, NEW q, StreamOK(q, k, D, z),
           q.recv = "running", q.got = <<>>, NEW m \in q.inHand
    PROVE  StreamOK([q EXCEPT !.inHand = @ \ {m}, !.got = <<m>>], k, D, z)
<1>. DEFINE r == [q EXCEPT !.inHand = @ \ {m}, !.got = <<m>>]
<1>0. /\ q \in StreamRecord(D) /\ Counted(q) /\ q.inHand \in SUBSET D /\ IsFiniteSet(q.inHand)
  BY RecordFacts DEF StreamOK
<1>1. <<m>> \in Seq(D) /\ q.inHand \ {m} \in SUBSET D /\ Len(<<m>>) = 1
  BY <1>0
<1>2. /\ r \in StreamRecord(D) /\ r.pc = q.pc /\ r.sem = q.sem /\ r.credit = q.credit
      /\ r.revoked = q.revoked /\ r.ackCh = q.ackCh /\ r.inHand = q.inHand \ {m}
      /\ r.msg = q.msg /\ r.got = <<m>> /\ r.dropped = q.dropped /\ r.recv = q.recv
      /\ r.client = q.client /\ r.uncounted = q.uncounted
  BY <1>0, <1>1 DEF StreamRecord
<1>. HIDE DEF r
<1>3. IsFiniteSet(r.inHand) /\ Cardinality(r.inHand) = Cardinality(q.inHand) - 1
  <2>1. /\ IsFiniteSet(q.inHand \ {m})
        /\ Cardinality(q.inHand \ {m}) = Cardinality(q.inHand) - 1
    BY ONLY <1>0, m \in q.inHand, FS_RemoveElement
  <2>. QED BY <1>2, <2>1
<1>4. Held(r) = Held(q)
  <2>1. Held(r) = (Cardinality(q.inHand) - 1) + 1 + Len(q.ackCh) + (IF q.pc = "sending" THEN 1 ELSE 0)
    BY <1>1, <1>2, <1>3 DEF Held
  <2>2. Held(q) = Cardinality(q.inHand) + 0 + Len(q.ackCh) + (IF q.pc = "sending" THEN 1 ELSE 0)
    BY DEF Held
  <2>3. Cardinality(q.inHand) \in Nat /\ Len(q.ackCh) \in Nat
    BY <1>0 DEF Counted
  <2>. QED BY ONLY <2>1, <2>2, <2>3
<1>5. q.pc \notin {"none", "init"}
  BY DEF StreamOK, Unopened
<1>6. StreamOK(r, k, D, z)
  BY <1>1, <1>2, <1>3, <1>4, <1>5 DEF StreamOK
<1>. QED BY <1>6 DEF r

\* Recv returns an ack the client made up; it is counted.
LEMMA RecordStray ==
    ASSUME NEW k \in Nat, NEW D, NEW z \in Nat, NEW q, StreamOK(q, k, D, z),
           q.recv = "running", q.got = <<>>, NEW m \in D
    PROVE  StreamOK([q EXCEPT !.got = <<m>>], k, D, z + 1)
<1>. DEFINE r == [q EXCEPT !.got = <<m>>]
<1>0. q \in StreamRecord(D) /\ Counted(q)
  BY RecordFacts
<1>1. <<m>> \in Seq(D) /\ Len(<<m>>) = 1
  OBVIOUS
<1>2. /\ r \in StreamRecord(D) /\ r.pc = q.pc /\ r.sem = q.sem /\ r.credit = q.credit
      /\ r.revoked = q.revoked /\ r.ackCh = q.ackCh /\ r.inHand = q.inHand
      /\ r.msg = q.msg /\ r.got = <<m>> /\ r.dropped = q.dropped /\ r.recv = q.recv
      /\ r.client = q.client /\ r.uncounted = q.uncounted
  BY <1>0, <1>1 DEF StreamRecord
<1>. HIDE DEF r
<1>3. Held(r) = Held(q) + 1
  <2>1. Held(r) = Cardinality(q.inHand) + 1 + Len(q.ackCh) + (IF q.pc = "sending" THEN 1 ELSE 0)
    BY <1>1, <1>2 DEF Held
  <2>2. Held(q) = Cardinality(q.inHand) + 0 + Len(q.ackCh) + (IF q.pc = "sending" THEN 1 ELSE 0)
    BY DEF Held
  <2>3. Cardinality(q.inHand) \in Nat /\ Len(q.ackCh) \in Nat
    BY <1>0 DEF Counted
  <2>. QED BY ONLY <2>1, <2>2, <2>3
<1>5. Held(q) <= q.credit + z /\ (q.pc \in Looping => Held(q) <= k + q.revoked + z)
  BY DEF StreamOK
<1>6. Held(r) <= q.credit + (z + 1) /\ (q.pc \in Looping => Held(r) <= k + q.revoked + (z + 1))
  <2>1. q.credit \in Nat /\ q.revoked \in Nat /\ Held(q) \in Nat /\ k \in Nat /\ z \in Nat
    BY <1>0 DEF Counted
  <2>. QED BY ONLY <1>3, <1>5, <2>1
<1>4. q.pc \notin {"none", "init"}
  BY DEF StreamOK, Unopened
<1>7. StreamOK(r, k, D, z + 1)
  BY <1>1, <1>2, <1>4, <1>6 DEF StreamOK
<1>. QED BY <1>7 DEF r

\* The goroutine passes its ack on to the channel.
LEMMA RecordPassed ==
    ASSUME NEW k \in Nat, NEW D, NEW z \in Nat, NEW q, StreamOK(q, k, D, z),
           q.got # <<>>, Len(q.ackCh) < q.credit
    PROVE  StreamOK([q EXCEPT !.ackCh = Append(@, Head(q.got)), !.got = <<>>], k, D, z)
<1>. DEFINE m == Head(q.got)
            r == [q EXCEPT !.ackCh = Append(@, m), !.got = <<>>]
<1>0. /\ q \in StreamRecord(D) /\ Counted(q) /\ q.ackCh \in Seq(D) /\ q.got \in Seq(D)
      /\ Len(q.got) = 1 /\ q.recv = "running"
  BY RecordFacts DEF StreamOK
<1>m. m \in D
  BY <1>0
<1>. HIDE DEF m
<1>1. /\ Append(q.ackCh, m) \in Seq(D) /\ Len(Append(q.ackCh, m)) = Len(q.ackCh) + 1
      /\ <<>> \in Seq(D) /\ Len(<<>>) = 0
  BY <1>0, <1>m
<1>2. /\ r \in StreamRecord(D) /\ r.pc = q.pc /\ r.sem = q.sem /\ r.credit = q.credit
      /\ r.revoked = q.revoked /\ r.ackCh = Append(q.ackCh, m) /\ r.inHand = q.inHand
      /\ r.msg = q.msg /\ r.got = <<>> /\ r.dropped = q.dropped /\ r.recv = q.recv
      /\ r.client = q.client /\ r.uncounted = q.uncounted
  BY <1>0, <1>1 DEF StreamRecord
<1>. HIDE DEF r
<1>4. Held(r) = Held(q)
  <2>1. Held(r) = Cardinality(q.inHand) + 0 + (Len(q.ackCh) + 1) + (IF q.pc = "sending" THEN 1 ELSE 0)
    BY <1>1, <1>2 DEF Held
  <2>2. Held(q) = Cardinality(q.inHand) + 1 + Len(q.ackCh) + (IF q.pc = "sending" THEN 1 ELSE 0)
    BY <1>0 DEF Held
  <2>3. Cardinality(q.inHand) \in Nat /\ Len(q.ackCh) \in Nat
    BY <1>0 DEF Counted
  <2>. QED BY ONLY <2>1, <2>2, <2>3
<1>5. q.pc \notin {"none", "init", "releasing", "notify"} /\ Len(r.ackCh) <= r.credit
  BY <1>0, <1>1, <1>2 DEF StreamOK, Unopened, Counted
<1>6. StreamOK(r, k, D, z)
  BY <1>2, <1>4, <1>5 DEF StreamOK
<1>. QED BY <1>6 DEF r, m

\* The goroutine drops its ack and ends.
LEMMA RecordDropped ==
    ASSUME NEW k \in Nat, NEW D, NEW z \in Nat, NEW q, StreamOK(q, k, D, z),
           q.got # <<>>, q.client = "lost"
    PROVE  StreamOK([q EXCEPT !.dropped = {Head(q.got)}, !.got = <<>>, !.recv = "done"], k, D, z)
<1>. DEFINE m == Head(q.got)
            r == [q EXCEPT !.dropped = {m}, !.got = <<>>, !.recv = "done"]
<1>0. /\ q \in StreamRecord(D) /\ Counted(q) /\ q.ackCh \in Seq(D) /\ q.got \in Seq(D)
      /\ Len(q.got) = 1 /\ q.recv = "running"
  BY RecordFacts DEF StreamOK
<1>m. m \in D
  BY <1>0
<1>. HIDE DEF m
<1>s. Cardinality({m}) = 1
  BY ONLY FS_Singleton
<1>1. {m} \in SUBSET D /\ Cardinality({m}) = 1 /\ <<>> \in Seq(D) /\ Len(<<>>) = 0
  BY <1>m, <1>s
<1>2. /\ r \in StreamRecord(D) /\ r.pc = q.pc /\ r.sem = q.sem /\ r.credit = q.credit
      /\ r.revoked = q.revoked /\ r.ackCh = q.ackCh /\ r.inHand = q.inHand
      /\ r.msg = q.msg /\ r.got = <<>> /\ r.dropped = {m} /\ r.recv = "done"
      /\ r.client = q.client /\ r.uncounted = q.uncounted
  BY <1>0, <1>1 DEF StreamRecord
<1>. HIDE DEF r
<1>3. Held(r) \in Nat /\ Held(r) <= Held(q)
  <2>1. Held(r) = Cardinality(q.inHand) + 0 + Len(q.ackCh) + (IF q.pc = "sending" THEN 1 ELSE 0)
    BY <1>1, <1>2 DEF Held
  <2>2. Held(q) = Cardinality(q.inHand) + 1 + Len(q.ackCh) + (IF q.pc = "sending" THEN 1 ELSE 0)
    BY <1>0 DEF Held
  <2>3. Cardinality(q.inHand) \in Nat /\ Len(q.ackCh) \in Nat
    BY <1>0 DEF Counted
  <2>. QED BY ONLY <2>1, <2>2, <2>3
<1>5. Held(q) <= q.credit + z /\ (q.pc \in Looping => Held(q) <= k + q.revoked + z)
  BY DEF StreamOK
<1>6. Held(r) <= q.credit + z /\ (q.pc \in Looping => Held(r) <= k + q.revoked + z)
  BY <1>0, <1>3, <1>5 DEF Counted
<1>7. q.pc \notin {"none", "init"}
  BY DEF StreamOK, Unopened
<1>8. StreamOK(r, k, D, z)
  BY <1>1, <1>2, <1>6, <1>7 DEF StreamOK
<1>. QED BY <1>8 DEF r, m

\* The client leaves.
LEMMA RecordLeaves ==
    ASSUME NEW k \in Nat, NEW D, NEW z \in Nat, NEW q, StreamOK(q, k, D, z),
           NEW how \in {"closed", "lost"}, how = "lost" \/ q.client = "up"
    PROVE  StreamOK([q EXCEPT !.client = how], k, D, z)
<1>. DEFINE r == [q EXCEPT !.client = how]
<1>0. q \in StreamRecord(D) /\ Counted(q)
  BY RecordFacts
<1>1. how \in {"none", "up", "closed", "lost"}
  OBVIOUS
<1>2. /\ r \in StreamRecord(D) /\ r.pc = q.pc /\ r.sem = q.sem /\ r.credit = q.credit
      /\ r.revoked = q.revoked /\ r.ackCh = q.ackCh /\ r.inHand = q.inHand
      /\ r.msg = q.msg /\ r.recv = q.recv /\ r.got = q.got /\ r.dropped = q.dropped
      /\ r.client = how /\ r.uncounted = q.uncounted
  BY <1>0, <1>1 DEF StreamRecord
<1>. HIDE DEF r
<1>3. Held(r) = Held(q)
  BY <1>2 DEF Held
<1>4. q.dropped # {} => how = "lost"
  BY DEF StreamOK
<1>7. StreamOK(r, k, D, z)
  BY <1>2, <1>3, <1>4 DEF StreamOK, Unopened
<1>. QED BY <1>7 DEF r

\* The receive goroutine ends.
LEMMA RecordRecvEnds ==
    ASSUME NEW k \in Nat, NEW D, NEW z \in Nat, NEW q, StreamOK(q, k, D, z),
           q.recv = "running", q.got = <<>>
    PROVE  StreamOK([q EXCEPT !.recv = "done"], k, D, z)
<1>. DEFINE r == [q EXCEPT !.recv = "done"]
<1>0. q \in StreamRecord(D) /\ Counted(q)
  BY RecordFacts
<1>2. /\ r \in StreamRecord(D) /\ r.pc = q.pc /\ r.sem = q.sem /\ r.credit = q.credit
      /\ r.revoked = q.revoked /\ r.ackCh = q.ackCh /\ r.inHand = q.inHand
      /\ r.msg = q.msg /\ r.recv = "done" /\ r.got = q.got /\ r.dropped = q.dropped
      /\ r.client = q.client /\ r.uncounted = q.uncounted
  BY <1>0 DEF StreamRecord
<1>. HIDE DEF r
<1>3. Held(r) = Held(q)
  BY <1>2, <1>0 DEF Held, Counted
<1>4. StreamOK(r, k, D, z)
  BY <1>2, <1>3 DEF StreamOK, Unopened
<1>. QED BY <1>4 DEF r

\* An ack leaves the channel; one that ended a lease is still to be counted.
LEMMA RecordTakeAck ==
    ASSUME NEW k \in Nat, NEW D, NEW z \in Nat, NEW q, StreamOK(q, k, D, z), q.ackCh # <<>>,
           NEW d \in {0, 1}, d <= k, NEW pc,
           \/ q.pc \in {"top", "acquire", "park"} /\ pc = IF d = 1 THEN "acked" ELSE "top"
           \/ q.pc = "exiting" /\ pc = IF d = 1 THEN "lateAcked" ELSE "exiting"
    PROVE  StreamOK([q EXCEPT !.ackCh = Tail(@), !.pc = pc, !.uncounted = d], k - d, D, z)
<1>. DEFINE r == [q EXCEPT !.ackCh = Tail(@), !.pc = pc, !.uncounted = d]
<1>0. q \in StreamRecord(D) /\ Counted(q) /\ q.ackCh \in Seq(D)
  BY RecordFacts
<1>1. /\ Tail(q.ackCh) \in Seq(D) /\ Len(Tail(q.ackCh)) = Len(q.ackCh) - 1
      /\ pc \in PCs /\ d \in Nat
  BY <1>0 DEF Counted, PCs, Looping
<1>2. /\ r \in StreamRecord(D) /\ r.pc = pc /\ r.sem = q.sem /\ r.credit = q.credit
      /\ r.revoked = q.revoked /\ r.ackCh = Tail(q.ackCh) /\ r.inHand = q.inHand
      /\ r.got = q.got /\ r.dropped = q.dropped /\ r.recv = q.recv /\ r.client = q.client
      /\ r.uncounted = d
  BY <1>0, <1>1 DEF StreamRecord
<1>. HIDE DEF r
<1>n. /\ q.credit \in Nat /\ q.sem \in Nat /\ q.revoked \in Nat /\ Held(q) \in Nat
      /\ Len(q.ackCh) \in Nat /\ Len(q.got) \in Nat /\ Cardinality(q.inHand) \in Nat
      /\ k \in Nat /\ z \in Nat /\ d \in {0, 1} /\ d <= k
  BY <1>0 DEF Counted
<1>3. Held(r) = Held(q) - 1
  <2>1. /\ Held(r) = Cardinality(q.inHand) + Len(q.got) + (Len(q.ackCh) - 1) + 0
        /\ Held(q) = Cardinality(q.inHand) + Len(q.got) + Len(q.ackCh) + 0
    BY <1>1, <1>2 DEF Held
  <2>. QED BY ONLY <2>1, <1>n
<1>4. /\ IsFiniteSet(q.inHand) /\ Held(q) <= q.credit + z
      /\ q.sem <= q.credit /\ Len(q.ackCh) <= q.credit
      /\ q.got # <<>> => q.recv = "running" /\ Len(q.got) = 1
      /\ q.dropped # {} => q.recv = "done" /\ q.client = "lost" /\ Cardinality(q.dropped) = 1
  BY DEF StreamOK
<1>5. Held(r) <= q.credit + z /\ Len(Tail(q.ackCh)) <= q.credit
  BY ONLY <1>n, <1>1, <1>3, <1>4
<1>6. CASE q.pc \in {"top", "acquire", "park"} /\ pc = IF d = 1 THEN "acked" ELSE "top"
  <2>1. /\ q.credit > 0 /\ q.sem + 0 + k + q.revoked = q.credit
        /\ Held(q) <= k + q.revoked + z
    BY <1>6 DEF StreamOK, Looping
  <2>2. /\ q.sem + d + (k - d) + q.revoked = q.credit
        /\ Held(r) <= (k - d) + q.revoked + z
    <3>1. d = 0 \/ d = 1
      BY ONLY <1>n
    <3>2. k - d \in Nat
      BY ONLY <1>n, <3>1
    <3>3. ASSUME NEW h \in Nat, NEW g, g = h - 1, NEW v \in Nat, h <= k + v + z
          PROVE  g <= (k - d) + v + z
      BY ONLY <3>1, <3>2, <3>3, k \in Nat, z \in Nat
    <3>4. ASSUME NEW h \in Nat, NEW v \in Nat, h + 0 + k + v = q.credit
          PROVE  h + d + (k - d) + v = q.credit
      BY ONLY <3>1, <3>4, k \in Nat
    <3>. QED BY ONLY <1>n, <1>3, <2>1, <3>3, <3>4
  <2>3. pc \in Looping /\ d = IF pc \in {"acked", "lease", "miss"} THEN 1 ELSE 0
    BY <1>6 DEF Looping
  <2>4. pc \notin {"none", "init", "notify", "done", "releasing", "sending"}
        /\ (pc \in Owing => d = 1) /\ (pc \notin Owing => d = 0)
    BY <1>6 DEF Owing
  <2>5. StreamOK(r, k - d, D, z)
    BY <1>2, <1>4, <1>5, <2>1, <2>2, <2>3, <2>4 DEF StreamOK
  <2>. QED BY <2>5 DEF r
<1>7. CASE q.pc = "exiting" /\ pc = IF d = 1 THEN "lateAcked" ELSE "exiting"
  <2>1. pc \notin {"none", "init", "notify", "done", "releasing", "sending"} \cup Looping
        /\ (pc \in Owing => d = 1) /\ (pc \notin Owing => d = 0)
    BY <1>7 DEF Owing, Looping
  <2>2. StreamOK(r, k - d, D, z)
    BY <1>2, <1>4, <1>5, <2>1 DEF StreamOK
  <2>. QED BY <2>2 DEF r
<1>. QED BY <1>6, <1>7

\* A lease that ended is counted.  In the loop, its token goes back.
LEMMA RecordCounted ==
    ASSUME NEW k \in Nat, NEW D, NEW z \in Nat, NEW q, StreamOK(q, k, D, z), NEW pc, NEW sem,
           \/ q.pc = "acked" /\ pc = "top" /\ sem = q.sem + 1
           \/ q.pc \in {"lateAcked", "failed"} /\ pc = "exiting" /\ sem = q.sem
    PROVE  StreamOK([q EXCEPT !.pc = pc, !.uncounted = 0, !.sem = sem], k, D, z)
<1>. DEFINE r == [q EXCEPT !.pc = pc, !.uncounted = 0, !.sem = sem]
<1>0. q \in StreamRecord(D) /\ Counted(q)
  BY RecordFacts
<1>1. pc \in PCs /\ sem \in Nat
  BY <1>0 DEF Counted, PCs, Looping
<1>2. /\ r \in StreamRecord(D) /\ r.pc = pc /\ r.sem = sem /\ r.credit = q.credit
      /\ r.revoked = q.revoked /\ r.ackCh = q.ackCh /\ r.inHand = q.inHand
      /\ r.got = q.got /\ r.dropped = q.dropped /\ r.recv = q.recv /\ r.client = q.client
      /\ r.uncounted = 0
  BY <1>0, <1>1 DEF StreamRecord
<1>. HIDE DEF r
<1>3. Held(r) = Held(q)
  BY <1>2, <1>0 DEF Held, Counted
<1>n. q.sem \in Nat /\ q.credit \in Nat /\ q.revoked \in Nat
  BY <1>0 DEF Counted
<1>4. CASE q.pc = "acked" /\ pc = "top" /\ sem = q.sem + 1
  <2>1. /\ q.credit > 0 /\ q.sem + 1 + k + q.revoked = q.credit
        /\ Held(q) <= k + q.revoked + z /\ Held(q) <= q.credit + z /\ Len(q.ackCh) <= q.credit
    BY <1>4 DEF StreamOK, Looping
  <2>2. sem <= q.credit /\ sem + 0 + k + q.revoked = q.credit
    BY ONLY <1>n, <1>4, <2>1, k \in Nat
  <2>3. StreamOK(r, k, D, z)
    BY <1>2, <1>3, <1>4, <2>1, <2>2 DEF StreamOK, Looping, Owing
  <2>. QED BY <2>3 DEF r
<1>5. CASE q.pc \in {"lateAcked", "failed"} /\ pc = "exiting" /\ sem = q.sem
  <2>1. StreamOK(r, k, D, z)
    BY <1>2, <1>3, <1>5 DEF StreamOK, Looping, Owing
  <2>. QED BY <2>1 DEF r
<1>. QED BY <1>4, <1>5

\* One more lease is released; the last one ends the release.
LEMMA RecordRelease ==
    ASSUME NEW k \in Nat, NEW D, NEW z \in Nat, NEW q, StreamOK(q, k, D, z), q.pc = "releasing",
           NEW n \in Nat, NEW pc, pc = "releasing" \/ (pc = "notify" /\ n = 0)
    PROVE  StreamOK([q EXCEPT !.pc = pc, !.uncounted = @ + 1], n, D, z)
<1>. DEFINE r == [q EXCEPT !.pc = pc, !.uncounted = @ + 1]
<1>0. q \in StreamRecord(D) /\ Counted(q)
  BY RecordFacts
<1>1. pc \in PCs /\ q.uncounted + 1 \in Nat
  BY <1>0 DEF PCs, Counted
<1>2. /\ r \in StreamRecord(D) /\ r.pc = pc /\ r.sem = q.sem /\ r.credit = q.credit
      /\ r.revoked = q.revoked /\ r.ackCh = q.ackCh /\ r.inHand = q.inHand
      /\ r.got = q.got /\ r.dropped = q.dropped /\ r.recv = q.recv /\ r.client = q.client
  BY <1>0, <1>1 DEF StreamRecord
<1>. HIDE DEF r
<1>3. Held(r) = Held(q)
  BY <1>2, <1>0 DEF Held, Counted
<1>4. StreamOK(r, n, D, z)
  BY <1>2, <1>3, <1>0 DEF StreamOK, Looping, Owing, Counted
<1>. QED BY <1>4 DEF r

\* The sweeper takes a lease back: its token is gone with it.
LEMMA RecordRevoked ==
    ASSUME NEW k \in Nat, NEW D, NEW z \in Nat, NEW q, StreamOK(q, k, D, z), k > 0
    PROVE  StreamOK([q EXCEPT !.revoked = @ + 1], k - 1, D, z)
<1>. DEFINE r == [q EXCEPT !.revoked = @ + 1]
<1>0. q \in StreamRecord(D) /\ Counted(q)
  BY RecordFacts
<1>1. q.revoked + 1 \in Nat
  BY <1>0 DEF Counted
<1>2. /\ r \in StreamRecord(D) /\ r.pc = q.pc /\ r.sem = q.sem /\ r.credit = q.credit
      /\ r.revoked = q.revoked + 1 /\ r.ackCh = q.ackCh /\ r.inHand = q.inHand
      /\ r.msg = q.msg
      /\ r.got = q.got /\ r.dropped = q.dropped /\ r.recv = q.recv /\ r.client = q.client
      /\ r.uncounted = q.uncounted
  BY <1>0, <1>1 DEF StreamRecord
<1>. HIDE DEF r
<1>3. Held(r) = Held(q)
  BY <1>2, <1>0 DEF Held, Counted
<1>4. q.pc \in PCs /\ q.pc \notin {"none", "init", "notify", "done"}
  BY <1>0 DEF StreamOK, StreamRecord
<1>5. CASE q.pc \in Looping
  <2>1. /\ q.credit > 0 /\ Held(q) <= k + q.revoked + z
        /\ q.sem + (IF q.pc \in {"acked", "lease", "miss"} THEN 1 ELSE 0) + k + q.revoked = q.credit
    BY <1>5 DEF StreamOK
  <2>2. /\ q.credit \in Nat /\ q.sem \in Nat /\ q.revoked \in Nat /\ Held(q) \in Nat
        /\ k \in Nat /\ z \in Nat
    BY <1>0 DEF Counted
  <2>3. /\ Held(q) <= (k - 1) + (q.revoked + 1) + z
        /\ q.sem + (IF q.pc \in {"acked", "lease", "miss"} THEN 1 ELSE 0) + (k - 1) + (q.revoked + 1) = q.credit
    BY ONLY <2>1, <2>2
  <2>4. StreamOK(r, k - 1, D, z)
    BY <1>2, <1>3, <1>4, <2>1, <2>3 DEF StreamOK
  <2>. QED BY <2>4 DEF r
<1>6. CASE q.pc \notin Looping
  <2>1. StreamOK(r, k - 1, D, z)
    BY <1>2, <1>3, <1>4, <1>6 DEF StreamOK
  <2>. QED BY <2>1 DEF r
<1>. QED BY <1>5, <1>6

-----------------------------------------------------------------------------
(* The server keeps to the contract of its store.                            *)

\* A lease that ends without an ack is a step of the contract, and a backoff
\* is only ever skipped for an id that is retried.
LEMMA EndLeaseStep ==
    ASSUME StoreTypeOK, visible \subseteq retrying, NEW i \in Leased, NEW b \in BOOLEAN,
           EndLease(i, b)
    PROVE  /\ StoreNext /\ owner' = DropLeases({i}) /\ issued' = issued /\ queued' = queued
           /\ visible' \subseteq retrying'
<1>1. i \in 1..issued
  BY DEF StoreTypeOK
<1>2. CASE StoreRequeue(i) /\ visible' = IF b THEN visible \cup {i} ELSE visible
  BY <1>1, <1>2 DEF StoreNext, StoreRequeue
<1>3. CASE StoreDeadLetter(i) /\ UNCHANGED visible
  BY <1>1, <1>3 DEF StoreNext, StoreDeadLetter
<1>. QED BY <1>2, <1>3 DEF EndLease

\* An ack from the channel is the holder's ack, or it leaves the store alone.
LEMMA TakeAckStep ==
    ASSUME StoreTypeOK, NEW s \in Consumers, NEW counting, NEW next, TakeAck(s, counting, next)
    PROVE  [StoreNext]_storeVars
<1>. DEFINE i == Head(stream[s].ackCh)[1]
<1>1. CASE i \in Owned(s)
  <2>1. StoreAck(s, i)
    BY <1>1 DEF TakeAck
  <2>2. i \in 1..issued
    BY <1>1 DEF StoreTypeOK, Owned
  <2>. QED BY <2>1, <2>2 DEF StoreNext
<1>2. CASE i \notin Owned(s)
  BY <1>2 DEF TakeAck
<1>. QED BY <1>1, <1>2

\* Every step of the server is a step of the Store contract or leaves it alone.
LEMMA StoreStep == ServerInv /\ Next => [StoreNext]_storeVars
<1>. SUFFICES ASSUME ServerInv, Next PROVE [StoreNext]_storeVars
  OBVIOUS
<1>0. StoreTypeOK /\ visible \subseteq retrying
  BY DEF ServerInv, StoreInv, LanesOK
<1>1. ASSUME NEW p \in Producers, (\E n \in 1..MaxBatch : ProduceBatch(p, n)) \/ ProduceStep(p)
      PROVE  [StoreNext]_storeVars
  BY <1>1 DEF ProduceBatch, ProduceStep, ProduceEnqueue, ProduceWaits, ProduceRefused,
              ProduceNotify, lanes, StoreNext
<1>2. ASSUME NEW s \in Consumers,
             StreamMove(s) \/ \E i \in 1..issued : ClientStrayAck(s, i)
      PROVE  UNCHANGED storeVars
  BY <1>2 DEF StreamMove, Open, InitialCredit, ClientAck, ClientStrayAck, ClientLeaves,
              InitialRecvFails, RecvEnds, AckPassed, AckDropped, CountAck,
              CleanupCount, DrainedAcks, LoopEnds, AcquireToken, LeaseNone, Park, WakeUp,
              FailedNotify, SendOk, CleanupRelease, CleanupNotify, lanes
<1>3. ASSUME NEW s \in Consumers, DrainAck(s) \/ SelectAck(s) \/ CleanupAck(s)
      PROVE  [StoreNext]_storeVars
  BY <1>0, <1>3, TakeAckStep DEF DrainAck, SelectAck, CleanupAck
<1>4. ASSUME NEW s \in Consumers, LeaseNext(s) PROVE StoreNext
  <2>. PICK i \in IF visible # {} THEN visible ELSE queued : StoreLease(s, i)
    BY <1>4 DEF LeaseNext
  <2>1. i \in 1..issued
    BY <1>0 DEF StoreTypeOK
  <2>. QED BY <2>1 DEF StoreNext
<1>5. ASSUME NEW s \in Consumers, SendFails(s) PROVE [StoreNext]_storeVars
  <2>. DEFINE i == stream[s].msg[1]
  <2>1. CASE i \in Owned(s)
    BY <1>0, <1>5, <2>1, EndLeaseStep DEF SendFails, Owned
  <2>2. CASE i \notin Owned(s)
    BY <1>5, <2>2 DEF SendFails
  <2>. QED BY <2>1, <2>2
<1>6. ASSUME NEW s \in Consumers, ReleaseNext(s) PROVE StoreNext
  BY <1>0, <1>6, EndLeaseStep DEF ReleaseNext, Owned
<1>7. ASSUME NEW i \in 1..issued, SweepNext(i) \/ BackoffElapses(i) \/ ReplayNext(i)
      PROVE  [StoreNext]_storeVars
  <2>1. CASE SweepNext(i)
    BY <1>0, <2>1, EndLeaseStep DEF SweepNext
  <2>2. CASE BackoffElapses(i)
    BY <2>2 DEF BackoffElapses
  <2>3. CASE ReplayNext(i)
    BY <2>3 DEF ReplayNext, StoreNext
  <2>. QED BY <1>7, <2>1, <2>2, <2>3
<1>8. CASE SweepUnlock \/ SweepNotify \/ ReplayUnlock \/ ReplayNotify
             \/ BeginDrain \/ Shutdown \/ ForceStop
  BY <1>8 DEF SweepUnlock, SweepNotify, ReplayUnlock, ReplayNotify, BeginDrain, Shutdown,
              ForceStop, EnterPhase, lanes
<1>. QED BY <1>1, <1>2, <1>3, <1>4, <1>5, <1>6, <1>7, <1>8
         DEF Next, Receiving, SendLoop, Cleanup, StreamMove

-----------------------------------------------------------------------------
(* Every stream, through every action.                                       *)

\* A granted window is positive: a non-positive request gets the default.
LEMMA WindowPositive ==
    ASSUME NEW request \in Requests
    PROVE  Window(request) \in Nat /\ Window(request) > 0
  BY StoreAssumption, ServerAssumption DEF Window

\* A step that touches no stream.
LEMMA StreamsStill ==
    ASSUME ServerInv, [StoreNext]_storeVars, owner' = owner,
           count'.strays = count.strays, stream' = stream
    PROVE  StreamsOK'
<1>1. \A t : Owned(t)' = Owned(t)
  BY DEF Owned, Leased
<1>2. Deliveries \subseteq Deliveries'
  BY DeliveriesGrow DEF ServerInv, StoreInv
<1>3. ASSUME NEW t \in Consumers
      PROVE  StreamOK(stream'[t], Cardinality(Owned(t)'), Deliveries', count'.strays)
  <2>1. /\ StreamOK(stream[t], Cardinality(Owned(t)), Deliveries, count.strays)
        /\ Cardinality(Owned(t)) \in Nat /\ count.strays \in Nat
    BY StreamFacts
  <2>2. StreamOK(stream[t], Cardinality(Owned(t)), Deliveries', count.strays)
    BY <1>2, <2>1, StreamOKGrows
  <2>. QED BY <1>1, <2>2
<1>. QED BY <1>3 DEF ServerInv, StreamsOK

\* Taking an ack: the stream gives up the lease it ends, if it ends one.
LEMMA StreamTakesAck ==
    ASSUME ServerInv, NEW s \in Consumers, NEW counting, NEW next,
           \/ stream[s].pc \in {"top", "acquire", "park"} /\ counting = "acked" /\ next = "top"
           \/ stream[s].pc = "exiting" /\ counting = "lateAcked" /\ next = "exiting",
           TakeAck(s, counting, next)
    PROVE  StreamsOK'
<1>. DEFINE i == Head(stream[s].ackCh)[1]
            q == stream[s]
            k == Cardinality(Owned(s))
            z == count.strays
<1>1. StreamOK(q, k, Deliveries, z) /\ k \in Nat /\ z \in Nat /\ q.ackCh # <<>>
  BY StreamFacts DEF TakeAck
<1>2. count'.strays = z
  BY DEF TakeAck
<1>3. [StoreNext]_storeVars
  BY TakeAckStep DEF ServerInv, StoreInv
<1>4. Deliveries' = Deliveries
  BY DEF TakeAck, StoreAck, storeVars, Deliveries
<1>5. CASE i \in Owned(s)
  <2>. DEFINE r == [q EXCEPT !.ackCh = Tail(@), !.pc = counting, !.uncounted = 1]
  <2>1. stream' = [stream EXCEPT ![s] = r]
    BY <1>5 DEF TakeAck, ServerInv, StreamsOK
  <2>2. owner' = DropLeases({i})
    BY <1>5 DEF TakeAck, StoreAck
  <2>3. /\ Cardinality(Owned(s)') = k - 1
        /\ \A t \in Consumers : t # s => Owned(t)' = Owned(t)
    BY <1>5, <2>2, OwnedDrop DEF ServerInv, StoreInv
  <2>4. 1 <= k
    BY <1>1, <1>5, OwnedFinite DEF ServerInv, StoreInv
  <2>5. StreamOK(r, k - 1, Deliveries, z)
    BY <1>1, <2>4, RecordTakeAck
  <2>. HIDE DEF r
  <2>6. StreamOK(r, Cardinality(Owned(s)'), Deliveries', count'.strays)
    BY <1>2, <1>4, <2>3, <2>5
  <2>7. count'.strays \in Nat /\ count.strays <= count'.strays
    BY <1>1, <1>2
  <2>. QED BY <1>3, <2>1, <2>3, <2>6, <2>7, OneStream
<1>6. CASE i \notin Owned(s)
  <2>. DEFINE r == [q EXCEPT !.ackCh = Tail(@), !.pc = next, !.uncounted = 0]
  <2>1. stream' = [stream EXCEPT ![s] = r]
    BY <1>6 DEF TakeAck, ServerInv, StreamsOK
  <2>2. UNCHANGED storeVars
    BY <1>6 DEF TakeAck
  <2>3. k - 0 = k /\ 0 <= k /\ 0 \in {0, 1}
    BY <1>1
  <2>5. \/ q.pc \in {"top", "acquire", "park"} /\ next = IF 0 = 1 THEN "acked" ELSE "top"
        \/ q.pc = "exiting" /\ next = IF 0 = 1 THEN "lateAcked" ELSE "exiting"
    OBVIOUS
  <2>4. StreamOK(r, k - 0, Deliveries, z)
    BY <1>1, <2>3, <2>5, RecordTakeAck
  <2>. HIDE DEF r
  <2>. QED BY <1>1, <1>2, <2>1, <2>2, <2>3, <2>4, LocalStep
<1>. QED BY <1>5, <1>6

\* The send loop, the cleanup, the client and the goroutine of a stream, as far
\* as they leave the store alone.
LEMMA StreamMoves ==
    ASSUME ServerInv, NEW s \in Consumers, StreamMove(s)
    PROVE  StreamsOK'
<1>. DEFINE q == stream[s]
            k == Cardinality(Owned(s))
            OK(r) == StreamOK(r, k, Deliveries, count.strays)
            To(r) == stream' = [stream EXCEPT ![s] = r]
<1>1. OK(q) /\ k \in Nat /\ count.strays \in Nat
  BY StreamFacts
<1>2. UNCHANGED storeVars /\ count'.strays = count.strays
  BY DEF StreamMove, ServerInv, CountOK, Incr, Open, InitialCredit, ClientAck, ClientLeaves,
         InitialRecvFails, RecvEnds, AckPassed, AckDropped, CountAck,
              CleanupCount, DrainedAcks, LoopEnds, AcquireToken, LeaseNone, Park,
         WakeUp, FailedNotify, SendOk, CleanupRelease, CleanupNotify, lanes
<1>3. SUFFICES \E r : To(r) /\ OK(r)
  BY <1>2, LocalStep
<1>4. \A pc : GoTo(s, pc) => To([q EXCEPT !.pc = pc])
  BY DEF GoTo
<1>5. Finish(s) => To([NoStream EXCEPT !.pc = "done"])
  BY DEF Finish
<1>6. k = 0 => OK([NoStream EXCEPT !.pc = "done"])
  BY <1>1, RecordDone
<1>7. CASE Open(s)
  <2>1. To([q EXCEPT !.pc = "init", !.client = "up"])
    BY <1>7 DEF Open
  <2>2. OK([q EXCEPT !.pc = "init", !.client = "up"])
    BY <1>1, <1>7, RecordOpen DEF Open
  <2>. QED BY <2>1, <2>2
<1>8. ASSUME NEW request \in Requests, InitialCredit(s, request) PROVE \E r : To(r) /\ OK(r)
  <2>. DEFINE w == Window(request)
  <2>1. To([q EXCEPT !.pc = "top", !.recv = "running", !.credit = w, !.sem = w])
    BY <1>8 DEF InitialCredit
  <2>2. w \in Nat /\ w > 0
    BY WindowPositive
  <2>3. OK([q EXCEPT !.pc = "top", !.recv = "running", !.credit = w, !.sem = w])
    BY <1>1, <1>8, <2>2, RecordCredit DEF InitialCredit
  <2>. QED BY <2>1, <2>3
<1>9. CASE ClientAck(s)
  <2>. PICK m \in q.inHand :
          stream' = [stream EXCEPT ![s].inHand = @ \ {m}, ![s].got = <<m>>]
    BY <1>9 DEF ClientAck
  <2>1. To([q EXCEPT !.inHand = @ \ {m}, !.got = <<m>>])
    OBVIOUS
  <2>2. OK([q EXCEPT !.inHand = @ \ {m}, !.got = <<m>>])
    BY <1>1, <1>9, RecordClientAck DEF ClientAck, Receives
  <2>. QED BY <2>1, <2>2
<1>10. ASSUME NEW how \in {"closed", "lost"}, ClientLeaves(s, how) PROVE \E r : To(r) /\ OK(r)
  <2>1. To([q EXCEPT !.client = how])
    BY <1>10 DEF ClientLeaves
  <2>2. OK([q EXCEPT !.client = how])
    BY <1>1, <1>10, RecordLeaves DEF ClientLeaves
  <2>. QED BY <2>1, <2>2
<1>11. CASE RecvEnds(s)
  <2>1. To([q EXCEPT !.recv = "done"])
    BY <1>11 DEF RecvEnds
  <2>2. OK([q EXCEPT !.recv = "done"])
    BY <1>1, <1>11, RecordRecvEnds DEF RecvEnds
  <2>. QED BY <2>1, <2>2
<1>12. CASE AcquireToken(s)
  <2>1. To([q EXCEPT !.pc = "lease", !.sem = @ - 1])
    BY <1>12 DEF AcquireToken
  <2>2. OK([q EXCEPT !.pc = "lease", !.sem = @ - 1])
    BY <1>1, <1>12, RecordAcquire DEF AcquireToken
  <2>. QED BY <2>1, <2>2
<1>13. CASE Park(s)
  <2>1. To([q EXCEPT !.pc = "park", !.sem = @ + 1])
    BY <1>13 DEF Park
  <2>2. OK([q EXCEPT !.pc = "park", !.sem = @ + 1])
    BY <1>1, <1>13, RecordPark DEF Park
  <2>. QED BY <2>1, <2>2
<1>14. CASE SendOk(s)
  <2>. DEFINE h == q.inHand \cup {q.msg}
  <2>1. To([q EXCEPT !.pc = "top", !.msg = <<>>, !.inHand = h])
    BY <1>14 DEF SendOk
  <2>2. OK([q EXCEPT !.pc = "top", !.msg = <<>>, !.inHand = h])
    BY <1>1, <1>14, RecordSent DEF SendOk
  <2>. QED BY <2>1, <2>2
<1>15. CASE InitialRecvFails(s) \/ CleanupNotify(s)
  <2>1. k = 0
    BY <1>1, <1>15 DEF StreamOK, InitialRecvFails, CleanupNotify
  <2>2. Finish(s)
    BY <1>15 DEF InitialRecvFails, CleanupNotify
  <2>. QED BY <1>5, <1>6, <2>1, <2>2
<1>16. CASE CleanupRelease(s)
  <2>1. CASE Owned(s) = {}
    <3>1. k = 0
      BY <2>1, FS_EmptySet
    <3>2. Finish(s)
      BY <1>16, <2>1 DEF CleanupRelease
    <3>. QED BY <1>5, <1>6, <3>1, <3>2
  <2>2. CASE Owned(s) # {}
    <3>1. GoTo(s, "releasing")
      BY <1>16, <2>2 DEF CleanupRelease
    <3>2. OK([q EXCEPT !.pc = "releasing"])
      BY <1>1, <1>16, RecordGoTo DEF CleanupRelease
    <3>. QED BY <1>4, <3>1, <3>2
  <2>. QED BY <2>1, <2>2
<1>17. CASE DrainedAcks(s)
  <2>1. OK([q EXCEPT !.pc = "acquire"])
    BY <1>1, <1>17, RecordGoTo DEF DrainedAcks
  <2>. QED BY <1>4, <1>17, <2>1 DEF DrainedAcks
<1>18. CASE LeaseNone(s)
  <2>1. OK([q EXCEPT !.pc = "miss"])
    BY <1>1, <1>18, RecordGoTo DEF LeaseNone
  <2>. QED BY <1>4, <1>18, <2>1 DEF LeaseNone
<1>19. CASE WakeUp(s)
  <2>1. OK([q EXCEPT !.pc = "top"])
    BY <1>1, <1>19, RecordGoTo DEF WakeUp
  <2>. QED BY <1>4, <1>19, <2>1 DEF WakeUp
<1>20. CASE LoopEnds(s)
  <2>1. OK([q EXCEPT !.pc = "exiting"])
    BY <1>1, <1>20, RecordGoTo DEF LoopEnds
  <2>. QED BY <1>4, <1>20, <2>1 DEF LoopEnds
<1>21. CASE AckPassed(s)
  <2>1. To([q EXCEPT !.ackCh = Append(@, Head(q.got)), !.got = <<>>])
    BY <1>21 DEF AckPassed
  <2>2. OK([q EXCEPT !.ackCh = Append(@, Head(q.got)), !.got = <<>>])
    BY <1>1, <1>21, RecordPassed DEF AckPassed
  <2>. QED BY <2>1, <2>2
<1>22. CASE AckDropped(s)
  <2>1. To([q EXCEPT !.dropped = {Head(q.got)}, !.got = <<>>, !.recv = "done"])
    BY <1>22 DEF AckDropped
  <2>2. OK([q EXCEPT !.dropped = {Head(q.got)}, !.got = <<>>, !.recv = "done"])
    BY <1>1, <1>22, RecordDropped DEF AckDropped
  <2>. QED BY <2>1, <2>2
<1>23. CASE CountAck(s)
  <2>1. To([q EXCEPT !.pc = "top", !.uncounted = 0, !.sem = q.sem + 1])
    BY <1>23 DEF CountAck
  <2>2. OK([q EXCEPT !.pc = "top", !.uncounted = 0, !.sem = q.sem + 1])
    BY <1>1, <1>23, RecordCounted DEF CountAck
  <2>. QED BY <2>1, <2>2
<1>24. CASE CleanupCount(s) \/ FailedNotify(s)
  <2>1. To([q EXCEPT !.pc = "exiting", !.uncounted = 0])
    BY <1>24 DEF CleanupCount, FailedNotify
  <2>2. [q EXCEPT !.pc = "exiting", !.uncounted = 0]
          = [q EXCEPT !.pc = "exiting", !.uncounted = 0, !.sem = q.sem]
    BY <1>1, RecordFacts DEF StreamRecord
  <2>3. OK([q EXCEPT !.pc = "exiting", !.uncounted = 0, !.sem = q.sem])
    BY <1>1, <1>24, RecordCounted DEF CleanupCount, FailedNotify
  <2>. QED BY <2>1, <2>2, <2>3
<1>. QED BY <1>7, <1>8, <1>9, <1>10, <1>11, <1>12, <1>13, <1>14, <1>15, <1>16, <1>17,
            <1>18, <1>19, <1>20, <1>21, <1>22, <1>23, <1>24
         DEF StreamMove

\* A made-up ack is charged to the count of stray acks.
LEMMA StreamStray ==
    ASSUME ServerInv, NEW s \in Consumers, NEW i \in 1..issued, ClientStrayAck(s, i)
    PROVE  StreamsOK'
<1>. DEFINE q == stream[s]
            k == Cardinality(Owned(s))
            z == count.strays
            r == [q EXCEPT !.got = <<<<i, 0>>>>]
<1>1. StreamOK(q, k, Deliveries, z) /\ k \in Nat /\ z \in Nat
  BY StreamFacts
<1>2. UNCHANGED storeVars /\ count'.strays = z + 1
  BY DEF ClientStrayAck, lanes, Incr, ServerInv, CountOK
<1>3. stream' = [stream EXCEPT ![s] = r]
  BY DEF ClientStrayAck
<1>4. <<i, 0>> \in Deliveries
  BY DEF Deliveries
<1>5. StreamOK(r, k, Deliveries, z + 1)
  BY <1>1, <1>4, RecordStray DEF ClientStrayAck, Receives
<1>6. Deliveries' = Deliveries /\ \A t \in Consumers : Owned(t)' = Owned(t)
  BY <1>2 DEF Deliveries, Owned, Leased, storeVars
<1>. HIDE DEF r
<1>7. StreamOK(r, Cardinality(Owned(s)'), Deliveries', count'.strays)
  BY <1>2, <1>5, <1>6
<1>8. count'.strays \in Nat /\ count.strays <= count'.strays
  BY <1>1, <1>2
<1>. QED BY <1>2, <1>3, <1>6, <1>7, <1>8, OneStream

\* A lease is granted to the stream that asked.
LEMMA StreamLeases ==
    ASSUME ServerInv, NEW s \in Consumers, LeaseNext(s)
    PROVE  StreamsOK'
<1>. DEFINE q == stream[s]
            k == Cardinality(Owned(s))
<1>. PICK i \in IF visible # {} THEN visible ELSE queued :
          /\ StoreLease(s, i)
          /\ stream' = [stream EXCEPT ![s].pc = "sending", ![s].msg = <<i, nth[i] + 1>>]
  BY DEF LeaseNext
<1>. DEFINE m == <<i, nth[i] + 1>>
            r == [q EXCEPT !.pc = "sending", !.msg = m]
<1>1. StreamOK(q, k, Deliveries, count.strays) /\ k \in Nat /\ count.strays \in Nat
  BY StreamFacts
<1>2. i \in 1..issued /\ i \notin Leased
  BY DEF ServerInv, LanesOK, StoreInv, StoreTypeOK, OneCustodian
<1>3. m \in Deliveries
  BY <1>2 DEF ServerInv, LanesOK, Deliveries
<1>4. StreamOK(r, k + 1, Deliveries, count.strays)
  BY <1>1, <1>3, RecordLease DEF LeaseNext
<1>5. stream' = [stream EXCEPT ![s] = r]
  OBVIOUS
<1>6. StoreNext /\ Deliveries' = Deliveries /\ count' = count
  BY <1>2 DEF StoreNext, LeaseNext, StoreLease, Deliveries
<1>. HIDE DEF r, m
<1>7. Cardinality(Owned(s)') = k + 1 /\ \A t \in Consumers : t # s => Owned(t)' = Owned(t)
  BY <1>2, OwnedLease DEF ServerInv, StoreInv
<1>8. StreamOK(r, Cardinality(Owned(s)'), Deliveries', count'.strays)
  BY <1>4, <1>6, <1>7
<1>9. count'.strays \in Nat /\ count.strays <= count'.strays
  BY <1>1, <1>6
<1>. QED BY <1>5, <1>6, <1>7, <1>8, <1>9, OneStream

\* Ending a lease of stream s without an ack, whatever s's record becomes.
LEMMA StreamLosesLease ==
    ASSUME ServerInv, NEW s \in Consumers, NEW i \in Owned(s), NEW b \in BOOLEAN, EndLease(i, b),
           count'.strays = count.strays, NEW r, stream' = [stream EXCEPT ![s] = r],
           StreamOK(r, Cardinality(Owned(s)) - 1, Deliveries, count.strays)
    PROVE  StreamsOK'
<1>1. i \in Leased /\ StoreTypeOK /\ visible \subseteq retrying
  BY DEF Owned, ServerInv, StoreInv, LanesOK
<1>2. StoreNext /\ owner' = DropLeases({i}) /\ issued' = issued
  BY <1>1, EndLeaseStep
<1>3. /\ Cardinality(Owned(s)') = Cardinality(Owned(s)) - 1
      /\ \A t \in Consumers : t # s => Owned(t)' = Owned(t)
  BY <1>1, <1>2, OwnedDrop
<1>4. Deliveries' = Deliveries
  BY <1>2 DEF Deliveries
<1>5. StreamOK(r, Cardinality(Owned(s)'), Deliveries', count'.strays)
  BY <1>3, <1>4
<1>6. count'.strays \in Nat /\ count.strays <= count'.strays
  BY DEF ServerInv, CountOK
<1>. QED BY <1>2, <1>3, <1>5, <1>6, OneStream

\* A failed send, the release of a lease in the cleanup, and the sweeper.
LEMMA StreamEndsLease ==
    ASSUME ServerInv,
           \/ \E s \in Consumers : SendFails(s) \/ ReleaseNext(s)
           \/ \E i \in 1..issued : SweepNext(i)
    PROVE  StreamsOK'
<1>0. \A s \in Consumers : \A i \in Owned(s) :
         Cardinality(Owned(s)) - 1 \in Nat /\ Cardinality(Owned(s)) > 0
  BY OwnedFinite DEF ServerInv, StoreInv
<1>1. ASSUME NEW s \in Consumers, SendFails(s) PROVE StreamsOK'
  <2>. DEFINE q == stream[s]
              k == Cardinality(Owned(s))
              i == q.msg[1]
              r(pc, u) == [q EXCEPT !.pc = pc, !.msg = <<>>, !.uncounted = u]
  <2>1. StreamOK(q, k, Deliveries, count.strays) /\ k \in Nat /\ count.strays \in Nat
    BY StreamFacts
  <2>2. q.pc = "sending" /\ count'.strays = count.strays
    BY <1>1 DEF SendFails, Incr, ServerInv, CountOK
  <2>3. \A n \in Nat : /\ StreamOK(r("failed", 1), n, Deliveries, count.strays)
                       /\ StreamOK(r("exiting", 0), n, Deliveries, count.strays)
    BY <2>1, <2>2, RecordSendFails
  <2>4. CASE i \in Owned(s)
    <3>1. EndLease(i, TRUE) /\ stream' = [stream EXCEPT ![s] = r("failed", 1)]
      BY <1>1, <2>4 DEF SendFails
    <3>2. StreamOK(r("failed", 1), k - 1, Deliveries, count.strays)
      BY <1>0, <2>3, <2>4
    <3>. HIDE DEF r
    <3>. QED BY <2>2, <2>4, <3>1, <3>2, StreamLosesLease
  <2>5. CASE i \notin Owned(s)
    <3>1. UNCHANGED storeVars /\ stream' = [stream EXCEPT ![s] = r("exiting", 0)]
      BY <1>1, <2>5 DEF SendFails
    <3>2. StreamOK(r("exiting", 0), k, Deliveries, count.strays)
      BY <2>1, <2>3
    <3>. HIDE DEF r
    <3>. QED BY <2>2, <3>1, <3>2, LocalStep
  <2>. QED BY <2>4, <2>5
<1>2. ASSUME NEW s \in Consumers, ReleaseNext(s) PROVE StreamsOK'
  <2>. DEFINE q == stream[s]
              k == Cardinality(Owned(s))
  <2>. PICK i \in Owned(s) :
          /\ EndLease(i, FALSE)
          /\ stream' = [stream EXCEPT ![s].pc = IF Owned(s) = {i} THEN "notify" ELSE "releasing",
                                      ![s].uncounted = @ + 1]
    BY <1>2 DEF ReleaseNext
  <2>. DEFINE pc == IF Owned(s) = {i} THEN "notify" ELSE "releasing"
              r == [q EXCEPT !.pc = pc, !.uncounted = @ + 1]
  <2>1. StreamOK(q, k, Deliveries, count.strays) /\ k \in Nat /\ count.strays \in Nat
    BY StreamFacts
  <2>2. q.pc = "releasing" /\ count'.strays = count.strays
    BY <1>2 DEF ReleaseNext, Incr, ServerInv, CountOK
  <2>3. Owned(s) = {i} => k - 1 = 0
    <3>1. Cardinality({i}) = 1
      BY ONLY FS_Singleton
    <3>. QED BY <3>1
  <2>4. StreamOK(r, k - 1, Deliveries, count.strays)
    BY <1>0, <2>1, <2>2, <2>3, RecordRelease
  <2>5. stream' = [stream EXCEPT ![s] = r]
    OBVIOUS
  <2>. HIDE DEF r
  <2>. QED BY <2>2, <2>4, <2>5, StreamLosesLease
<1>3. ASSUME NEW i \in 1..issued, SweepNext(i) PROVE StreamsOK'
  <2>. DEFINE s == owner[i]
              q == stream[s]
              k == Cardinality(Owned(s))
              r == [q EXCEPT !.revoked = @ + 1]
  <2>1. s \in Consumers /\ i \in Owned(s)
    BY <1>3 DEF SweepNext, ServerInv, StoreInv, StoreTypeOK, Owned
  <2>2. StreamOK(q, k, Deliveries, count.strays) /\ k \in Nat /\ count.strays \in Nat
    BY <2>1, StreamFacts
  <2>3. EndLease(i, FALSE) /\ count'.strays = count.strays
    BY <1>3 DEF SweepNext, Incr, ServerInv, CountOK
  <2>4. StreamOK(r, k - 1, Deliveries, count.strays)
    BY <1>0, <2>1, <2>2, RecordRevoked
  <2>5. stream' = [stream EXCEPT ![s] = r]
    BY <1>3 DEF SweepNext
  <2>. HIDE DEF r, s
  <2>. QED BY <2>1, <2>3, <2>4, <2>5, StreamLosesLease
<1>. QED BY <1>1, <1>2, <1>3

\* Stop cancels the context of every active stream.
LEMMA StreamsForced ==
    ASSUME ServerInv, ForceStop
    PROVE  StreamsOK'
<1>1. UNCHANGED storeVars /\ count' = count
  BY DEF ForceStop, EnterPhase, lanes
<1>2. Deliveries' = Deliveries /\ \A t \in Consumers : Owned(t)' = Owned(t)
  BY <1>1 DEF Deliveries, Owned, Leased, storeVars
<1>3. ASSUME NEW t \in Consumers
      PROVE  StreamOK(stream'[t], Cardinality(Owned(t)'), Deliveries', count'.strays)
  <2>1. /\ StreamOK(stream[t], Cardinality(Owned(t)), Deliveries, count.strays)
        /\ Cardinality(Owned(t)) \in Nat /\ count.strays \in Nat
    BY StreamFacts
  <2>2. stream'[t] \in {stream[t], [stream[t] EXCEPT !.client = "lost"]}
    BY DEF ForceStop
  <2>3. StreamOK([stream[t] EXCEPT !.client = "lost"],
                 Cardinality(Owned(t)), Deliveries, count.strays)
    BY <2>1, RecordLeaves
  <2>. QED BY <1>1, <1>2, <2>1, <2>2, <2>3
<1>4. stream' = [t \in Consumers |-> stream'[t]]
  BY DEF ForceStop
<1>. QED BY <1>3, <1>4 DEF StreamsOK

\* Every stream stays in order, whatever happens.
LEMMA StreamsStep == ServerInv /\ Next => StreamsOK'
<1>. SUFFICES ASSUME ServerInv, Next PROVE StreamsOK'
  OBVIOUS
<1>0. [StoreNext]_storeVars
  BY StoreStep
<1>1. ASSUME NEW p \in Producers, (\E n \in 1..MaxBatch : ProduceBatch(p, n)) \/ ProduceStep(p)
      PROVE  StreamsOK'
  <2>1. owner' = owner /\ stream' = stream /\ count'.strays = count.strays
    BY <1>1 DEF ProduceBatch, ProduceStep, ProduceEnqueue, ProduceWaits, ProduceRefused,
                ProduceNotify, lanes, storeVars, Admit, AdmitEvicting, Incr, ServerInv, CountOK
  <2>. QED BY <1>0, <2>1, StreamsStill
<1>2. ASSUME NEW s \in Consumers, DrainAck(s) \/ SelectAck(s) \/ CleanupAck(s)
      PROVE  StreamsOK'
  BY <1>2, StreamTakesAck DEF DrainAck, SelectAck, CleanupAck
<1>3. ASSUME NEW i \in 1..issued, BackoffElapses(i) \/ ReplayNext(i)
      PROVE  StreamsOK'
  <2>1. owner' = owner /\ stream' = stream /\ count'.strays = count.strays
    BY <1>3 DEF BackoffElapses, ReplayNext, storeVars, StoreReplay, Incr, ServerInv, CountOK
  <2>. QED BY <1>0, <2>1, StreamsStill
<1>4. CASE SweepUnlock \/ SweepNotify \/ ReplayUnlock \/ ReplayNotify \/ BeginDrain \/ Shutdown
  <2>1. owner' = owner /\ stream' = stream /\ count'.strays = count.strays
    BY <1>4 DEF SweepUnlock, SweepNotify, ReplayUnlock, ReplayNotify, BeginDrain, Shutdown,
                EnterPhase, lanes, storeVars
  <2>. QED BY <1>0, <2>1, StreamsStill
<1>. QED BY <1>1, <1>2, <1>3, <1>4, StreamMoves, StreamStray, StreamLeases, StreamEndsLease,
            StreamsForced
         DEF Next, Receiving, SendLoop, Cleanup, StreamMove

-----------------------------------------------------------------------------
(* The other parts of the invariant.                                         *)

\* Backoffs run for ids in the retry lane, and the history is about issued ids.
LEMMA LanesStep == ServerInv /\ Next => LanesOK'
<1>. SUFFICES ASSUME ServerInv, Next PROVE LanesOK'
  OBVIOUS
<1>0. StoreTypeOK /\ visible \subseteq retrying /\ nth \in [1..issued -> Nat]
      /\ queued \cap retrying = {}
  BY DEF ServerInv, StoreInv, LanesOK, OneCustodian
<1>1. ASSUME NEW p \in Producers, ProduceEnqueue(p) PROVE LanesOK'
  <2>1. issued \in Nat /\ issued' = issued + 1 /\ retrying' = retrying /\ visible' = visible
    BY <1>0, <1>1 DEF ProduceEnqueue, Admit, AdmitEvicting, StoreTypeOK
  <2>2. nth' = [i \in 1..(issued + 1) |-> IF i = issued + 1 THEN 0 ELSE nth[i]]
    BY <1>1 DEF ProduceEnqueue
  <2>3. nth' \in [1..(issued + 1) -> Nat]
    BY <1>0, <2>1, <2>2
  <2>. QED BY <1>0, <2>1, <2>3 DEF LanesOK
<1>2. ASSUME NEW s \in Consumers, LeaseNext(s) PROVE LanesOK'
  <2>. PICK i \in IF visible # {} THEN visible ELSE queued :
          /\ StoreLease(s, i) /\ visible' = visible \ {i} /\ nth' = [nth EXCEPT ![i] = @ + 1]
    BY <1>2 DEF LeaseNext
  <2>. QED BY <1>0 DEF LanesOK, StoreLease, StoreTypeOK
<1>3. ASSUME NEW i \in Leased, NEW b \in BOOLEAN, EndLease(i, b), nth' = nth PROVE LanesOK'
  BY <1>0, <1>3, EndLeaseStep DEF LanesOK
<1>4. ASSUME visible' = visible, nth' = nth, retrying' = retrying, issued' = issued
      PROVE  LanesOK'
  BY <1>0, <1>4 DEF LanesOK
<1>5. ASSUME NEW s \in Consumers, NEW counting, NEW next, TakeAck(s, counting, next) PROVE LanesOK'
  BY <1>4, <1>5 DEF TakeAck, StoreAck, storeVars
<1>6. ASSUME NEW s \in Consumers, SendFails(s) PROVE LanesOK'
  <2>1. CASE stream[s].msg[1] \in Owned(s)
    BY <1>3, <1>6, <2>1 DEF SendFails, Owned
  <2>2. CASE stream[s].msg[1] \notin Owned(s)
    BY <1>4, <1>6, <2>2 DEF SendFails, storeVars
  <2>. QED BY <2>1, <2>2
<1>7. ASSUME NEW s \in Consumers, ReleaseNext(s) PROVE LanesOK'
  BY <1>3, <1>7 DEF ReleaseNext, Owned
<1>8. ASSUME NEW i \in 1..issued, SweepNext(i) \/ BackoffElapses(i) \/ ReplayNext(i)
      PROVE  LanesOK'
  <2>1. CASE SweepNext(i)
    BY <1>3, <2>1 DEF SweepNext
  <2>2. CASE BackoffElapses(i)
    BY <1>0, <2>2 DEF BackoffElapses, LanesOK, storeVars
  <2>3. CASE ReplayNext(i)
    BY <1>4, <2>3 DEF ReplayNext, StoreReplay
  <2>. QED BY <1>8, <2>1, <2>2, <2>3
<1>9. ASSUME UNCHANGED lanes PROVE LanesOK'
  BY <1>4, <1>9 DEF lanes, storeVars
<1>10. ASSUME NEW p \in Producers,
              (\E n \in 1..MaxBatch : ProduceBatch(p, n)) \/ ProduceStep(p)
       PROVE  LanesOK'
  BY <1>1, <1>9, <1>10 DEF ProduceBatch, ProduceStep, ProduceWaits, ProduceRefused, ProduceNotify
<1>11. ASSUME NEW s \in Consumers,
              StreamMove(s) \/ \E i \in 1..issued : ClientStrayAck(s, i)
       PROVE  UNCHANGED lanes
  BY <1>11 DEF StreamMove, Open, InitialCredit, ClientAck, ClientStrayAck, ClientLeaves, InitialRecvFails,
               RecvEnds, AckPassed, AckDropped, CountAck,
              CleanupCount, DrainedAcks, LoopEnds, AcquireToken, LeaseNone, Park, WakeUp,
               FailedNotify, SendOk, CleanupRelease, CleanupNotify
<1>12. CASE SweepUnlock \/ SweepNotify \/ ReplayUnlock \/ ReplayNotify
              \/ BeginDrain \/ Shutdown \/ ForceStop
  BY <1>9, <1>12 DEF SweepUnlock, SweepNotify, ReplayUnlock, ReplayNotify, BeginDrain, Shutdown,
                     ForceStop, EnterPhase
<1>. QED BY <1>2, <1>5, <1>6, <1>7, <1>8, <1>9, <1>10, <1>11, <1>12
         DEF Next, Receiving, SendLoop, Cleanup, StreamMove, DrainAck, SelectAck, CleanupAck

\* Only a call's own steps change it.
LEMMA ProducersStep == ServerInv /\ Next => ProducersOK'
<1>. SUFFICES ASSUME ServerInv, Next PROVE ProducersOK'
  OBVIOUS
<1>0. ProducersOK
  BY DEF ServerInv
<1>1. ASSUME NEW p \in Producers, NEW n \in 1..MaxBatch, ProduceBatch(p, n) PROVE ProducersOK'
  BY <1>0, <1>1, ServerAssumption DEF ProduceBatch, ProducersOK
<1>2. ASSUME NEW p \in Producers, ProduceEnqueue(p) PROVE ProducersOK'
  <2>. DEFINE c == producer[p]
              pc == IF c.left = 1 THEN "notify" ELSE "enqueue"
  <2>1. c.left \in Nat /\ c.left > 0 /\ c.accepted \in Nat
    BY <1>0, <1>2 DEF ProduceEnqueue, ProducersOK
  <2>2. producer' = [producer EXCEPT ![p] = [pc |-> pc, left |-> c.left - 1,
                                             accepted |-> c.accepted + 1]]
    BY <1>2 DEF ProduceEnqueue
  <2>3. /\ c.left - 1 \in Nat /\ c.accepted + 1 \in Nat
        /\ pc \in {"enqueue", "notify"} /\ (pc = "enqueue" => c.left - 1 > 0)
    BY <2>1
  <2>. HIDE DEF pc
  <2>. QED BY <1>0, <2>2, <2>3 DEF ProducersOK
<1>3. ASSUME NEW p \in Producers, ProduceWaits(p) PROVE ProducersOK'
  BY <1>0, <1>3 DEF ProduceWaits, ProducersOK
<1>4. ASSUME NEW p \in Producers, ProduceRefused(p) PROVE ProducersOK'
  BY <1>0, <1>4 DEF ProduceRefused, ProducersOK, NoCall
<1>5. ASSUME NEW p \in Producers, ProduceNotify(p) PROVE ProducersOK'
  BY <1>0, <1>5 DEF ProduceNotify, ProducersOK, NoCall
<1>6. ASSUME producer' = producer PROVE ProducersOK'
  BY <1>0, <1>6 DEF ProducersOK
<1>7. ASSUME NEW s \in Consumers,
             \/ StreamMove(s) \/ (\E i \in 1..issued : ClientStrayAck(s, i))
             \/ DrainAck(s) \/ SelectAck(s) \/ CleanupAck(s)
             \/ LeaseNext(s) \/ SendFails(s) \/ ReleaseNext(s)
      PROVE  producer' = producer
  BY <1>7 DEF StreamMove, Open, InitialCredit, ClientAck, ClientStrayAck, ClientLeaves,
              InitialRecvFails, RecvEnds, AckPassed, AckDropped, CountAck,
              CleanupCount, DrainedAcks, LoopEnds, AcquireToken, LeaseNone, Park,
              WakeUp, FailedNotify, SendOk, CleanupRelease, CleanupNotify,
              DrainAck, SelectAck, CleanupAck, TakeAck, LeaseNext, SendFails, ReleaseNext
<1>8. ASSUME NEW i \in 1..issued, SweepNext(i) \/ BackoffElapses(i) \/ ReplayNext(i)
      PROVE  producer' = producer
  BY <1>8 DEF SweepNext, BackoffElapses, ReplayNext
<1>9. CASE SweepUnlock \/ SweepNotify \/ ReplayUnlock \/ ReplayNotify
             \/ BeginDrain \/ Shutdown \/ ForceStop
  BY <1>6, <1>9 DEF SweepUnlock, SweepNotify, ReplayUnlock, ReplayNotify, BeginDrain, Shutdown,
                    ForceStop, EnterPhase
<1>. QED BY <1>1, <1>2, <1>3, <1>4, <1>5, <1>6, <1>7, <1>8, <1>9
         DEF Next, ProduceStep, Receiving, SendLoop, Cleanup, StreamMove

\* The flags keep to their values.
LEMMA FlagsStep == ServerInv /\ Next => FlagsOK'
<1>. SUFFICES ASSUME ServerInv, Next PROVE FlagsOK'
  OBVIOUS
<1>0. FlagsOK
  BY DEF ServerInv
<1>1. ASSUME NEW p \in Producers, (\E n \in 1..MaxBatch : ProduceBatch(p, n)) \/ ProduceStep(p)
      PROVE  FlagsOK'
  BY <1>0, <1>1 DEF ProduceBatch, ProduceStep, ProduceEnqueue, ProduceWaits, ProduceRefused,
                    ProduceNotify, NotifyAll, FlagsOK
<1>2. ASSUME NEW s \in Consumers,
             \/ StreamMove(s) \/ (\E i \in 1..issued : ClientStrayAck(s, i))
             \/ DrainAck(s) \/ SelectAck(s) \/ CleanupAck(s)
             \/ LeaseNext(s) \/ SendFails(s) \/ ReleaseNext(s)
      PROVE  FlagsOK'
  <2>1. /\ sweeper' = sweeper /\ operator' = operator /\ phase' = phase
        /\ woken' \in {woken, woken \ {s}} \/ NotifyAll
    BY <1>2 DEF StreamMove, Open, InitialCredit, ClientAck, ClientStrayAck, ClientLeaves,
              InitialRecvFails, RecvEnds, AckPassed, AckDropped, CountAck,
              CleanupCount, DrainedAcks, LoopEnds, AcquireToken, LeaseNone, Park,
              WakeUp, FailedNotify, SendOk, CleanupRelease, CleanupNotify,
              DrainAck, SelectAck, CleanupAck, TakeAck, LeaseNext, SendFails, ReleaseNext
  <2>. QED BY <1>0, <2>1 DEF FlagsOK, NotifyAll
<1>3. ASSUME NEW i \in 1..issued, SweepNext(i) \/ BackoffElapses(i) \/ ReplayNext(i)
      PROVE  FlagsOK'
  BY <1>0, <1>3 DEF SweepNext, BackoffElapses, ReplayNext, FlagsOK
<1>4. CASE SweepUnlock \/ SweepNotify \/ ReplayUnlock \/ ReplayNotify
             \/ BeginDrain \/ Shutdown \/ ForceStop
  BY <1>0, <1>4 DEF SweepUnlock, SweepNotify, ReplayUnlock, ReplayNotify, BeginDrain, Shutdown,
                    ForceStop, EnterPhase, NotifyAll, FlagsOK
<1>. QED BY <1>1, <1>2, <1>3, <1>4 DEF Next, Receiving, SendLoop, Cleanup, StreamMove

-----------------------------------------------------------------------------
(* Where a handler may go in one step.                                       *)

\* Every step of stream s, whatever it does to the store.
StreamStep(s) ==
    \/ StreamMove(s) \/ (\E i \in 1..issued : ClientStrayAck(s, i))
    \/ DrainAck(s) \/ SelectAck(s) \/ CleanupAck(s)
    \/ LeaseNext(s) \/ SendFails(s) \/ ReleaseNext(s)

\* A step of s moves s alone; it misses, parks, starts or stops sending by the
\* actions named for that, and by no other.
LEMMA PcStep ==
    ASSUME ServerInv, NEW s \in Consumers, StreamStep(s)
    PROVE  /\ \A t \in Consumers : t # s => stream'[t] = stream[t]
           /\ \/ stream'[s].pc = stream[s].pc
              \/ /\ stream[s].pc # "sending"
                 /\ stream'[s].pc \notin {"miss", "park", "sending"}
              \/ Park(s) /\ stream[s].pc = "miss" /\ stream'[s].pc = "park"
              \/ LeaseNone(s) /\ stream[s].pc = "lease" /\ stream'[s].pc = "miss"
              \/ LeaseNext(s) /\ stream[s].pc = "lease" /\ stream'[s].pc = "sending"
              \/ /\ SendOk(s) \/ SendFails(s)
                 /\ stream[s].pc = "sending" /\ stream'[s].pc \in {"top", "failed", "exiting"}
<1>0. stream = [t \in Consumers |-> stream[t]] /\ stream[s] \in StreamRecord(Deliveries)
  BY StreamFacts DEF ServerInv, StreamsOK
<1>1. \A r : stream' = [stream EXCEPT ![s] = r] =>
            stream'[s] = r /\ \A t \in Consumers : t # s => stream'[t] = stream[t]
  BY <1>0
<1>2. \A pc : GoTo(s, pc) =>
            stream'[s].pc = pc /\ \A t \in Consumers : t # s => stream'[t] = stream[t]
  BY <1>0 DEF GoTo, StreamRecord
<1>3. Finish(s) =>
            stream'[s].pc = "done" /\ \A t \in Consumers : t # s => stream'[t] = stream[t]
  BY <1>0 DEF Finish, NoStream
<1>4. CASE Open(s)
  BY <1>0, <1>4 DEF Open, StreamRecord
<1>5. ASSUME NEW request \in Requests, InitialCredit(s, request)
      PROVE  /\ stream[s].pc = "init" /\ stream'[s].pc = "top"
             /\ \A t \in Consumers : t # s => stream'[t] = stream[t]
  BY <1>0, <1>5 DEF InitialCredit, StreamRecord
<1>6. ASSUME \/ ClientAck(s) \/ (\E how \in {"closed", "lost"} : ClientLeaves(s, how))
             \/ RecvEnds(s) \/ AckPassed(s) \/ AckDropped(s)
             \/ (\E i \in 1..issued : ClientStrayAck(s, i))
      PROVE  /\ stream'[s].pc = stream[s].pc
             /\ \A t \in Consumers : t # s => stream'[t] = stream[t]
  <2>1. CASE ClientAck(s)
    <3>. PICK m \in stream[s].inHand :
            stream' = [stream EXCEPT ![s].inHand = @ \ {m}, ![s].got = <<m>>]
      BY <2>1 DEF ClientAck
    <3>. QED BY <1>0 DEF StreamRecord
  <2>2. ASSUME NEW how \in {"closed", "lost"}, ClientLeaves(s, how)
        PROVE  /\ stream'[s].pc = stream[s].pc
               /\ \A t \in Consumers : t # s => stream'[t] = stream[t]
    BY <1>0, <2>2 DEF ClientLeaves, StreamRecord
  <2>3. CASE RecvEnds(s) \/ AckPassed(s) \/ AckDropped(s)
    BY <1>0, <2>3 DEF RecvEnds, AckPassed, AckDropped, StreamRecord
  <2>4. ASSUME NEW i \in 1..issued, ClientStrayAck(s, i)
        PROVE  /\ stream'[s].pc = stream[s].pc
               /\ \A t \in Consumers : t # s => stream'[t] = stream[t]
    BY <1>0, <2>4 DEF ClientStrayAck, StreamRecord
  <2>. QED BY <1>6, <2>1, <2>2, <2>3, <2>4
<1>7. CASE InitialRecvFails(s) \/ CleanupNotify(s)
  BY <1>3, <1>7 DEF InitialRecvFails, CleanupNotify
<1>8. CASE CleanupRelease(s)
  BY <1>2, <1>3, <1>8 DEF CleanupRelease
<1>9. CASE DrainedAcks(s) \/ LoopEnds(s) \/ LeaseNone(s) \/ WakeUp(s)
  BY <1>2, <1>9 DEF DrainedAcks, LoopEnds, LeaseNone, WakeUp
<1>17. CASE CountAck(s) \/ CleanupCount(s) \/ FailedNotify(s)
  BY <1>0, <1>17 DEF CountAck, CleanupCount, FailedNotify, StreamRecord
<1>10. CASE AcquireToken(s) \/ Park(s)
  BY <1>0, <1>10 DEF AcquireToken, Park, StreamRecord
<1>11. CASE SendOk(s)
  BY <1>0, <1>11 DEF SendOk, StreamRecord
<1>12. CASE LeaseNext(s)
  <2>. PICK m : stream' = [stream EXCEPT ![s].pc = "sending", ![s].msg = m]
    BY <1>12 DEF LeaseNext
  <2>. QED BY <1>0, <1>12 DEF LeaseNext, StreamRecord
<1>13. CASE SendFails(s)
  <2>1. \E pc \in {"failed", "exiting"} : \E u :
           stream' = [stream EXCEPT ![s].pc = pc, ![s].msg = <<>>, ![s].uncounted = u]
    BY <1>13 DEF SendFails
  <2>. QED BY <1>0, <1>13, <2>1 DEF SendFails, StreamRecord
<1>14. CASE ReleaseNext(s)
  <2>1. \E pc \in {"notify", "releasing"} :
           stream' = [stream EXCEPT ![s].pc = pc, ![s].uncounted = @ + 1]
    BY <1>14 DEF ReleaseNext
  <2>2. PICK pc \in {"notify", "releasing"} :
           stream' = [stream EXCEPT ![s].pc = pc, ![s].uncounted = @ + 1]
    BY <2>1
  <2>3. stream'[s].pc = pc /\ \A t \in Consumers : t # s => stream'[t] = stream[t]
    BY <1>0, <2>2 DEF StreamRecord
  <2>. QED BY <1>14, <2>3 DEF ReleaseNext
<1>15. ASSUME NEW counting, NEW next, TakeAck(s, counting, next)
       PROVE  /\ stream'[s].pc \in {counting, next}
              /\ \A t \in Consumers : t # s => stream'[t] = stream[t]
  BY <1>0, <1>15 DEF TakeAck, StreamRecord
<1>16. CASE DrainAck(s) \/ SelectAck(s) \/ CleanupAck(s)
  <2>1. \/ stream[s].pc \in {"top", "acquire", "park"} /\ TakeAck(s, "acked", "top")
        \/ stream[s].pc = "exiting" /\ TakeAck(s, "lateAcked", "exiting")
    BY <1>16 DEF DrainAck, SelectAck, CleanupAck
  <2>2. /\ stream[s].pc # "sending" /\ stream'[s].pc \in {"acked", "top", "lateAcked", "exiting"}
        /\ \A t \in Consumers : t # s => stream'[t] = stream[t]
    BY <1>15, <2>1
  <2>. QED BY <2>2
<1>. QED BY <1>4, <1>5, <1>6, <1>7, <1>8, <1>9, <1>10, <1>11, <1>12, <1>13, <1>14, <1>16, <1>17
         DEF StreamStep, StreamMove

-----------------------------------------------------------------------------
(* Wakeups.                                                                  *)

Asleep(s) == stream[s].pc \in {"miss", "park"} /\ s \notin woken

\* A step that queues nothing, puts nobody to sleep and settles no debt.
LEMMA WakeupFrame ==
    ASSUME WakeupOK, queued' \subseteq queued,
           \A t \in Consumers : Asleep(t)' => Asleep(t),
           \A p \in Producers : producer[p].accepted > 0 => producer'[p].accepted > 0,
           operator \in {"replaying", "notify"} => operator' \in {"replaying", "notify"}
    PROVE  WakeupOK'
  BY DEF WakeupOK, Asleep

\* A broadcast reaches every handler that captured the channel.
LEMMA WakeupAll ==
    ASSUME NotifyAll, \A t \in Consumers : stream'[t].pc \in {"miss", "park"} =>
                          stream'[t].pc = stream[t].pc
    PROVE  WakeupOK'
  BY DEF NotifyAll, WakeupOK

\* Steps of one stream: it goes to sleep only when it saw the queue empty.
LEMMA WakeupStream ==
    ASSUME ServerInv, NEW s \in Consumers, StreamStep(s)
    PROVE  WakeupOK'
<1>0. WakeupOK /\ stream = [t \in Consumers |-> stream[t]]
  BY DEF ServerInv, StreamsOK
<1>t. stream[s] \in StreamRecord(Deliveries)
  BY StreamFacts
<1>1. CASE LeaseNone(s)
  BY <1>1 DEF LeaseNone, lanes, storeVars, WakeupOK
<1>2. CASE FailedNotify(s) \/ CleanupNotify(s)
  <2>1. stream'[s].pc \in {"exiting", "done"}
    BY <1>0, <1>t, <1>2 DEF FailedNotify, CleanupNotify, Finish, NoStream, StreamRecord
  <2>2. \A t \in Consumers : t # s => stream'[t] = stream[t]
    BY PcStep
  <2>3. \A t \in Consumers : stream'[t].pc \in {"miss", "park"} => stream'[t].pc = stream[t].pc
    BY <2>1, <2>2
  <2>. QED BY <1>2, <2>3, WakeupAll DEF FailedNotify, CleanupNotify
<1>3. ASSUME ~LeaseNone(s), ~FailedNotify(s), ~CleanupNotify(s)
      PROVE  WakeupOK'
  <2>1. queued' \subseteq queued
    BY <1>3, EndLeaseStep DEF StreamStep, StreamMove, Open, InitialCredit, ClientAck, ClientStrayAck,
          ClientLeaves, InitialRecvFails, RecvEnds, AckPassed, AckDropped, CountAck,
              CleanupCount, DrainedAcks, LoopEnds, AcquireToken, Park,
          WakeUp, SendOk, CleanupRelease, DrainAck, SelectAck, CleanupAck, TakeAck,
          StoreAck, LeaseNext, StoreLease, SendFails, ReleaseNext, EndLease, StoreRequeue,
          StoreDeadLetter, lanes, storeVars
  <2>2. producer' = producer /\ operator' = operator
    BY <1>3 DEF StreamStep, StreamMove, Open, InitialCredit, ClientAck, ClientStrayAck, ClientLeaves,
              InitialRecvFails, RecvEnds, AckPassed, AckDropped, CountAck,
              CleanupCount, DrainedAcks, LoopEnds, AcquireToken, Park,
              WakeUp, SendOk, CleanupRelease,
              DrainAck, SelectAck, CleanupAck, TakeAck, LeaseNext, SendFails, ReleaseNext
  <2>3. \A t \in Consumers : t # s => stream'[t] = stream[t] /\ (t \in woken' <=> t \in woken)
    BY <1>3, PcStep DEF StreamStep, StreamMove, Open, InitialCredit, ClientAck, ClientStrayAck,
              ClientLeaves, InitialRecvFails, RecvEnds, AckPassed, AckDropped, CountAck,
              CleanupCount, DrainedAcks, LoopEnds, AcquireToken, Park,
              WakeUp, SendOk, CleanupRelease,
              DrainAck, SelectAck, CleanupAck, TakeAck, LeaseNext, SendFails, ReleaseNext
  <2>4. CASE AcquireToken(s) \/ WakeUp(s)
    <3>1. stream'[s].pc \in {"lease", "top"}
      BY <1>0, <1>t, <2>4 DEF AcquireToken, WakeUp, GoTo, StreamRecord
    <3>2. ~Asleep(s)'
      BY <3>1 DEF Asleep
    <3>. QED BY <1>0, <2>1, <2>2, <2>3, <3>2, WakeupFrame DEF Asleep
  <2>5. CASE ~AcquireToken(s) /\ ~WakeUp(s)
    <3>1. woken' = woken
      BY <1>3, <2>5 DEF StreamStep, StreamMove, Open, InitialCredit, ClientAck, ClientStrayAck, ClientLeaves,
              InitialRecvFails, RecvEnds, AckPassed, AckDropped, CountAck,
              CleanupCount, DrainedAcks, LoopEnds, Park, SendOk, CleanupRelease,
              DrainAck, SelectAck, CleanupAck, TakeAck, LeaseNext, SendFails, ReleaseNext
    <3>2. stream'[s].pc \in {"miss", "park"} => stream[s].pc \in {"miss", "park"}
      BY <1>3, PcStep
    <3>. QED BY <1>0, <2>1, <2>2, <2>3, <3>1, <3>2, WakeupFrame DEF Asleep
  <2>. QED BY <2>4, <2>5
<1>. QED BY <1>1, <1>2, <1>3

\* Whoever queues fresh work owes a broadcast until it has made it.
LEMMA WakeupStep == ServerInv /\ Next => WakeupOK'
<1>. SUFFICES ASSUME ServerInv, Next PROVE WakeupOK'
  OBVIOUS
<1>0. WakeupOK /\ ProducersOK
  BY DEF ServerInv
<1>1. ASSUME NEW p \in Producers, NEW n \in 1..MaxBatch, ProduceBatch(p, n) PROVE WakeupOK'
  BY <1>0, <1>1, WakeupFrame DEF ProduceBatch, ProducersOK, Asleep, lanes, storeVars
<1>2. ASSUME NEW p \in Producers, ProduceEnqueue(p) PROVE WakeupOK'
  <2>1. producer'[p].accepted > 0
    BY <1>0, <1>2 DEF ProduceEnqueue, ProducersOK
  <2>. QED BY <2>1 DEF WakeupOK
<1>3. ASSUME NEW p \in Producers, ProduceWaits(p) PROVE WakeupOK'
  BY <1>0, <1>3, WakeupFrame DEF ProduceWaits, ProducersOK, Asleep, lanes, storeVars
<1>4. ASSUME NEW p \in Producers, ProduceRefused(p) PROVE WakeupOK'
  BY <1>0, <1>4, WakeupFrame DEF ProduceRefused, ProducersOK, NoCall, Asleep, lanes, storeVars
<1>5. ASSUME NEW p \in Producers, ProduceNotify(p) PROVE WakeupOK'
  BY <1>5, WakeupAll DEF ProduceNotify
<1>6. ASSUME NEW i \in 1..issued, ReplayNext(i) PROVE WakeupOK'
  BY <1>6 DEF ReplayNext, WakeupOK
<1>7. ASSUME NEW i \in 1..issued, BackoffElapses(i) PROVE WakeupOK'
  BY <1>0, <1>7, WakeupFrame DEF BackoffElapses, Asleep, storeVars
<1>8. ASSUME NEW i \in 1..issued, SweepNext(i) PROVE WakeupOK'
  <2>1. queued' = queued
    BY <1>8, EndLeaseStep DEF SweepNext, ServerInv, StoreInv, LanesOK
  <2>2. \A t \in Consumers : stream'[t].pc = stream[t].pc
    <3>1. owner[i] \in Consumers
      BY <1>8 DEF SweepNext, ServerInv, StoreInv, StoreTypeOK
    <3>2. stream[owner[i]] \in StreamRecord(Deliveries) /\ stream = [t \in Consumers |-> stream[t]]
      BY <3>1, StreamFacts DEF ServerInv, StreamsOK
    <3>. QED BY <1>8, <3>1, <3>2 DEF SweepNext, StreamRecord
  <2>. QED BY <1>0, <1>8, <2>1, <2>2, WakeupFrame DEF SweepNext, Asleep
<1>9. CASE SweepNotify \/ ReplayNotify
  BY <1>9, WakeupAll DEF SweepNotify, ReplayNotify
<1>10. CASE SweepUnlock \/ ReplayUnlock \/ BeginDrain \/ Shutdown
  BY <1>0, <1>10, WakeupFrame DEF SweepUnlock, ReplayUnlock, BeginDrain, Shutdown, EnterPhase,
                                  Asleep, lanes, storeVars
<1>11. CASE ForceStop
  <2>1. \A t \in Consumers : stream'[t].pc = stream[t].pc
    <3>. TAKE t \in Consumers
    <3>1. stream[t] \in StreamRecord(Deliveries)
      BY StreamFacts
    <3>. QED BY <1>11, <3>1 DEF ForceStop, StreamRecord
  <2>. QED BY <1>0, <1>11, <2>1, WakeupFrame DEF ForceStop, EnterPhase, Asleep, lanes, storeVars
<1>. QED BY <1>1, <1>2, <1>3, <1>4, <1>5, <1>6, <1>7, <1>8, <1>9, <1>10, <1>11, WakeupStream
         DEF Next, ProduceStep, Receiving, SendLoop, Cleanup, StreamMove, StreamStep

-----------------------------------------------------------------------------
(* The counters.                                                             *)

Counters == [produced : Nat, consumed : Nat, delivered : Nat, redelivered : Nat,
             leaseExpired : Nat, failedSends : Nat, replays : Nat, strays : Nat]

\* Leases that were granted and are accounted for, on either side of the books.
Granted(c, sending) == c.delivered + c.failedSends + sending
Ended(c, leased, owed) == c.consumed + c.redelivered + c.leaseExpired + leased + owed

\* The steps of a stream that enter nothing into the books.
Quiet(s) ==
    \/ Open(s) \/ (\E request \in Requests : InitialCredit(s, request))
    \/ ClientAck(s) \/ (\E how \in {"closed", "lost"} : ClientLeaves(s, how))
    \/ (\E i \in 1..issued : ClientStrayAck(s, i))
    \/ InitialRecvFails(s) \/ RecvEnds(s) \/ AckPassed(s) \/ AckDropped(s)
    \/ DrainedAcks(s) \/ LoopEnds(s) \/ AcquireToken(s) \/ LeaseNone(s) \/ Park(s)
    \/ WakeUp(s) \/ CleanupRelease(s)

\* Finitely many leases exist at any time.
LEMMA LeasedFinite ==
    ASSUME StoreTypeOK
    PROVE  IsFiniteSet(Leased) /\ Cardinality(Leased) \in Nat
<1>1. IsFiniteSet(1..issued) /\ Leased \subseteq 1..issued
  BY FS_Interval DEF StoreTypeOK
<1>. QED BY <1>1, FS_Subset, FS_CardinalityType

\* A lease that ends leaves one fewer.
LEMMA LeasedDrop ==
    ASSUME StoreTypeOK, NEW i \in Leased, owner' = DropLeases({i})
    PROVE  Cardinality(Leased') = Cardinality(Leased) - 1
<1>1. Leased' = Leased \ {i}
  BY DEF DropLeases, Leased
<1>. QED BY <1>1, LeasedFinite, FS_RemoveElement

\* A lease that is granted makes one more.
LEMMA LeasedAdd ==
    ASSUME StoreTypeOK, NEW c, NEW i, i \notin Leased, StoreLease(c, i)
    PROVE  Cardinality(Leased') = Cardinality(Leased) + 1
<1>1. Leased' = Leased \cup {i}
  BY DEF StoreLease, Leased
<1>. QED BY <1>1, LeasedFinite, FS_AddElement

\* The streams that are sending, as a step of stream s changes them.
LEMMA SendingStep ==
    ASSUME ServerInv, NEW s \in Consumers, StreamStep(s)
    PROVE  \/ /\ Sending' = Sending /\ ~LeaseNext(s) /\ ~SendOk(s) /\ ~SendFails(s)
           \/ /\ LeaseNext(s) /\ IsFiniteSet(Sending')
              /\ Cardinality(Sending') = Cardinality(Sending) + 1
           \/ /\ SendOk(s) \/ SendFails(s)
              /\ IsFiniteSet(Sending') /\ Cardinality(Sending') = Cardinality(Sending) - 1
<1>0. IsFiniteSet(Sending)
  BY DEF ServerInv, CountOK
<1>1. CASE LeaseNext(s)
  <2>1. stream[s].pc = "lease" /\ stream'[s].pc = "sending"
    <3>1. stream[s] \in StreamRecord(Deliveries) /\ stream = [t \in Consumers |-> stream[t]]
      BY StreamFacts DEF ServerInv, StreamsOK
    <3>. PICK m : stream' = [stream EXCEPT ![s].pc = "sending", ![s].msg = m]
      BY <1>1 DEF LeaseNext
    <3>. QED BY <1>1, <3>1 DEF LeaseNext, StreamRecord
  <2>2. Sending' = Sending \cup {s} /\ s \notin Sending
    BY <2>1, PcStep DEF Sending
  <2>. QED BY <1>0, <1>1, <2>2, FS_AddElement
<1>2. CASE SendOk(s) \/ SendFails(s)
  <2>1. stream[s].pc = "sending" /\ stream'[s].pc # "sending"
    <3>1. stream[s] \in StreamRecord(Deliveries) /\ stream = [t \in Consumers |-> stream[t]]
      BY StreamFacts DEF ServerInv, StreamsOK
    <3>2. CASE SendOk(s)
      BY <3>1, <3>2 DEF SendOk, StreamRecord
    <3>3. CASE SendFails(s)
      <4>1. \E pc \in {"failed", "exiting"} : \E u :
               stream' = [stream EXCEPT ![s].pc = pc, ![s].msg = <<>>, ![s].uncounted = u]
        BY <3>3 DEF SendFails
      <4>. QED BY <3>1, <3>3, <4>1 DEF SendFails, StreamRecord
    <3>. QED BY <1>2, <3>2, <3>3
  <2>2. Sending' = Sending \ {s} /\ s \in Sending
    BY <2>1, PcStep DEF Sending
  <2>. QED BY <1>0, <1>2, <2>2, FS_RemoveElement
<1>3. CASE ~LeaseNext(s) /\ ~SendOk(s) /\ ~SendFails(s)
  BY <1>3, PcStep DEF Sending
<1>. QED BY <1>1, <1>2, <1>3

\* The total of what is not counted yet changes by what stream s owes.
LEMMA UncountedStep ==
    ASSUME ServerInv, NEW s \in Consumers, NEW n \in Nat, stream'[s].uncounted = n,
           \A t \in Consumers : t # s => stream'[t] = stream[t]
    PROVE  /\ IsFiniteSet(Units(Uncounted')) /\ Total(Uncounted) \in Nat
           /\ Total(Uncounted') = (Total(Uncounted) - stream[s].uncounted) + n
           /\ stream[s].uncounted \in Nat
<1>1. \A t \in Consumers : stream[t].uncounted \in Nat
  BY StreamFacts DEF StreamRecord
<1>2. /\ Uncounted \in [Consumers -> Nat] /\ IsFiniteSet(Units(Uncounted))
      /\ Uncounted[s] = stream[s].uncounted
  BY <1>1 DEF Uncounted, ServerInv, CountOK
<1>3. Uncounted' = [Uncounted EXCEPT ![s] = n]
  BY DEF Uncounted
<1>4. PICK f \in [Consumers -> Nat] : f = Uncounted
  BY <1>2
<1>5. PICK g : g = Uncounted'
  OBVIOUS
<1>6. g = [f EXCEPT ![s] = n] /\ IsFiniteSet(Units(f)) /\ f[s] = stream[s].uncounted
  BY <1>2, <1>3, <1>4, <1>5
<1>7. /\ IsFiniteSet(Units(g)) /\ Total(f) \in Nat
      /\ Total(g) = (Total(f) - f[s]) + n
  BY ONLY <1>6, TotalChange, s \in Consumers, n \in Nat, f \in [Consumers -> Nat]
<1>. QED BY <1>1, <1>4, <1>5, <1>6, <1>7

\* A quiet step changes no counter of the books, no lease and no debt.
LEMMA QuietStep ==
    ASSUME ServerInv, NEW s \in Consumers, Quiet(s)
    PROVE  /\ Leased' = Leased /\ Uncounted' = Uncounted
           /\ count' = count \/ Incr("strays", 1)
<1>0. /\ stream = [t \in Consumers |-> stream[t]] /\ stream[s] \in StreamRecord(Deliveries)
      /\ StreamOK(stream[s], Cardinality(Owned(s)), Deliveries, count.strays)
  BY StreamFacts DEF ServerInv, StreamsOK
<1>1. Leased' = Leased /\ (count' = count \/ Incr("strays", 1))
  BY DEF Quiet, Open, InitialCredit, ClientAck, ClientStrayAck, ClientLeaves, InitialRecvFails,
         RecvEnds, AckPassed, AckDropped, DrainedAcks, LoopEnds, AcquireToken, LeaseNone, Park,
         WakeUp, CleanupRelease, lanes, storeVars, Leased
<1>2. \A t \in Consumers : t # s => stream'[t] = stream[t]
  BY PcStep DEF Quiet, StreamStep, StreamMove
<1>3. stream'[s].uncounted = stream[s].uncounted
  <2>1. CASE InitialRecvFails(s) \/ (CleanupRelease(s) /\ Finish(s))
    <3>1. stream[s].uncounted = 0
      BY <1>0, <2>1 DEF InitialRecvFails, CleanupRelease, StreamOK, Owing
    <3>2. stream'[s].uncounted = 0
      BY <1>0, <2>1 DEF InitialRecvFails, Finish, NoStream
    <3>. QED BY <3>1, <3>2
  <2>2. ASSUME NEW pc, GoTo(s, pc) PROVE stream'[s].uncounted = stream[s].uncounted
    BY <1>0, <2>2 DEF GoTo, StreamRecord
  <2>3. CASE DrainedAcks(s) \/ LoopEnds(s) \/ LeaseNone(s) \/ WakeUp(s)
    BY <2>2, <2>3 DEF DrainedAcks, LoopEnds, LeaseNone, WakeUp
  <2>4. CASE CleanupRelease(s)
    BY <2>1, <2>2, <2>4 DEF CleanupRelease
  <2>5. CASE Open(s) \/ RecvEnds(s) \/ AckPassed(s) \/ AckDropped(s) \/ AcquireToken(s) \/ Park(s)
    BY <1>0, <2>5 DEF Open, RecvEnds, AckPassed, AckDropped, AcquireToken, Park, StreamRecord
  <2>6. ASSUME NEW request \in Requests, InitialCredit(s, request)
        PROVE  stream'[s].uncounted = stream[s].uncounted
    BY <1>0, <2>6 DEF InitialCredit, StreamRecord
  <2>7. CASE ClientAck(s)
    <3>. PICK m \in stream[s].inHand :
            stream' = [stream EXCEPT ![s].inHand = @ \ {m}, ![s].got = <<m>>]
      BY <2>7 DEF ClientAck
    <3>. QED BY <1>0 DEF StreamRecord
  <2>8. ASSUME NEW how \in {"closed", "lost"}, ClientLeaves(s, how)
        PROVE  stream'[s].uncounted = stream[s].uncounted
    BY <1>0, <2>8 DEF ClientLeaves, StreamRecord
  <2>9. ASSUME NEW i \in 1..issued, ClientStrayAck(s, i)
        PROVE  stream'[s].uncounted = stream[s].uncounted
    BY <1>0, <2>9 DEF ClientStrayAck, StreamRecord
  <2>. QED BY <2>1, <2>3, <2>4, <2>5, <2>6, <2>7, <2>8, <2>9 DEF Quiet
<1>. QED BY <1>1, <1>2, <1>3 DEF Uncounted

\* The books stay balanced, whichever entry a step makes on either side.
LEMMA CountStep == ServerInv /\ Next => CountOK' /\ DeliveriesAccounted'
<1>. SUFFICES ASSUME ServerInv, Next PROVE CountOK' /\ DeliveriesAccounted'
  OBVIOUS
<1>. DEFINE k == Cardinality(Leased)
            n == Cardinality(Sending)
            T == Total(Uncounted)
            Books == CountOK' /\ DeliveriesAccounted'
<1>0. /\ StoreTypeOK /\ visible \subseteq retrying
      /\ IsFiniteSet(Sending) /\ IsFiniteSet(Units(Uncounted)) /\ count \in Counters
  BY DEF ServerInv, StoreInv, LanesOK, CountOK, Counters
<1>n. n \in Nat /\ k \in Nat /\ T \in Nat
  BY <1>0, FS_CardinalityType, LeasedFinite DEF Total
<1>b. Granted(count, n) = Ended(count, k, T)
  BY DEF ServerInv, DeliveriesAccounted, Granted, Ended, Sending, Uncounted
<1>c. /\ count.produced \in Nat /\ count.consumed \in Nat /\ count.delivered \in Nat
      /\ count.redelivered \in Nat /\ count.leaseExpired \in Nat /\ count.failedSends \in Nat
      /\ count.replays \in Nat /\ count.strays \in Nat
  BY <1>0 DEF Counters
<1>g. PICK G \in Nat, E \in Nat, N \in Nat, K \in Nat, U \in Nat :
         /\ G = count.delivered + count.failedSends
         /\ E = count.consumed + count.redelivered + count.leaseExpired
         /\ N = n /\ K = k /\ U = T
  <2>1. /\ count.delivered + count.failedSends \in Nat
        /\ count.consumed + count.redelivered + count.leaseExpired \in Nat
    BY ONLY <1>c
  <2>. QED BY <1>n, <2>1, Zenon
<1>i. G \in Nat /\ E \in Nat /\ N \in Nat /\ K \in Nat /\ U \in Nat
  OBVIOUS
<1>a. G + N = E + K + U
  BY ONLY <1>b, <1>g DEF Granted, Ended
<1>q. ASSUME IsFiniteSet(Sending'), IsFiniteSet(Units(Uncounted')), count' \in Counters,
             Granted(count', Cardinality(Sending'))
                = Ended(count', Cardinality(Leased'), Total(Uncounted'))
      PROVE  Books
  BY <1>q DEF CountOK, DeliveriesAccounted, Granted, Ended, Sending, Counters, Uncounted,
              Total, Units
<1>s. ASSUME NEW s \in Consumers
      PROVE  /\ stream = [t \in Consumers |-> stream[t]] /\ stream[s] \in StreamRecord(Deliveries)
             /\ StreamOK(stream[s], Cardinality(Owned(s)), Deliveries, count.strays)
             /\ stream[s].uncounted \in Nat
  BY StreamFacts DEF ServerInv, StreamsOK, StreamRecord
<1>. HIDE DEF Books
<1>1. ASSUME Sending' = Sending, Leased' = Leased, Uncounted' = Uncounted,
             \/ count' = count
             \/ \E f \in {"produced", "replays", "strays"} : \E j \in Nat : Incr(f, j)
      PROVE  Books
  <2>1. /\ count' \in Counters
        /\ count'.consumed = count.consumed /\ count'.delivered = count.delivered
        /\ count'.redelivered = count.redelivered /\ count'.leaseExpired = count.leaseExpired
        /\ count'.failedSends = count.failedSends
    BY <1>0, <1>c, <1>1 DEF Incr, Counters
  <2>. QED BY <1>0, <1>1, <1>b, <1>q, <2>1 DEF Granted, Ended
<1>2. ASSUME NEW s \in Consumers, LeaseNext(s) PROVE Books
  <2>1. IsFiniteSet(Sending') /\ Cardinality(Sending') = n + 1
    BY <1>2, SendingStep DEF StreamStep, LeaseNext, SendOk, SendFails
  <2>2. Cardinality(Leased') = k + 1
    <3>. PICK i \in IF visible # {} THEN visible ELSE queued : StoreLease(s, i)
      BY <1>2 DEF LeaseNext
    <3>1. i \notin Leased
      BY DEF ServerInv, LanesOK, StoreInv, StoreTypeOK, OneCustodian
    <3>. QED BY <1>0, <3>1, LeasedAdd
  <2>3. count' = count
    BY <1>2 DEF LeaseNext
  <2>u. Uncounted' = Uncounted
    <3>. PICK m : stream' = [stream EXCEPT ![s].pc = "sending", ![s].msg = m]
      BY <1>2 DEF LeaseNext
    <3>. QED BY <1>s DEF Uncounted, StreamRecord
  <2>4. Granted(count, n + 1) = Ended(count, k + 1, T)
    <3>1. G + (N + 1) = E + (K + 1) + U
      BY ONLY <1>a, <1>i
    <3>. QED BY ONLY <1>g, <3>1 DEF Granted, Ended
  <2>. QED BY <1>0, <1>q, <2>1, <2>2, <2>3, <2>u, <2>4
<1>3. ASSUME NEW s \in Consumers, SendOk(s) PROVE Books
  <2>1. IsFiniteSet(Sending') /\ Cardinality(Sending') = n - 1
    BY <1>3, SendingStep DEF StreamStep, StreamMove, LeaseNext, SendOk
  <2>2. Leased' = Leased
    BY <1>3 DEF SendOk, lanes, storeVars, Leased
  <2>u. Uncounted' = Uncounted
    BY <1>3, <1>s DEF SendOk, Uncounted, StreamRecord
  <2>e. count' = [count EXCEPT !.delivered = @ + 1]
    BY <1>3 DEF SendOk, Incr
  <2>3. count' \in Counters
    BY <1>0, <1>c, <2>e DEF Counters
  <2>4. /\ count'.delivered = count.delivered + 1
        /\ count'.consumed = count.consumed /\ count'.redelivered = count.redelivered
        /\ count'.leaseExpired = count.leaseExpired /\ count'.failedSends = count.failedSends
    BY <1>0, <2>e DEF Counters
  <2>5. Granted(count', n - 1) = Ended(count', k, T)
    <3>1. (G + 1) + (N - 1) = E + K + U
      BY ONLY <1>a, <1>i
    <3>2. /\ count'.delivered + count'.failedSends = G + 1
          /\ count'.consumed + count'.redelivered + count'.leaseExpired = E
      BY ONLY <1>c, <1>g, <2>4
    <3>. QED BY ONLY <1>g, <3>1, <3>2 DEF Granted, Ended
  <2>. QED BY <1>0, <1>q, <2>1, <2>2, <2>u, <2>3, <2>5
<1>4. ASSUME NEW s \in Consumers, NEW counting, NEW next, TakeAck(s, counting, next),
             stream[s].pc \in {"top", "acquire", "park", "exiting"}, Sending' = Sending
      PROVE  Books
  <2>. DEFINE i == Head(stream[s].ackCh)[1]
  <2>0. stream[s].uncounted = 0 /\ count' = count
        /\ \A t \in Consumers : t # s => stream'[t] = stream[t]
    BY <1>4, <1>s DEF StreamOK, Owing, TakeAck
  <2>1. CASE i \in Owned(s)
    <3>1. owner' = DropLeases({i}) /\ i \in Leased
      BY <1>4, <2>1 DEF TakeAck, StoreAck, Owned
    <3>2. Cardinality(Leased') = k - 1
      BY <1>0, <3>1, LeasedDrop
    <3>3. stream'[s].uncounted = 1
      BY <1>4, <1>s, <2>1 DEF TakeAck, StreamRecord
    <3>4. IsFiniteSet(Units(Uncounted')) /\ Total(Uncounted') = (T - 0) + 1
      BY <2>0, <3>3, UncountedStep
    <3>5. Granted(count, n) = Ended(count, k - 1, (T - 0) + 1)
      BY ONLY <1>b, <1>c, <1>n DEF Granted, Ended
    <3>. QED BY <1>0, <1>4, <1>q, <2>0, <3>2, <3>4, <3>5
  <2>2. CASE i \notin Owned(s)
    <3>1. Leased' = Leased
      BY <1>4, <2>2 DEF TakeAck, storeVars, Leased
    <3>2. stream'[s].uncounted = 0
      BY <1>4, <1>s, <2>2 DEF TakeAck, StreamRecord
    <3>3. Uncounted' = Uncounted
      BY <2>0, <3>2 DEF Uncounted
    <3>. QED BY <1>1, <1>4, <2>0, <3>1, <3>3
  <2>. QED BY <2>1, <2>2
<1>5. ASSUME NEW s \in Consumers, SendFails(s) PROVE Books
  <2>. DEFINE i == stream[s].msg[1]
  <2>1. IsFiniteSet(Sending') /\ Cardinality(Sending') = n - 1
    BY <1>5, SendingStep DEF StreamStep, LeaseNext, SendFails
  <2>e. count' = [count EXCEPT !.failedSends = @ + 1]
    BY <1>5 DEF SendFails, Incr
  <2>f. count' \in Counters
    BY <1>0, <1>c, <2>e DEF Counters
  <2>g. /\ count'.failedSends = count.failedSends + 1
        /\ count'.consumed = count.consumed /\ count'.delivered = count.delivered
        /\ count'.leaseExpired = count.leaseExpired /\ count'.redelivered = count.redelivered
    BY <1>0, <2>e DEF Counters
  <2>s. /\ count'.delivered + count'.failedSends = G + 1
        /\ count'.consumed + count'.redelivered + count'.leaseExpired = E
    BY ONLY <1>c, <1>g, <2>g
  <2>h. stream[s].uncounted = 0
    BY <1>5, <1>s DEF SendFails, StreamOK, Owing
  <2>o. \A t \in Consumers : t # s => stream'[t] = stream[t]
    BY <1>5, PcStep DEF StreamStep
  <2>2. CASE i \in Owned(s)
    <3>1. EndLease(i, TRUE) /\ i \in Leased
      BY <1>5, <2>2 DEF SendFails, Owned
    <3>2. Cardinality(Leased') = k - 1
      BY <1>0, <3>1, EndLeaseStep, LeasedDrop
    <3>3. stream'[s].uncounted = 1
      BY <1>5, <1>s, <2>2 DEF SendFails, StreamRecord
    <3>4. IsFiniteSet(Units(Uncounted')) /\ Total(Uncounted') = (T - 0) + 1
      BY <2>h, <2>o, <3>3, UncountedStep
    <3>5. Granted(count', n - 1) = Ended(count', k - 1, (T - 0) + 1)
      <4>1. (G + 1) + (N - 1) = E + (K - 1) + ((U - 0) + 1)
        BY ONLY <1>a, <1>i
      <4>. QED BY ONLY <1>g, <2>s, <4>1 DEF Granted, Ended
    <3>. QED BY <1>q, <2>1, <2>f, <3>2, <3>4, <3>5
  <2>3. CASE i \notin Owned(s)
    <3>1. Leased' = Leased
      BY <1>5, <2>3 DEF SendFails, storeVars, Leased
    <3>2. stream'[s].uncounted = 0
      BY <1>5, <1>s, <2>3 DEF SendFails, StreamRecord
    <3>3. Uncounted' = Uncounted
      BY <2>h, <2>o, <3>2 DEF Uncounted
    <3>4. Granted(count', n - 1) = Ended(count', k, T)
      <4>1. (G + 1) + (N - 1) = E + K + U
        BY ONLY <1>a, <1>i
      <4>. QED BY ONLY <1>g, <2>s, <4>1 DEF Granted, Ended
    <3>. QED BY <1>0, <1>q, <2>1, <2>f, <3>1, <3>3, <3>4
  <2>. QED BY <2>2, <2>3
<1>6. ASSUME NEW s \in Consumers, ReleaseNext(s), Sending' = Sending PROVE Books
  <2>. PICK i \in Owned(s) :
          /\ EndLease(i, FALSE)
          /\ stream' = [stream EXCEPT ![s].pc = IF Owned(s) = {i} THEN "notify" ELSE "releasing",
                                      ![s].uncounted = @ + 1]
    BY <1>6 DEF ReleaseNext
  <2>1. Cardinality(Leased') = k - 1
    <3>1. i \in Leased
      BY DEF Owned
    <3>. QED BY <1>0, <3>1, EndLeaseStep, LeasedDrop
  <2>2. PICK u \in Nat : u = stream[s].uncounted
    BY <1>s
  <2>3. stream'[s].uncounted = u + 1 /\ \A t \in Consumers : t # s => stream'[t] = stream[t]
    BY <1>s, <2>2 DEF StreamRecord
  <2>4. IsFiniteSet(Units(Uncounted')) /\ Total(Uncounted') = (T - u) + (u + 1)
    <3>1. u + 1 \in Nat
      BY <2>2
    <3>. QED BY <2>2, <2>3, <3>1, UncountedStep
  <2>5. Granted(count, n) = Ended(count, k - 1, (T - u) + (u + 1))
    <3>1. G + N = E + (K - 1) + ((U - u) + (u + 1))
      BY ONLY <1>a, <1>i, u \in Nat
    <3>. QED BY ONLY <1>g, <3>1 DEF Granted, Ended
  <2>6. count' = count
    BY <1>6 DEF ReleaseNext
  <2>. QED BY <1>0, <1>6, <1>q, <2>1, <2>4, <2>5, <2>6
<1>e. ASSUME NEW s \in Consumers, NEW f \in {"consumed", "redelivered"},
             Incr(f, stream[s].uncounted), stream'[s].uncounted = 0,
             \A t \in Consumers : t # s => stream'[t] = stream[t],
             Leased' = Leased, Sending' = Sending
      PROVE  Books
  <2>1. PICK u \in Nat : u = stream[s].uncounted
    BY <1>s
  <2>2. IsFiniteSet(Units(Uncounted')) /\ Total(Uncounted') = (T - u) + 0
    BY <1>e, <2>1, UncountedStep
  <2>3. count' = [count EXCEPT ![f] = @ + u] /\ count' \in Counters
    BY <1>0, <1>c, <1>e, <2>1 DEF Incr, Counters
  <2>4. /\ count'.consumed + count'.redelivered = count.consumed + count.redelivered + u
        /\ count'.consumed \in Nat /\ count'.redelivered \in Nat
        /\ count'.delivered = count.delivered /\ count'.failedSends = count.failedSends
        /\ count'.leaseExpired = count.leaseExpired
    BY <1>0, <1>c, <1>e, <2>3 DEF Counters
  <2>5. Granted(count', n) = Ended(count', k, (T - u) + 0)
    <3>1. G + N = (E + u) + K + ((U - u) + 0)
      BY ONLY <1>a, <1>i, u \in Nat
    <3>2. /\ count'.delivered + count'.failedSends = G
          /\ count'.consumed + count'.redelivered + count'.leaseExpired = E + u
      BY ONLY <1>c, <1>g, <2>4, u \in Nat
    <3>. QED BY ONLY <1>g, <3>1, <3>2 DEF Granted, Ended
  <2>. QED BY <1>0, <1>e, <1>q, <2>2, <2>3, <2>5
<1>f. ASSUME NEW s \in Consumers,
             CountAck(s) \/ CleanupCount(s) \/ FailedNotify(s) \/ CleanupNotify(s),
             Sending' = Sending
      PROVE  Books
  <2>1. Leased' = Leased
    BY <1>f DEF CountAck, CleanupCount, FailedNotify, CleanupNotify, lanes, storeVars, Leased
  <2>2. \A t \in Consumers : t # s => stream'[t] = stream[t]
    BY <1>f, PcStep DEF StreamStep, StreamMove
  <2>3. stream'[s].uncounted = 0
    BY <1>f, <1>s DEF CountAck, CleanupCount, FailedNotify, CleanupNotify, Finish, NoStream,
                      StreamRecord
  <2>4. \/ Incr("consumed", stream[s].uncounted)
        \/ Incr("redelivered", stream[s].uncounted)
    <3>1. CASE CountAck(s) \/ CleanupCount(s) \/ FailedNotify(s)
      <4>1. stream[s].uncounted = 1
        BY <1>s, <3>1 DEF CountAck, CleanupCount, FailedNotify, StreamOK, Owing
      <4>. QED BY <3>1, <4>1 DEF CountAck, CleanupCount, FailedNotify
    <3>2. CASE CleanupNotify(s)
      BY <3>2 DEF CleanupNotify
    <3>. QED BY <1>f, <3>1, <3>2
  <2>. QED BY <1>e, <1>f, <2>1, <2>2, <2>3, <2>4
<1>7. ASSUME NEW s \in Consumers, StreamStep(s) PROVE Books
  <2>1. CASE ~LeaseNext(s) /\ ~SendOk(s) /\ ~SendFails(s)
    <3>1. Sending' = Sending
      BY <1>7, <2>1, SendingStep
    <3>2. CASE DrainAck(s) \/ SelectAck(s) \/ CleanupAck(s)
      BY <1>4, <3>1, <3>2 DEF DrainAck, SelectAck, CleanupAck
    <3>3. CASE ReleaseNext(s)
      BY <1>6, <3>1, <3>3
    <3>4. CASE CountAck(s) \/ CleanupCount(s) \/ FailedNotify(s) \/ CleanupNotify(s)
      BY <1>f, <3>1, <3>4
    <3>5. CASE Quiet(s)
      BY <1>1, <3>1, <3>5, QuietStep
    <3>. QED BY <1>7, <2>1, <3>2, <3>3, <3>4, <3>5 DEF StreamStep, StreamMove, Quiet
  <2>. QED BY <1>2, <1>3, <1>5, <2>1
<1>8. ASSUME stream' = stream PROVE Sending' = Sending /\ Uncounted' = Uncounted
  BY <1>8 DEF Sending, Uncounted
<1>9. ASSUME NEW p \in Producers, (\E j \in 1..MaxBatch : ProduceBatch(p, j)) \/ ProduceStep(p)
      PROVE  Books
  <2>1. producer[p].accepted \in Nat
    BY DEF ServerInv, ProducersOK
  <2>2. stream' = stream /\ Leased' = Leased
        /\ (count' = count \/ Incr("produced", producer[p].accepted))
    BY <1>9 DEF ProduceBatch, ProduceStep, ProduceEnqueue, ProduceWaits, ProduceRefused,
                ProduceNotify, lanes, storeVars, Admit, AdmitEvicting, Leased
  <2>. QED BY <1>1, <1>8, <2>1, <2>2
<1>10. ASSUME NEW i \in 1..issued, SweepNext(i) PROVE Books
  <2>1. \A t \in Consumers :
           stream'[t].pc = stream[t].pc /\ stream'[t].uncounted = stream[t].uncounted
    <3>1. owner[i] \in Consumers
      BY <1>10 DEF SweepNext, ServerInv, StoreInv, StoreTypeOK
    <3>. QED BY <1>10, <1>s, <3>1 DEF SweepNext, StreamRecord
  <2>2. Sending' = Sending /\ Uncounted' = Uncounted
    BY <2>1 DEF Sending, Uncounted
  <2>3. Cardinality(Leased') = k - 1
    BY <1>0, <1>10, EndLeaseStep, LeasedDrop DEF SweepNext
  <2>4. count' = [count EXCEPT !.leaseExpired = @ + 1]
    BY <1>10 DEF SweepNext, Incr
  <2>5. count' \in Counters
    BY <1>0, <1>c, <2>4 DEF Counters
  <2>6. /\ count'.leaseExpired = count.leaseExpired + 1
        /\ count'.consumed = count.consumed /\ count'.delivered = count.delivered
        /\ count'.failedSends = count.failedSends /\ count'.redelivered = count.redelivered
    BY <1>0, <2>4 DEF Counters
  <2>7. Granted(count', n) = Ended(count', k - 1, T)
    <3>1. G + N = (E + 1) + (K - 1) + U
      BY ONLY <1>a, <1>i
    <3>2. /\ count'.delivered + count'.failedSends = G
          /\ count'.consumed + count'.redelivered + count'.leaseExpired = E + 1
      BY ONLY <1>c, <1>g, <2>6
    <3>. QED BY ONLY <1>g, <3>1, <3>2 DEF Granted, Ended
  <2>. QED BY <1>0, <1>q, <2>2, <2>3, <2>5, <2>7
<1>11. ASSUME NEW i \in 1..issued, BackoffElapses(i) \/ ReplayNext(i) PROVE Books
  <2>1. stream' = stream /\ Leased' = Leased /\ (count' = count \/ Incr("replays", 1))
    BY <1>11 DEF BackoffElapses, ReplayNext, StoreReplay, storeVars, Leased
  <2>. QED BY <1>1, <1>8, <2>1
<1>12. ASSUME SweepUnlock \/ SweepNotify \/ ReplayUnlock \/ ReplayNotify \/ BeginDrain \/ Shutdown
       PROVE  Books
  <2>1. stream' = stream /\ Leased' = Leased /\ count' = count
    BY <1>12 DEF SweepUnlock, SweepNotify, ReplayUnlock, ReplayNotify, BeginDrain, Shutdown,
                 EnterPhase, lanes, storeVars, Leased
  <2>. QED BY <1>1, <1>8, <2>1
<1>13. ASSUME ForceStop PROVE Books
  <2>1. \A t \in Consumers :
           stream'[t].pc = stream[t].pc /\ stream'[t].uncounted = stream[t].uncounted
    <3>. TAKE t \in Consumers
    <3>1. stream[t] \in StreamRecord(Deliveries)
      BY StreamFacts
    <3>. QED BY <1>13, <3>1 DEF ForceStop, StreamRecord
  <2>2. Sending' = Sending /\ Uncounted' = Uncounted
    BY <2>1 DEF Sending, Uncounted
  <2>3. Leased' = Leased /\ count' = count
    BY <1>13 DEF ForceStop, EnterPhase, lanes, storeVars, Leased
  <2>. QED BY <1>1, <2>2, <2>3
<1>14. Books
  BY <1>7, <1>9, <1>10, <1>11, <1>12, <1>13
     DEF Next, Receiving, SendLoop, Cleanup, StreamMove, StreamStep
<1>. QED BY <1>14 DEF Books

-----------------------------------------------------------------------------
(* The theorems.                                                             *)

\* The server starts with no stream, no call and an empty store.
LEMMA ServerInit == Init => ServerInv
<1>. SUFFICES ASSUME Init PROVE ServerInv
  OBVIOUS
<1>1. StoreInv
  BY StoreInitInv DEF Init
<1>2. issued = 0 /\ Leased = {} /\ queued = {} /\ retrying = {}
  BY DEF Init, StoreInit, Leased
<1>3. LanesOK
  BY <1>2 DEF Init, LanesOK
<1>4. \A s \in Consumers : stream[s] = NoStream /\ Owned(s) = {}
  BY <1>2 DEF Init, Owned
<1>5. count.strays = 0 /\ Cardinality({}) = 0 /\ IsFiniteSet({})
  BY FS_EmptySet DEF Init
<1>6. StreamOK(NoStream, 0, Deliveries, 0)
  <2>1. <<>> \in Seq(Deliveries) /\ Len(<<>>) = 0 /\ "none" \in PCs
    BY DEF PCs
  <2>2. NoStream \in StreamRecord(Deliveries)
    BY <2>1 DEF NoStream, StreamRecord
  <2>3. /\ NoStream.pc = "none" /\ NoStream.credit = 0 /\ NoStream.sem = 0
        /\ NoStream.ackCh = <<>> /\ NoStream.got = <<>> /\ NoStream.inHand = {}
        /\ NoStream.dropped = {} /\ NoStream.revoked = 0 /\ NoStream.uncounted = 0
        /\ NoStream.recv = "none"
    BY DEF NoStream
  <2>4. Held(NoStream) = 0
    BY <1>5, <2>1, <2>3 DEF Held
  <2>. QED BY <1>5, <2>1, <2>2, <2>3, <2>4 DEF StreamOK, Unopened, Looping, Owing
<1>7. StreamsOK
  <2>1. stream = [s \in Consumers |-> stream[s]]
    BY DEF Init
  <2>. QED BY <1>4, <1>5, <1>6, <2>1 DEF StreamsOK
<1>8. ProducersOK /\ FlagsOK
  BY DEF Init, NoCall, ProducersOK, FlagsOK
<1>9. WakeupOK
  BY <1>2 DEF WakeupOK
<1>10. Sending = {}
  BY <1>4 DEF Sending, NoStream
<1>u. IsFiniteSet(Units(Uncounted)) /\ Total(Uncounted) = 0
  <2>1. DOMAIN Uncounted = Consumers /\ \A s \in Consumers : Uncounted[s] = 0
    BY <1>4 DEF Uncounted, NoStream
  <2>. QED BY <2>1, TotalZero
<1>11. CountOK
  BY <1>5, <1>10, <1>u DEF Init, CountOK
<1>12. DeliveriesAccounted
  <2>1. Cardinality({s \in Consumers : stream[s].pc = "sending"}) = 0 /\ Cardinality(Leased) = 0
    BY <1>2, <1>5, <1>10 DEF Sending
  <2>2. /\ count.delivered = 0 /\ count.failedSends = 0 /\ count.consumed = 0
        /\ count.redelivered = 0 /\ count.leaseExpired = 0
    BY DEF Init
  <2>. QED BY <2>1, <2>2, <1>u DEF DeliveriesAccounted, Uncounted
<1>. QED BY <1>1, <1>3, <1>7, <1>8, <1>9, <1>11, <1>12 DEF ServerInv

\* Every step, and every step that changes nothing, preserves the invariant.
LEMMA ServerStep == ServerInv /\ [Next]_vars => ServerInv'
<1>1. CASE Next
  <2>. SUFFICES ASSUME ServerInv PROVE ServerInv'
    BY <1>1
  <2>1. StoreInv'
    BY <1>1, StoreStep, StoreStepInv, StoreStutterInv DEF ServerInv
  <2>. QED BY <1>1, <2>1, StreamsStep, LanesStep, ProducersStep, FlagsStep, WakeupStep, CountStep
           DEF ServerInv
<1>2. ASSUME ServerInv, UNCHANGED vars PROVE ServerInv'
  <2>1. StoreInv'
    BY <1>2, StoreStutterInv DEF ServerInv, vars, lanes
  <2>2. LanesOK' /\ ProducersOK' /\ FlagsOK' /\ WakeupOK'
    BY <1>2 DEF ServerInv, vars, lanes, storeVars, LanesOK, ProducersOK, FlagsOK, WakeupOK
  <2>3. StreamsOK'
    BY <1>2, StreamsStill DEF vars, lanes, storeVars
  <2>4. CountOK' /\ DeliveriesAccounted'
    BY <1>2 DEF ServerInv, vars, lanes, storeVars, CountOK, DeliveriesAccounted, Sending,
                Leased, Uncounted, Units, Total
  <2>. QED BY <2>1, <2>2, <2>3, <2>4 DEF ServerInv
<1>. QED BY <1>1, <1>2

\* The invariant holds throughout.
THEOREM ServerCorrect == Spec => []ServerInv
  BY ServerInit, ServerStep, PTL DEF Spec

\* The server drives its store within the Store contract: every behaviour of the
\* server is, for the store, a behaviour of StoreSpec, so one custodian per
\* message and the budgets hold whatever the streams do.
THEOREM ServerUsesStore == Spec => StoreSpec
<1>1. Init => StoreInit
  BY DEF Init
<1>2. ServerInv /\ [Next]_vars => [StoreNext]_storeVars
  BY StoreStep DEF vars, lanes
<1>. QED BY <1>1, <1>2, ServerCorrect, PTL DEF Spec, StoreSpec

\* The types of the server's state, the bounds of its channels included.
THEOREM ServerTypes == Spec => []TypeOK
<1>1. ServerInv => TypeOK
  <2>. SUFFICES ASSUME ServerInv PROVE TypeOK
    OBVIOUS
  <2>1. ASSUME NEW s \in Consumers
        PROVE  /\ stream[s].credit \in Nat /\ stream[s].sem \in 0..stream[s].credit
               /\ InLoop(s) => stream[s].credit > 0
               /\ stream[s].ackCh \in Seq(Deliveries) /\ Len(stream[s].ackCh) <= stream[s].credit
               /\ stream[s].got \in Seq(Deliveries) /\ Len(stream[s].got) <= 1
               /\ stream[s].inHand \subseteq Deliveries /\ stream[s].uncounted \in Nat
               /\ stream[s].recv \in {"none", "running", "done"}
               /\ stream[s].client \in {"none", "up", "closed", "lost"}
    <3>1. /\ StreamOK(stream[s], Cardinality(Owned(s)), Deliveries, count.strays)
          /\ stream[s] \in StreamRecord(Deliveries)
      BY StreamFacts
    <3>2. Len(stream[s].got) <= 1
      <4>1. stream[s].got = <<>> => Len(stream[s].got) = 0
        OBVIOUS
      <4>2. stream[s].got # <<>> => Len(stream[s].got) = 1
        BY <3>1 DEF StreamOK
      <4>3. \A n : (n = 0 \/ n = 1) => n <= 1
        OBVIOUS
      <4>. QED BY ONLY <4>1, <4>2, <4>3, Zenon
    <3>. QED BY <3>1, <3>2 DEF StreamOK, StreamRecord, InLoop, Looping
  <2>2. ASSUME NEW p \in Producers
        PROVE  /\ producer[p].pc \in {"idle", "enqueue", "waiting", "notify"}
               /\ producer[p].left \in Nat /\ producer[p].accepted \in Nat
    BY DEF ServerInv, ProducersOK
  <2>. QED BY <2>1, <2>2 DEF ServerInv, StoreInv, LanesOK, FlagsOK, TypeOK
<1>. QED BY <1>1, ServerCorrect, PTL

\* No token of a credit window is minted or lost while a send loop runs, for any
\* number of streams, acks, sweeps and redeliveries.
THEOREM ServerCredit == Spec => []CreditConserved
<1>1. ServerInv => CreditConserved
  <2>. SUFFICES ASSUME ServerInv, NEW s \in Consumers, InLoop(s)
       PROVE  stream[s].sem + InUse(s) + Cardinality(Owned(s)) + stream[s].revoked
                  = stream[s].credit
    BY DEF CreditConserved
  <2>1. StreamOK(stream[s], Cardinality(Owned(s)), Deliveries, count.strays)
    BY StreamFacts
  <2>. QED BY <2>1 DEF StreamOK, InLoop, Looping, InUse
<1>. QED BY <1>1, ServerCorrect, PTL

\* A client holds at most its window of unacked deliveries, plus what its made-up
\* acks stretched it by.
THEOREM ServerWindow == Spec => []WindowBound
<1>1. ServerInv => WindowBound
  <2>. SUFFICES ASSUME ServerInv, NEW s \in Consumers
       PROVE  LET pending == stream[s].ackCh \o stream[s].got
              IN  Cardinality(stream[s].inHand)
                      + Cardinality({k \in DOMAIN pending : pending[k][2] > 0})
                  <= stream[s].credit + count.strays
    BY DEF WindowBound
  <2>. DEFINE q == stream[s]
              pending == q.ackCh \o q.got
              G == {k \in DOMAIN pending : pending[k][2] > 0}
  <2>1. /\ StreamOK(q, Cardinality(Owned(s)), Deliveries, count.strays)
        /\ q \in StreamRecord(Deliveries) /\ count.strays \in Nat
        /\ Cardinality(q.inHand) \in Nat /\ Len(q.ackCh) \in Nat /\ Len(q.got) \in Nat
    BY StreamFacts
  <2>2. /\ q.credit \in Nat /\ Len(pending) = Len(q.ackCh) + Len(q.got)
        /\ Len(pending) \in Nat /\ DOMAIN pending = 1..Len(pending)
    <3>1. q.ackCh \in Seq(Deliveries) /\ q.got \in Seq(Deliveries) /\ q.credit \in Nat
      BY <2>1 DEF StreamRecord
    <3>2. ASSUME NEW D, NEW a \in Seq(D), NEW b \in Seq(D)
          PROVE  /\ Len(a \o b) = Len(a) + Len(b) /\ Len(a \o b) \in Nat
                 /\ DOMAIN (a \o b) = 1..Len(a \o b)
      OBVIOUS
    <3>. QED BY <3>1, <3>2
  <2>. HIDE DEF pending
  <2>3. IsFiniteSet(1..Len(pending)) /\ Cardinality(1..Len(pending)) = Len(pending)
    <3>1. \A n \in Nat : IsFiniteSet(1..n) /\ Cardinality(1..n) = IF 1 > n THEN 0 ELSE n - 1 + 1
      BY ONLY FS_Interval
    <3>2. \A n \in Nat : IsFiniteSet(1..n) /\ Cardinality(1..n) = n
      BY ONLY <3>1
    <3>. QED BY <2>2, <3>2
  <2>4. G \subseteq 1..Len(pending)
    BY <2>2
  <2>. HIDE DEF G
  <2>5. Cardinality(G) \in Nat /\ Cardinality(G) <= Len(pending)
    <3>1. IsFiniteSet(G) /\ Cardinality(G) <= Cardinality(1..Len(pending))
      BY ONLY <2>3, <2>4, FS_Subset
    <3>2. Cardinality(G) \in Nat
      BY ONLY <3>1, FS_CardinalityType
    <3>. QED BY ONLY <2>3, <3>1, <3>2
  <2>. HIDE DEF q
  <2>6. Cardinality(q.inHand) + Len(q.got) + Len(q.ackCh) <= q.credit + count.strays
    <3>1. Cardinality(q.inHand) + Len(q.got) + Len(q.ackCh) <= Held(q) /\ Held(q) \in Nat
      BY <2>1 DEF Held
    <3>2. Held(q) <= q.credit + count.strays
      BY <2>1 DEF StreamOK
    <3>. QED BY ONLY <2>1, <2>2, <3>1, <3>2
  <2>7. Cardinality(q.inHand) + Cardinality(G) <= q.credit + count.strays
    <3>1. ASSUME NEW h \in Nat, NEW g \in Nat, NEW a \in Nat, NEW b \in Nat, NEW c \in Nat,
                 c <= b + a, h + a + b <= q.credit + count.strays
          PROVE  h + c <= q.credit + count.strays
      BY ONLY <2>1, <2>2, <3>1
    <3>2. Cardinality(G) <= Len(q.ackCh) + Len(q.got)
      BY ONLY <2>2, <2>5
    <3>. QED BY ONLY <2>1, <2>5, <2>6, <3>1, <3>2
  <2>. QED BY <2>7 DEF G, pending, q
<1>. QED BY <1>1, ServerCorrect, PTL

\* No lease outlives the handler that has to release it.
THEOREM ServerLeases == Spec => []LeasesHaveHandlers
<1>1. ServerInv => LeasesHaveHandlers
  <2>. SUFFICES ASSUME ServerInv, NEW i \in Leased
       PROVE  InLoop(owner[i]) \/ stream[owner[i]].pc \in {"failed", "exiting", "lateAcked", "releasing"}
    BY DEF LeasesHaveHandlers
  <2>. DEFINE s == owner[i]
  <2>1. s \in Consumers /\ i \in Owned(s)
    BY DEF ServerInv, StoreInv, StoreTypeOK, Owned
  <2>2. Cardinality(Owned(s)) # 0
    BY <2>1, OwnedFinite DEF ServerInv, StoreInv
  <2>3. /\ StreamOK(stream[s], Cardinality(Owned(s)), Deliveries, count.strays)
        /\ stream[s].pc \in PCs
    BY <2>1, StreamFacts DEF StreamRecord
  <2>. QED BY <2>2, <2>3 DEF StreamOK, PCs, Looping, InLoop
<1>. QED BY <1>1, ServerCorrect, PTL


\* A sleeping handler with fresh work in the queue is owed a broadcast.
THEOREM ServerWakeups == Spec => []NoMissedWakeup
<1>1. ServerInv => NoMissedWakeup
  BY DEF ServerInv, WakeupOK, NoMissedWakeup
<1>. QED BY <1>1, ServerCorrect, PTL

-----------------------------------------------------------------------------
(* The books of the producers.                                               *)

\* What each call in progress has got into the store.
Accepted == [p \in Producers |-> producer[p].accepted]

EnqueuesOK == IsFiniteSet(Units(Accepted)) /\ EnqueuesAccounted

\* What a step can do to the books: admit a message for a producer, settle a
\* call, or nothing.
LEMMA BooksStep ==
    ASSUME ServerInv, Next
    PROVE  \/ \E p \in Producers :
                 /\ issued' = issued + 1 /\ count'.produced = count.produced
                 /\ Accepted' = [Accepted EXCEPT ![p] = Accepted[p] + 1]
           \/ \E p \in Producers :
                 /\ issued' = issued /\ count'.produced = count.produced + Accepted[p]
                 /\ Accepted' = [Accepted EXCEPT ![p] = 0]
           \/ issued' = issued /\ count'.produced = count.produced /\ Accepted' = Accepted
<1>. DEFINE Same == issued' = issued /\ count'.produced = count.produced /\ Accepted' = Accepted
<1>0. ProducersOK /\ CountOK
  BY DEF ServerInv
<1>1. ASSUME NEW p \in Producers, NEW n \in 1..MaxBatch, ProduceBatch(p, n) PROVE Same
  BY <1>0, <1>1 DEF ProduceBatch, ProducersOK, Accepted, lanes, storeVars
<1>2. ASSUME NEW p \in Producers, ProduceEnqueue(p)
      PROVE  /\ issued' = issued + 1 /\ count'.produced = count.produced
             /\ Accepted' = [Accepted EXCEPT ![p] = Accepted[p] + 1]
  <2>1. issued' = issued + 1 /\ count' = count
    BY <1>2 DEF ProduceEnqueue, Admit, AdmitEvicting
  <2>2. \A r \in Producers :
           producer'[r].accepted = IF r = p THEN producer[p].accepted + 1 ELSE producer[r].accepted
    BY <1>0, <1>2 DEF ProduceEnqueue, ProducersOK
  <2>. QED BY <2>1, <2>2 DEF Accepted
<1>3. ASSUME NEW p \in Producers, ProduceWaits(p) PROVE Same
  BY <1>0, <1>3 DEF ProduceWaits, ProducersOK, Accepted, lanes, storeVars
<1>4. ASSUME NEW p \in Producers, ProduceRefused(p) PROVE Same
  BY <1>0, <1>4 DEF ProduceRefused, ProducersOK, NoCall, Accepted, lanes, storeVars
<1>5. ASSUME NEW p \in Producers, ProduceNotify(p)
      PROVE  /\ issued' = issued /\ count'.produced = count.produced + Accepted[p]
             /\ Accepted' = [Accepted EXCEPT ![p] = 0]
  <2>1. issued' = issued /\ count'.produced = count.produced + producer[p].accepted
    BY <1>0, <1>5 DEF ProduceNotify, Incr, CountOK, lanes, storeVars
  <2>2. \A r \in Producers :
           producer'[r].accepted = IF r = p THEN 0 ELSE producer[r].accepted
    BY <1>0, <1>5 DEF ProduceNotify, ProducersOK, NoCall
  <2>. QED BY <2>1, <2>2 DEF Accepted
<1>6. ASSUME NEW s \in Consumers,
             \/ StreamMove(s) \/ (\E i \in 1..issued : ClientStrayAck(s, i))
             \/ DrainAck(s) \/ SelectAck(s) \/ CleanupAck(s)
             \/ LeaseNext(s) \/ SendFails(s) \/ ReleaseNext(s)
      PROVE  Same
  <2>1. producer' = producer
    BY <1>6 DEF StreamMove, Open, InitialCredit, ClientAck, ClientStrayAck, ClientLeaves,
                InitialRecvFails, RecvEnds, AckPassed, AckDropped, CountAck,
              CleanupCount, DrainedAcks, LoopEnds, AcquireToken, LeaseNone, Park,
                WakeUp, FailedNotify, SendOk, CleanupRelease, CleanupNotify,
                DrainAck, SelectAck, CleanupAck, TakeAck, LeaseNext, SendFails, ReleaseNext
  <2>2. issued' = issued
    BY <1>6 DEF StreamMove, Open, InitialCredit, ClientAck, ClientStrayAck, ClientLeaves,
                InitialRecvFails, RecvEnds, AckPassed, AckDropped, CountAck,
              CleanupCount, DrainedAcks, LoopEnds, AcquireToken, LeaseNone, Park,
                WakeUp, FailedNotify, SendOk, CleanupRelease, CleanupNotify,
                DrainAck, SelectAck, CleanupAck, TakeAck, LeaseNext, SendFails, ReleaseNext,
                EndLease, StoreAck, StoreLease, StoreRequeue, StoreDeadLetter, lanes, storeVars
  <2>3. count'.produced = count.produced
    BY <1>0, <1>6 DEF StreamMove, Open, InitialCredit, ClientAck, ClientStrayAck, ClientLeaves,
                InitialRecvFails, RecvEnds, AckPassed, AckDropped, CountAck,
              CleanupCount, DrainedAcks, LoopEnds, AcquireToken, LeaseNone, Park,
                WakeUp, FailedNotify, SendOk, CleanupRelease, CleanupNotify,
                DrainAck, SelectAck, CleanupAck, TakeAck, LeaseNext, SendFails, ReleaseNext,
                Incr, CountOK
  <2>. QED BY <2>1, <2>2, <2>3 DEF Accepted
<1>7. ASSUME NEW i \in 1..issued, SweepNext(i) \/ BackoffElapses(i) \/ ReplayNext(i)
      PROVE  Same
  BY <1>0, <1>7 DEF SweepNext, BackoffElapses, ReplayNext, EndLease, StoreRequeue,
                    StoreDeadLetter, StoreReplay, Incr, CountOK, Accepted, storeVars
<1>8. ASSUME \/ SweepUnlock \/ SweepNotify \/ ReplayUnlock \/ ReplayNotify
             \/ BeginDrain \/ Shutdown \/ ForceStop
      PROVE  Same
  BY <1>8 DEF SweepUnlock, SweepNotify, ReplayUnlock, ReplayNotify, BeginDrain, Shutdown,
              ForceStop, EnterPhase, Accepted, lanes, storeVars
<1>. HIDE DEF Same
<1>9. \/ \E p \in Producers : ProduceEnqueue(p) \/ ProduceNotify(p)
      \/ Same
  BY <1>1, <1>3, <1>4, <1>6, <1>7, <1>8
     DEF Next, ProduceStep, Receiving, SendLoop, Cleanup, StreamMove
<1>. QED BY <1>2, <1>5, <1>9 DEF Same

\* The counters tell the whole story: what came in is produced or in a call in
\* progress, and every lease is accounted for exactly once.
THEOREM ServerBooks == Spec => []CountersAccount
<1>1. Init => EnqueuesOK
  <2>. SUFFICES ASSUME Init PROVE EnqueuesOK
    OBVIOUS
  <2>1. DOMAIN Accepted = Producers /\ \A p \in Producers : Accepted[p] = 0
    BY DEF Init, NoCall, Accepted
  <2>2. IsFiniteSet(Units(Accepted)) /\ Total(Accepted) = 0
    BY <2>1, TotalZero
  <2>3. issued = 0 /\ count.produced = 0
    BY DEF Init, StoreInit
  <2>. QED BY <2>2, <2>3 DEF EnqueuesOK, EnqueuesAccounted, Accepted
<1>2. ASSUME ServerInv, EnqueuesOK, [Next]_vars PROVE EnqueuesOK'
  <2>0. /\ Accepted \in [Producers -> Nat] /\ IsFiniteSet(Units(Accepted))
        /\ issued = count.produced + Total(Accepted)
        /\ issued \in Nat /\ count.produced \in Nat
    BY <1>2 DEF ServerInv, ProducersOK, CountOK, StoreInv, StoreTypeOK, EnqueuesOK,
                EnqueuesAccounted, Accepted
  <2>1. SUFFICES IsFiniteSet(Units(Accepted')) /\ issued' = count'.produced + Total(Accepted')
    BY DEF EnqueuesOK, EnqueuesAccounted, Accepted, Total, Units
  <2>2. ASSUME NEW p \in Producers,
               issued' = issued + 1, count'.produced = count.produced,
               Accepted' = [Accepted EXCEPT ![p] = Accepted[p] + 1]
        PROVE  IsFiniteSet(Units(Accepted')) /\ issued' = count'.produced + Total(Accepted')
    <3>1. Accepted[p] \in Nat /\ Accepted[p] + 1 \in Nat
      BY <2>0
    <3>2. /\ IsFiniteSet(Units(Accepted')) /\ Total(Accepted) \in Nat
          /\ Total(Accepted') = (Total(Accepted) - Accepted[p]) + (Accepted[p] + 1)
      BY <2>0, <2>2, <3>1, TotalChange
    <3>. QED BY <2>0, <2>2, <3>1, <3>2
  <2>3. ASSUME NEW p \in Producers,
               issued' = issued, count'.produced = count.produced + Accepted[p],
               Accepted' = [Accepted EXCEPT ![p] = 0]
        PROVE  IsFiniteSet(Units(Accepted')) /\ issued' = count'.produced + Total(Accepted')
    <3>1. Accepted[p] \in Nat /\ 0 \in Nat
      BY <2>0
    <3>2. /\ IsFiniteSet(Units(Accepted')) /\ Total(Accepted) \in Nat
          /\ Total(Accepted') = (Total(Accepted) - Accepted[p]) + 0
      BY <2>0, <2>3, <3>1, TotalChange
    <3>. QED BY <2>0, <2>3, <3>1, <3>2
  <2>4. ASSUME issued' = issued, count'.produced = count.produced, Accepted' = Accepted
        PROVE  IsFiniteSet(Units(Accepted')) /\ issued' = count'.produced + Total(Accepted')
    BY <2>0, <2>4
  <2>5. UNCHANGED vars => issued' = issued /\ count'.produced = count.produced /\ Accepted' = Accepted
    BY DEF vars, lanes, storeVars, Accepted
  <2>. QED BY <1>2, <2>2, <2>3, <2>4, <2>5, BooksStep
<1>3. ServerInv /\ EnqueuesOK => CountersAccount
  BY DEF ServerInv, EnqueuesOK, CountersAccount
<1>4. Spec => []EnqueuesOK
  BY <1>1, <1>2, ServerCorrect, PTL DEF Spec
<1>. QED BY <1>3, <1>4, ServerCorrect, PTL

-----------------------------------------------------------------------------
(* What was confirmed.                                                       *)

\* An element appended, the first one taken off, and the only one.
LEMMA ElementsStep ==
    ASSUME NEW D, NEW q \in Seq(D)
    PROVE  /\ \A m \in D : Elements(Append(q, m)) = Elements(q) \cup {m}
           /\ q # <<>> => Elements(q) \subseteq {Head(q)} \cup Elements(Tail(q))
           /\ Len(q) = 1 => Elements(q) = {Head(q)}
<1>0. Len(q) \in Nat
  OBVIOUS
<1>1. ASSUME NEW m \in D PROVE Elements(Append(q, m)) = Elements(q) \cup {m}
  <2>1. /\ Len(Append(q, m)) = Len(q) + 1 /\ Append(q, m)[Len(q) + 1] = m
        /\ \A j \in 1..Len(q) : Append(q, m)[j] = q[j]
    OBVIOUS
  <2>2. 1..(Len(q) + 1) = 1..Len(q) \cup {Len(q) + 1}
    BY <1>0
  <2>. QED BY <2>1, <2>2 DEF Elements
<1>2. ASSUME q # <<>> PROVE Elements(q) \subseteq {Head(q)} \cup Elements(Tail(q))
  <2>1. /\ Len(Tail(q)) = Len(q) - 1 /\ Head(q) = q[1]
        /\ \A j \in 1..Len(Tail(q)) : Tail(q)[j] = q[j + 1]
    BY <1>2
  <2>2. ASSUME NEW j \in 1..Len(q), j # 1 PROVE q[j] \in Elements(Tail(q))
    <3>1. j - 1 \in 1..Len(Tail(q)) /\ (j - 1) + 1 = j
      BY <1>0, <2>1, <2>2
    <3>2. Tail(q)[j - 1] = q[j]
      BY <2>1, <3>1
    <3>. QED BY <3>1, <3>2 DEF Elements
  <2>. QED BY <2>1, <2>2 DEF Elements
<1>3. ASSUME Len(q) = 1 PROVE Elements(q) = {Head(q)}
  <2>1. q # <<>> /\ Head(q) = q[1]
    BY <1>3
  <2>. QED BY <1>3, <2>1 DEF Elements
<1>. QED BY <1>1, <1>2, <1>3

\* A lease that ends is taken from its holder.
LEMMA OwnedLess ==
    ASSUME NEW i, owner' = DropLeases({i})
    PROVE  \A t : Owned(t)' = Owned(t) \ {i}
  BY DEF Owned, DropLeases, Leased

\* A step of a stream that grants no lease only takes leases away.
LEMMA KeepsLeases ==
    ASSUME ServerInv, NEW s \in Consumers, StreamStep(s), ~LeaseNext(s)
    PROVE  nth' = nth /\ \A t : Owned(t)' \subseteq Owned(t)
<1>1. CASE StreamMove(s) \/ \E i \in 1..issued : ClientStrayAck(s, i)
  <2>1. UNCHANGED lanes
    BY <1>1 DEF StreamMove, Open, InitialCredit, ClientAck, ClientStrayAck, ClientLeaves,
                InitialRecvFails, RecvEnds, AckPassed, AckDropped, CountAck, CleanupCount,
                DrainedAcks, LoopEnds, AcquireToken, LeaseNone, Park, WakeUp, FailedNotify,
                SendOk, CleanupRelease, CleanupNotify
  <2>. QED BY <2>1 DEF lanes, storeVars, Owned, Leased
<1>2. CASE DrainAck(s) \/ SelectAck(s) \/ CleanupAck(s)
  <2>1. PICK counting, next : TakeAck(s, counting, next)
    BY <1>2 DEF DrainAck, SelectAck, CleanupAck
  <2>2. nth' = nth /\ (owner' = owner \/ \E i : owner' = DropLeases({i}))
    BY <2>1 DEF TakeAck, StoreAck, storeVars
  <2>3. owner' = owner => \A t : Owned(t)' = Owned(t)
    BY DEF Owned, Leased
  <2>. QED BY <2>2, <2>3, OwnedLess
<1>3. CASE SendFails(s) \/ ReleaseNext(s)
  <2>1. nth' = nth /\ (owner' = owner \/ \E i : owner' = DropLeases({i}))
    BY <1>3 DEF SendFails, ReleaseNext, EndLease, StoreRequeue, StoreDeadLetter, storeVars
  <2>2. owner' = owner => \A t : Owned(t)' = Owned(t)
    BY DEF Owned, Leased
  <2>. QED BY <2>1, <2>2, OwnedLess
<1>. QED BY <1>1, <1>2, <1>3 DEF StreamStep

\* No move of a stream, its client or its goroutine loses an ack, unless the
\* stream holds no lease.
LEMMA TracedMove ==
    ASSUME ServerInv, NEW s \in Consumers,
           StreamMove(s) \/ \E i \in 1..issued : ClientStrayAck(s, i)
    PROVE  Owned(s) = {} \/ Traced(stream[s]) \subseteq Traced(stream'[s])
<1>. DEFINE q == stream[s]
            r == stream'[s]
<1>0. /\ stream = [t \in Consumers |-> stream[t]] /\ q \in StreamRecord(Deliveries)
      /\ StreamOK(q, Cardinality(Owned(s)), Deliveries, count.strays)
  BY StreamFacts DEF ServerInv, StreamsOK
<1>g. q.got \in Seq(Deliveries) /\ q.ackCh \in Seq(Deliveries)
  BY <1>0 DEF StreamRecord
<1>e. ASSUME NEW pc, GoTo(s, pc), q.pc # "sending" PROVE Traced(q) \subseteq Traced(r)
  BY <1>0, <1>e DEF GoTo, Traced, StreamRecord
<1>1. CASE DrainedAcks(s) \/ LoopEnds(s) \/ LeaseNone(s) \/ WakeUp(s)
  BY <1>1, <1>e DEF DrainedAcks, LoopEnds, LeaseNone, WakeUp
<1>2. CASE Open(s) \/ RecvEnds(s) \/ AcquireToken(s) \/ Park(s) \/ CountAck(s)
           \/ CleanupCount(s) \/ FailedNotify(s)
  <2>1. /\ r.inHand = q.inHand /\ r.got = q.got /\ r.ackCh = q.ackCh /\ r.dropped = q.dropped
        /\ r.msg = q.msg /\ (q.pc = "sending" => r.pc = "sending")
    BY <1>0, <1>2 DEF Open, RecvEnds, AcquireToken, Park, CountAck, CleanupCount, FailedNotify,
                      StreamRecord
  <2>. QED BY <2>1 DEF Traced
<1>3. ASSUME NEW request \in Requests, InitialCredit(s, request)
      PROVE  Traced(q) \subseteq Traced(r)
  BY <1>0, <1>3 DEF InitialCredit, Traced, StreamRecord
<1>4. ASSUME NEW how \in {"closed", "lost"}, ClientLeaves(s, how)
      PROVE  Traced(q) \subseteq Traced(r)
  BY <1>0, <1>4 DEF ClientLeaves, Traced, StreamRecord
<1>5. CASE SendOk(s)
  BY <1>0, <1>5 DEF SendOk, Traced, StreamRecord
<1>6. CASE ClientAck(s)
  <2>. PICK m \in q.inHand : stream' = [stream EXCEPT ![s].inHand = @ \ {m}, ![s].got = <<m>>]
    BY <1>6 DEF ClientAck
  <2>1. /\ r.inHand = q.inHand \ {m} /\ r.got = <<m>> /\ r.ackCh = q.ackCh
        /\ r.dropped = q.dropped /\ r.msg = q.msg /\ r.pc = q.pc
    BY <1>0 DEF StreamRecord
  <2>2. Elements(q.got) = {} /\ Elements(<<m>>) = {m}
    <3>1. q.got = <<>>
      BY <1>6 DEF ClientAck, Receives
    <3>. QED BY <3>1 DEF Elements
  <2>. QED BY <2>1, <2>2 DEF Traced
<1>7. ASSUME NEW i \in 1..issued, ClientStrayAck(s, i) PROVE Traced(q) \subseteq Traced(r)
  <2>1. /\ r.inHand = q.inHand /\ r.ackCh = q.ackCh
        /\ r.dropped = q.dropped /\ r.msg = q.msg /\ r.pc = q.pc
    BY <1>0, <1>7 DEF ClientStrayAck, StreamRecord
  <2>2. Elements(q.got) = {}
    <3>1. q.got = <<>>
      BY <1>7 DEF ClientStrayAck, Receives
    <3>. QED BY <3>1 DEF Elements
  <2>. QED BY <2>1, <2>2 DEF Traced
<1>8. CASE AckPassed(s)
  <2>. DEFINE m == Head(q.got)
  <2>1. /\ r.inHand = q.inHand /\ r.got = <<>> /\ r.ackCh = Append(q.ackCh, m)
        /\ r.dropped = q.dropped /\ r.msg = q.msg /\ r.pc = q.pc
    BY <1>0, <1>8 DEF AckPassed, StreamRecord
  <2>2. Len(q.got) = 1 /\ m \in Deliveries
    BY <1>0, <1>g, <1>8 DEF AckPassed, StreamOK
  <2>3. Elements(q.got) = {m} /\ Elements(Append(q.ackCh, m)) = Elements(q.ackCh) \cup {m}
    BY <1>g, <2>2, ElementsStep
  <2>. HIDE DEF m
  <2>. QED BY <2>1, <2>3 DEF Traced
<1>9. CASE AckDropped(s)
  <2>. DEFINE m == Head(q.got)
  <2>1. /\ r.inHand = q.inHand /\ r.got = <<>> /\ r.ackCh = q.ackCh
        /\ r.dropped = {m} /\ r.msg = q.msg /\ r.pc = q.pc
    BY <1>0, <1>9 DEF AckDropped, StreamRecord
  <2>2. Len(q.got) = 1 /\ q.dropped = {}
    BY <1>0, <1>9 DEF AckDropped, StreamOK
  <2>3. Elements(q.got) = {m}
    BY <1>g, <2>2, ElementsStep
  <2>. HIDE DEF m
  <2>. QED BY <2>1, <2>2, <2>3 DEF Traced
<1>10. CASE InitialRecvFails(s) \/ CleanupNotify(s)
  <2>1. Cardinality(Owned(s)) = 0
    BY <1>0, <1>10 DEF InitialRecvFails, CleanupNotify, StreamOK
  <2>. QED BY <2>1, OwnedFinite DEF ServerInv, StoreInv
<1>11. CASE CleanupRelease(s)
  <2>1. q.pc = "exiting" /\ (Owned(s) = {} \/ GoTo(s, "releasing"))
    BY <1>11 DEF CleanupRelease
  <2>. QED BY <1>e, <2>1
<1>. QED BY <1>1, <1>2, <1>3, <1>4, <1>5, <1>6, <1>7, <1>8, <1>9, <1>10, <1>11 DEF StreamMove

\* An ack taken from the channel settles its lease, or there was none.
LEMMA TracedTakes ==
    ASSUME ServerInv, NEW s \in Consumers, NEW counting, NEW next, TakeAck(s, counting, next),
           counting # "sending", next # "sending", stream[s].pc # "sending",
           NEW j \in Owned(s)', NEW n, <<j, n>> \in Traced(stream[s])
    PROVE  <<j, n>> \in Traced(stream'[s])
<1>. DEFINE q == stream[s]
            r == stream'[s]
            i == Head(q.ackCh)[1]
<1>0. /\ stream = [t \in Consumers |-> stream[t]] /\ q \in StreamRecord(Deliveries)
      /\ q.ackCh \in Seq(Deliveries) /\ q.ackCh # <<>>
  BY StreamFacts DEF ServerInv, StreamsOK, StreamRecord, TakeAck
<1>1. /\ r.inHand = q.inHand /\ r.got = q.got /\ r.ackCh = Tail(q.ackCh)
      /\ r.dropped = q.dropped /\ r.pc # "sending"
  BY <1>0 DEF TakeAck, StreamRecord
<1>2. j # i
  <2>1. CASE i \in Owned(s)
    <3>1. owner' = DropLeases({i})
      BY <2>1 DEF TakeAck, StoreAck
    <3>. QED BY <3>1, OwnedLess
  <2>2. CASE i \notin Owned(s)
    <3>1. Owned(s)' = Owned(s)
      BY <2>2 DEF TakeAck, storeVars, Owned, Leased
    <3>. QED BY <2>2, <3>1
  <2>. QED BY <2>1, <2>2
<1>3. Elements(q.ackCh) \subseteq {Head(q.ackCh)} \cup Elements(Tail(q.ackCh))
  BY <1>0, ElementsStep
<1>4. <<j, n>> # Head(q.ackCh)
  BY <1>2
<1>. QED BY <1>1, <1>3, <1>4 DEF Traced

\* Every lease of a stream keeps its trace, whoever moves.
LEMMA TracedStep ==
    ASSUME ServerInv, TracedOK, Next
    PROVE  TracedOK'
<1>. DEFINE New(t) == \A i \in Owned(t)' : <<i, nth'[i]>> \in Traced(stream'[t])
<1>. SUFFICES ASSUME NEW t \in Consumers PROVE New(t)
  BY DEF TracedOK, Traced, Elements
<1>0. /\ StoreTypeOK /\ nth \in [1..issued -> Nat] /\ stream = [c \in Consumers |-> stream[c]]
      /\ \A c \in Consumers : stream[c] \in StreamRecord(Deliveries)
  BY StreamFacts DEF ServerInv, StoreInv, LanesOK, StreamsOK
<1>o. Owned(t) \subseteq 1..issued
  BY <1>0, OwnedFinite
<1>1. ASSUME Owned(t)' \subseteq Owned(t), \A i \in 1..issued : nth'[i] = nth[i],
             Owned(t) = {} \/ Traced(stream[t]) \subseteq Traced(stream'[t])
      PROVE  New(t)
  BY <1>1, <1>o DEF TracedOK
<1>. HIDE DEF New
<1>2. ASSUME NEW s \in Consumers, StreamStep(s), ~LeaseNext(s) PROVE New(t)
  <2>0. nth' = nth /\ Owned(t)' \subseteq Owned(t)
    BY <1>2, KeepsLeases
  <2>1. CASE t # s
    <3>1. stream'[t] = stream[t]
      BY <1>2, <2>1, PcStep
    <3>. QED BY <1>1, <2>0, <3>1
  <2>2. CASE t = s /\ (StreamMove(s) \/ \E i \in 1..issued : ClientStrayAck(s, i))
    BY <1>1, <2>0, <2>2, TracedMove
  <2>3. CASE t = s /\ (DrainAck(s) \/ SelectAck(s) \/ CleanupAck(s))
    <3>1. PICK counting \in {"acked", "lateAcked"}, next \in {"top", "exiting"} :
             TakeAck(s, counting, next) /\ stream[s].pc # "sending"
      BY <2>3 DEF DrainAck, SelectAck, CleanupAck
    <3>2. ASSUME NEW j \in Owned(s)' PROVE <<j, nth'[j]>> \in Traced(stream'[s])
      <4>1. <<j, nth[j]>> \in Traced(stream[s])
        BY <2>0, <2>3 DEF TracedOK
      <4>. QED BY <2>0, <3>1, <4>1, TracedTakes
    <3>. QED BY <2>3, <3>2 DEF New
  <2>4. CASE t = s /\ SendFails(s)
    <3>. DEFINE q == stream[s]
                r == stream'[s]
    <3>1. /\ r.inHand = q.inHand /\ r.got = q.got /\ r.ackCh = q.ackCh
          /\ r.dropped = q.dropped /\ q.pc = "sending"
      BY <1>0, <2>4 DEF SendFails, StreamRecord
    <3>2. q.msg[1] \notin Owned(s)'
      <4>1. CASE q.msg[1] \in Owned(s)
        <5>1. owner' = DropLeases({q.msg[1]})
          BY <2>4, <4>1 DEF SendFails, EndLease, StoreRequeue, StoreDeadLetter
        <5>. QED BY <5>1, OwnedLess
      <4>2. CASE q.msg[1] \notin Owned(s)
        BY <2>0, <2>4, <4>2
      <4>. QED BY <4>1, <4>2
    <3>3. ASSUME NEW j \in Owned(s)' PROVE <<j, nth'[j]>> \in Traced(r)
      <4>1. <<j, nth[j]>> \in Traced(q) /\ <<j, nth[j]>> # q.msg
        BY <2>0, <2>4, <3>2 DEF TracedOK
      <4>. QED BY <2>0, <3>1, <4>1 DEF Traced
    <3>. QED BY <2>4, <3>3 DEF New
  <2>5. CASE t = s /\ ReleaseNext(s)
    <3>1. PICK pc : stream' = [stream EXCEPT ![s].pc = pc, ![s].uncounted = @ + 1]
      BY <2>5 DEF ReleaseNext
    <3>2. stream[s].pc # "sending"
      BY <2>5 DEF ReleaseNext
    <3>4. /\ stream'[s].inHand = stream[s].inHand /\ stream'[s].got = stream[s].got
          /\ stream'[s].ackCh = stream[s].ackCh /\ stream'[s].dropped = stream[s].dropped
      BY <1>0, <3>1 DEF StreamRecord
    <3>3. Traced(stream[s]) \subseteq Traced(stream'[s])
      BY <3>2, <3>4 DEF Traced
    <3>. QED BY <1>1, <2>0, <2>5, <3>3
  <2>. QED BY <1>2, <2>1, <2>2, <2>3, <2>4, <2>5 DEF StreamStep
<1>3. ASSUME NEW s \in Consumers, LeaseNext(s) PROVE New(t)
  <2>. PICK i \in IF visible # {} THEN visible ELSE queued :
          /\ StoreLease(s, i) /\ nth' = [nth EXCEPT ![i] = @ + 1]
          /\ stream' = [stream EXCEPT ![s].pc = "sending", ![s].msg = <<i, nth[i] + 1>>]
    BY <1>3 DEF LeaseNext
  <2>1. i \in 1..issued /\ i \notin Leased
    BY DEF ServerInv, LanesOK, StoreInv, StoreTypeOK, OneCustodian
  <2>2. /\ Owned(s)' = Owned(s) \cup {i} /\ (t # s => Owned(t)' = Owned(t))
        /\ i \notin Owned(t)
    BY <2>1 DEF Owned, StoreLease, Leased
  <2>3. nth'[i] = nth[i] + 1 /\ \A j \in Owned(t) : nth'[j] = nth[j]
    BY <1>0, <1>o, <2>1, <2>2
  <2>4. CASE t # s
    <3>1. stream'[t] = stream[t]
      BY <1>0, <2>4
    <3>. QED BY <2>2, <2>3, <2>4, <3>1 DEF New, TracedOK
  <2>5. CASE t = s
    <3>0. /\ stream'[s].inHand = stream[s].inHand /\ stream'[s].got = stream[s].got
          /\ stream'[s].ackCh = stream[s].ackCh /\ stream'[s].dropped = stream[s].dropped
          /\ stream'[s].pc = "sending" /\ stream'[s].msg = <<i, nth[i] + 1>>
      BY <1>0 DEF StreamRecord
    <3>1. <<i, nth'[i]>> \in Traced(stream'[s])
      <4>1. stream'[s].msg = <<i, nth'[i]>>
        BY ONLY <2>3, <3>0
      <4>2. stream'[s].msg \in Traced(stream'[s])
        BY ONLY <3>0 DEF Traced
      <4>. QED BY <4>1, <4>2
    <3>2. Traced(stream[s]) \subseteq Traced(stream'[s])
      <4>1. stream[s].pc # "sending"
        BY <1>3 DEF LeaseNext
      <4>. QED BY <3>0, <4>1 DEF Traced
    <3>. QED BY <2>2, <2>3, <2>5, <3>1, <3>2 DEF New, TracedOK
  <2>. QED BY <2>4, <2>5
<1>4. ASSUME stream' = stream, owner' = owner, \A i \in 1..issued : nth'[i] = nth[i] PROVE New(t)
  <2>1. Owned(t)' = Owned(t)
    BY <1>4 DEF Owned, Leased
  <2>. QED BY <1>1, <1>4, <2>1
<1>5. ASSUME NEW p \in Producers, (\E n \in 1..MaxBatch : ProduceBatch(p, n)) \/ ProduceStep(p)
      PROVE  New(t)
  <2>1. stream' = stream /\ owner' = owner
    BY <1>5 DEF ProduceBatch, ProduceStep, ProduceEnqueue, ProduceWaits, ProduceRefused,
                ProduceNotify, lanes, storeVars, Admit, AdmitEvicting
  <2>2. \A i \in 1..issued : nth'[i] = nth[i]
    <3>1. \/ nth' = nth
          \/ nth' = [i \in 1..(issued + 1) |-> IF i = issued + 1 THEN 0 ELSE nth[i]]
      BY <1>5 DEF ProduceBatch, ProduceStep, ProduceEnqueue, ProduceWaits, ProduceRefused,
                  ProduceNotify, lanes
    <3>2. issued \in Nat
      BY <1>0 DEF StoreTypeOK
    <3>. QED BY <3>1, <3>2
  <2>. QED BY <1>4, <2>1, <2>2
<1>6. ASSUME NEW i \in 1..issued, SweepNext(i) PROVE New(t)
  <2>1. nth' = nth /\ owner' = DropLeases({i}) /\ owner[i] \in Consumers
    BY <1>0, <1>6 DEF SweepNext, EndLease, StoreRequeue, StoreDeadLetter, StoreTypeOK
  <2>2. Owned(t)' \subseteq Owned(t)
    BY <2>1, OwnedLess
  <2>3. Traced(stream[t]) \subseteq Traced(stream'[t])
    <3>1. stream' = [stream EXCEPT ![owner[i]].revoked = @ + 1]
      BY <1>6 DEF SweepNext
    <3>2. /\ stream'[t].inHand = stream[t].inHand /\ stream'[t].got = stream[t].got
          /\ stream'[t].ackCh = stream[t].ackCh /\ stream'[t].dropped = stream[t].dropped
          /\ stream'[t].msg = stream[t].msg /\ stream'[t].pc = stream[t].pc
      BY <1>0, <2>1, <3>1 DEF StreamRecord
    <3>. QED BY <3>2 DEF Traced
  <2>. QED BY <1>1, <2>1, <2>2, <2>3
<1>7. ASSUME NEW i \in 1..issued, BackoffElapses(i) \/ ReplayNext(i) PROVE New(t)
  BY <1>4, <1>7 DEF BackoffElapses, ReplayNext, StoreReplay, storeVars
<1>8. ASSUME SweepUnlock \/ SweepNotify \/ ReplayUnlock \/ ReplayNotify \/ BeginDrain \/ Shutdown
      PROVE  New(t)
  <2>1. stream' = stream /\ owner' = owner /\ nth' = nth
    BY <1>8 DEF SweepUnlock, SweepNotify, ReplayUnlock, ReplayNotify, BeginDrain, Shutdown,
                EnterPhase, lanes, storeVars
  <2>. QED BY <1>4, <2>1
<1>9. ASSUME ForceStop PROVE New(t)
  <2>1. owner' = owner /\ nth' = nth
    BY <1>9 DEF ForceStop, EnterPhase, lanes, storeVars
  <2>2. /\ stream'[t].inHand = stream[t].inHand /\ stream'[t].got = stream[t].got
        /\ stream'[t].ackCh = stream[t].ackCh /\ stream'[t].dropped = stream[t].dropped
        /\ stream'[t].msg = stream[t].msg /\ stream'[t].pc = stream[t].pc
    BY <1>0, <1>9 DEF ForceStop, StreamRecord
  <2>3. Traced(stream[t]) \subseteq Traced(stream'[t])
    BY <2>2 DEF Traced
  <2>4. Owned(t)' = Owned(t)
    BY <2>1 DEF Owned, Leased
  <2>. QED BY <1>1, <2>1, <2>3, <2>4
<1>. QED BY <1>2, <1>3, <1>5, <1>6, <1>7, <1>8, <1>9
         DEF Next, Receiving, SendLoop, Cleanup, StreamMove, StreamStep

\* What the cleanup releases was never confirmed: for any number of streams,
\* windows and made-up acks, a lease released on disconnect is of a delivery the
\* client never acked, or of the one ack the goroutine dropped with the connection.
THEOREM ServerConfirmed == Spec => []ConfirmedNotReleased
<1>1. Init => TracedOK
  <2>. SUFFICES ASSUME Init PROVE TracedOK
    OBVIOUS
  <2>1. \A s \in Consumers : Owned(s) = {}
    BY DEF Init, StoreInit, Owned, Leased
  <2>. QED BY <2>1 DEF TracedOK
<1>2. ServerInv /\ TracedOK /\ [Next]_vars => TracedOK'
  <2>1. ASSUME ServerInv, TracedOK, UNCHANGED vars PROVE TracedOK'
    <3>1. stream' = stream /\ owner' = owner /\ nth' = nth
      BY <2>1 DEF vars, lanes, storeVars
    <3>2. \A s : Owned(s)' = Owned(s)
      BY <3>1 DEF Owned, Leased
    <3>3. TracedOK' = \A s \in Consumers : \A i \in Owned(s)' : <<i, nth'[i]>> \in Traced(stream'[s])
      BY DEF TracedOK, Traced, Elements
    <3>. QED BY <2>1, <3>1, <3>2, <3>3 DEF TracedOK
  <2>. QED BY <2>1, TracedStep
<1>3. ServerInv /\ TracedOK => ConfirmedNotReleased
  <2>. SUFFICES ASSUME ServerInv, TracedOK, NEW s \in Consumers, stream[s].pc = "releasing"
       PROVE  /\ \A i \in Owned(s) : <<i, nth[i]>> \in stream[s].inHand \cup stream[s].dropped
              /\ stream[s].dropped # {} =>
                    stream[s].client = "lost" /\ Cardinality(stream[s].dropped) = 1
    BY DEF ConfirmedNotReleased
  <2>1. StreamOK(stream[s], Cardinality(Owned(s)), Deliveries, count.strays)
    BY StreamFacts
  <2>2. stream[s].got = <<>> /\ stream[s].ackCh = <<>>
    BY <2>1 DEF StreamOK
  <2>3. Elements(<<>>) = {}
    BY DEF Elements
  <2>4. Traced(stream[s]) = stream[s].inHand \cup stream[s].dropped
    BY <2>2, <2>3 DEF Traced
  <2>. QED BY <2>1, <2>4 DEF StreamOK, TracedOK
<1>4. Spec => []TracedOK
  BY <1>1, <1>2, ServerCorrect, PTL DEF Spec
<1>. QED BY <1>3, <1>4, ServerCorrect, PTL

=============================================================================
