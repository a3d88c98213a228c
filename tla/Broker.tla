------------------------------- MODULE Broker --------------------------------
(***************************************************************************)
(* The in-memory MQ storage engine, queue.Broker: a bounded FIFO main      *)
(* lane, a retry lane ordered by visibility time, a bounded dead-letter    *)
(* lane and a lease table, all behind one mutex.                           *)
(*                                                                         *)
(* Every method takes the mutex, so one method is one action, except for   *)
(* the three methods that loop over several messages (ReleaseConsumer,     *)
(* SweepExpired, DLQReplay).  These hold the mutex (lock) from their first *)
(* step to their last and handle one message per step, because they read   *)
(* the clock once per message: time passes, and a blocked producer's       *)
(* context is cancelled, in the middle of a loop.                          *)
(*                                                                         *)
(* A producer inside Enqueue under the block policy waits with no lock     *)
(* held on the space channel it captured: it is "parked" while that        *)
(* channel is open and "woken" once signalSpace closed it.                 *)
(***************************************************************************)
EXTENDS Integers, Sequences, FiniteSets

CONSTANTS
    Capacity,         \* BrokerConfig.Capacity
    DLQCapacity,      \* BrokerConfig.DLQCapacity
    MaxDeliveries,    \* BrokerConfig.MaxDeliveries
    LeaseTTL,         \* BrokerConfig.LeaseTTL, in ticks
    RetryBackoffBase, \* BrokerConfig.RetryBackoffBase, in ticks
    RetryBackoffMax,  \* BrokerConfig.RetryBackoffMax, in ticks
    Policy,           \* BrokerConfig.Policy
    Consumers,        \* consumer ids that lease
    Producers,        \* goroutines that call Enqueue
    MaxMsgs,          \* bound: Enqueue calls that may still admit
    MaxRejects,       \* bound: Enqueue calls that may still be refused
    MaxDeadLetters,   \* bound: no replay once this many were dead-lettered
    MaxTime           \* bound: last instant of the clock

Policies == {"reject", "drop-oldest", "block"}

ASSUME BrokerAssumption ==
    /\ Capacity \in Nat \ {0}
    /\ DLQCapacity \in Nat \ {0}
    /\ MaxDeliveries \in Nat \ {0}
    /\ LeaseTTL \in Nat \ {0}
    /\ RetryBackoffBase \in Nat \ {0}
    /\ RetryBackoffMax \in Nat \ {0}
    /\ Policy \in Policies
    /\ MaxMsgs \in Nat /\ MaxRejects \in Nat
    /\ MaxDeadLetters \in Nat /\ MaxTime \in Nat

VARIABLES
    main,     \* main lane, oldest first
    retry,    \* retry lane: id |-> visibleAt
    leases,   \* lease table: id |-> [consumer, deadline]
    dlq,      \* dead-letter lane, oldest first
    attempts, \* id |-> deliveries counted since Enqueue or the last replay
    nextID,   \* last id assigned

    lock,     \* which looping method holds the mutex, or "free"
    todo,     \* the ids it still has to handle
    producer, \* where each producer is in Enqueue
    closed,   \* Close was called
    sweeper,  \* the background sweeper goroutine
    now,      \* the clock

    rejected, droppedOverflow, deadLettered, dlqEvicted, leaseExpired,

    acked,    \* history: ids whose lease an Ack removed
    lost      \* history: ids evicted from a lane

lanes    == <<main, retry, leases, dlq, attempts, nextID>>
control  == <<lock, todo, closed, sweeper>>
counters == <<rejected, droppedOverflow, deadLettered, dlqEvicted, leaseExpired>>
history  == <<acked, lost>>
vars     == <<lanes, control, producer, now, counters, history>>

-----------------------------------------------------------------------------
\* Helpers on lanes and tables.

Elems(seq) == {seq[k] : k \in DOMAIN seq}

With(f, i, v) == [j \in DOMAIN f \cup {i} |-> IF j = i THEN v ELSE f[j]]

Without(f, i) == [j \in DOMAIN f \ {i} |-> f[j]]

Used == Len(main) + Cardinality(DOMAIN retry) + Cardinality(DOMAIN leases)

Free == lock = "free"

\* Producers inside an Enqueue that waits for space.
Blocked == {p \in Producers : producer[p] # "idle"}

\* base * 2^(n-1), capped at the maximum.
Backoff(n) ==
    LET d == RetryBackoffBase * 2^(n - 1)
    IN  IF d \in 0..RetryBackoffMax THEN d ELSE RetryBackoffMax

\* Close the space channel and open a new one: every parked producer wakes.
SignalSpace ==
    producer' = [p \in Producers |->
                    IF producer[p] = "parked" THEN "woken" ELSE producer[p]]

Init ==
    /\ main = <<>> /\ dlq = <<>>
    /\ retry = [i \in {} |-> i] /\ leases = [i \in {} |-> i]
    /\ attempts = [i \in {} |-> i]
    /\ nextID = 0
    /\ lock = "free" /\ todo = {}
    /\ producer = [p \in Producers |-> "idle"]
    /\ closed = FALSE /\ sweeper = "ticking"
    /\ now = 0
    /\ rejected = 0 /\ droppedOverflow = 0 /\ deadLettered = 0
    /\ dlqEvicted = 0 /\ leaseExpired = 0
    /\ acked = {} /\ lost = {}

-----------------------------------------------------------------------------
(* Enqueue.  EnqueueLoop is one pass of the loop with the mutex held: it is  *)
(* taken by a fresh call and again by a producer that a space signal woke.   *)

\* Assign the next id and append to the lane that eviction left behind.
PushBack(lane) ==
    /\ nextID' = nextID + 1
    /\ main' = Append(lane, nextID + 1)
    /\ attempts' = With(attempts, nextID + 1, 0)

Return(p) == producer' = [producer EXCEPT ![p] = "idle"]

EnqueueClosed(p) ==
    /\ closed
    /\ Return(p)
    /\ UNCHANGED <<lanes, counters, history>>

\* Mutant: the budget comparison is off by one.
EnqueueRoomOffByOne(p) ==
    /\ ~closed /\ Used <= Capacity
    /\ PushBack(main)
    /\ Return(p)
    /\ UNCHANGED <<retry, leases, dlq, counters, history>>

EnqueueRoom(p) ==
    /\ ~closed /\ Used < Capacity
    /\ PushBack(main)
    /\ Return(p)
    /\ UNCHANGED <<retry, leases, dlq, counters, history>>

EnqueueDropOldest(p) ==
    /\ ~closed /\ Used >= Capacity
    /\ Policy = "drop-oldest" /\ main # <<>>
    /\ PushBack(Tail(main))
    /\ lost' = lost \cup {Head(main)}
    /\ droppedOverflow' = droppedOverflow + 1
    /\ Return(p)
    /\ UNCHANGED <<retry, leases, dlq, rejected, deadLettered, dlqEvicted,
                   leaseExpired, acked>>

\* The reject policy, and drop-oldest with nothing evictable.
EnqueueRefuse(p) ==
    /\ ~closed /\ Used >= Capacity
    /\ \/ Policy = "reject"
       \/ Policy = "drop-oldest" /\ main = <<>>
    /\ rejected' = rejected + 1
    /\ Return(p)
    /\ UNCHANGED <<lanes, droppedOverflow, deadLettered, dlqEvicted,
                   leaseExpired, history>>

\* Capture the space channel of this instant and wait on it.
EnqueuePark(p) ==
    /\ ~closed /\ Used >= Capacity
    /\ Policy = "block"
    /\ producer' = [producer EXCEPT ![p] = "parked"]
    /\ UNCHANGED <<lanes, counters, history>>

EnqueueLoop(p) ==
    /\ Free
    /\ \/ EnqueueClosed(p)
       \/ EnqueueRoom(p)
       \/ EnqueueDropOldest(p)
       \/ EnqueueRefuse(p)
       \/ EnqueuePark(p)
    /\ UNCHANGED <<control, now>>

Enqueue(p) ==
    /\ producer[p] = "idle"
    /\ nextID + Cardinality(Blocked) < MaxMsgs
    /\ rejected + Cardinality(Blocked) < MaxRejects
    /\ EnqueueLoop(p)

EnqueueWoken(p) ==
    /\ producer[p] = "woken"
    /\ EnqueueLoop(p)

\* Mutant: the timer is armed only once the space channel was closed.
EnqueueTimeoutOnlyWoken(p) ==
    /\ producer[p] = "woken"
    /\ Free
    /\ rejected' = rejected + 1
    /\ Return(p)
    /\ UNCHANGED <<lanes, control, now, droppedOverflow, deadLettered,
                   dlqEvicted, leaseExpired, history>>

\* BlockTimeout elapsed.  The select may take this case even when the space
\* channel is closed as well.
EnqueueTimeout(p) ==
    /\ producer[p] \in {"parked", "woken"}
    /\ Free
    /\ rejected' = rejected + 1
    /\ Return(p)
    /\ UNCHANGED <<lanes, control, now, droppedOverflow, deadLettered,
                   dlqEvicted, leaseExpired, history>>

\* ctx.Done: returns without taking the mutex again.
EnqueueCancel(p) ==
    /\ producer[p] \in {"parked", "woken"}
    /\ Return(p)
    /\ UNCHANGED <<lanes, control, now, counters, history>>

-----------------------------------------------------------------------------
(* Lease: a visible retry entry wins over the main lane.                     *)

\* The root of the retry heap: least (visibleAt, id).
IsRetryHead(i) ==
    /\ i \in DOMAIN retry
    /\ \A j \in DOMAIN retry :
          retry[i] < retry[j] \/ (retry[i] = retry[j] /\ i <= j)

RetryVisible == \E i \in DOMAIN retry : IsRetryHead(i) /\ retry[i] <= now

RecordLease(i, c) ==
    /\ attempts' = [attempts EXCEPT ![i] = attempts[i] + 1]
    /\ leases' = With(leases, i, [consumer |-> c, deadline |-> now + LeaseTTL])

LeaseRetry(c) ==
    \E i \in DOMAIN retry :
        /\ IsRetryHead(i) /\ retry[i] <= now
        /\ retry' = Without(retry, i)
        /\ RecordLease(i, c)
        /\ UNCHANGED main

LeaseMain(c) ==
    /\ ~RetryVisible
    /\ main # <<>>
    /\ main' = Tail(main)
    /\ RecordLease(Head(main), c)
    /\ UNCHANGED retry

Lease(c) ==
    /\ Free
    /\ LeaseRetry(c) \/ LeaseMain(c)
    /\ UNCHANGED <<dlq, nextID, control, producer, now, counters, history>>

-----------------------------------------------------------------------------
(* Ack, and the ways a lease ends without one.                               *)

Held(i, c) == i \in DOMAIN leases /\ leases[i].consumer = c

\* Mutant: Ack works on the table without taking the mutex.
AckUnlocked(i, c) ==
    IF Held(i, c)
      THEN /\ leases' = Without(leases, i)
           /\ acked' = acked \cup {i}
           /\ SignalSpace
           /\ UNCHANGED <<main, retry, dlq, attempts, nextID, control, now,
                          counters, lost>>
      ELSE UNCHANGED vars

\* Unknown, double, foreign and revoked acks return false and change nothing.
Ack(i, c) ==
    /\ Free
    /\ IF Held(i, c)
         THEN /\ leases' = Without(leases, i)
              /\ acked' = acked \cup {i}
              /\ SignalSpace
              /\ UNCHANGED <<main, retry, dlq, attempts, nextID, control, now,
                             counters, lost>>
         ELSE UNCHANGED vars

\* Mutant: the eviction from a full ring is not counted.
PushDLQUncounted(i) ==
    LET full == Len(dlq) = DLQCapacity
    IN  /\ dlq' = Append(IF full THEN Tail(dlq) ELSE dlq, i)
        /\ lost' = IF full THEN lost \cup {Head(dlq)} ELSE lost
        /\ UNCHANGED dlqEvicted

\* Mutant: a full ring refuses the new entry instead.
PushDLQRefuses(i) ==
    LET full == Len(dlq) = DLQCapacity
    IN  /\ dlq' = IF full THEN dlq ELSE Append(dlq, i)
        /\ lost' = IF full THEN lost \cup {i} ELSE lost
        /\ dlqEvicted' = IF full THEN dlqEvicted + 1 ELSE dlqEvicted

\* dlqRing.push: a full ring first gives up its oldest entry.
PushDLQ(i) ==
    LET full == Len(dlq) = DLQCapacity
    IN  /\ dlq' = Append(IF full THEN Tail(dlq) ELSE dlq, i)
        /\ lost' = IF full THEN lost \cup {Head(dlq)} ELSE lost
        /\ dlqEvicted' = IF full THEN dlqEvicted + 1 ELSE dlqEvicted

\* Mutant: the entry is put into the retry lane and stays in the lease table.
RequeueKeepsLease(i, delay) ==
    /\ \/ /\ attempts[i] >= MaxDeliveries
          /\ leases' = Without(leases, i)
          /\ PushDLQ(i)
          /\ deadLettered' = deadLettered + 1
          /\ SignalSpace
          /\ UNCHANGED retry
       \/ /\ attempts[i] < MaxDeliveries
          /\ retry' = With(retry, i, now + delay)
          /\ UNCHANGED <<leases, dlq, lost, dlqEvicted, deadLettered, producer>>
    /\ UNCHANGED <<main, attempts, nextID, closed, sweeper, now, rejected,
                   droppedOverflow, acked>>

\* Mutant: one delivery too many before the dead-letter lane.
RequeueOffByOne(i, delay) ==
    /\ leases' = Without(leases, i)
    /\ \/ /\ attempts[i] > MaxDeliveries
          /\ PushDLQ(i)
          /\ deadLettered' = deadLettered + 1
          /\ SignalSpace
          /\ UNCHANGED retry
       \/ /\ attempts[i] <= MaxDeliveries
          /\ retry' = With(retry, i, now + delay)
          /\ UNCHANGED <<dlq, lost, dlqEvicted, deadLettered, producer>>
    /\ UNCHANGED <<main, attempts, nextID, closed, sweeper, now, rejected,
                   droppedOverflow, acked>>

\* Mutant: dead-lettering frees budget without waking blocked producers.
RequeueSilent(i, delay) ==
    /\ leases' = Without(leases, i)
    /\ \/ /\ attempts[i] >= MaxDeliveries
          /\ PushDLQ(i)
          /\ deadLettered' = deadLettered + 1
          /\ UNCHANGED retry
       \/ /\ attempts[i] < MaxDeliveries
          /\ retry' = With(retry, i, now + delay)
          /\ UNCHANGED <<dlq, lost, dlqEvicted, deadLettered>>
    /\ UNCHANGED <<main, attempts, nextID, closed, sweeper, now, rejected,
                   droppedOverflow, acked, producer>>

\* Take i off the lease table and route it: dead-letter lane once its
\* deliveries are used up, retry lane otherwise.
Requeue(i, delay) ==
    /\ leases' = Without(leases, i)
    /\ \/ /\ attempts[i] >= MaxDeliveries
          /\ PushDLQ(i)
          /\ deadLettered' = deadLettered + 1
          /\ SignalSpace
          /\ UNCHANGED retry
       \/ /\ attempts[i] < MaxDeliveries
          /\ retry' = With(retry, i, now + delay)
          /\ UNCHANGED <<dlq, lost, dlqEvicted, deadLettered, producer>>
    /\ UNCHANGED <<main, attempts, nextID, closed, sweeper, now, rejected,
                   droppedOverflow, acked>>

\* Failed Send: immediate visibility.
ReleaseLease(i, c) ==
    /\ Free
    /\ Held(i, c)
    /\ Requeue(i, 0)
    /\ UNCHANGED <<lock, todo, leaseExpired>>

\* The next id of a loop: ascending order.
IsNext(i) == i \in todo /\ \A j \in todo : i <= j

\* Leave the loop, and give the mutex back, after the last id.
Advance(i) ==
    /\ todo' = todo \ {i}
    /\ lock' = IF todo \ {i} = {} THEN "free" ELSE lock

\* Disconnect: collect the ids of all leases of c ...
ReleaseConsumer(c) ==
    /\ Free
    /\ todo' = {i \in DOMAIN leases : leases[i].consumer = c}
    /\ todo' # {}
    /\ lock' = "release"
    /\ UNCHANGED <<lanes, closed, sweeper, producer, now, counters, history>>

\* ... and requeue them one by one.
ReleaseNext ==
    /\ lock = "release"
    /\ \E i \in todo :
          /\ IsNext(i)
          /\ Requeue(i, Backoff(attempts[i]))
          /\ Advance(i)
    /\ UNCHANGED leaseExpired

Expired == {i \in DOMAIN leases : leases[i].deadline <= now}

\* Mutant: the sweeper skips leases of messages on their last delivery.
SweepSkipsLastDelivery ==
    /\ Free
    /\ sweeper = "ticking"
    /\ todo' = {i \in Expired : attempts[i] < MaxDeliveries}
    /\ todo' # {}
    /\ lock' = "sweep"
    /\ UNCHANGED <<lanes, closed, sweeper, producer, now, counters, history>>

\* A tick of the background sweeper finds expired leases ...
SweepExpired ==
    /\ Free
    /\ sweeper = "ticking"
    /\ Expired # {}
    /\ todo' = Expired
    /\ lock' = "sweep"
    /\ UNCHANGED <<lanes, closed, sweeper, producer, now, counters, history>>

\* ... and reclaims them one by one.
SweepNext ==
    /\ lock = "sweep"
    /\ \E i \in todo :
          /\ IsNext(i)
          /\ Requeue(i, Backoff(attempts[i]))
          /\ Advance(i)
    /\ leaseExpired' = leaseExpired + 1

-----------------------------------------------------------------------------
(* DLQReplay: oldest first, while the budget has room.                       *)

DLQReplay ==
    /\ Free
    /\ deadLettered < MaxDeadLetters
    /\ dlq # <<>> /\ Used < Capacity
    /\ lock' = "replay"
    /\ UNCHANGED <<lanes, todo, closed, sweeper, producer, now, counters, history>>

\* Mutant: the replay forgets to reset the delivery count.
ReplayKeepsAttempts ==
    /\ lock = "replay"
    /\ Used < Capacity /\ dlq # <<>>
    /\ dlq' = Tail(dlq)
    /\ main' = Append(main, Head(dlq))
    /\ UNCHANGED <<attempts, retry, leases, nextID, control, producer, now, counters, history>>

ReplayNext ==
    /\ lock = "replay"
    /\ Used < Capacity /\ dlq # <<>>
    /\ dlq' = Tail(dlq)
    /\ main' = Append(main, Head(dlq))
    /\ attempts' = [attempts EXCEPT ![Head(dlq)] = 0]
    /\ UNCHANGED <<retry, leases, nextID, control, producer, now, counters, history>>

ReplayDone ==
    /\ lock = "replay"
    /\ Used >= Capacity \/ dlq = <<>>
    /\ lock' = "free"
    /\ UNCHANGED <<lanes, todo, closed, sweeper, producer, now, counters, history>>

-----------------------------------------------------------------------------
(* Close, the end of the sweeper goroutine, and the clock.                   *)

Close ==
    /\ Free
    /\ ~closed
    /\ closed' = TRUE
    /\ SignalSpace
    /\ UNCHANGED <<lanes, lock, todo, sweeper, now, counters, history>>

\* The sweeper's select takes sweepStop; until then ticks may still win.
SweeperStop ==
    /\ closed
    /\ sweeper = "ticking" /\ lock # "sweep"
    /\ sweeper' = "stopped"
    /\ UNCHANGED <<lanes, lock, todo, closed, producer, now, counters, history>>

Tick ==
    /\ now < MaxTime
    /\ now' = now + 1
    /\ UNCHANGED <<lanes, control, producer, counters, history>>

Next ==
    \/ \E p \in Producers :
          Enqueue(p) \/ EnqueueWoken(p) \/ EnqueueTimeout(p) \/ EnqueueCancel(p)
    \/ \E c \in Consumers :
          \/ Lease(c)
          \/ ReleaseConsumer(c)
          \/ \E i \in 1..nextID : Ack(i, c) \/ ReleaseLease(i, c)
    \/ ReleaseNext
    \/ SweepExpired \/ SweepNext
    \/ DLQReplay \/ ReplayNext \/ ReplayDone
    \/ Close \/ SweeperStop
    \/ Tick

Spec == Init /\ [][Next]_vars

(* Fairness.  A goroutine inside a loop under the mutex keeps running.  One  *)
(* that waits for the mutex gets it although others keep taking it, because  *)
(* a Go sync.Mutex hands itself to a waiter that starved for 1ms: the        *)
(* sweeper's ticker, a woken producer and an elapsed BlockTimeout are        *)
(* therefore strongly fair.  Nothing is assumed of callers or of the clock.  *)
Fairness ==
    /\ WF_vars(ReleaseNext) /\ WF_vars(SweepNext)
    /\ WF_vars(ReplayNext) /\ WF_vars(ReplayDone)
    /\ SF_vars(SweepExpired)
    /\ \A p \in Producers : SF_vars(EnqueueWoken(p)) /\ SF_vars(EnqueueTimeout(p))

FairSpec == Spec /\ Fairness

-----------------------------------------------------------------------------
(* The Store contract.                                                       *)
Contract == INSTANCE Store WITH
    MayEvict <- (Policy = "drop-oldest"),
    issued   <- nextID,
    queued   <- Elems(main),
    retrying <- DOMAIN retry,
    owner    <- [i \in DOMAIN leases |-> leases[i].consumer],
    dead     <- Elems(dlq)

(* Safety.                                                                   *)

Ids == 1..nextID

LeaseRecs == [consumer : Consumers, deadline : Nat]

\* The lanes hold ids that Enqueue assigned; no count exceeds MaxDeliveries.
LaneTypes ==
    /\ nextID \in Nat
    /\ main \in Seq(Ids) /\ dlq \in Seq(Ids)
    /\ DOMAIN retry \subseteq Ids /\ retry \in [DOMAIN retry -> Nat]
    /\ DOMAIN leases \subseteq Ids /\ leases \in [DOMAIN leases -> LeaseRecs]
    /\ attempts \in [Ids -> 0..MaxDeliveries]
    /\ acked \subseteq Ids /\ lost \subseteq Ids

ControlTypes ==
    /\ lock \in {"free", "release", "sweep", "replay"}
    /\ producer \in [Producers -> {"idle", "parked", "woken"}]
    /\ closed \in BOOLEAN /\ sweeper \in {"ticking", "stopped"}
    /\ now \in Nat
    /\ rejected \in Nat /\ droppedOverflow \in Nat /\ deadLettered \in Nat
    /\ dlqEvicted \in Nat /\ leaseExpired \in Nat

\* Every variable has the type its Go declaration gives it; a lane holds only
\* ids that Enqueue assigned, and no delivery count exceeds MaxDeliveries.
TypeOK == LaneTypes /\ ControlTypes /\ todo \subseteq Ids

\* Admission control: main + retry + in-flight never exceeds Capacity, so that
\* a requeue always has headroom and the panic guard of the main-lane ring is
\* never reached; the dead-letter ring respects its own capacity.
Budget == Used <= Capacity /\ Len(dlq) <= DLQCapacity

NoRepeat(seq) == \A j, k \in DOMAIN seq : seq[j] = seq[k] => j = k

\* Custody: every id ever assigned is in exactly one place.  No interleaving
\* of deliveries, late acks, disconnects, TTL reclaims, evictions and replays
\* duplicates a message or makes one vanish.
Custody ==
    /\ Contract!OneCustodian
    /\ NoRepeat(main) /\ NoRepeat(dlq)

\* Delivery counts: queued work is fresh (a replay resets it), what waits for
\* redelivery has been delivered but has deliveries left, and exactly the
\* messages delivered MaxDeliveries times are dead-lettered.
DeliveryCounts ==
    /\ \A i \in Elems(main) : attempts[i] = 0
    /\ \A i \in DOMAIN retry : attempts[i] \in 1..(MaxDeliveries - 1)
    /\ \A i \in DOMAIN leases : attempts[i] \in 1..MaxDeliveries
    /\ \A i \in Elems(dlq) : attempts[i] = MaxDeliveries

\* No loss goes uncounted: the two eviction counters account for every lost
\* message, and every dead-lettering is in the lane, evicted or replayed.
LossAccounted ==
    /\ Cardinality(lost) = droppedOverflow + dlqEvicted
    /\ deadLettered >= Len(dlq) + dlqEvicted

\* No lost wakeup: while a producer sleeps on the current space channel the
\* budget is full and the broker open.  Whatever frees a slot (an ack, a dead
\* letter) or closes the broker has closed that channel.
NoSleepWithRoom ==
    (\E p \in Producers : producer[p] = "parked") => Used = Capacity /\ ~closed

\* The ids a loop collected are still leased when it gets to them (it reads
\* b.leases[id] without looking whether the entry is there), and it leaves none
\* behind when it gives the mutex back.
LoopsSeeLeases ==
    /\ todo \subseteq DOMAIN leases
    /\ lock \in {"free", "replay"} => todo = {}

\* The Broker implements the Store contract: each of its steps is a step of
\* the contract or invisible to it.
ImplementsStore == Contract!StoreSpec

-----------------------------------------------------------------------------
(* Liveness.                                                                 *)

\* A lease whose deadline passed is eventually acked, released or reclaimed
\* while the sweeper runs, whatever its consumer does.
ExpiredLeaseReclaimed ==
    \A i \in 1..MaxMsgs :
        (i \in Expired /\ ~closed) ~> (i \notin Expired \/ closed)

\* Only the block policy may block, and never for ever: Enqueue returns.
EnqueueReturns ==
    \A p \in Producers : (producer[p] # "idle") ~> (producer[p] = "idle")
=============================================================================
