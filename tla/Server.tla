------------------------------- MODULE Server --------------------------------
(***************************************************************************)
(* The MQ gRPC server, server.MQServer, over the Store contract.           *)
(*                                                                         *)
(* Each Consume handler runs a send loop and a receive goroutine.  The     *)
(* loop polls the store under a credit window (a token semaphore), and     *)
(* parks on a broadcast channel when nothing is deliverable; the goroutine *)
(* passes acks to the loop through a bounded channel.  Produce and         *)
(* ProduceBatch enqueue and then broadcast.  The store's sweeper, the      *)
(* operator's replay and a handler that ends broadcast as well.  The       *)
(* drain and shutdown sequence of cmd/mq drives the server's two flags.    *)
(*                                                                         *)
(* Time is abstract here: a lease may expire whenever it exists, a backoff *)
(* may elapse whenever it runs, and whether a lease that ends without ack  *)
(* is retried or dead-lettered is left open (Broker decides both).  The    *)
(* client of a stream is external: it acks its deliveries at any time, in  *)
(* any order, or not at all, and may send acks for what it does not hold.  *)
(***************************************************************************)
EXTENDS Store, Sequences, Totals

CONSTANTS
    Producers,      \* callers of Produce and ProduceBatch
    Requests,       \* credit values a client may ask for
    DefaultCredit,  \* window of a client that asks for none
    CreditCeiling,  \* constant creditCeiling
    MaxMsgs,        \* bound: messages offered to the server
    MaxBatch,       \* bound: messages in one ProduceBatch
    MaxExpired,     \* bound: leases the TTL sweeper reclaims
    MaxReplays,     \* bound: dead letters replayed
    MaxStrays,      \* bound: acks for a message the client does not hold
    MayDrain,       \* bound: FALSE keeps the server serving
    MayForce        \* bound: FALSE stops at GracefulStop, before its timeout

ASSUME ServerAssumption ==
    /\ Requests \subseteq Int
    /\ DefaultCredit \in Nat \ {0} /\ CreditCeiling \in Nat \ {0}
    /\ MaxMsgs \in Nat /\ MaxBatch \in Nat \ {0}
    /\ MaxExpired \in Nat /\ MaxReplays \in Nat /\ MaxStrays \in Nat
    /\ MayDrain \in BOOLEAN /\ MayForce \in BOOLEAN

VARIABLES
    visible,   \* retrying ids whose backoff has elapsed
    nth,       \* history: id |-> how often it was leased
    stream,    \* state of each Consume handler, and of the client at its end
    woken,     \* streams whose captured notify channel was closed since
    producer,  \* state of each Produce or ProduceBatch call
    sweeper,   \* "idle", "sweeping" (store mutex held) or "notify"
    operator,  \* "idle", "replaying" (store mutex held) or "notify"
    phase,     \* "serving", "draining", "shutdown", "stopped"
    count      \* the server's counters, and three that bound the model

lanes == <<storeVars, visible, nth>>
vars == <<lanes, stream, woken, producer, sweeper, operator, phase, count>>

-----------------------------------------------------------------------------
\* Mutant: the default for a non-positive request is forgotten.
WindowNoDefault(request) ==
    LET ceiling == IF Capacity > CreditCeiling THEN Capacity ELSE CreditCeiling
    IN  IF request > ceiling THEN ceiling ELSE request

\* The credit window: the default for a non-positive request, capped.
Window(request) ==
    LET want    == IF request <= 0 THEN DefaultCredit ELSE request
        ceiling == IF Capacity > CreditCeiling THEN Capacity ELSE CreditCeiling
    IN  IF want > ceiling THEN ceiling ELSE want

\* A stream not opened yet.  A delivery is a pair <<id, n>>: the n-th lease of
\* the message.  got: the ack the receive goroutine is about to pass on.  inHand:
\* sent to the client and no ack of it received; dropped: the ack the goroutine
\* threw away; revoked: leases of this stream that the sweeper took back;
\* uncounted: leases the handler has ended and not added to a counter yet.
NoStream == [pc |-> "none", credit |-> 0, sem |-> 0, msg |-> <<>>, ackCh |-> <<>>,
             recv |-> "none", got |-> <<>>, client |-> "none", inHand |-> {},
             dropped |-> {}, revoked |-> 0, uncounted |-> 0]

NoCall == [pc |-> "idle", left |-> 0, accepted |-> 0]

Init ==
    /\ StoreInit
    /\ visible = {} /\ nth = [i \in {} |-> i]
    /\ stream = [s \in Consumers |-> NoStream]
    /\ woken = {}
    /\ producer = [p \in Producers |-> NoCall]
    /\ sweeper = "idle" /\ operator = "idle"
    /\ phase = "serving"
    /\ count = [produced |-> 0, consumed |-> 0, delivered |-> 0, redelivered |-> 0,
                leaseExpired |-> 0, failedSends |-> 0, replays |-> 0, strays |-> 0]

Owned(s) == {i \in Leased : owner[i] = s}

\* No looping method of the store holds its mutex.
StoreFree ==
    /\ sweeper # "sweeping" /\ operator # "replaying"
    /\ \A s \in Consumers : stream[s].pc # "releasing"

\* Close the notify channel and install a new one: everyone who captured the
\* old one, parked on it or about to lease, is signalled.
NotifyAll == woken' = {s \in Consumers : stream[s].pc \in {"lease", "miss", "park"}}

GoTo(s, pc) == stream' = [stream EXCEPT ![s].pc = pc]

\* The handler returns and its channels are gone.
Finish(s) == stream' = [stream EXCEPT ![s] = [NoStream EXCEPT !.pc = "done"]]

Incr(field, n) == count' = [count EXCEPT ![field] = @ + n]

\* The id under a lease that ends without an ack: retried, or dead-lettered.
EndLease(i, immediately) ==
    \/ /\ StoreRequeue(i)
       /\ visible' = IF immediately THEN visible \cup {i} ELSE visible
    \/ /\ StoreDeadLetter(i)
       /\ UNCHANGED visible

-----------------------------------------------------------------------------
(* Produce and ProduceBatch.  Produce is the batch of one message: both      *)
(* check the drain flag once, before the first Enqueue, and broadcast once,  *)
(* after the last one.                                                       *)

\* Messages that calls in progress still have to offer.
Offered == Total([p \in Producers |-> producer[p].left])

ProduceBatch(p, n) ==
    /\ producer[p].pc = "idle"
    /\ phase = "serving"
    /\ issued + Offered + n <= MaxMsgs
    /\ producer' = [producer EXCEPT ![p] = [pc |-> "enqueue", left |-> n, accepted |-> 0]]
    /\ UNCHANGED <<lanes, stream, woken, sweeper, operator, phase, count>>

\* One Enqueue of the batch succeeds, at once or after waiting for room.
ProduceEnqueue(p) ==
    /\ producer[p].pc \in {"enqueue", "waiting"}
    /\ StoreFree
    /\ Admit \/ AdmitEvicting
    /\ nth' = [i \in 1..(issued + 1) |-> IF i = issued + 1 THEN 0 ELSE nth[i]]
    /\ producer' = [producer EXCEPT
            ![p] = [pc |-> IF @.left = 1 THEN "notify" ELSE "enqueue",
                    left |-> @.left - 1, accepted |-> @.accepted + 1]]
    /\ UNCHANGED <<visible, stream, woken, sweeper, operator, phase, count>>

\* Enqueue finds no room and nothing to evict.  The block policy waits, holding
\* no lock; a policy that refuses goes on to ProduceRefused.
ProduceWaits(p) ==
    /\ producer[p].pc = "enqueue"
    /\ StoreFree
    /\ Cardinality(InBudget) >= Capacity /\ ~(MayEvict /\ queued # {})
    /\ producer' = [producer EXCEPT ![p].pc = "waiting"]
    /\ UNCHANGED <<lanes, stream, woken, sweeper, operator, phase, count>>

\* Enqueue fails: refused, BlockTimeout elapsed, or cancelled, even if room has
\* appeared meanwhile.  The rest of the batch is the caller's to retry.
ProduceRefused(p) ==
    /\ producer[p].pc = "waiting"
    /\ producer' = [producer EXCEPT
            ![p] = IF @.accepted > 0 THEN [@ EXCEPT !.pc = "notify", !.left = 0] ELSE NoCall]
    /\ UNCHANGED <<lanes, stream, woken, sweeper, operator, phase, count>>

ProduceNotify(p) ==
    /\ producer[p].pc = "notify"
    /\ Incr("produced", producer[p].accepted)
    /\ NotifyAll
    /\ producer' = [producer EXCEPT ![p] = NoCall]
    /\ UNCHANGED <<lanes, stream, sweeper, operator, phase>>

-----------------------------------------------------------------------------
(* The client of a stream, and the receive goroutine.                        *)

\* A client opens a stream: the handler waits for its first message.
Open(s) ==
    /\ stream[s].pc = "none"
    /\ phase \in {"serving", "draining"}
    /\ stream' = [stream EXCEPT ![s].pc = "init", ![s].client = "up"]
    /\ UNCHANGED <<lanes, woken, producer, sweeper, operator, phase, count>>

\* The first message: grant the window, fill the semaphore, start the goroutine.
InitialCredit(s, request) ==
    /\ stream[s].pc = "init" /\ stream[s].client = "up"
    /\ stream' = [stream EXCEPT ![s].pc = "top", ![s].recv = "running",
                     ![s].credit = Window(request), ![s].sem = Window(request)]
    /\ UNCHANGED <<lanes, woken, producer, sweeper, operator, phase, count>>

InitialRecvFails(s) ==
    /\ stream[s].pc = "init" /\ stream[s].client \in {"closed", "lost"}
    /\ Finish(s)
    /\ UNCHANGED <<lanes, woken, producer, sweeper, operator, phase, count>>

\* The goroutine is in Recv, and what the client sent can reach it: also what
\* was on its way when the connection was lost.
Receives(s) ==
    /\ stream[s].recv = "running" /\ stream[s].got = <<>>
    /\ stream[s].client \in {"up", "lost"}

\* Recv returns an ack of a delivery the client was sent ...
ClientAck(s) ==
    /\ Receives(s)
    /\ \E m \in stream[s].inHand :
          stream' = [stream EXCEPT ![s].inHand = @ \ {m}, ![s].got = <<m>>]
    /\ UNCHANGED <<lanes, woken, producer, sweeper, operator, phase, count>>

\* ... or of an id it has no delivery of: a second ack, or another stream's id.
ClientStrayAck(s, i) ==
    /\ Receives(s)
    /\ count.strays < MaxStrays
    /\ \A m \in stream[s].inHand : m[1] # i
    /\ stream' = [stream EXCEPT ![s].got = <<<<i, 0>>>>]
    /\ Incr("strays", 1)
    /\ UNCHANGED <<lanes, woken, producer, sweeper, operator, phase>>

\* The goroutine's select: ackCh has room for the ack, ...
AckPassed(s) ==
    /\ stream[s].got # <<>>
    /\ Len(stream[s].ackCh) < stream[s].credit
    /\ stream' = [stream EXCEPT ![s].ackCh = Append(@, Head(stream[s].got)), ![s].got = <<>>]
    /\ UNCHANGED <<lanes, woken, producer, sweeper, operator, phase, count>>

\* ... or the stream context is done: it drops the ack, closes ackCh and ends.
AckDropped(s) ==
    /\ stream[s].got # <<>>
    /\ stream[s].client = "lost"
    /\ stream' = [stream EXCEPT ![s].dropped = {Head(stream[s].got)}, ![s].got = <<>>,
                                ![s].recv = "done"]
    /\ UNCHANGED <<lanes, woken, producer, sweeper, operator, phase, count>>

\* The client half-closes (CloseSend), or its connection is lost.
ClientLeaves(s, how) ==
    /\ stream[s].client = "up"
    /\ stream' = [stream EXCEPT ![s].client = how]
    /\ UNCHANGED <<lanes, woken, producer, sweeper, operator, phase, count>>

\* Mutant: only the client's half-close ends the goroutine.
RecvEndsOnEOF(s) ==
    /\ stream[s].recv = "running" /\ stream[s].got = <<>>
    /\ stream[s].client = "closed"
    /\ stream' = [stream EXCEPT ![s].recv = "done"]
    /\ UNCHANGED <<lanes, woken, producer, sweeper, operator, phase, count>>

\* Recv returns an error, io.EOF included: the goroutine closes ackCh and ends.
RecvEnds(s) ==
    /\ stream[s].recv = "running" /\ stream[s].got = <<>>
    /\ stream[s].client \in {"closed", "lost"}
    /\ stream' = [stream EXCEPT ![s].recv = "done"]
    /\ UNCHANGED <<lanes, woken, producer, sweeper, operator, phase, count>>

-----------------------------------------------------------------------------
(* The send loop.                                                            *)

\* Take the next ack from ackCh and apply it through the ownership guard.  A
\* genuine ack, one that removed a lease, is still to be counted.
TakeAck(s, counting, next) ==
    LET i    == Head(stream[s].ackCh)[1]
        mine == i \in Owned(s)
    IN  /\ StoreFree
        /\ stream[s].ackCh # <<>>
        /\ IF mine THEN StoreAck(s, i) ELSE UNCHANGED storeVars
        /\ stream' = [stream EXCEPT ![s].ackCh = Tail(@),
                                    ![s].pc = IF mine THEN counting ELSE next,
                                    ![s].uncounted = IF mine THEN 1 ELSE 0]
        /\ UNCHANGED <<visible, nth, woken, producer, sweeper, operator, phase, count>>

\* Top of the loop: drain acks without blocking.
DrainAck(s) ==
    /\ stream[s].pc = "top"
    /\ TakeAck(s, "acked", "top")

\* Mutant: an ack that removed nothing gives a token back as well.
SelectAckRefundsAll(s) ==
    /\ stream[s].pc \in {"acquire", "park"}
    /\ TakeAck(s, "acked", "acked")

\* The blocking selects take an ack as well.
SelectAck(s) ==
    /\ stream[s].pc \in {"acquire", "park"}
    /\ TakeAck(s, "acked", "top")

\* With the store's mutex released, count the genuine ack and return its token.
CountAck(s) ==
    /\ stream[s].pc = "acked"
    /\ stream' = [stream EXCEPT ![s].pc = "top", ![s].uncounted = 0, ![s].sem = @ + 1]
    /\ Incr("consumed", 1)
    /\ UNCHANGED <<lanes, woken, producer, sweeper, operator, phase>>

\* The channel is empty: go on.
DrainedAcks(s) ==
    /\ stream[s].pc = "top"
    /\ stream[s].ackCh = <<>> /\ stream[s].recv = "running"
    /\ GoTo(s, "acquire")
    /\ UNCHANGED <<lanes, woken, producer, sweeper, operator, phase, count>>

\* ackCh is closed, or in a blocking select the stream context is done or the
\* server shuts down: leave the loop.
LoopEnds(s) ==
    /\ \/ /\ stream[s].pc \in {"top", "acquire", "park"}
          /\ stream[s].ackCh = <<>> /\ stream[s].recv = "done"
       \/ /\ stream[s].pc \in {"acquire", "park"}
          /\ stream[s].client = "lost" \/ phase \in {"shutdown", "stopped"}
    /\ GoTo(s, "exiting")
    /\ UNCHANGED <<lanes, woken, producer, sweeper, operator, phase, count>>

\* Mutant: the loop looks at the semaphore and takes nothing.
AcquireNoToken(s) ==
    /\ stream[s].pc = "acquire" /\ stream[s].sem > 0
    /\ GoTo(s, "lease")
    /\ woken' = woken \ {s}
    /\ UNCHANGED <<lanes, producer, sweeper, operator, phase, count>>

\* Take a token, then capture the notify channel, ch := s.notifyChan(), before
\* Lease.
AcquireToken(s) ==
    /\ stream[s].pc = "acquire" /\ stream[s].sem > 0
    /\ stream' = [stream EXCEPT ![s].pc = "lease", ![s].sem = @ - 1]
    /\ woken' = woken \ {s}
    /\ UNCHANGED <<lanes, producer, sweeper, operator, phase, count>>

\* Lease finds a message: a visible redelivery before fresh work.
LeaseNext(s) ==
    /\ stream[s].pc = "lease"
    /\ StoreFree
    /\ \E i \in IF visible # {} THEN visible ELSE queued :
          /\ StoreLease(s, i)
          /\ visible' = visible \ {i}
          /\ nth' = [nth EXCEPT ![i] = @ + 1]
          /\ stream' = [stream EXCEPT ![s].pc = "sending", ![s].msg = <<i, nth[i] + 1>>]
    /\ UNCHANGED <<woken, producer, sweeper, operator, phase, count>>

\* Lease finds nothing ...
LeaseNone(s) ==
    /\ stream[s].pc = "lease"
    /\ StoreFree
    /\ visible = {} /\ queued = {}
    /\ GoTo(s, "miss")
    /\ UNCHANGED <<lanes, woken, producer, sweeper, operator, phase, count>>

\* Mutant: the notify channel is read after Lease, just before parking.
ParkCapturesLate(s) ==
    /\ stream[s].pc = "miss"
    /\ stream' = [stream EXCEPT ![s].pc = "park", ![s].sem = @ + 1]
    /\ woken' = woken \ {s}
    /\ UNCHANGED <<lanes, producer, sweeper, operator, phase, count>>

\* Mutant: the unused token is not returned.
ParkKeepsToken(s) ==
    /\ stream[s].pc = "miss"
    /\ GoTo(s, "park")
    /\ UNCHANGED <<lanes, woken, producer, sweeper, operator, phase, count>>

\* ... and the loop returns the token and parks on the captured channel.
Park(s) ==
    /\ stream[s].pc = "miss"
    /\ stream' = [stream EXCEPT ![s].pc = "park", ![s].sem = @ + 1]
    /\ UNCHANGED <<lanes, woken, producer, sweeper, operator, phase, count>>

\* The captured channel was closed: poll again.
WakeUp(s) ==
    /\ stream[s].pc = "park" /\ s \in woken
    /\ woken' = woken \ {s}
    /\ GoTo(s, "top")
    /\ UNCHANGED <<lanes, producer, sweeper, operator, phase, count>>

\* Send returns nil: the delivery is the client's to ack.
SendOk(s) ==
    /\ stream[s].pc = "sending"
    /\ stream' = [stream EXCEPT ![s].pc = "top", ![s].msg = <<>>,
                                ![s].inHand = @ \cup {stream[s].msg}]
    /\ Incr("delivered", 1)
    /\ UNCHANGED <<lanes, woken, producer, sweeper, operator, phase>>

\* Send fails: give the lease back, if it is still ours, and leave the loop.
SendFails(s) ==
    LET i    == stream[s].msg[1]
        mine == i \in Owned(s)
    IN  /\ stream[s].pc = "sending"
        /\ stream[s].client = "lost"
        /\ StoreFree
        /\ IF mine THEN EndLease(i, TRUE) ELSE UNCHANGED <<storeVars, visible>>
        /\ stream' = [stream EXCEPT ![s].pc = IF mine THEN "failed" ELSE "exiting",
                                    ![s].msg = <<>>, ![s].uncounted = IF mine THEN 1 ELSE 0]
        /\ Incr("failedSends", 1)
        /\ UNCHANGED <<nth, woken, producer, sweeper, operator, phase>>

\* With the store's mutex released, count the redelivery and broadcast.
FailedNotify(s) ==
    /\ stream[s].pc = "failed"
    /\ Incr("redelivered", 1)
    /\ NotifyAll
    /\ stream' = [stream EXCEPT ![s].pc = "exiting", ![s].uncounted = 0]
    /\ UNCHANGED <<lanes, producer, sweeper, operator, phase>>

-----------------------------------------------------------------------------
(* The deferred cleanup of Consume: join the receive goroutine, apply the    *)
(* acks it left behind, release what is still leased, and broadcast.         *)

CleanupAck(s) ==
    /\ stream[s].pc = "exiting" /\ stream[s].recv = "done"
    /\ TakeAck(s, "lateAcked", "exiting")

CleanupCount(s) ==
    /\ stream[s].pc = "lateAcked"
    /\ stream' = [stream EXCEPT ![s].pc = "exiting", ![s].uncounted = 0]
    /\ Incr("consumed", 1)
    /\ UNCHANGED <<lanes, woken, producer, sweeper, operator, phase>>

\* Mutant: the handler returns without releasing its leases.
CleanupForgetsLeases(s) ==
    /\ stream[s].pc = "exiting" /\ stream[s].recv = "done"
    /\ stream[s].ackCh = <<>>
    /\ StoreFree
    /\ Finish(s)
    /\ UNCHANGED <<lanes, woken, producer, sweeper, operator, phase, count>>

\* Mutant: leases are released before the goroutine is joined.
CleanupReleasesFirst(s) ==
    /\ stream[s].pc = "exiting"
    /\ StoreFree
    /\ IF Owned(s) = {} THEN Finish(s) ELSE GoTo(s, "releasing")
    /\ UNCHANGED <<lanes, woken, producer, sweeper, operator, phase, count>>

CleanupRelease(s) ==
    /\ stream[s].pc = "exiting" /\ stream[s].recv = "done"
    /\ stream[s].ackCh = <<>>
    /\ StoreFree
    /\ IF Owned(s) = {} THEN Finish(s) ELSE GoTo(s, "releasing")
    /\ UNCHANGED <<lanes, woken, producer, sweeper, operator, phase, count>>

\* ReleaseConsumer, one lease per step in ascending order, mutex held.
ReleaseNext(s) ==
    /\ stream[s].pc = "releasing"
    /\ \E i \in Owned(s) :
          /\ \A j \in Owned(s) : i <= j
          /\ EndLease(i, FALSE)
          /\ stream' = [stream EXCEPT ![s].pc = IF Owned(s) = {i} THEN "notify" ELSE "releasing",
                                      ![s].uncounted = @ + 1]
    /\ UNCHANGED <<nth, woken, producer, sweeper, operator, phase, count>>

\* Mutant: a release of several leases counts as one redelivery.
CleanupCountsOnce(s) ==
    /\ stream[s].pc = "notify"
    /\ Incr("redelivered", 1)
    /\ NotifyAll
    /\ Finish(s)
    /\ UNCHANGED <<lanes, producer, sweeper, operator, phase>>

\* ReleaseConsumer has returned how many leases it ended: count and broadcast.
CleanupNotify(s) ==
    /\ stream[s].pc = "notify"
    /\ Incr("redelivered", stream[s].uncounted)
    /\ NotifyAll
    /\ Finish(s)
    /\ UNCHANGED <<lanes, producer, sweeper, operator, phase>>

-----------------------------------------------------------------------------
(* The store's sweeper and clock, and the operator's replay.                 *)

\* The sweep reclaims one more expired lease.  Its holder's token is not
\* refunded, now or when its ack arrives.
SweepNext(i) ==
    /\ sweeper = "sweeping" \/ (sweeper = "idle" /\ StoreFree)
    /\ count.leaseExpired < MaxExpired
    /\ i \in Leased
    /\ EndLease(i, FALSE)
    /\ Incr("leaseExpired", 1)
    /\ stream' = [stream EXCEPT ![owner[i]].revoked = @ + 1]
    /\ sweeper' = "sweeping"
    /\ UNCHANGED <<nth, woken, producer, operator, phase>>

SweepUnlock ==
    /\ sweeper = "sweeping"
    /\ sweeper' = "notify"
    /\ UNCHANGED <<lanes, stream, woken, producer, operator, phase, count>>

\* After a sweep that reclaimed something, and on every tick that finds the
\* retry lane visible.
SweepNotify ==
    /\ sweeper = "notify" \/ (sweeper = "idle" /\ visible # {})
    /\ sweeper' = "idle"
    /\ NotifyAll
    /\ UNCHANGED <<lanes, stream, producer, operator, phase, count>>

BackoffElapses(i) ==
    /\ i \in retrying \ visible
    /\ visible' = visible \cup {i}
    /\ UNCHANGED <<storeVars, nth, stream, woken, producer, sweeper, operator, phase, count>>

\* DLQReplay: as long as there is a dead letter and room, then broadcast.
ReplayNext(i) ==
    /\ operator = "replaying" \/ (operator = "idle" /\ StoreFree)
    /\ count.replays < MaxReplays
    /\ StoreReplay(i)
    /\ Incr("replays", 1)
    /\ operator' = "replaying"
    /\ UNCHANGED <<visible, nth, stream, woken, producer, sweeper, phase>>

ReplayUnlock ==
    /\ operator = "replaying"
    /\ dead = {} \/ Cardinality(InBudget) >= Capacity \/ count.replays = MaxReplays
    /\ operator' = "notify"
    /\ UNCHANGED <<lanes, stream, woken, producer, sweeper, phase, count>>

ReplayNotify ==
    /\ operator = "notify"
    /\ operator' = "idle"
    /\ NotifyAll
    /\ UNCHANGED <<lanes, stream, producer, sweeper, phase, count>>

-----------------------------------------------------------------------------
(* Drain and shutdown, as cmd/mq drives them.                                *)

EnterPhase(ph) ==
    /\ phase' = ph
    /\ UNCHANGED <<lanes, woken, producer, sweeper, operator, count>>

\* SIGTERM.
BeginDrain ==
    /\ MayDrain
    /\ phase = "serving"
    /\ EnterPhase("draining")
    /\ UNCHANGED stream

\* The drain loop ends: nothing left, or its deadline or stall detection fired.
Shutdown ==
    /\ phase = "draining"
    /\ EnterPhase("shutdown")
    /\ UNCHANGED stream

\* Handlers that have not returned: what GracefulStop waits for.
Active == {s \in Consumers : stream[s].pc \notin {"none", "done"}}

\* GracefulStop did not return within its 5s: Stop cancels every stream context.
ForceStop ==
    /\ MayForce
    /\ phase = "shutdown" /\ Active # {}
    /\ EnterPhase("stopped")
    /\ stream' = [s \in Consumers |-> IF s \in Active
                                      THEN [stream[s] EXCEPT !.client = "lost"]
                                      ELSE stream[s]]

-----------------------------------------------------------------------------
Receiving(s) == InitialRecvFails(s) \/ AckPassed(s) \/ AckDropped(s) \/ RecvEnds(s)

\* The send loop, except for a Send that waits for the client to read.
SendLoop(s) ==
    \/ DrainAck(s) \/ DrainedAcks(s) \/ SelectAck(s) \/ CountAck(s) \/ LoopEnds(s)
    \/ AcquireToken(s) \/ LeaseNext(s) \/ LeaseNone(s) \/ Park(s)
    \/ WakeUp(s)
    \/ SendFails(s) \/ FailedNotify(s)

Cleanup(s) ==
    \/ CleanupAck(s) \/ CleanupCount(s)
    \/ CleanupRelease(s) \/ ReleaseNext(s) \/ CleanupNotify(s)

ProduceStep(p) ==
    ProduceEnqueue(p) \/ ProduceWaits(p) \/ ProduceRefused(p) \/ ProduceNotify(p)

ReplayStep == (operator = "replaying" /\ \E i \in dead : ReplayNext(i)) \/ ReplayUnlock \/ ReplayNotify

Next ==
    \/ \E p \in Producers :
          (\E n \in 1..MaxBatch : ProduceBatch(p, n)) \/ ProduceStep(p)
    \/ \E s \in Consumers :
          \/ Open(s)
          \/ \E request \in Requests : InitialCredit(s, request)
          \/ ClientAck(s)
          \/ \E i \in 1..issued : ClientStrayAck(s, i)
          \/ \E how \in {"closed", "lost"} : ClientLeaves(s, how)
          \/ Receiving(s) \/ SendLoop(s) \/ SendOk(s) \/ Cleanup(s)
    \/ \E i \in 1..issued : SweepNext(i) \/ BackoffElapses(i) \/ ReplayNext(i)
    \/ SweepUnlock \/ SweepNotify
    \/ ReplayUnlock \/ ReplayNotify
    \/ BeginDrain \/ Shutdown \/ ForceStop

Spec == Init /\ [][Next]_vars

(* Fairness: of the program's own goroutines only.  A loop that holds the    *)
(* store's mutex runs on; a goroutine that waits for it gets it, although    *)
(* others keep taking it (sync.Mutex hands itself to a starving waiter), so  *)
(* the send loop, the cleanup and the producers are strongly fair; the       *)
(* sweeper keeps ticking, and backoffs and BlockTimeout elapse.  Nothing is  *)
(* assumed of clients, who may stop reading (a Send then never returns),     *)
(* acking or closing, nor of who starts a batch or a replay.                 *)
Fairness ==
    /\ \A s \in Consumers :
          WF_vars(Receiving(s)) /\ SF_vars(SendLoop(s)) /\ SF_vars(Cleanup(s))
    /\ \A p \in Producers : SF_vars(ProduceStep(p))
    /\ WF_vars(SweepUnlock) /\ WF_vars(SweepNotify)
    /\ \A i \in 1..MaxMsgs : WF_vars(BackoffElapses(i))
    /\ WF_vars(ReplayStep)

FairSpec == Spec /\ Fairness
-----------------------------------------------------------------------------
(* Safety.                                                                   *)

InLoop(s) == stream[s].pc \in {"top", "acked", "acquire", "lease", "miss", "park", "sending"}

\* Tokens the send loop has in its hand: taken and not spent, or owed for an ack.
InUse(s) == IF stream[s].pc \in {"acked", "lease", "miss"} THEN 1 ELSE 0

Deliveries == (1..issued) \X Nat

\* The variables have the types of their Go declarations, every granted window
\* is positive, and neither of a stream's two channels exceeds its buffer.
TypeOK ==
    /\ StoreTypeOK
    /\ visible \subseteq retrying
    /\ nth \in [1..issued -> Nat]
    /\ woken \subseteq Consumers
    /\ \A s \in Consumers :
          /\ stream[s].credit \in Nat /\ stream[s].sem \in 0..stream[s].credit
          /\ InLoop(s) => stream[s].credit > 0
          /\ stream[s].ackCh \in Seq(Deliveries) /\ Len(stream[s].ackCh) <= stream[s].credit
          /\ stream[s].got \in Seq(Deliveries) /\ Len(stream[s].got) <= 1
          /\ stream[s].inHand \subseteq Deliveries /\ stream[s].uncounted \in Nat
          /\ stream[s].recv \in {"none", "running", "done"}
          /\ stream[s].client \in {"none", "up", "closed", "lost"}
    /\ \A p \in Producers :
          /\ producer[p].pc \in {"idle", "enqueue", "waiting", "notify"}
          /\ producer[p].left \in Nat /\ producer[p].accepted \in Nat
    /\ sweeper \in {"idle", "sweeping", "notify"}
    /\ operator \in {"idle", "replaying", "notify"}
    /\ phase \in {"serving", "draining", "shutdown", "stopped"}

\* Tokens are conserved: while the send loop runs, the tokens in the semaphore,
\* in use, spent on a lease the stream still holds and revoked with a swept
\* lease add up to the window.  No late, double, foreign or stray ack mints a
\* token, so returning one never blocks the loop on the full semaphore.
CreditConserved ==
    \A s \in Consumers : InLoop(s) =>
        stream[s].sem + InUse(s) + Cardinality(Owned(s)) + stream[s].revoked
            = stream[s].credit

\* The window: a client never holds more unacked deliveries than its credit,
\* acks of its own that the loop has not taken yet included.  Only acks it made
\* up can stretch it.
WindowBound ==
    \A s \in Consumers :
        LET pending == stream[s].ackCh \o stream[s].got
        IN  Cardinality(stream[s].inHand)
                + Cardinality({k \in DOMAIN pending : pending[k][2] > 0})
            <= stream[s].credit + count.strays

\* No missed wakeup: when a handler sleeps on the current notify channel while
\* fresh work is queued, a producer or a replay is about to broadcast.
NoMissedWakeup ==
    (queued # {} /\ \E s \in Consumers : stream[s].pc = "park" /\ s \notin woken)
        => \/ \E p \in Producers : producer[p].accepted > 0
           \/ operator \in {"replaying", "notify"}

\* What the store admitted is produced or in a call in progress.
EnqueuesAccounted ==
    issued = count.produced + Total([p \in Producers |-> producer[p].accepted])

\* Every lease was sent or is being sent, and ended as exactly one of consumed,
\* redelivered, expired, or is still in flight.  A counter lags behind the store
\* only by what handlers have ended and are about to count.
DeliveriesAccounted ==
    count.delivered + count.failedSends
        + Cardinality({s \in Consumers : stream[s].pc = "sending"})
    = count.consumed + count.redelivered + count.leaseExpired
        + Cardinality(Leased) + Total([s \in Consumers |-> stream[s].uncounted])

\* The counters tell the whole story, of the messages that came in and of the
\* leases that were granted.
CountersAccount == EnqueuesAccounted /\ DeliveriesAccounted

\* No lease outlives its stream: whoever holds one has a handler that has yet
\* to run its cleanup, so a disconnect never leaves it to the TTL.
LeasesHaveHandlers == \A i \in Leased : InLoop(owner[i]) \/ stream[owner[i]].pc
    \in {"failed", "exiting", "lateAcked", "releasing"}

\* Confirmed messages are not requeued on disconnect: what the cleanup releases
\* are deliveries whose ack the server never received.  The one exception is an
\* ack that the goroutine dropped because the connection was lost: one at most,
\* and never after a half-close.
ConfirmedNotReleased ==
    \A s \in Consumers : stream[s].pc = "releasing" =>
        /\ \A i \in Owned(s) : <<i, nth[i]>> \in stream[s].inHand \cup stream[s].dropped
        /\ stream[s].dropped # {} => stream[s].client = "lost" /\ Cardinality(stream[s].dropped) = 1

-----------------------------------------------------------------------------
(* Liveness.                                                                 *)

\* A handler that waits for work or is about to look for it, with a token.
Ready(s) ==
    /\ stream[s].pc \in {"top", "acked", "acquire", "lease", "miss", "park"}
    /\ stream[s].sem + InUse(s) > 0

\* Work meets workers: a queued or visible message does not stay where it is
\* while some handler with a token is waiting for work.
WorkIsTaken ==
    \A i \in 1..MaxMsgs :
        (i \in queued \cup visible /\ \E s \in Consumers : Ready(s))
            ~> (i \notin queued \cup visible \/ \A s \in Consumers : ~Ready(s))

\* After the forced Stop every handler returns and no lease is left behind,
\* whatever the clients do.
StopCompletes == (phase = "stopped") ~> (Active = {} /\ Leased = {})

-----------------------------------------------------------------------------
(* What a comment says, and the code does not do.                            *)

\* broker.go: after a sweep the stuck consumer's "late ack becomes a no-op".  The
\* lease an ack removes belongs to the delivery that the client acked.
LateAckIsNoOp ==
    [][\A s \in Consumers :
          (stream[s].ackCh # <<>> /\ stream'[s].ackCh = Tail(stream[s].ackCh)
              /\ acked' # acked)
          => Head(stream[s].ackCh)[2] \in {0, nth[Head(stream[s].ackCh)[1]]}]_vars
=============================================================================
