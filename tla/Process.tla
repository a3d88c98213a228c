------------------------------- MODULE Process -------------------------------
(***************************************************************************)
(* The MQ process of cmd/mq: it serves, drains on SIGTERM, shuts down,     *)
(* exits and is started again with an empty store.                         *)
(*                                                                         *)
(* The drain loop watches the store from outside, through the numbers of   *)
(* Drained and Stats, which it reads one after the other while calls,      *)
(* handlers and the operator go on.  A ProduceBatch call checks the drain  *)
(* flag once, before its first Enqueue, and a replay of the dead letters   *)
(* never does, so both may fill a store that the loop has found empty.     *)
(* The store is reduced to those numbers (Store and Broker know the        *)
(* messages) and a Consume handler to what matters to the loop: when it    *)
(* counts as active, how many leases it holds meanwhile and when it counts *)
(* an ack (Server models it in full).  Callers and the operator are        *)
(* external to this module; Streamer adds the callers.                     *)
(***************************************************************************)
EXTENDS Integers, Sequences, FiniteSets, Totals

CONSTANTS
    Capacity,   \* budget: queued + retrying + leased messages
    DLQCapacity, \* size of the dead-letter queue; its oldest entry is evicted
    Consumers,  \* Consume streams that may be open at a time
    StallTicks, \* constant stallTicks: idle ticks that end the drain
    Policies,   \* MQ_OVERFLOW_POLICY: values the process may be configured with
    MaxRuns,    \* bound: how often the process is started
    MaxReplays  \* bound: replays of the dead letters in one run of the process

ASSUME ProcessAssumption ==
    /\ Capacity \in Nat \ {0} /\ DLQCapacity \in Nat \ {0} /\ MaxReplays \in Nat
    /\ Policies \subseteq {"reject", "drop-oldest", "block"}
    /\ StallTicks \in Nat \ {0} /\ MaxRuns \in Nat \ {0}

VARIABLES
    phase,   \* "serving", "draining", "leaving", "shutdown" or "down"
    policy,  \* what Enqueue does when the budget is full
    runs,    \* how often the process was started
    stats,   \* the store's numbers: depth, retryDepth, dlqDepth, replays, and consumed: 1
             \* if it grew since the drain loop's last look, which only asks for that
    calls,   \* ProduceBatch calls in the server
    handler, \* Consume handler of each consumer: its state, how many leases it
             \* holds, and whether it applied an ack that it has yet to count
    drain,   \* the drain loop's variables, and how it ended
    seen     \* history: see NothingSeen

procVars == <<phase, policy, runs, stats, calls, handler, drain, seen>>

NoMessages == [depth |-> 0, retryDepth |-> 0, dlqDepth |-> 0, consumed |-> 0, replays |-> 0]

NoHandler == [at |-> "none", leases |-> 0, acked |-> FALSE]

\* at: what the loop reads next; consumed: what it read of it in this tick; exit:
\* why the loop was left.
NoDrain == [at |-> "tick", idleTicks |-> 0, consumed |-> 0, lastConsumed |-> -1,
            exit |-> "none"]

\* late: messages that calls past their check still offered at "drain complete",
\* and those replayed since; ack: one was counted since the loop's last look at
\* consumed; quiet: ticks in a row that saw no handler, with no ack since the tick
\* before them (-1: an ack, or no tick before).
NothingSeen == [late |-> 0, ack |-> FALSE, quiet |-> 0]

ProcInit ==
    /\ phase = "serving" /\ policy \in Policies /\ runs = 1
    /\ stats = NoMessages /\ calls = {}
    /\ handler = [c \in Consumers |-> NoHandler]
    /\ drain = NoDrain /\ seen = NothingSeen

InFlight == Total([c \in Consumers |-> handler[c].leases])

Used == stats.depth + stats.retryDepth + InFlight

\* ServerStats.ActiveConsumers: a handler counts until its cleanup is over.
ActiveConsumers == {c \in Consumers : handler[c].at # "none"}

-----------------------------------------------------------------------------
(* ProduceBatch.  A call is [by, orphan, msgs, accepted, at]; orphan is 0    *)
(* while the caller waits for the reply.                                     *)

Left(call) == Len(call.msgs) - call.accepted

\* Messages that calls past the drain check may still enqueue.
Offered == Total([call \in {c \in calls : c.at = "enqueue"} |-> Left(call)])

Becomes(call, new) == calls' = (calls \ {call}) \cup {new}

\* IsShuttingDown, once for the whole batch.
CheckDraining(call) ==
    /\ call.at = "arrived"
    /\ Becomes(call, [call EXCEPT !.at = IF phase = "serving" THEN "enqueue" ELSE "unavailable"])
    /\ UNCHANGED <<phase, policy, runs, stats, handler, drain, seen>>

\* Drop-oldest makes room by evicting the oldest queued message, if there is one.
Evicts == policy = "drop-oldest" /\ stats.depth > 0

\* The next message of the batch is admitted.
EnqueueNext(call) ==
    /\ call.at = "enqueue"
    /\ \/ Used < Capacity /\ stats' = [stats EXCEPT !.depth = @ + 1]
       \/ Used >= Capacity /\ Evicts /\ UNCHANGED stats
    /\ Becomes(call, [call EXCEPT !.accepted = @ + 1, !.at = IF Left(call) = 1 THEN "reply" ELSE @])
    /\ UNCHANGED <<phase, policy, runs, handler, drain, seen>>

\* Enqueue finds no room (block: for BlockTimeout): report the accepted prefix.
EnqueueRefused(call) ==
    /\ call.at = "enqueue" /\ Used >= Capacity /\ ~Evicts
    /\ Becomes(call, [call EXCEPT !.at = "reply"])
    /\ UNCHANGED <<phase, policy, runs, stats, handler, drain, seen>>

-----------------------------------------------------------------------------
(* Consume handlers, the sweeper, and the operator.                          *)

\* Streams are still accepted while the process drains.
Connect(c) ==
    /\ handler[c].at = "none"
    /\ phase \in {"serving", "draining", "leaving"}
    /\ handler' = [handler EXCEPT ![c].at = "open"]
    /\ UNCHANGED <<phase, policy, runs, stats, calls, drain, seen>>

\* Lease, from the main or the retry lane.
Take(c, lane) ==
    /\ handler[c].at = "open" /\ ~handler[c].acked /\ stats[lane] > 0
    /\ stats' = [stats EXCEPT ![lane] = @ - 1]
    /\ handler' = [handler EXCEPT ![c].leases = @ + 1]
    /\ UNCHANGED <<phase, policy, runs, calls, drain, seen>>

\* An ack is applied, by the send loop or by the cleanup ...
Consume(c) ==
    /\ handler[c].leases > 0 /\ ~handler[c].acked
    /\ handler' = [handler EXCEPT ![c].leases = @ - 1, ![c].acked = TRUE]
    /\ UNCHANGED <<phase, policy, runs, stats, calls, drain, seen>>

\* ... and counted, after the store's mutex is released.
CountAck(c) ==
    /\ handler[c].acked
    /\ handler' = [handler EXCEPT ![c].acked = FALSE]
    /\ stats' = [stats EXCEPT !.consumed = IF phase = "draining" THEN 1 ELSE @]
    /\ seen' = [seen EXCEPT !.ack = phase = "draining"]
    /\ UNCHANGED <<phase, policy, runs, calls, drain>>

LeaseEnds(c) ==
    /\ handler[c].leases > 0
    /\ handler' = [handler EXCEPT ![c].leases = @ - 1]
    /\ UNCHANGED <<phase, policy, runs, calls, drain, seen>>

\* A lease is released by the cleanup or expires ...
Requeue(c) ==
    /\ LeaseEnds(c)
    /\ stats' = [stats EXCEPT !.retryDepth = @ + 1]

\* ... and after MaxDeliveries of them the message is dead-lettered.
DeadLetter(c) ==
    /\ LeaseEnds(c)
    /\ stats' = [stats EXCEPT !.dlqDepth = IF @ < DLQCapacity THEN @ + 1 ELSE @]

\* The client is gone, or the handler observes shutdownCh.
Leave(c) ==
    /\ handler[c].at = "open" /\ ~handler[c].acked
    /\ handler' = [handler EXCEPT ![c].at = "leaving"]
    /\ UNCHANGED <<phase, policy, runs, stats, calls, drain, seen>>

\* The handler returns; only then is activeC decremented.
Returned(c) ==
    /\ handler[c] = [NoHandler EXCEPT !.at = "leaving"]
    /\ handler' = [handler EXCEPT ![c] = NoHandler]
    /\ UNCHANGED <<phase, policy, runs, stats, calls, drain, seen>>

\* DLQReplay: dead letters go back into the main lane while there is room.  The
\* HTTP server answers until main returns, and nothing looks at the drain flag.
Replay ==
    LET room == Capacity - Used
        n == IF stats.dlqDepth < room THEN stats.dlqDepth ELSE room
    IN  /\ phase # "down" /\ stats.replays < MaxReplays
        /\ n > 0
        /\ stats' = [stats EXCEPT !.depth = @ + n, !.dlqDepth = @ - n, !.replays = @ + 1]
        /\ seen' = [seen EXCEPT !.late = IF drain.exit = "complete" THEN @ + n ELSE @]
        /\ UNCHANGED <<phase, policy, runs, calls, handler, drain>>

-----------------------------------------------------------------------------
(* The shutdown goroutine of main.                                           *)

\* SIGTERM.  The bound leaves a run in which the process stays up.
BeginDrain ==
    /\ phase = "serving" /\ runs < MaxRuns
    /\ phase' = "draining"
    /\ UNCHANGED <<policy, runs, stats, calls, handler, drain, seen>>

\* break drain
EndDrain(why) ==
    /\ phase' = "leaving"
    /\ drain' = [NoDrain EXCEPT !.exit = why]
    /\ stats' = [stats EXCEPT !.consumed = 0]
    /\ UNCHANGED <<policy, runs, calls, handler>>

\* Mutant: messages that wait for redelivery are not looked at.
DrainedForgetsRetries == stats.depth = 0 /\ InFlight = 0

\* Drained: one snapshot of the store; dead letters do not count.
Drained == stats.depth = 0 /\ stats.retryDepth = 0 /\ InFlight = 0

\* A tick: if the store is empty, the drain is complete ...
DrainTick ==
    /\ phase = "draining" /\ drain.at = "tick"
    /\ \/ Drained /\ EndDrain("complete") /\ seen' = [NothingSeen EXCEPT !.late = Offered]
       \/ /\ ~Drained
          /\ drain' = [drain EXCEPT !.at = "stats"]
          /\ UNCHANGED <<phase, policy, runs, stats, calls, handler, seen>>

\* ... and otherwise Stats reads the counters one after the other: consumed ...
LoadConsumed ==
    /\ phase = "draining" /\ drain.at = "stats"
    /\ drain' = [drain EXCEPT !.at = "active", !.consumed = stats.consumed]
    /\ stats' = [stats EXCEPT !.consumed = 0]
    /\ seen' = [seen EXCEPT !.ack = FALSE,
                            !.quiet = IF seen.ack \/ drain.lastConsumed = -1 THEN -1 ELSE @]
    /\ UNCHANGED <<phase, policy, runs, calls, handler>>

\* The tick's verdict: so many idle ticks in a row.
Judge(ticks) ==
    /\ phase = "draining" /\ drain.at = "active"
    /\ seen' = [seen EXCEPT !.quiet = IF ActiveConsumers # {} THEN 0
                                      ELSE IF @ = StallTicks THEN @ ELSE @ + 1]
    /\ IF ticks >= StallTicks THEN EndDrain("stalled")
       ELSE /\ drain' = [drain EXCEPT !.at = "tick", !.idleTicks = ticks,
                                      !.consumed = 0, !.lastConsumed = 0]
            /\ UNCHANGED <<phase, policy, runs, stats, calls, handler>>

\* Mutant: an ack since the last tick does not count as progress.
DrainStatsIgnoresAcks ==
    Judge(IF ActiveConsumers = {} /\ drain.lastConsumed = 0 THEN drain.idleTicks + 1 ELSE 0)

\* ... and then activeC.  The tick is idle if they show no consumer and no ack
\* since the last tick.  Enough idle ticks in a row are a stall.
DrainStats ==
    Judge(IF ActiveConsumers = {} /\ drain.consumed = drain.lastConsumed
          THEN drain.idleTicks + 1 ELSE 0)

DrainDeadline ==
    /\ phase = "draining" /\ drain.at = "tick"
    /\ EndDrain("deadline")
    /\ seen' = NothingSeen

\* close(shutdownCh), then GracefulStop: no new stream.
Shutdown ==
    /\ phase = "leaving"
    /\ phase' = "shutdown"
    /\ UNCHANGED <<policy, runs, stats, calls, handler, drain, seen>>

\* Memory is gone: messages, leases, handlers and calls.
MemoryLost ==
    /\ phase' = "down"
    /\ stats' = NoMessages /\ calls' = {}
    /\ handler' = [c \in Consumers |-> NoHandler]
    /\ drain' = NoDrain /\ seen' = NothingSeen
    /\ UNCHANGED <<policy, runs>>

\* GracefulStop returns when every RPC has, or Stop cuts it short: main returns.
Exit ==
    /\ phase = "shutdown"
    /\ MemoryLost

\* The process dies without notice.
Crash ==
    /\ phase # "down" /\ runs < MaxRuns
    /\ MemoryLost

\* The cluster starts it again.
Start ==
    /\ phase = "down"
    /\ phase' = "serving" /\ runs' = runs + 1
    /\ UNCHANGED <<policy, stats, calls, handler, drain, seen>>

-----------------------------------------------------------------------------
\* What the process does besides serving calls.
ProcStep ==
    \/ \E c \in Consumers :
          \/ Connect(c) \/ Leave(c) \/ Returned(c)
          \/ \E lane \in {"depth", "retryDepth"} : Take(c, lane)
          \/ Consume(c) \/ CountAck(c) \/ Requeue(c) \/ DeadLetter(c)
    \/ Replay
    \/ BeginDrain \/ DrainTick \/ LoadConsumed \/ DrainStats \/ DrainDeadline
    \/ Shutdown \/ Exit \/ Crash \/ Start

ProcTypeOK ==
    /\ phase \in {"serving", "draining", "leaving", "shutdown", "down"}
    /\ policy \in Policies /\ runs \in 1..MaxRuns
    /\ stats.depth \in Nat /\ stats.retryDepth \in Nat /\ stats.consumed \in {0, 1}
    /\ stats.dlqDepth \in 0..DLQCapacity /\ stats.replays \in 0..MaxReplays
    /\ Used <= Capacity
    /\ \A call \in calls :
          /\ call.at \in {"arrived", "enqueue", "reply", "unavailable"}
          /\ call.accepted \in 0..Len(call.msgs)
          /\ call.at = "enqueue" => Left(call) > 0
    /\ \A c \in Consumers :
          /\ handler[c].at \in {"none", "open", "leaving"}
          /\ handler[c].acked \in BOOLEAN
          /\ handler[c].at = "none" => handler[c] = NoHandler
    /\ drain.idleTicks \in 0..(StallTicks - 1)
    /\ drain.exit \in {"none", "complete", "stalled", "deadline"}

\* What a drain may leave behind.  After "drain complete" the store holds, and
\* may yet get, nothing but what calls that passed the check before SIGTERM still
\* offered at the loop's last look, and what an operator replayed since then.
CompleteDrainIsClean == drain.exit = "complete" => Used + Offered <= seen.late

\* The loop gives up early only on silence.  At each of the last StallTicks ticks
\* of the drain it found no handler, and no ack was counted from the tick before,
\* when it read consumed, until it read consumed again.  (An ack between the two
\* reads of a tick belongs to the next tick, which there may not be.)
StallNeedsSilence == drain.exit = "stalled" => seen.quiet >= StallTicks
=============================================================================
