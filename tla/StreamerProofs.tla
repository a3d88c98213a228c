---------------------------- MODULE StreamerProofs ----------------------------
(***************************************************************************)
(* Publishing and draining, for any number of streamers, rows, consumers,  *)
(* restarts and faults: no row is skipped, a message has no more copies    *)
(* than runs and faults explain, a complete drain leaves nothing behind    *)
(* but what late calls admitted or an operator replayed, and a stall takes *)
(* silence.                                                                *)
(*                                                                         *)
(* What concerns one streamer or one call is stated of its record and of   *)
(* the set of messages admitted so far, which only grows.                  *)
(***************************************************************************)
EXTENDS Streamer, TotalsProofs, SequenceTheorems

(* The process.                                                              *)

LeaseMap == [c \in Consumers |-> handler[c].leases]

OfferMap == [call \in {c \in calls : c.at = "enqueue"} |-> Left(call)]

StatsRecord ==
    [depth : Nat, retryDepth : Nat, dlqDepth : 0..DLQCapacity, consumed : {0, 1},
     replays : 0..MaxReplays]

HandlerRecord == [at : {"none", "open", "leaving"}, leases : Nat, acked : BOOLEAN]

DrainRecord ==
    [at : {"tick", "stats", "active"}, idleTicks : 0..(StallTicks - 1), consumed : {0, 1},
     lastConsumed : {-1, 0}, exit : {"none", "complete", "stalled", "deadline"}]

SeenRecord == [late : Nat, ack : BOOLEAN, quiet : Int]

\* A handler that does not count holds no lease and no ack.
Idle(h) == h.at = "none" => h.leases = 0 /\ h.acked = FALSE

\* The store's numbers add up within the budget, and only a handler holds leases.
NumbersOK ==
    /\ policy \in Policies
    /\ stats \in StatsRecord
    /\ handler \in [Consumers -> HandlerRecord]
    /\ \A c \in Consumers : Idle(handler[c])
    /\ IsFiniteSet(Units(LeaseMap))
    /\ Used <= Capacity

\* Where the process is in its life, and the loop's variables with it.
PhaseOK ==
    /\ phase \in {"serving", "draining", "leaving", "shutdown", "down"}
    /\ runs \in 1..MaxRuns
    /\ phase # "serving" => runs < MaxRuns
    /\ drain \in DrainRecord
    /\ phase \in {"serving", "down"} => drain = NoDrain
    /\ phase = "draining" => drain.exit = "none"

\* The loop's count of idle ticks is backed by silence: so many ticks in a row
\* were quiet, or this tick is not idle, because the loop has read of an ack; and
\* it will read of every ack since it last looked.
SilenceOK ==
    /\ seen \in SeenRecord
    /\ phase \in {"serving", "down"} => seen = NothingSeen
    /\ phase = "draining" =>
          /\ seen.ack => stats.consumed = 1
          /\ \/ seen.quiet >= drain.idleTicks
             \/ /\ seen.quiet = -1 /\ drain.at = "active"
                /\ drain.consumed # drain.lastConsumed
    /\ StallNeedsSilence

\* What a complete drain leaves behind is bounded by what late calls offered and
\* what was replayed since.
LateOK ==
    /\ IsFiniteSet(Units(OfferMap))
    /\ CompleteDrainIsClean

(* The streamers.                                                            *)

\* All messages of one streamer.
All == MaxPasses * PerPass

\* How many messages the passes before this one had.
Base(pass) == (pass - 1) * PerPass

\* How many of the rows before this one are good.
Good(row) == Cardinality((1..(row - 1)) \ Bad)

\* The messages that some store has admitted.
Admitted == {m \in Messages : copies[m] > 0}

StrmRecord ==
    [pc : {"read", "send", "await", "stopped", "done"}, row : 1..(Rows + 1),
     pass : 1..(MaxPasses + 1), made : Nat, batch : Seq(Messages)]

\* One streamer: its batch is what it made last, all of it in this pass, and
\* everything before the batch is in D.
StrmOK(s, q, D) ==
    /\ q \in StrmRecord
    /\ Len(q.batch) <= BatchSize
    /\ Base(q.pass) + Len(q.batch) <= q.made
    /\ \A k \in 1..Len(q.batch) : q.batch[k] = <<s, (q.made - Len(q.batch)) + k>>
    /\ \A n \in 1..(q.made - Len(q.batch)) : <<s, n>> \in D
    /\ q.pc = "read" => Len(q.batch) < BatchSize
    /\ q.pc \in {"send", "await"} => q.batch # <<>>
    /\ q.pc # "done" => q.pass <= MaxPasses /\ q.made = Base(q.pass) + Good(q.row)
    /\ q.pc = "done" => q.pass = MaxPasses + 1 /\ q.made = All

StrmsOK ==
    /\ strm = [s \in Streamers |-> strm[s]]
    /\ \A s \in Streamers : StrmOK(s, strm[s], Admitted)

CallRecord ==
    [by : Streamers, orphan : Nat, msgs : Seq(Messages), accepted : Nat,
     at : {"arrived", "enqueue", "reply", "unavailable"}]

\* The number of the last message before the call's.
Start0(call) == call.msgs[1][2] - 1

\* One call: its messages are consecutive and made by q, those before them and
\* those it accepted are in D, and while q waits for it they are q's batch.
CallOK(call, q, D) ==
    /\ call \in CallRecord
    /\ Len(call.msgs) \in 1..BatchSize /\ call.accepted <= Len(call.msgs)
    /\ call.at \in {"arrived", "enqueue"} => call.accepted < Len(call.msgs)
    /\ \A k \in 1..Len(call.msgs) : call.msgs[k] = <<call.by, Start0(call) + k>>
    /\ Start0(call) + Len(call.msgs) <= q.made
    /\ \A n \in 1..(Start0(call) + call.accepted) : <<call.by, n>> \in D
    /\ call.orphan = 0 => q.pc = "await" /\ call.msgs = q.batch

CallsOK ==
    /\ IsFiniteSet(calls)
    /\ \A call \in calls : CallOK(call, strm[call.by], Admitted)
    /\ \A c1, c2 \in calls : c1.orphan = 0 /\ c2.orphan = 0 /\ c1.by = c2.by => c1 = c2

\* The call may still admit the message.
MayAdmit(call, m) == \E k \in (call.accepted + 1)..Len(call.msgs) : call.msgs[k] = m

Count(C, m) == Cardinality({call \in C : MayAdmit(call, m)})

Bound == runs + faults + (IF phase = "down" THEN 1 ELSE 0)

\* k, the copies of a message and the calls that may still add one, stays within
\* the bound b, with one to spare while the message's next call is to come; q is
\* its streamer and P the call that q waits for, if any.
CopyFits(m, q, P, k, b) ==
    /\ m[2] > q.made => k = 0
    /\ k <= b
    /\ m[2] \in ((q.made - Len(q.batch)) + 1)..q.made /\ P = {} => k + 1 <= b

CopyOK(m) == CopyFits(m, strm[m[1]], Pending(m[1]), copies[m] + Count(calls, m), Bound)

CopiesOK ==
    /\ copies \in [Messages -> Nat] /\ faults \in 0..MaxFaults
    /\ \A s \in Streamers : \A m, n \in 1..All :
          m < n /\ <<s, n>> \in Admitted => <<s, m>> \in Admitted
    /\ \A m \in Messages : CopyOK(m)

ProcInv == NumbersOK /\ PhaseOK /\ SilenceOK /\ LateOK

\* The inductive invariant of the streamers and the process.
StreamerInv == ProcInv /\ StrmsOK /\ CallsOK /\ CopiesOK

-----------------------------------------------------------------------------
(* Rows, passes and message numbers.                                         *)

LEMMA IntervalCard == \A n \in Nat : IsFiniteSet(1..n) /\ Cardinality(1..n) = n
<1>1. \A n \in Nat : IsFiniteSet(1..n) /\ Cardinality(1..n) = IF 1 > n THEN 0 ELSE n - 1 + 1
  BY FS_Interval
<1>. QED
  BY ONLY <1>1

\* A pass makes as many messages as there are good rows.
LEMMA PerPassFacts == PerPass \in Nat /\ Cardinality((1..Rows) \ Bad) = PerPass
<1>1. Rows \in Nat /\ Bad \subseteq 1..Rows
  BY StreamerAssumption
<1>2. IsFiniteSet(1..Rows) /\ Cardinality(1..Rows) = Rows
  BY <1>1, IntervalCard
<1>3. (1..Rows) \cap Bad = Bad
  BY <1>1
<1>4. /\ IsFiniteSet((1..Rows) \ Bad)
      /\ Cardinality((1..Rows) \ Bad) = Cardinality(1..Rows) - Cardinality((1..Rows) \cap Bad)
  BY <1>2, FS_Difference
<1>5. Cardinality((1..Rows) \ Bad) \in Nat
  BY <1>4, FS_CardinalityType
<1>. QED
  BY <1>2, <1>3, <1>4, <1>5 DEF PerPass

\* The good rows before a row: none at first, one more after a good row, all of
\* them at the end.
LEMMA GoodFacts ==
    /\ Good(1) = 0 /\ Good(Rows + 1) = PerPass
    /\ \A row \in 1..(Rows + 1) : Good(row) \in 0..PerPass
    /\ \A row \in Bad : Good(row + 1) = Good(row)
    /\ \A row \in (1..Rows) \ Bad : Good(row + 1) = Good(row) + 1
<1>. DEFINE G(row) == (1..(row - 1)) \ Bad
<1>0. Rows \in Nat /\ Bad \subseteq 1..Rows
  BY StreamerAssumption
<1>1. IsFiniteSet((1..Rows) \ Bad) /\ Cardinality((1..Rows) \ Bad) = PerPass /\ PerPass \in Nat
  <2>1. IsFiniteSet(1..Rows)
    BY <1>0, IntervalCard
  <2>. QED
    BY <2>1, FS_Difference, PerPassFacts
<1>2. G(1) = {} /\ G(Rows + 1) = (1..Rows) \ Bad
  BY <1>0
<1>3. ASSUME NEW row \in 1..(Rows + 1)
      PROVE  IsFiniteSet(G(row)) /\ Cardinality(G(row)) \in 0..PerPass
  <2>1. G(row) \subseteq (1..Rows) \ Bad
    BY <1>0
  <2>. HIDE DEF G
  <2>2. IsFiniteSet(G(row)) /\ Cardinality(G(row)) <= PerPass
    BY <1>1, <2>1, FS_Subset
  <2>3. Cardinality(G(row)) \in Nat
    BY <2>2, FS_CardinalityType
  <2>. QED
    BY <1>1, <2>2, <2>3
<1>4. ASSUME NEW row \in Bad PROVE G(row + 1) = G(row)
  BY <1>0
<1>5. ASSUME NEW row \in (1..Rows) \ Bad
      PROVE  Cardinality(G(row + 1)) = Cardinality(G(row)) + 1
  <2>1. G(row + 1) = G(row) \cup {row} /\ row \notin G(row) /\ row \in 1..(Rows + 1)
    BY <1>0
  <2>. HIDE DEF G
  <2>. QED
    BY <1>3, <2>1, FS_AddElement
<1>6. \A row : Good(row) = Cardinality(G(row))
  BY DEF Good
<1>. HIDE DEF G
<1>. QED
  BY <1>1, <1>2, <1>3, <1>4, <1>5, <1>6, FS_EmptySet

\* The messages before a pass.
LEMMA BaseFacts ==
    /\ All \in Nat /\ Base(1) = 0 /\ Base(MaxPasses + 1) = All
    /\ \A pass \in 1..(MaxPasses + 1) : Base(pass) \in Nat
    /\ \A pass \in 1..MaxPasses :
          Base(pass + 1) = Base(pass) + PerPass /\ Base(pass) + PerPass <= All
<1>1. PerPass \in Nat /\ MaxPasses \in Nat \ {0}
  BY PerPassFacts, StreamerAssumption
<1>2. \A a \in Nat : a * PerPass \in Nat
  BY <1>1
<1>3. \A a \in Nat : (a + 1) * PerPass = a * PerPass + PerPass
  BY <1>1
<1>4. \A a, b \in Nat : a <= b => a * PerPass <= b * PerPass
  <2>. SUFFICES ASSUME NEW a \in Nat, NEW b \in Nat, a <= b PROVE a * PerPass <= b * PerPass
    OBVIOUS
  <2>1. b - a \in Nat /\ (b - a) * PerPass \in Nat
    BY <1>2
  <2>2. a * PerPass \in Nat /\ b * PerPass \in Nat
    BY <1>2
  <2>3. b * PerPass = a * PerPass + (b - a) * PerPass
    BY <1>1
  <2>. QED
    BY <2>1, <2>2, <2>3
<1>5. All = MaxPasses * PerPass /\ \A pass : Base(pass) = (pass - 1) * PerPass
  BY DEF All, Base
<1>6. All \in Nat /\ Base(1) = 0 /\ Base(MaxPasses + 1) = All
  <2>1. 1 - 1 = 0 /\ (MaxPasses + 1) - 1 = MaxPasses /\ 0 * PerPass = 0
    BY <1>1
  <2>. QED
    BY <1>1, <1>2, <1>5, <2>1
<1>7. ASSUME NEW pass \in 1..(MaxPasses + 1) PROVE Base(pass) \in Nat
  <2>1. pass - 1 \in Nat
    BY <1>1
  <2>. QED
    BY <1>2, <1>5, <2>1
<1>8. ASSUME NEW pass \in 1..MaxPasses
      PROVE  Base(pass + 1) = Base(pass) + PerPass /\ Base(pass) + PerPass <= All
  <2>1. /\ pass - 1 \in Nat /\ pass \in Nat /\ (pass - 1) + 1 = pass
        /\ (pass + 1) - 1 = pass /\ pass <= MaxPasses
    BY <1>1
  <2>2. pass * PerPass = (pass - 1) * PerPass + PerPass
    BY <1>3, <2>1
  <2>3. pass * PerPass <= MaxPasses * PerPass
    BY <1>1, <1>4, <2>1
  <2>. QED
    BY <1>5, <2>1, <2>2, <2>3
<1>. QED
  BY <1>6, <1>7, <1>8

-----------------------------------------------------------------------------
(* The store's numbers.                                                      *)

LEMMA NumbersFacts ==
    ASSUME NumbersOK
    PROVE  /\ LeaseMap \in [Consumers -> Nat] /\ InFlight = Total(LeaseMap) /\ InFlight \in Nat
           /\ stats.depth \in Nat /\ stats.retryDepth \in Nat
           /\ Used = stats.depth + stats.retryDepth + InFlight /\ Used \in Nat
           /\ Capacity \in Nat
<1>1. LeaseMap \in [Consumers -> Nat]
  BY DEF NumbersOK, HandlerRecord, LeaseMap
<1>2. InFlight = Total(LeaseMap) /\ InFlight \in Nat
  BY FS_CardinalityType DEF NumbersOK, InFlight, LeaseMap, Total
<1>3. stats.depth \in Nat /\ stats.retryDepth \in Nat
  BY DEF NumbersOK, StatsRecord
<1>4. Used = stats.depth + stats.retryDepth + InFlight
  BY DEF Used
<1>. QED
  BY <1>1, <1>2, <1>3, <1>4, ProcessAssumption

\* One handler's leases change.
LEMMA LeasesChange ==
    ASSUME NumbersOK, NEW c \in Consumers, NEW n \in Nat,
           \A d \in Consumers : handler'[d].leases = IF d = c THEN n ELSE handler[d].leases
    PROVE  /\ IsFiniteSet(Units(LeaseMap'))
           /\ InFlight' \in Nat /\ InFlight' = (InFlight - handler[c].leases) + n
           /\ handler[c].leases \in Nat
<1>1. /\ LeaseMap \in [Consumers -> Nat] /\ InFlight = Total(LeaseMap)
      /\ IsFiniteSet(Units(LeaseMap))
  BY NumbersFacts DEF NumbersOK
<1>2. LeaseMap' = [LeaseMap EXCEPT ![c] = n] /\ LeaseMap[c] = handler[c].leases
  BY DEF LeaseMap
<1>3. /\ IsFiniteSet(Units(LeaseMap')) /\ Total(LeaseMap') \in Nat
      /\ Total(LeaseMap') = (Total(LeaseMap) - LeaseMap[c]) + n
  BY <1>1, <1>2, TotalChange
<1>4. InFlight' = Total(LeaseMap')
  BY DEF InFlight, LeaseMap, Total, Units
<1>. QED
  BY <1>1, <1>2, <1>3, <1>4

\* No handler's leases change.
LEMMA LeasesStay ==
    ASSUME NumbersOK, \A d \in Consumers : handler'[d].leases = handler[d].leases
    PROVE  IsFiniteSet(Units(LeaseMap')) /\ InFlight' = InFlight
<1>1. LeaseMap' = LeaseMap
  BY DEF LeaseMap
<1>2. InFlight' = Total(LeaseMap') /\ InFlight = Total(LeaseMap)
  BY DEF InFlight, LeaseMap, Total, Units
<1>. QED
  BY <1>1, <1>2 DEF NumbersOK

\* The typing part of the numbers, after a step.
LEMMA NumbersGlue ==
    ASSUME NumbersOK, policy' = policy,
           stats' \in StatsRecord,
           handler' \in [Consumers -> HandlerRecord],
           \A c \in Consumers : Idle(handler'[c]),
           IsFiniteSet(Units(LeaseMap')), InFlight' \in Nat,
           stats'.depth + stats'.retryDepth + InFlight' <= Capacity
    PROVE  NumbersOK' /\ Used' = stats'.depth + stats'.retryDepth + InFlight' /\ Used' \in Nat
<1>1. Used' = stats'.depth + stats'.retryDepth + InFlight'
  BY DEF Used
<1>2. stats'.depth \in Nat /\ stats'.retryDepth \in Nat
  BY DEF StatsRecord
<1>3. Units(LeaseMap)' = Units(LeaseMap')
  BY DEF Units, LeaseMap
<1>. QED
  BY <1>1, <1>2, <1>3 DEF NumbersOK

\* A lease is taken: one message moves from a lane to a handler.
LEMMA TakeStep ==
    ASSUME NumbersOK, NEW c \in Consumers, NEW lane \in {"depth", "retryDepth"}, Take(c, lane)
    PROVE  NumbersOK' /\ Used' = Used
<1>0. /\ stats.depth \in Nat /\ stats.retryDepth \in Nat
      /\ Used = stats.depth + stats.retryDepth + InFlight /\ InFlight \in Nat
      /\ Used <= Capacity /\ Capacity \in Nat
  BY NumbersFacts DEF NumbersOK
<1>1. /\ policy' = policy /\ handler[c].at = "open" /\ stats[lane] > 0
      /\ stats' = [stats EXCEPT ![lane] = @ - 1]
      /\ handler' = [handler EXCEPT ![c].leases = @ + 1]
  BY DEF Take
<1>2. handler[c].leases + 1 \in Nat /\ handler[c].leases \in Nat
  BY DEF NumbersOK, HandlerRecord
<1>3. /\ handler' \in [Consumers -> HandlerRecord]
      /\ \A d \in Consumers : /\ handler'[d].at = handler[d].at
                              /\ handler'[d].acked = handler[d].acked
                              /\ handler'[d].leases = IF d = c THEN handler[c].leases + 1
                                                      ELSE handler[d].leases
  BY <1>1, <1>2 DEF NumbersOK, HandlerRecord
<1>4. \A d \in Consumers : Idle(handler'[d])
  BY <1>1, <1>3 DEF NumbersOK, Idle
<1>5. IsFiniteSet(Units(LeaseMap')) /\ InFlight' \in Nat /\ InFlight' = InFlight + 1
  <2>1. /\ IsFiniteSet(Units(LeaseMap')) /\ InFlight' \in Nat
        /\ InFlight' = (InFlight - handler[c].leases) + (handler[c].leases + 1)
    BY <1>2, <1>3, LeasesChange
  <2>. QED
    BY <1>0, <1>2, <2>1
<1>6. stats[lane] \in Nat /\ stats[lane] - 1 \in Nat
  BY <1>0, <1>1
<1>7. /\ stats' \in StatsRecord
      /\ \/ stats'.depth = stats.depth - 1 /\ stats'.retryDepth = stats.retryDepth
         \/ stats'.depth = stats.depth /\ stats'.retryDepth = stats.retryDepth - 1
  BY <1>1, <1>6 DEF NumbersOK, StatsRecord
<1>8. stats'.depth + stats'.retryDepth + InFlight' = Used
  BY <1>0, <1>5, <1>7
<1>. QED
  BY <1>0, <1>1, <1>3, <1>4, <1>5, <1>7, <1>8, NumbersGlue

\* A lease ends: the message leaves the budget or goes to the retry lane.
LEMMA LeaseEndsStep ==
    ASSUME NumbersOK, NEW c \in Consumers, Consume(c) \/ Requeue(c) \/ DeadLetter(c)
    PROVE  NumbersOK' /\ Used' \in Nat /\ Used' <= Used
<1>0. /\ stats.depth \in Nat /\ stats.retryDepth \in Nat
      /\ Used = stats.depth + stats.retryDepth + InFlight /\ InFlight \in Nat
      /\ Used <= Capacity /\ Capacity \in Nat
  BY NumbersFacts DEF NumbersOK
<1>1. /\ policy' = policy /\ handler[c].leases > 0
      /\ \/ handler' = [handler EXCEPT ![c].leases = @ - 1]
         \/ handler' = [handler EXCEPT ![c].leases = @ - 1, ![c].acked = TRUE]
  BY DEF Consume, Requeue, DeadLetter, LeaseEnds
<1>2. handler[c].leases - 1 \in Nat /\ handler[c].leases \in Nat
  BY <1>1 DEF NumbersOK, HandlerRecord
<1>3. /\ handler' \in [Consumers -> HandlerRecord]
      /\ \A d \in Consumers : /\ handler'[d].at = handler[d].at
                              /\ d # c => handler'[d].acked = handler[d].acked
                              /\ handler'[d].leases = IF d = c THEN handler[c].leases - 1
                                                      ELSE handler[d].leases
  <2>1. CASE handler' = [handler EXCEPT ![c].leases = @ - 1]
    BY <1>2, <2>1 DEF NumbersOK, HandlerRecord
  <2>2. CASE handler' = [handler EXCEPT ![c].leases = @ - 1, ![c].acked = TRUE]
    BY <1>2, <2>2 DEF NumbersOK, HandlerRecord
  <2>. QED
    BY <1>1, <2>1, <2>2
<1>4. \A d \in Consumers : Idle(handler'[d])
  BY <1>1, <1>2, <1>3 DEF NumbersOK, Idle
<1>5. IsFiniteSet(Units(LeaseMap')) /\ InFlight' \in Nat /\ InFlight' = InFlight - 1
  <2>1. /\ IsFiniteSet(Units(LeaseMap')) /\ InFlight' \in Nat
        /\ InFlight' = (InFlight - handler[c].leases) + (handler[c].leases - 1)
    BY <1>2, <1>3, LeasesChange
  <2>. QED
    BY <1>0, <1>2, <2>1
<1>6. /\ stats.retryDepth + 1 \in Nat
      /\ (IF stats.dlqDepth < DLQCapacity THEN stats.dlqDepth + 1 ELSE stats.dlqDepth)
            \in 0..DLQCapacity
  BY <1>0, ProcessAssumption DEF NumbersOK, StatsRecord
<1>7. /\ stats' \in StatsRecord
      /\ stats'.depth = stats.depth
      /\ stats'.retryDepth = stats.retryDepth \/ stats'.retryDepth = stats.retryDepth + 1
  <2>1. CASE Consume(c)
    BY <2>1 DEF Consume, NumbersOK
  <2>2. CASE Requeue(c)
    BY <1>6, <2>2 DEF Requeue, NumbersOK, StatsRecord
  <2>3. CASE DeadLetter(c)
    BY <1>6, <2>3 DEF DeadLetter, NumbersOK, StatsRecord
  <2>. QED
    BY <2>1, <2>2, <2>3
<1>8. stats'.depth + stats'.retryDepth + InFlight' <= Used
  BY <1>0, <1>5, <1>7
<1>9. stats'.depth + stats'.retryDepth + InFlight' <= Capacity
  BY <1>0, <1>5, <1>7, <1>8
<1>. QED
  BY <1>1, <1>3, <1>4, <1>5, <1>7, <1>8, <1>9, NumbersGlue

\* A handler starts, is left or returns: it holds no lease while it does not count.
LEMMA HandlerStep ==
    ASSUME NumbersOK, NEW c \in Consumers, Connect(c) \/ CountAck(c) \/ Leave(c) \/ Returned(c)
    PROVE  NumbersOK' /\ Used' = Used
<1>0. /\ stats.depth \in Nat /\ stats.retryDepth \in Nat
      /\ Used = stats.depth + stats.retryDepth + InFlight /\ InFlight \in Nat
      /\ Used <= Capacity
  BY NumbersFacts DEF NumbersOK
<1>1. /\ policy' = policy /\ stats' \in StatsRecord
      /\ stats'.depth = stats.depth /\ stats'.retryDepth = stats.retryDepth
  BY DEF Connect, CountAck, Leave, Returned, NumbersOK, StatsRecord
<1>2. /\ handler' \in [Consumers -> HandlerRecord]
      /\ \A d \in Consumers : handler'[d].leases = handler[d].leases
      /\ \A d \in Consumers : Idle(handler'[d])
  <2>1. CASE Connect(c)
    BY <2>1 DEF Connect, NumbersOK, HandlerRecord, Idle
  <2>2. CASE Leave(c)
    BY <2>2 DEF Leave, NumbersOK, HandlerRecord, Idle
  <2>3. CASE Returned(c)
    BY <2>3 DEF Returned, NoHandler, NumbersOK, HandlerRecord, Idle
  <2>4. CASE CountAck(c)
    BY <2>4 DEF CountAck, NumbersOK, HandlerRecord, Idle
  <2>. QED
    BY <2>1, <2>2, <2>3, <2>4
<1>3. IsFiniteSet(Units(LeaseMap')) /\ InFlight' = InFlight
  BY <1>2, LeasesStay
<1>. QED
  BY <1>0, <1>1, <1>2, <1>3, NumbersGlue DEF NumbersOK

\* A message is admitted.
LEMMA AdmitStep ==
    ASSUME NumbersOK, NEW call, EnqueueNext(call)
    PROVE  NumbersOK' /\ Used' \in Nat /\ Used' <= Used + 1
<1>0. /\ stats.depth \in Nat /\ stats.retryDepth \in Nat
      /\ Used = stats.depth + stats.retryDepth + InFlight /\ InFlight \in Nat
      /\ Used <= Capacity /\ Capacity \in Nat
  BY NumbersFacts DEF NumbersOK
<1>1. policy' = policy /\ handler' = handler
  BY DEF EnqueueNext
<1>2. IsFiniteSet(Units(LeaseMap')) /\ InFlight' = InFlight
  BY <1>1, LeasesStay
<1>3. stats.depth + 1 \in Nat
  BY <1>0
<1>4. /\ stats' \in StatsRecord
      /\ stats'.retryDepth = stats.retryDepth
      /\ \/ Used < Capacity /\ stats'.depth = stats.depth + 1
         \/ stats'.depth = stats.depth
  BY <1>3 DEF EnqueueNext, NumbersOK, StatsRecord
<1>5. /\ stats'.depth + stats'.retryDepth + InFlight' <= Capacity
      /\ stats'.depth + stats'.retryDepth + InFlight' <= Used + 1
  BY <1>0, <1>2, <1>4
<1>. QED
  BY <1>0, <1>1, <1>2, <1>4, <1>5, NumbersGlue DEF NumbersOK

\* The process is gone and with it everything it held.
LEMMA LostStep ==
    ASSUME NumbersOK, MemoryLost
    PROVE  NumbersOK' /\ Used' = 0
<1>1. policy' = policy /\ stats' = NoMessages /\ handler' = [c \in Consumers |-> NoHandler]
  BY DEF MemoryLost
<1>2. DOMAIN LeaseMap' = Consumers /\ \A c \in Consumers : LeaseMap'[c] = 0
  BY <1>1 DEF LeaseMap, NoHandler
<1>3. IsFiniteSet(Units(LeaseMap')) /\ Total(LeaseMap') = 0
  BY <1>2, TotalZero
<1>4. InFlight' = 0
  BY <1>3 DEF InFlight, LeaseMap, Total, Units
<1>5. /\ stats' \in StatsRecord
      /\ stats'.depth = 0 /\ stats'.retryDepth = 0
  BY <1>1, ProcessAssumption DEF NoMessages, StatsRecord
<1>6. /\ handler' \in [Consumers -> HandlerRecord]
      /\ \A c \in Consumers : Idle(handler'[c])
  BY <1>1 DEF NoHandler, HandlerRecord, Idle
<1>7. 0 + 0 + 0 <= Capacity /\ 0 + 0 + 0 = 0
  BY ProcessAssumption
<1>. QED
  BY <1>1, <1>3, <1>4, <1>5, <1>6, <1>7, NumbersGlue

\* Nothing but the loop's view of the acks changes.
LEMMA NumbersStay ==
    ASSUME NumbersOK, policy' = policy, handler' = handler,
           stats' = stats \/ stats' = [stats EXCEPT !.consumed = 0]
    PROVE  NumbersOK' /\ Used' = Used
<1>0. /\ stats.depth \in Nat /\ stats.retryDepth \in Nat
      /\ Used = stats.depth + stats.retryDepth + InFlight /\ InFlight \in Nat
      /\ Used <= Capacity
  BY NumbersFacts DEF NumbersOK
<1>1. IsFiniteSet(Units(LeaseMap')) /\ InFlight' = InFlight
  BY LeasesStay
<1>2. /\ stats' \in StatsRecord
      /\ stats'.depth = stats.depth /\ stats'.retryDepth = stats.retryDepth
  BY DEF NumbersOK, StatsRecord
<1>. QED
  BY <1>0, <1>1, <1>2, NumbersGlue DEF NumbersOK

\* Dead letters come back into the budget.
LEMMA ReplayStep ==
    ASSUME NumbersOK, seen.late \in Nat, Replay
    PROVE  /\ NumbersOK'
           /\ \E n \in Nat :
                 /\ Used' = Used + n
                 /\ seen' = [seen EXCEPT !.late = IF drain.exit = "complete" THEN @ + n ELSE @]
<1>0. /\ stats.depth \in Nat /\ stats.retryDepth \in Nat
      /\ Used = stats.depth + stats.retryDepth + InFlight /\ InFlight \in Nat
      /\ Used <= Capacity /\ Capacity \in Nat /\ Used \in Nat
  BY NumbersFacts DEF NumbersOK
<1>1. /\ stats.dlqDepth \in 0..DLQCapacity /\ stats.replays \in 0..MaxReplays
      /\ DLQCapacity \in Nat /\ MaxReplays \in Nat
  BY ProcessAssumption DEF NumbersOK, StatsRecord
<1>. DEFINE room == Capacity - Used
            n == IF stats.dlqDepth < room THEN stats.dlqDepth ELSE room
<1>2. /\ policy' = policy /\ handler' = handler /\ stats.replays < MaxReplays
      /\ stats' = [stats EXCEPT !.depth = @ + n, !.dlqDepth = @ - n, !.replays = @ + 1]
      /\ seen' = [seen EXCEPT !.late = IF drain.exit = "complete" THEN @ + n ELSE @]
  BY DEF Replay
<1>3. /\ n \in Nat /\ stats.depth + n \in Nat /\ stats.dlqDepth - n \in 0..DLQCapacity
      /\ Used + n <= Capacity /\ stats.replays + 1 \in 0..MaxReplays
  BY <1>0, <1>1, <1>2
<1>. HIDE DEF n
<1>4. IsFiniteSet(Units(LeaseMap')) /\ InFlight' = InFlight
  BY <1>2, LeasesStay
<1>5. /\ stats' \in StatsRecord
      /\ stats'.depth = stats.depth + n /\ stats'.retryDepth = stats.retryDepth
  BY <1>2, <1>3 DEF NumbersOK, StatsRecord
<1>6. /\ stats'.depth + stats'.retryDepth + InFlight' = Used + n
      /\ stats'.depth + stats'.retryDepth + InFlight' <= Capacity
  BY <1>0, <1>3, <1>4, <1>5
<1>7. NumbersOK' /\ Used' = Used + n
  BY <1>0, <1>2, <1>4, <1>5, <1>6, NumbersGlue DEF NumbersOK
<1>. QED
  BY <1>2, <1>3, <1>7

-----------------------------------------------------------------------------
(* What calls offer.                                                         *)

OfferOf(C) == [call \in {c \in C : c.at = "enqueue"} |-> Left(call)]

Offer(call) == IF call.at = "enqueue" THEN Left(call) ELSE 0

\* A call goes.
LEMMA OffersDrop ==
    ASSUME NEW C, \A c \in C : Left(c) \in Nat, IsFiniteSet(Units(OfferOf(C))), NEW x \in C
    PROVE  /\ IsFiniteSet(Units(OfferOf(C \ {x}))) /\ Total(OfferOf(C \ {x})) \in Nat
           /\ Total(OfferOf(C)) = Total(OfferOf(C \ {x})) + Offer(x)
           /\ Offer(x) \in Nat
<1>. DEFINE S == {c \in C : c.at = "enqueue"}
            f == OfferOf(C)
<1>1. f \in [S -> Nat] /\ Offer(x) \in Nat
  BY DEF OfferOf, Offer
<1>2. CASE x.at = "enqueue"
  <2>1. x \in S /\ f[x] = Offer(x)
    BY <1>2 DEF OfferOf, Offer
  <2>2. OfferOf(C \ {x}) = [y \in S \ {x} |-> f[y]]
    <3>1. {c \in C \ {x} : c.at = "enqueue"} = S \ {x}
      OBVIOUS
    <3>. QED
      BY <3>1 DEF OfferOf
  <2>. HIDE DEF S, f
  <2>3. IsFiniteSet(Units(f))
    BY DEF f
  <2>4. /\ IsFiniteSet(Units([y \in S \ {x} |-> f[y]]))
        /\ Total([y \in S \ {x} |-> f[y]]) \in Nat
        /\ Total(f) = Total([y \in S \ {x} |-> f[y]]) + f[x]
    BY <1>1, <2>1, <2>3, TotalSplit
  <2>. QED
    BY <1>1, <2>1, <2>2, <2>4 DEF f
<1>3. CASE x.at # "enqueue"
  <2>1. OfferOf(C \ {x}) = OfferOf(C)
    <3>1. {c \in C \ {x} : c.at = "enqueue"} = S
      BY <1>3
    <3>. QED
      BY <3>1 DEF OfferOf
  <2>2. Offer(x) = 0
    BY <1>3 DEF Offer
  <2>3. Total(OfferOf(C)) \in Nat
    BY FS_CardinalityType DEF Total
  <2>. QED
    BY <2>1, <2>2, <2>3
<1>. QED
  BY <1>2, <1>3

\* A call comes.
LEMMA OffersAdd ==
    ASSUME NEW C, \A c \in C : Left(c) \in Nat, IsFiniteSet(Units(OfferOf(C))),
           NEW x, Left(x) \in Nat
    PROVE  /\ IsFiniteSet(Units(OfferOf(C \cup {x}))) /\ Total(OfferOf(C \cup {x})) \in Nat
           /\ Total(OfferOf(C \cup {x})) <= Total(OfferOf(C)) + Offer(x)
<1>0. Total(OfferOf(C)) \in Nat
  BY FS_CardinalityType DEF Total
<1>1. Offer(x) \in Nat
  BY DEF Offer
<1>2. CASE x \in C \/ x.at # "enqueue"
  <2>1. {c \in C \cup {x} : c.at = "enqueue"} = {c \in C : c.at = "enqueue"}
    BY <1>2
  <2>2. OfferOf(C \cup {x}) = OfferOf(C)
    BY <2>1 DEF OfferOf
  <2>. QED
    BY <1>0, <1>1, <2>2
<1>3. CASE x \notin C /\ x.at = "enqueue"
  <2>. DEFINE T == {c \in C \cup {x} : c.at = "enqueue"}
              g == OfferOf(C \cup {x})
  <2>1. g \in [T -> Nat] /\ x \in T /\ g[x] = Offer(x)
    BY <1>3 DEF OfferOf, Offer
  <2>2. [y \in T \ {x} |-> g[y]] = OfferOf(C)
    <3>1. T \ {x} = {c \in C : c.at = "enqueue"}
      BY <1>3
    <3>. QED
      BY <3>1 DEF OfferOf
  <2>. HIDE DEF T, g
  <2>3. IsFiniteSet(Units(g)) /\ Total(g) = Total(OfferOf(C)) + Offer(x)
    BY <2>1, <2>2, TotalSplit
  <2>. QED
    BY <1>0, <1>1, <2>3 DEF g
<1>. QED
  BY <1>2, <1>3

\* A call moves on.
LEMMA OffersReplace ==
    ASSUME NEW C, \A c \in C : Left(c) \in Nat, IsFiniteSet(Units(OfferOf(C))), NEW x \in C,
           NEW y, Left(y) \in Nat
    PROVE  LET D == (C \ {x}) \cup {y}
           IN  /\ IsFiniteSet(Units(OfferOf(D))) /\ Total(OfferOf(D)) \in Nat
               /\ Total(OfferOf(C)) \in Nat
               /\ Total(OfferOf(D)) <= (Total(OfferOf(C)) - Offer(x)) + Offer(y)
<1>. DEFINE B == C \ {x}
<1>1. /\ IsFiniteSet(Units(OfferOf(B))) /\ Total(OfferOf(B)) \in Nat
      /\ Total(OfferOf(C)) = Total(OfferOf(B)) + Offer(x) /\ Offer(x) \in Nat
  BY OffersDrop
<1>2. \A c \in B : Left(c) \in Nat
  OBVIOUS
<1>. HIDE DEF B
<1>3. /\ IsFiniteSet(Units(OfferOf(B \cup {y}))) /\ Total(OfferOf(B \cup {y})) \in Nat
      /\ Total(OfferOf(B \cup {y})) <= Total(OfferOf(B)) + Offer(y)
  BY <1>1, <1>2, OffersAdd
<1>4. Offer(y) \in Nat
  BY DEF Offer
<1>. QED
  BY <1>1, <1>3, <1>4 DEF B

-----------------------------------------------------------------------------
(* The steps, sorted by what they touch.                                     *)

\* The process goes on as it was; only calls and streamers move.
Still == UNCHANGED <<phase, policy, runs, stats, handler, drain, seen>>

\* A streamer's step; a call's step without an admission.
CallerMove(s) == StreamerStep(s) \/ CallBreaks(s) \/ Cancel(s)

CallMove(call) ==
    \/ (CheckDraining(call) \/ EnqueueRefused(call)) /\ UNCHANGED strmVars
    \/ OrphanReturns(call)

\* A message is admitted.
AdmitMove(call) ==
    /\ EnqueueNext(call)
    /\ copies' = [copies EXCEPT ![call.msgs[call.accepted + 1]] = @ + 1]
    /\ UNCHANGED <<strm, faults>>

LEMMA NextSplit ==
    ASSUME Next
    PROVE  \/ Still /\ \E s \in Streamers : CallerMove(s)
           \/ Still /\ \E call \in calls : CallMove(call)
           \/ \E call \in calls : AdmitMove(call)
           \/ ProcStep /\ UNCHANGED strmVars
           \/ UNCHANGED vars
<1>1. ASSUME NEW s \in Streamers, CallerMove(s) PROVE Still
  BY <1>1 DEF CallerMove, StreamerStep, SkipRow, ReadRow, EndPass, Send, ServerGone, Reply,
              CallBreaks, Cancel, Still, procVars
<1>2. ASSUME NEW call \in calls, CallMove(call) PROVE Still
  BY <1>2 DEF CallMove, CheckDraining, EnqueueRefused, OrphanReturns, Still
<1>3. ASSUME NEW call \in calls, Serve(call) \/ OrphanReturns(call)
      PROVE  CallMove(call) \/ AdmitMove(call)
  BY <1>3 DEF Serve, CallMove, AdmitMove
<1>. QED
  BY <1>1, <1>2, <1>3 DEF Next, ServerStep, CallerMove, Finished

\* What the process does by itself never adds to the store, but for a replay.
LEMMA NumbersProc ==
    ASSUME NumbersOK, ProcStep, ~Replay
    PROVE  NumbersOK' /\ Used' \in Nat /\ Used' <= Used
<1>0. Used \in Nat
  BY NumbersFacts
<1>. DEFINE Fine == NumbersOK' /\ Used' \in Nat /\ Used' <= Used
<1>1. ASSUME NEW c \in Consumers,
             \/ Connect(c) \/ Leave(c) \/ Returned(c)
             \/ \E lane \in {"depth", "retryDepth"} : Take(c, lane)
             \/ Consume(c) \/ CountAck(c) \/ Requeue(c) \/ DeadLetter(c)
      PROVE  Fine
  <2>1. CASE Connect(c) \/ CountAck(c) \/ Leave(c) \/ Returned(c)
    BY <1>0, <2>1, HandlerStep
  <2>2. CASE \E lane \in {"depth", "retryDepth"} : Take(c, lane)
    BY <1>0, <2>2, TakeStep
  <2>3. CASE Consume(c) \/ Requeue(c) \/ DeadLetter(c)
    BY <1>0, <2>3, LeaseEndsStep
  <2>. QED
    BY <1>1, <2>1, <2>2, <2>3
<1>2. ASSUME \/ BeginDrain \/ DrainTick \/ LoadConsumed \/ DrainStats \/ DrainDeadline
             \/ Shutdown \/ Start
      PROVE  Fine
  <2>1. policy' = policy /\ handler' = handler
    BY <1>2 DEF BeginDrain, DrainTick, LoadConsumed, DrainStats, Judge, DrainDeadline, EndDrain,
                Shutdown, Start
  <2>2. stats' = stats \/ stats' = [stats EXCEPT !.consumed = 0]
    BY <1>2 DEF BeginDrain, DrainTick, LoadConsumed, DrainStats, Judge, DrainDeadline, EndDrain,
                Shutdown, Start
  <2>. QED
    BY <1>0, <2>1, <2>2, NumbersStay
<1>3. ASSUME Exit \/ Crash PROVE Fine
  <2>1. NumbersOK' /\ Used' = 0
    BY <1>3, LostStep DEF Exit, Crash
  <2>. QED
    BY <1>0, <2>1
<1>. HIDE DEF Fine
<1>4. Fine
  BY <1>1, <1>2, <1>3 DEF ProcStep
<1>. QED
  BY <1>4 DEF Fine

\* The store's numbers stay right, and only admissions and replays add to them.
LEMMA NumbersStep ==
    ASSUME NumbersOK, seen.late \in Nat, Next
    PROVE  NumbersOK' /\ Used \in Nat /\ Used' \in Nat
<1>0. Used \in Nat
  BY NumbersFacts
<1>1. ASSUME Still \/ UNCHANGED vars PROVE NumbersOK' /\ Used' = Used
  <2>1. policy' = policy /\ handler' = handler /\ stats' = stats
    BY <1>1 DEF Still, vars, procVars
  <2>. QED
    BY <2>1, NumbersStay
<1>2. ASSUME NEW call \in calls, AdmitMove(call) PROVE NumbersOK' /\ Used' \in Nat
  BY <1>2, AdmitStep DEF AdmitMove
<1>3. ASSUME ProcStep PROVE NumbersOK' /\ Used' \in Nat
  <2>1. CASE Replay
    <3>1. NumbersOK' /\ \E n \in Nat : Used' = Used + n
      BY <2>1, ReplayStep
    <3>. QED
      BY <1>0, <3>1
  <2>2. CASE ~Replay
    BY <1>3, <2>2, NumbersProc
  <2>. QED
    BY <2>1, <2>2
<1>. QED
  BY <1>0, <1>1, <1>2, <1>3, NextSplit

\* The process moves through its life in order.
LEMMA PhaseStep ==
    ASSUME NumbersOK, PhaseOK, Next
    PROVE  PhaseOK'
<1>0. StallTicks \in Nat \ {0} /\ MaxRuns \in Nat \ {0}
  BY ProcessAssumption
<1>1. ASSUME UNCHANGED <<phase, runs, drain>> PROVE PhaseOK'
  BY <1>1 DEF PhaseOK
<1>2. ASSUME Still \/ UNCHANGED vars \/ \E call \in calls : AdmitMove(call)
      PROVE  UNCHANGED <<phase, runs, drain>>
  BY <1>2 DEF Still, vars, procVars, AdmitMove, EnqueueNext
<1>3. ASSUME NEW c \in Consumers,
             \/ Connect(c) \/ Leave(c) \/ Returned(c)
             \/ \E lane \in {"depth", "retryDepth"} : Take(c, lane)
             \/ Consume(c) \/ CountAck(c) \/ Requeue(c) \/ DeadLetter(c)
      PROVE  UNCHANGED <<phase, runs, drain>>
  BY <1>3 DEF Connect, Leave, Returned, Take, Consume, CountAck, Requeue, DeadLetter, LeaseEnds
<1>4. NoDrain \in DrainRecord
  BY <1>0 DEF NoDrain, DrainRecord
<1>5. CASE BeginDrain
  BY <1>5 DEF BeginDrain, PhaseOK, NoDrain
<1>6. ASSUME NEW why \in {"complete", "stalled", "deadline"}, EndDrain(why), phase = "draining"
      PROVE  PhaseOK'
  <2>1. phase' = "leaving" /\ runs' = runs /\ drain' = [NoDrain EXCEPT !.exit = why]
    BY <1>6 DEF EndDrain
  <2>2. drain' \in DrainRecord
    BY <1>4, <2>1 DEF DrainRecord
  <2>. QED
    BY <1>6, <2>1, <2>2 DEF PhaseOK
<1>7. CASE DrainTick
  <2>1. CASE EndDrain("complete")
    BY <1>6, <1>7, <2>1 DEF DrainTick
  <2>2. CASE drain' = [drain EXCEPT !.at = "stats"] /\ UNCHANGED <<phase, runs>>
    BY <1>7, <2>2 DEF DrainTick, PhaseOK, DrainRecord
  <2>. QED
    BY <1>7, <2>1, <2>2 DEF DrainTick
<1>8. CASE DrainStats
  <2>. DEFINE ticks == IF ActiveConsumers = {} /\ drain.consumed = drain.lastConsumed
                       THEN drain.idleTicks + 1 ELSE 0
  <2>1. Judge(ticks)
    BY <1>8 DEF DrainStats
  <2>2. ticks \in Nat
    BY <1>0 DEF PhaseOK, DrainRecord
  <2>. HIDE DEF ticks
  <2>3. CASE ticks >= StallTicks
    BY <1>6, <2>1, <2>3 DEF Judge
  <2>4. CASE ~(ticks >= StallTicks)
    <3>1. ticks \in 0..(StallTicks - 1)
      BY <1>0, <2>2, <2>4
    <3>2. /\ drain' = [drain EXCEPT !.at = "tick", !.idleTicks = ticks,
                                    !.consumed = 0, !.lastConsumed = 0]
          /\ UNCHANGED <<phase, runs>> /\ phase = "draining"
      BY <2>1, <2>4 DEF Judge
    <3>. QED
      BY <3>1, <3>2 DEF PhaseOK, DrainRecord
  <2>. QED
    BY <2>3, <2>4
<1>9. CASE DrainDeadline
  BY <1>6, <1>9 DEF DrainDeadline
<1>10. CASE Shutdown
  BY <1>10 DEF Shutdown, PhaseOK
<1>11. CASE Exit \/ Crash
  <2>1. phase' = "down" /\ runs' = runs /\ drain' = NoDrain /\ runs < MaxRuns
    BY <1>11 DEF Exit, Crash, MemoryLost, PhaseOK
  <2>. QED
    BY <1>4, <2>1 DEF PhaseOK
<1>12. CASE Start
  <2>1. runs + 1 \in 1..MaxRuns
    BY <1>0, <1>12 DEF Start, PhaseOK
  <2>. QED
    BY <1>12, <2>1 DEF Start, PhaseOK
<1>13. CASE LoadConsumed
  <2>1. stats.consumed \in {0, 1}
    BY DEF NumbersOK, StatsRecord
  <2>2. /\ drain' = [drain EXCEPT !.at = "active", !.consumed = stats.consumed]
        /\ UNCHANGED <<phase, runs>>
    BY <1>13 DEF LoadConsumed
  <2>. QED
    BY <1>13, <2>1, <2>2 DEF LoadConsumed, PhaseOK, DrainRecord
<1>14. CASE Replay
  BY <1>1, <1>14 DEF Replay
<1>15. CASE ProcStep
  BY <1>1, <1>3, <1>5, <1>7, <1>8, <1>9, <1>10, <1>11, <1>12, <1>13, <1>14, <1>15 DEF ProcStep
<1>. QED
  BY <1>1, <1>2, <1>15, NextSplit

\* The idle ticks of the drain loop are backed by silence.
LEMMA SilenceStep ==
    ASSUME NumbersOK, PhaseOK, SilenceOK, IsFiniteSet(Units(OfferMap)), Next
    PROVE  SilenceOK'
<1>0. /\ StallTicks \in Nat \ {0} /\ seen \in SeenRecord
      /\ seen.late \in Nat /\ seen.ack \in BOOLEAN /\ seen.quiet \in Int
  BY ProcessAssumption DEF SilenceOK, SeenRecord
<1>1. ASSUME seen' = seen, drain' = drain, phase' = phase, stats'.consumed = stats.consumed
      PROVE  SilenceOK'
  BY <1>1 DEF SilenceOK, StallNeedsSilence
<1>2. CASE Still \/ UNCHANGED vars
  BY <1>1, <1>2 DEF Still, vars, procVars
<1>3. ASSUME NEW call \in calls, AdmitMove(call) PROVE SilenceOK'
  <2>1. seen' = seen /\ drain' = drain /\ phase' = phase
    BY <1>3 DEF AdmitMove, EnqueueNext
  <2>2. stats'.consumed = stats.consumed
    BY <1>3 DEF AdmitMove, EnqueueNext, NumbersOK, StatsRecord
  <2>. QED
    BY <1>1, <2>1, <2>2
<1>4. ASSUME NEW c \in Consumers,
             \/ Connect(c) \/ Leave(c) \/ Returned(c)
             \/ \E lane \in {"depth", "retryDepth"} : Take(c, lane)
             \/ Consume(c) \/ Requeue(c) \/ DeadLetter(c)
      PROVE  SilenceOK'
  <2>1. drain' = drain /\ phase' = phase /\ seen' = seen
    BY <1>4 DEF Connect, Leave, Returned, Take, Consume, Requeue, DeadLetter, LeaseEnds
  <2>2. stats'.consumed = stats.consumed
    BY <1>4 DEF Connect, Leave, Returned, Take, Consume, Requeue, DeadLetter, LeaseEnds,
                NumbersOK, StatsRecord
  <2>. QED
    BY <1>1, <2>1, <2>2
<1>5. ASSUME NEW c \in Consumers, CountAck(c) PROVE SilenceOK'
  <2>1. /\ drain' = drain /\ phase' = phase
        /\ stats' = [stats EXCEPT !.consumed = IF phase = "draining" THEN 1 ELSE @]
        /\ seen' = [seen EXCEPT !.ack = phase = "draining"]
    BY <1>5 DEF CountAck
  <2>2. /\ seen' \in SeenRecord /\ seen'.quiet = seen.quiet
        /\ seen' = [seen EXCEPT !.ack = (phase = "draining")]
    BY <2>1 DEF SilenceOK, SeenRecord
  <2>3. phase = "draining" => stats'.consumed = 1
    BY <2>1 DEF NumbersOK, StatsRecord
  <2>4. phase \in {"serving", "down"} => seen' = NothingSeen
    <3>1. ASSUME phase \in {"serving", "down"} PROVE seen' = NothingSeen
      <4>1. seen = NothingSeen /\ seen' = [seen EXCEPT !.ack = FALSE]
        BY <2>1, <3>1 DEF SilenceOK
      <4>. QED
        BY <4>1 DEF NothingSeen
    <3>. QED
      BY <3>1
  <2>. QED
    BY <2>1, <2>2, <2>3, <2>4 DEF SilenceOK, StallNeedsSilence
<1>6. CASE BeginDrain
  <2>1. /\ phase' = "draining" /\ drain' = NoDrain /\ seen' = NothingSeen /\ stats' = stats
    BY <1>6 DEF BeginDrain, PhaseOK, SilenceOK
  <2>2. /\ seen'.ack = FALSE /\ seen'.quiet = 0 /\ seen' \in SeenRecord
        /\ drain'.idleTicks = 0 /\ drain'.exit = "none"
    BY <2>1 DEF NoDrain, NothingSeen, SeenRecord
  <2>3. seen'.quiet >= drain'.idleTicks
    BY <2>2
  <2>. QED
    BY <2>1, <2>2, <2>3 DEF SilenceOK, StallNeedsSilence
<1>7. ASSUME NEW why \in {"complete", "deadline"}, EndDrain(why), seen' \in SeenRecord
      PROVE  SilenceOK'
  <2>1. phase' = "leaving" /\ drain'.exit = why
    BY <1>7 DEF EndDrain, NoDrain
  <2>. QED
    BY <1>7, <2>1 DEF SilenceOK, StallNeedsSilence
<1>8. CASE DrainTick
  <2>1. CASE EndDrain("complete") /\ seen' = [NothingSeen EXCEPT !.late = Offered]
    <3>1. Offered \in Nat
      BY FS_CardinalityType DEF Offered, OfferMap, Total
    <3>2. seen' \in SeenRecord
      <4>1. seen' = [late |-> Offered, ack |-> FALSE, quiet |-> 0]
        BY <2>1 DEF NothingSeen
      <4>. QED
        BY <3>1, <4>1 DEF SeenRecord
    <3>. QED
      BY <1>7, <2>1, <3>2
  <2>2. CASE drain' = [drain EXCEPT !.at = "stats"] /\ UNCHANGED <<phase, stats, seen>>
    <3>1. /\ drain'.idleTicks = drain.idleTicks /\ drain'.exit = drain.exit
          /\ phase = "draining" /\ drain.at = "tick"
      BY <1>8, <2>2 DEF DrainTick, PhaseOK, DrainRecord
    <3>2. seen.quiet >= drain.idleTicks /\ (seen.ack => stats.consumed = 1)
      BY <3>1 DEF SilenceOK
    <3>. QED
      BY <2>2, <3>1, <3>2 DEF SilenceOK, StallNeedsSilence
  <2>. QED
    BY <1>8, <2>1, <2>2 DEF DrainTick
<1>9. CASE LoadConsumed
  <2>. DEFINE heard == seen.ack \/ drain.lastConsumed = -1
  <2>1. /\ phase = "draining" /\ phase' = phase /\ drain.at = "stats"
        /\ drain' = [drain EXCEPT !.at = "active", !.consumed = stats.consumed]
        /\ seen' = [seen EXCEPT !.ack = FALSE, !.quiet = IF heard THEN -1 ELSE @]
    BY <1>9 DEF LoadConsumed
  <2>2. /\ drain'.idleTicks = drain.idleTicks /\ drain'.exit = drain.exit
        /\ drain'.at = "active" /\ drain'.consumed = stats.consumed
        /\ drain'.lastConsumed = drain.lastConsumed
    BY <2>1 DEF PhaseOK, DrainRecord
  <2>3. /\ seen' \in SeenRecord /\ seen'.ack = FALSE
        /\ seen'.quiet = IF heard THEN -1 ELSE seen.quiet
    <3>. DEFINE k == IF heard THEN -1 ELSE seen.quiet
    <3>1. k \in Int
      BY <1>0
    <3>2. seen' = [seen EXCEPT !.ack = FALSE, !.quiet = k]
      BY <2>1
    <3>. HIDE DEF k
    <3>3. seen' = [late |-> seen.late, ack |-> FALSE, quiet |-> k]
      BY <1>0, <3>2 DEF SeenRecord
    <3>4. seen' \in SeenRecord /\ seen'.ack = FALSE /\ seen'.quiet = k
      BY <1>0, <3>1, <3>3 DEF SeenRecord
    <3>. QED
      BY <3>4 DEF k
  <2>4. /\ seen.quiet >= drain.idleTicks /\ (seen.ack => stats.consumed = 1)
        /\ drain.exit = "none"
    BY <2>1 DEF SilenceOK, PhaseOK
  <2>5. stats.consumed \in {0, 1} /\ drain.lastConsumed \in {-1, 0}
    BY DEF NumbersOK, StatsRecord, PhaseOK, DrainRecord
  <2>6. heard => stats.consumed # drain.lastConsumed
    BY <2>4, <2>5
  <2>. HIDE DEF heard
  <2>. QED
    BY <2>1, <2>2, <2>3, <2>4, <2>6 DEF SilenceOK, StallNeedsSilence
<1>10. CASE DrainStats
  <2>. DEFINE idle == ActiveConsumers = {} /\ drain.consumed = drain.lastConsumed
              ticks == IF idle THEN drain.idleTicks + 1 ELSE 0
              quiet == IF ActiveConsumers # {} THEN 0
                       ELSE IF seen.quiet = StallTicks THEN seen.quiet ELSE seen.quiet + 1
  <2>1. Judge(ticks)
    BY <1>10 DEF DrainStats
  <2>2. /\ phase = "draining" /\ drain.exit = "none"
        /\ drain.idleTicks \in 0..(StallTicks - 1)
    BY <2>1 DEF Judge, PhaseOK, DrainRecord
  <2>3. \/ seen.quiet >= drain.idleTicks
        \/ seen.quiet = -1 /\ drain.consumed # drain.lastConsumed
    BY <2>2 DEF SilenceOK
  <2>4. seen' = [seen EXCEPT !.quiet = quiet]
    BY <2>1 DEF Judge
  <2>5. quiet \in Int /\ quiet >= ticks
    <3>1. CASE idle
      <4>1. seen.quiet >= drain.idleTicks
        BY <2>3, <3>1
      <4>2. ticks = drain.idleTicks + 1 /\ ActiveConsumers = {}
        BY <3>1
      <4>. QED
        BY <1>0, <2>2, <4>1, <4>2
    <3>2. CASE ~idle
      <4>1. ticks = 0
        BY <3>2
      <4>2. seen.quiet >= -1
        BY <1>0, <2>2, <2>3
      <4>. QED
        BY <1>0, <2>2, <4>1, <4>2
    <3>. QED
      BY <3>1, <3>2
  <2>6. ticks \in Nat
    BY <1>0, <2>2
  <2>. HIDE DEF quiet, ticks
  <2>7. seen' \in SeenRecord /\ seen'.quiet = quiet /\ seen'.ack = seen.ack
    BY <1>0, <2>4, <2>5 DEF SeenRecord
  <2>8. CASE ticks >= StallTicks
    <3>1. phase' = "leaving"
      BY <2>1, <2>8 DEF Judge, EndDrain
    <3>2. quiet >= StallTicks
      BY <1>0, <2>5, <2>6, <2>8
    <3>. QED
      BY <2>7, <3>1, <3>2 DEF SilenceOK, StallNeedsSilence
  <2>9. CASE ~(ticks >= StallTicks)
    <3>1. /\ drain' = [drain EXCEPT !.at = "tick", !.idleTicks = ticks,
                                    !.consumed = 0, !.lastConsumed = 0]
          /\ stats' = stats /\ phase' = phase
      BY <2>1, <2>9 DEF Judge
    <3>2. drain'.idleTicks = ticks /\ drain'.exit = "none"
      BY <2>2, <3>1 DEF PhaseOK, DrainRecord
    <3>3. seen.ack => stats.consumed = 1
      BY <2>2 DEF SilenceOK
    <3>. QED
      BY <2>2, <2>5, <2>7, <3>1, <3>2, <3>3 DEF SilenceOK, StallNeedsSilence
  <2>. QED
    BY <2>8, <2>9
<1>11. CASE DrainDeadline
  <2>1. EndDrain("deadline") /\ seen' \in SeenRecord
    BY <1>11 DEF DrainDeadline, NothingSeen, SeenRecord
  <2>. QED
    BY <1>7, <2>1
<1>12. CASE Shutdown
  BY <1>12 DEF Shutdown, SilenceOK, StallNeedsSilence
<1>13. CASE Exit \/ Crash
  <2>1. phase' = "down" /\ drain' = NoDrain /\ seen' = NothingSeen
    BY <1>13 DEF Exit, Crash, MemoryLost
  <2>. QED
    BY <2>1 DEF NoDrain, NothingSeen, SeenRecord, SilenceOK, StallNeedsSilence
<1>14. CASE Start
  BY <1>14 DEF Start, SilenceOK, StallNeedsSilence
<1>15. CASE Replay
  <2>1. PICK n \in Nat : seen' = [seen EXCEPT !.late = IF drain.exit = "complete" THEN @ + n ELSE @]
    BY <1>0, <1>15, ReplayStep
  <2>2. drain' = drain /\ phase' = phase /\ stats'.consumed = stats.consumed
    BY <1>15 DEF Replay, NumbersOK, StatsRecord
  <2>3. CASE drain.exit = "complete"
    <3>1. phase \notin {"serving", "down", "draining"}
      BY <2>3 DEF PhaseOK, NoDrain
    <3>2. seen' = [seen EXCEPT !.late = @ + n]
      BY <2>1, <2>3
    <3>3. seen.late + n \in Nat
      BY <1>0
    <3>4. seen' \in SeenRecord
      BY <1>0, <3>2, <3>3 DEF SeenRecord
    <3>. QED
      BY <2>2, <2>3, <3>1, <3>4 DEF SilenceOK, StallNeedsSilence
  <2>4. CASE drain.exit # "complete"
    <3>1. seen' = [seen EXCEPT !.late = seen.late]
      BY <2>1, <2>4
    <3>2. seen' = seen
      BY <1>0, <3>1 DEF SeenRecord
    <3>. QED
      BY <1>1, <2>2, <3>2
  <2>. QED
    BY <2>3, <2>4
<1>16. CASE ProcStep
  BY <1>4, <1>5, <1>6, <1>8, <1>9, <1>10, <1>11, <1>12, <1>13, <1>14, <1>15, <1>16 DEF ProcStep
<1>. QED
  BY <1>2, <1>3, <1>16, NextSplit

\* A call that breaks leaves an orphan, or nothing if it had not arrived.
LEMMA OrphanedFacts ==
    ASSUME CallsOK, NEW s \in Streamers, Orphaned(Pending(s))
    PROVE  \/ Pending(s) = {} /\ calls' = calls
           \/ \E x \in calls :
                 /\ x.by = s /\ x.orphan = 0 /\ Pending(s) = {x}
                 /\ \/ calls' = (calls \ {x}) \cup {[x EXCEPT !.orphan = faults + 1]}
                    \/ x.at = "arrived" /\ calls' = calls \ {x}
<1>1. CASE Pending(s) = {}
  BY <1>1 DEF Orphaned
<1>2. CASE Pending(s) # {}
  <2>1. PICK x \in Pending(s) : TRUE
    BY <1>2
  <2>2. x \in calls /\ x.by = s /\ x.orphan = 0
    BY <2>1 DEF Pending
  <2>3. \A y \in Pending(s) : y = x
    BY <2>2 DEF Pending, CallsOK
  <2>4. Pending(s) = {x}
    BY <2>1, <2>3
  <2>5. {[call EXCEPT !.orphan = faults + 1] : call \in {x}} = {[x EXCEPT !.orphan = faults + 1]}
    OBVIOUS
  <2>. QED
    BY <2>2, <2>4, <2>5 DEF Orphaned
<1>. QED
  BY <1>1, <1>2

LEMMA CallFacts ==
    ASSUME NEW call, NEW q, NEW D, CallOK(call, q, D)
    PROVE  /\ call \in CallRecord /\ Len(call.msgs) \in Nat \ {0} /\ call.accepted \in Nat
           /\ Left(call) = Len(call.msgs) - call.accepted /\ Left(call) \in Nat
           /\ call.at \in {"arrived", "enqueue"} => Left(call) > 0
<1>1. call \in CallRecord /\ call.accepted \in Nat /\ call.accepted <= Len(call.msgs)
  BY DEF CallOK, CallRecord
<1>2. Len(call.msgs) \in Nat \ {0}
  BY StreamerAssumption DEF CallOK
<1>3. Left(call) = Len(call.msgs) - call.accepted
  BY DEF Left
<1>4. call.at \in {"arrived", "enqueue"} => call.accepted < Len(call.msgs)
  BY DEF CallOK
<1>. QED
  BY <1>1, <1>2, <1>3, <1>4

\* A call moves on without offering more.
LEMMA OffersMove ==
    ASSUME CallsOK, IsFiniteSet(Units(OfferMap)), NEW x \in calls, NEW y, Left(y) \in Nat,
           calls' = (calls \ {x}) \cup {y}
    PROVE  /\ IsFiniteSet(Units(OfferMap')) /\ Offered \in Nat /\ Offered' \in Nat
           /\ Offered' <= (Offered - Offer(x)) + Offer(y)
<1>1. \A c \in calls : Left(c) \in Nat
  BY CallFacts DEF CallsOK
<1>2. OfferMap = OfferOf(calls) /\ OfferMap' = OfferOf(calls')
  BY DEF OfferMap, OfferOf
<1>3. Offered = Total(OfferOf(calls)) /\ Offered' = Total(OfferOf(calls'))
  BY DEF Offered, OfferOf, Total, Units
<1>. QED
  BY <1>1, <1>2, <1>3, OffersReplace

\* A call goes.
LEMMA OffersGo ==
    ASSUME CallsOK, IsFiniteSet(Units(OfferMap)), NEW x \in calls, calls' = calls \ {x}
    PROVE  /\ IsFiniteSet(Units(OfferMap')) /\ Offered \in Nat /\ Offered' \in Nat
           /\ Offered' <= Offered
<1>1. \A c \in calls : Left(c) \in Nat
  BY CallFacts DEF CallsOK
<1>2. OfferMap = OfferOf(calls) /\ OfferMap' = OfferOf(calls')
  BY DEF OfferMap, OfferOf
<1>3. Offered = Total(OfferOf(calls)) /\ Offered' = Total(OfferOf(calls'))
  BY DEF Offered, OfferOf, Total, Units
<1>4. /\ IsFiniteSet(Units(OfferOf(calls \ {x}))) /\ Total(OfferOf(calls \ {x})) \in Nat
      /\ Total(OfferOf(calls)) = Total(OfferOf(calls \ {x})) + Offer(x) /\ Offer(x) \in Nat
  BY <1>1, <1>2, OffersDrop
<1>. QED
  BY <1>2, <1>3, <1>4

\* A call comes that has not passed the check.
LEMMA OffersCome ==
    ASSUME CallsOK, IsFiniteSet(Units(OfferMap)), NEW y, y.at = "arrived", Left(y) \in Nat,
           calls' = calls \cup {y}
    PROVE  /\ IsFiniteSet(Units(OfferMap')) /\ Offered \in Nat /\ Offered' \in Nat
           /\ Offered' <= Offered
<1>1. \A c \in calls : Left(c) \in Nat
  BY CallFacts DEF CallsOK
<1>2. OfferMap = OfferOf(calls) /\ OfferMap' = OfferOf(calls')
  BY DEF OfferMap, OfferOf
<1>3. Offered = Total(OfferOf(calls)) /\ Offered' = Total(OfferOf(calls'))
  BY DEF Offered, OfferOf, Total, Units
<1>4. Offer(y) = 0
  BY DEF Offer
<1>5. Total(OfferOf(calls)) \in Nat
  BY <1>2, FS_CardinalityType DEF Total
<1>6. /\ IsFiniteSet(Units(OfferOf(calls \cup {y}))) /\ Total(OfferOf(calls \cup {y})) \in Nat
      /\ Total(OfferOf(calls \cup {y})) <= Total(OfferOf(calls)) + Offer(y)
  BY <1>1, <1>2, OffersAdd
<1>. QED
  BY <1>2, <1>3, <1>4, <1>5, <1>6

LEMMA OffersStay ==
    ASSUME IsFiniteSet(Units(OfferMap)), calls' = calls
    PROVE  IsFiniteSet(Units(OfferMap')) /\ Offered' = Offered /\ Offered \in Nat
<1>1. OfferMap' = OfferMap /\ Offered' = Total(OfferMap') /\ Offered = Total(OfferMap)
  BY DEF OfferMap, Offered, Total, Units
<1>. QED
  BY <1>1, FS_CardinalityType DEF Total

\* While the process drains, calls and streamers only lower what is offered.
LEMMA OffersStill ==
    ASSUME StrmsOK, CallsOK, IsFiniteSet(Units(OfferMap)), Still,
           \/ \E s \in Streamers : CallerMove(s)
           \/ \E call \in calls : CallMove(call)
    PROVE  /\ IsFiniteSet(Units(OfferMap')) /\ Offered \in Nat /\ Offered' \in Nat
           /\ phase = "serving" \/ Offered' <= Offered
<1>. DEFINE Fine == /\ IsFiniteSet(Units(OfferMap')) /\ Offered \in Nat /\ Offered' \in Nat
                    /\ phase = "serving" \/ Offered' <= Offered
<1>0. \A call \in calls : call \in CallRecord /\ Left(call) \in Nat
  BY CallFacts DEF CallsOK
<1>1. ASSUME calls' = calls PROVE Fine
  <2>1. IsFiniteSet(Units(OfferMap')) /\ Offered' = Offered /\ Offered \in Nat
    BY <1>1, OffersStay
  <2>. QED
    BY <2>1
<1>2. ASSUME NEW x \in calls, calls' = calls \ {x} PROVE Fine
  BY <1>2, OffersGo
<1>3. ASSUME NEW x \in calls, NEW y, calls' = (calls \ {x}) \cup {y}, Left(y) = Left(x),
             \/ y.at \notin {"enqueue"} \/ y.at = x.at \/ phase = "serving"
      PROVE  Fine
  <2>1. Left(x) \in Nat
    BY <1>0
  <2>2. /\ IsFiniteSet(Units(OfferMap')) /\ Offered \in Nat /\ Offered' \in Nat
        /\ Offered' <= (Offered - Offer(x)) + Offer(y)
    BY <1>3, <2>1, OffersMove
  <2>3. Offer(x) \in Nat /\ Offer(y) \in Nat /\ (Offer(y) <= Offer(x) \/ phase = "serving")
    BY <1>3, <2>1 DEF Offer
  <2>. QED
    BY <2>2, <2>3
<1>4. ASSUME NEW s \in Streamers, CallerMove(s) PROVE Fine
  <2>. HIDE DEF Fine
  <2>1. CASE SkipRow(s) \/ ReadRow(s) \/ EndPass(s) \/ ServerGone(s)
    BY <1>1, <2>1 DEF SkipRow, ReadRow, EndPass, ServerGone, procVars
  <2>2. CASE Send(s)
    <3>. DEFINE y == [by |-> s, orphan |-> 0, msgs |-> strm[s].batch, accepted |-> 0, at |-> "arrived"]
    <3>1. calls' = calls \cup {y} /\ y.at = "arrived"
      BY <2>2 DEF Send
    <3>2. y.msgs = strm[s].batch /\ y.accepted = 0
      OBVIOUS
    <3>3. strm[s].batch \in Seq(Messages)
      BY DEF StrmsOK, StrmOK, StrmRecord
    <3>4. Left(y) \in Nat
      BY <3>2, <3>3, LenProperties DEF Left
    <3>. HIDE DEF y
    <3>. QED
      BY <3>1, <3>4, OffersCome DEF Fine
  <2>3. CASE \E call \in calls : Reply(s, call)
    BY <1>2, <2>3 DEF Reply
  <2>4. CASE CallBreaks(s) \/ Cancel(s)
    <3>1. Orphaned(Pending(s))
      BY <2>4 DEF CallBreaks, Cancel
    <3>2. ASSUME NEW x \in calls, calls' = (calls \ {x}) \cup {[x EXCEPT !.orphan = faults + 1]}
          PROVE  Fine
      <4>. DEFINE y == [x EXCEPT !.orphan = faults + 1]
      <4>1. y.at = x.at /\ y.msgs = x.msgs /\ y.accepted = x.accepted
        BY <1>0 DEF CallRecord
      <4>2. Left(y) = Left(x) /\ calls' = (calls \ {x}) \cup {y}
        BY <3>2, <4>1 DEF Left
      <4>. HIDE DEF y
      <4>. QED
        BY <1>3, <4>1, <4>2
    <3>. QED
      BY <1>1, <1>2, <3>1, <3>2, OrphanedFacts
  <2>. QED
    BY <1>4, <2>1, <2>2, <2>3, <2>4 DEF CallerMove, StreamerStep
<1>5. ASSUME NEW x \in calls, CallMove(x) PROVE Fine
  <2>. HIDE DEF Fine
  <2>1. ASSUME NEW at, calls' = (calls \ {x}) \cup {[x EXCEPT !.at = at]},
               at # "enqueue" \/ phase = "serving"
        PROVE  Fine
    <3>. DEFINE y == [x EXCEPT !.at = at]
    <3>1. y.at = at /\ y.msgs = x.msgs /\ y.accepted = x.accepted
      BY <1>0 DEF CallRecord
    <3>2. Left(y) = Left(x) /\ calls' = (calls \ {x}) \cup {y}
      BY <2>1, <3>1 DEF Left
    <3>. HIDE DEF y
    <3>. QED
      BY <1>3, <2>1, <3>1, <3>2
  <2>2. CASE CheckDraining(x)
    <3>1. PICK at : /\ at = IF phase = "serving" THEN "enqueue" ELSE "unavailable"
                    /\ calls' = (calls \ {x}) \cup {[x EXCEPT !.at = at]}
      BY <2>2 DEF CheckDraining, Becomes
    <3>. QED
      BY <2>1, <3>1
  <2>3. CASE EnqueueRefused(x)
    BY <2>1, <2>3 DEF EnqueueRefused, Becomes
  <2>4. CASE OrphanReturns(x)
    BY <1>2, <2>4 DEF OrphanReturns
  <2>. QED
    BY <1>5, <2>2, <2>3, <2>4 DEF CallMove
<1>. QED
  BY <1>4, <1>5

\* An admission lowers it by one.
LEMMA OffersAdmit ==
    ASSUME CallsOK, IsFiniteSet(Units(OfferMap)), NEW x \in calls, EnqueueNext(x)
    PROVE  /\ IsFiniteSet(Units(OfferMap')) /\ Offered \in Nat /\ Offered' \in Nat
           /\ Offered' <= Offered - 1
<1>. DEFINE y == [x EXCEPT !.accepted = @ + 1, !.at = IF Left(x) = 1 THEN "reply" ELSE @]
<1>0. /\ x \in CallRecord /\ Left(x) \in Nat /\ x.at = "enqueue" /\ Left(x) > 0
      /\ Len(x.msgs) \in Nat /\ x.accepted \in Nat
  BY CallFacts DEF CallsOK, EnqueueNext
<1>1. Left(x) = Len(x.msgs) - x.accepted
  BY DEF Left
<1>2. calls' = (calls \ {x}) \cup {y}
  BY DEF EnqueueNext, Becomes
<1>3. /\ y.msgs = x.msgs /\ y.accepted = x.accepted + 1
      /\ y.at = IF Left(x) = 1 THEN "reply" ELSE "enqueue"
  BY <1>0 DEF CallRecord
<1>4. Left(y) = Len(y.msgs) - y.accepted
  BY DEF Left
<1>. HIDE DEF y
<1>5. Left(y) = Left(x) - 1 /\ Left(y) \in Nat
  BY <1>0, <1>1, <1>3, <1>4
<1>6. /\ IsFiniteSet(Units(OfferMap')) /\ Offered \in Nat /\ Offered' \in Nat
      /\ Offered' <= (Offered - Offer(x)) + Offer(y)
  BY <1>2, <1>5, OffersMove
<1>7. Offer(x) = Left(x) /\ Offer(y) = Left(x) - 1
  <2>1. CASE Left(x) = 1
    BY <1>0, <1>3, <2>1 DEF Offer
  <2>2. CASE Left(x) # 1
    BY <1>0, <1>3, <1>5, <2>2 DEF Offer
  <2>. QED
    BY <2>1, <2>2
<1>. QED
  BY <1>0, <1>6, <1>7

LEMMA SumKeeps ==
    \A u, v, x, y \in Nat :
        (v <= u /\ y <= x) \/ (v <= u + 1 /\ y <= x - 1) => v + y <= u + x
  OBVIOUS

LEMMA SumBound ==
    \A u, v, x, y, n \in Nat : v + y <= u + x /\ u + x <= n => v + y <= n
  OBVIOUS

\* Late admissions are paid for by offers made before SIGTERM, and after a
\* complete drain nothing else is in the store, but for what is replayed.
LEMMA LateStep ==
    ASSUME ProcInv, StrmsOK, CallsOK, Next
    PROVE  LateOK'
<1>0. /\ NumbersOK /\ PhaseOK /\ LateOK /\ IsFiniteSet(Units(OfferMap))
      /\ seen \in SeenRecord /\ seen.late \in Nat
  BY DEF ProcInv, LateOK, SilenceOK, SeenRecord
<1>1. drain.exit = "complete" => Used + Offered <= seen.late
  BY <1>0 DEF LateOK, CompleteDrainIsClean
<1>2. Used \in Nat /\ Used' \in Nat
  BY <1>0, NumbersStep
<1>3. drain.exit = "complete" => phase \notin {"serving", "draining", "down"}
  BY <1>0 DEF PhaseOK, NoDrain
<1>4. Units(OfferMap)' = Units(OfferMap')
  BY DEF Units, OfferMap
\* The store and the calls together hold no more than before.
<1>5. ASSUME seen'.late = seen.late, drain'.exit = drain.exit,
             IsFiniteSet(Units(OfferMap')), Offered \in Nat, Offered' \in Nat,
             drain.exit = "complete" => Used' + Offered' <= Used + Offered
      PROVE  LateOK'
  <2>1. drain.exit = "complete" => Used' + Offered' <= seen.late
    BY <1>0, <1>1, <1>2, <1>5, SumBound
  <2>. QED
    BY <1>4, <1>5, <2>1 DEF LateOK, CompleteDrainIsClean
<1>6. ASSUME Still, \/ \E s \in Streamers : CallerMove(s)
                    \/ \E call \in calls : CallMove(call)
      PROVE  LateOK'
  <2>1. /\ IsFiniteSet(Units(OfferMap')) /\ Offered \in Nat /\ Offered' \in Nat
        /\ phase = "serving" \/ Offered' <= Offered
    BY <1>0, <1>6, OffersStill
  <2>2. policy' = policy /\ handler' = handler /\ stats' = stats
    BY <1>6 DEF Still
  <2>3. Used' = Used
    BY <1>0, <2>2, NumbersStay
  <2>4. seen' = seen /\ drain' = drain
    BY <1>6 DEF Still
  <2>5. drain.exit = "complete" => Used' + Offered' <= Used + Offered
    <3>1. Used' <= Used
      BY <1>2, <2>3
    <3>. QED
      BY <1>2, <1>3, <2>1, <3>1, SumKeeps
  <2>. QED
    BY <1>5, <2>1, <2>4, <2>5
<1>7. ASSUME NEW call \in calls, AdmitMove(call) PROVE LateOK'
  <2>1. seen' = seen /\ drain' = drain /\ EnqueueNext(call)
    BY <1>7 DEF AdmitMove, EnqueueNext
  <2>2. /\ IsFiniteSet(Units(OfferMap')) /\ Offered \in Nat /\ Offered' \in Nat
        /\ Offered' <= Offered - 1
    BY <1>0, <2>1, OffersAdmit
  <2>3. Used' <= Used + 1
    BY <1>0, <2>1, AdmitStep
  <2>4. Used' + Offered' <= Used + Offered
    BY <1>2, <2>2, <2>3, SumKeeps
  <2>. QED
    BY <1>5, <2>1, <2>2, <2>4
<1>8. ASSUME calls' = calls
      PROVE  IsFiniteSet(Units(OfferMap')) /\ Offered' = Offered /\ Offered \in Nat
  BY <1>0, <1>8, OffersStay
\* A step of the process that says nothing new about the drain.
<1>9. ASSUME ProcStep, ~Replay, calls' = calls, seen'.late = seen.late, drain'.exit = drain.exit
      PROVE  LateOK'
  <2>1. Used' <= Used
    BY <1>0, <1>9, NumbersProc
  <2>2. IsFiniteSet(Units(OfferMap')) /\ Offered' = Offered /\ Offered \in Nat
    BY <1>8, <1>9
  <2>3. Used' + Offered' <= Used + Offered
    <3>1. Offered' <= Offered /\ Offered' \in Nat
      BY <2>2
    <3>. QED
      BY <1>2, <2>1, <2>2, <3>1, SumKeeps
  <2>. QED
    BY <1>5, <1>9, <2>2, <2>3
<1>10. CASE Replay
  <2>1. PICK n \in Nat :
           /\ Used' = Used + n
           /\ seen' = [seen EXCEPT !.late = IF drain.exit = "complete" THEN @ + n ELSE @]
    BY <1>0, <1>10, ReplayStep
  <2>2. drain' = drain /\ calls' = calls
    BY <1>10 DEF Replay
  <2>3. IsFiniteSet(Units(OfferMap')) /\ Offered' = Offered /\ Offered \in Nat
    BY <1>8, <2>2
  <2>4. drain.exit = "complete" => seen'.late = seen.late + n
    BY <1>0, <2>1 DEF SeenRecord
  <2>5. drain.exit = "complete" => Used' + Offered' <= seen'.late
    BY <1>0, <1>1, <1>2, <2>1, <2>3, <2>4
  <2>. QED
    BY <1>4, <2>2, <2>3, <2>5 DEF LateOK, CompleteDrainIsClean
<1>11. ASSUME NEW c \in Consumers, ~Replay,
              \/ Connect(c) \/ Leave(c) \/ Returned(c)
              \/ \E lane \in {"depth", "retryDepth"} : Take(c, lane)
              \/ Consume(c) \/ CountAck(c) \/ Requeue(c) \/ DeadLetter(c)
       PROVE  LateOK'
  <2>1. ProcStep
    BY <1>11 DEF ProcStep
  <2>2. calls' = calls /\ drain' = drain
    BY <1>11 DEF Connect, Leave, Returned, Take, Consume, CountAck, Requeue, DeadLetter, LeaseEnds
  <2>3. seen' = seen \/ \E a : seen' = [seen EXCEPT !.ack = a]
    BY <1>11 DEF Connect, Leave, Returned, Take, Consume, CountAck, Requeue, DeadLetter, LeaseEnds
  <2>4. seen'.late = seen.late
    BY <1>0, <2>3 DEF SeenRecord
  <2>. QED
    BY <1>9, <1>11, <2>1, <2>2, <2>4
<1>12. CASE BeginDrain /\ ~Replay
  <2>1. ProcStep
    BY <1>12 DEF ProcStep
  <2>2. calls' = calls /\ drain' = drain /\ seen' = seen
    BY <1>12 DEF BeginDrain
  <2>. QED
    BY <1>9, <1>12, <2>1, <2>2
\* The drain ends, but not because it is complete.
<1>13. ASSUME NEW why, EndDrain(why), why # "complete" PROVE LateOK'
  <2>1. drain'.exit # "complete" /\ calls' = calls
    BY <1>13 DEF EndDrain, NoDrain
  <2>2. IsFiniteSet(Units(OfferMap'))
    BY <1>8, <2>1
  <2>. QED
    BY <1>4, <2>1, <2>2 DEF LateOK, CompleteDrainIsClean
<1>14. CASE DrainTick /\ ~Replay
  <2>1. ProcStep
    BY <1>14 DEF ProcStep
  <2>2. CASE /\ Drained /\ EndDrain("complete")
             /\ seen' = [NothingSeen EXCEPT !.late = Offered]
    <3>1. calls' = calls /\ seen'.late = Offered
      BY <2>2 DEF EndDrain, NothingSeen
    <3>2. IsFiniteSet(Units(OfferMap')) /\ Offered' = Offered /\ Offered \in Nat
      BY <1>8, <3>1
    <3>3. Used' <= Used
      BY <1>0, <1>14, <2>1, NumbersProc
    <3>4. Used = 0
      BY <2>2 DEF Drained, Used
    <3>5. Used' + Offered' <= seen'.late
      <4>1. Used' = 0
        BY <1>2, <3>3, <3>4
      <4>. QED
        BY <3>1, <3>2, <4>1
    <3>. QED
      BY <1>4, <3>2, <3>5 DEF LateOK, CompleteDrainIsClean
  <2>3. CASE drain' = [drain EXCEPT !.at = "stats"] /\ UNCHANGED <<calls, seen>>
    <3>1. drain'.exit = drain.exit
      BY <1>0, <2>3 DEF PhaseOK, DrainRecord
    <3>. QED
      BY <1>9, <1>14, <2>1, <2>3, <3>1
  <2>. QED
    BY <1>14, <2>2, <2>3 DEF DrainTick
<1>15. CASE LoadConsumed /\ ~Replay
  <2>1. ProcStep
    BY <1>15 DEF ProcStep
  <2>2. calls' = calls /\ \E k : drain' = [drain EXCEPT !.at = "active", !.consumed = k]
    BY <1>15 DEF LoadConsumed
  <2>3. \E q : seen' = [seen EXCEPT !.ack = FALSE, !.quiet = q]
    BY <1>15 DEF LoadConsumed
  <2>4. drain'.exit = drain.exit /\ seen'.late = seen.late
    BY <1>0, <2>2, <2>3 DEF PhaseOK, DrainRecord, SeenRecord
  <2>. QED
    BY <1>9, <1>15, <2>1, <2>2, <2>4
<1>16. CASE DrainStats /\ ~Replay
  <2>1. ProcStep
    BY <1>16 DEF ProcStep
  <2>2. PICK ticks : Judge(ticks)
    BY <1>16 DEF DrainStats
  <2>3. \E q : seen' = [seen EXCEPT !.quiet = q]
    BY <2>2 DEF Judge
  <2>4. CASE EndDrain("stalled")
    BY <1>13, <2>4
  <2>5. CASE /\ drain' = [drain EXCEPT !.at = "tick", !.idleTicks = ticks,
                                       !.consumed = 0, !.lastConsumed = 0]
             /\ calls' = calls
    <3>1. drain'.exit = drain.exit /\ seen'.late = seen.late
      BY <1>0, <2>3, <2>5 DEF PhaseOK, DrainRecord, SeenRecord
    <3>. QED
      BY <1>9, <1>16, <2>1, <2>5, <3>1
  <2>. QED
    BY <2>2, <2>4, <2>5 DEF Judge
<1>17. CASE DrainDeadline
  BY <1>13, <1>17 DEF DrainDeadline
<1>18. CASE (Shutdown \/ Start) /\ ~Replay
  <2>1. ProcStep
    BY <1>18 DEF ProcStep
  <2>2. calls' = calls /\ seen' = seen /\ drain' = drain
    BY <1>18 DEF Shutdown, Start
  <2>. QED
    BY <1>9, <1>18, <2>1, <2>2
<1>19. CASE Exit \/ Crash
  <2>1. phase' = "down" /\ drain' = NoDrain /\ calls' = {}
    BY <1>19 DEF Exit, Crash, MemoryLost
  <2>2. DOMAIN OfferMap' = {}
    BY <2>1 DEF OfferMap
  <2>3. IsFiniteSet(Units(OfferMap'))
    BY <2>2, TotalZero
  <2>. QED
    BY <1>4, <2>1, <2>3 DEF LateOK, CompleteDrainIsClean, NoDrain
<1>20. CASE ProcStep
  BY <1>10, <1>11, <1>12, <1>14, <1>15, <1>16, <1>17, <1>18, <1>19, <1>20 DEF ProcStep
<1>21. CASE UNCHANGED vars
  <2>1. calls' = calls /\ seen' = seen /\ drain' = drain
    BY <1>21 DEF vars, procVars
  <2>2. policy' = policy /\ handler' = handler /\ stats' = stats
    BY <1>21 DEF vars, procVars
  <2>3. Used' = Used
    BY <1>0, <2>2, NumbersStay
  <2>4. IsFiniteSet(Units(OfferMap')) /\ Offered' = Offered /\ Offered \in Nat
    BY <1>8, <2>1
  <2>5. Used' + Offered' <= Used + Offered
    BY <1>2, <2>3, <2>4
  <2>. QED
    BY <1>5, <2>1, <2>4, <2>5
<1>. QED
  BY <1>6, <1>7, <1>20, <1>21, NextSplit

-----------------------------------------------------------------------------
(* The steps of one streamer.                                                *)

LEMMA StrmFacts ==
    ASSUME NEW s, NEW q, NEW D, StrmOK(s, q, D)
    PROVE  /\ q \in StrmRecord /\ q.made \in Nat /\ q.batch \in Seq(Messages)
           /\ q.row \in 1..(Rows + 1) /\ q.pass \in 1..(MaxPasses + 1)
           /\ Len(q.batch) \in Nat /\ Len(q.batch) <= q.made /\ q.made - Len(q.batch) \in Nat
           /\ q.made <= All /\ All \in Nat
<1>1. /\ q \in StrmRecord /\ q.made \in Nat /\ q.batch \in Seq(Messages)
      /\ q.row \in 1..(Rows + 1) /\ q.pass \in 1..(MaxPasses + 1)
  BY DEF StrmOK, StrmRecord
<1>2. Len(q.batch) \in Nat
  BY <1>1, LenProperties
<1>3. Base(q.pass) \in Nat /\ All \in Nat
  BY <1>1, BaseFacts
<1>4. Base(q.pass) + Len(q.batch) <= q.made
  BY DEF StrmOK
<1>5. q.made <= All
  <2>1. CASE q.pc = "done"
    BY <1>1, <1>3, <2>1 DEF StrmOK
  <2>2. CASE q.pc # "done"
    <3>1. q.pass <= MaxPasses /\ q.made = Base(q.pass) + Good(q.row)
      BY <2>2 DEF StrmOK
    <3>2. q.pass \in 1..MaxPasses
      BY <1>1, <3>1, StreamerAssumption
    <3>3. Base(q.pass) + PerPass <= All
      BY <3>2, BaseFacts
    <3>4. Good(q.row) \in 0..PerPass /\ PerPass \in Nat
      BY <1>1, GoodFacts, PerPassFacts
    <3>. QED
      BY <1>3, <3>1, <3>3, <3>4
  <2>. QED
    BY <2>1, <2>2
<1>6. Len(q.batch) <= q.made /\ q.made - Len(q.batch) \in Nat
  BY <1>1, <1>2, <1>3, <1>4
<1>. QED
  BY <1>1, <1>2, <1>3, <1>5, <1>6

\* More may be admitted meanwhile.
LEMMA StrmMono ==
    ASSUME NEW s, NEW q, NEW D, NEW E, StrmOK(s, q, D), D \subseteq E
    PROVE  StrmOK(s, q, E)
BY DEF StrmOK

\* Only the program counter moves.
LEMMA StrmPc ==
    ASSUME NEW s, NEW q, NEW D, StrmOK(s, q, D), q.pc # "done",
           NEW pc \in {"send", "await", "stopped"}, q.batch # <<>> \/ pc = "stopped"
    PROVE  StrmOK(s, [q EXCEPT !.pc = pc], D)
<1>. DEFINE r == [q EXCEPT !.pc = pc]
<1>1. /\ r \in StrmRecord /\ r.pc = pc /\ r.row = q.row /\ r.pass = q.pass
      /\ r.made = q.made /\ r.batch = q.batch
  BY StrmFacts DEF StrmRecord
<1>. HIDE DEF r
<1>2. StrmOK(s, r, D)
  BY <1>1 DEF StrmOK
<1>. QED
  BY <1>2 DEF r

LEMMA StrmSkip ==
    ASSUME NEW s, NEW q, NEW D, StrmOK(s, q, D), q.pc = "read", q.row \in Bad
    PROVE  StrmOK(s, [q EXCEPT !.row = @ + 1], D)
<1>. DEFINE r == [q EXCEPT !.row = @ + 1]
<1>0. q \in StrmRecord
  BY StrmFacts
<1>1. q.row + 1 \in 1..(Rows + 1)
  <2>1. q.row \in 1..Rows /\ Rows \in Nat
    BY StreamerAssumption
  <2>. QED
    BY <2>1
<1>2. /\ r \in StrmRecord /\ r.pc = q.pc /\ r.row = q.row + 1 /\ r.pass = q.pass
      /\ r.made = q.made /\ r.batch = q.batch
  BY <1>0, <1>1 DEF StrmRecord
<1>3. Good(r.row) = Good(q.row)
  BY <1>2, GoodFacts
<1>. HIDE DEF r
<1>4. StrmOK(s, r, D)
  BY <1>2, <1>3 DEF StrmOK
<1>. QED
  BY <1>4 DEF r

\* A row is stamped with the next number.
LEMMA StrmRead ==
    ASSUME NEW s \in Streamers, NEW q, NEW D, StrmOK(s, q, D), q.pc = "read",
           q.row \in 1..Rows \ Bad, NEW batch, batch = Append(q.batch, <<s, q.made + 1>>),
           NEW pc, pc = IF Len(batch) >= BatchSize THEN "send" ELSE "read"
    PROVE  StrmOK(s, [q EXCEPT !.row = @ + 1, !.made = @ + 1, !.batch = batch, !.pc = pc], D)
<1>. DEFINE r == [q EXCEPT !.row = @ + 1, !.made = @ + 1, !.batch = batch, !.pc = pc]
            m == <<s, q.made + 1>>
<1>0. /\ q \in StrmRecord /\ q.made \in Nat /\ q.batch \in Seq(Messages) /\ Len(q.batch) \in Nat
      /\ Len(q.batch) <= q.made /\ q.pass \in 1..(MaxPasses + 1) /\ q.row \in 1..(Rows + 1)
      /\ All \in Nat /\ BatchSize \in Nat
  BY StrmFacts, StreamerAssumption
<1>1. q.row + 1 \in 1..(Rows + 1) /\ q.made + 1 \in Nat
  BY <1>0, StreamerAssumption
<1>2. /\ q.pass <= MaxPasses /\ q.made = Base(q.pass) + Good(q.row)
      /\ Base(q.pass) + Len(q.batch) <= q.made
  BY DEF StrmOK
<1>3. Good(q.row + 1) = Good(q.row) + 1
  BY GoodFacts
<1>4. Good(q.row) \in Nat /\ Good(q.row + 1) \in 0..PerPass /\ PerPass \in Nat
  BY <1>0, <1>1, GoodFacts, PerPassFacts
<1>5. q.pass \in 1..MaxPasses
  BY <1>0, <1>2, StreamerAssumption
<1>6. Base(q.pass) \in Nat /\ Base(q.pass) + PerPass <= All
  BY <1>0, <1>5, BaseFacts
<1>7. q.made + 1 = Base(q.pass) + Good(q.row + 1) /\ q.made + 1 <= All
  BY <1>0, <1>2, <1>3, <1>4, <1>6
<1>8. m \in Messages
  <2>1. q.made + 1 \in 1..All
    BY <1>0, <1>7
  <2>. QED
    BY <2>1 DEF Messages, All
<1>. HIDE DEF m
<1>9. /\ batch \in Seq(Messages) /\ Len(batch) = Len(q.batch) + 1
      /\ \A k \in 1..Len(q.batch) : batch[k] = q.batch[k]
      /\ batch[Len(q.batch) + 1] = m
  BY <1>0, <1>8, AppendProperties DEF m
<1>10. pc \in {"read", "send"}
  OBVIOUS
<1>11. /\ r \in StrmRecord /\ r.pc = pc /\ r.row = q.row + 1 /\ r.pass = q.pass
       /\ r.made = q.made + 1 /\ r.batch = batch
  BY <1>0, <1>1, <1>9, <1>10 DEF StrmRecord
<1>. HIDE DEF r
<1>12. Len(q.batch) < BatchSize
  BY DEF StrmOK
<1>13. r.made - Len(r.batch) = q.made - Len(q.batch)
  <2>1. r.made = q.made + 1 /\ Len(r.batch) = Len(q.batch) + 1
    BY <1>9, <1>11
  <2>. QED
    BY <1>0, <2>1
<1>14. \A k \in 1..Len(r.batch) : r.batch[k] = <<s, (r.made - Len(r.batch)) + k>>
  <2>. SUFFICES ASSUME NEW k \in 1..Len(r.batch)
                PROVE  r.batch[k] = <<s, (r.made - Len(r.batch)) + k>>
    OBVIOUS
  <2>1. CASE k \in 1..Len(q.batch)
    BY <1>9, <1>11, <1>13, <2>1 DEF StrmOK
  <2>2. CASE k \notin 1..Len(q.batch)
    <3>1. k = Len(q.batch) + 1 /\ (q.made - Len(q.batch)) + k = q.made + 1
      BY <1>0, <1>9, <1>11, <2>2
    <3>. QED
      BY <1>9, <1>11, <1>13, <3>1 DEF m
  <2>. QED
    BY <2>1, <2>2
<1>15. \A n \in 1..(r.made - Len(r.batch)) : <<s, n>> \in D
  BY <1>13 DEF StrmOK
<1>16. Len(r.batch) <= BatchSize /\ Base(r.pass) + Len(r.batch) <= r.made
  BY <1>0, <1>2, <1>6, <1>9, <1>11, <1>12
<1>17. r.batch # <<>>
  <2>1. Len(r.batch) > 0
    BY <1>0, <1>9, <1>11
  <2>. QED
    BY <2>1, EmptySeq
<1>18. r.pc = "read" => Len(r.batch) < BatchSize
  BY <1>0, <1>9, <1>11
<1>19. StrmOK(s, r, D)
  BY <1>2, <1>7, <1>10, <1>11, <1>14, <1>15, <1>16, <1>17, <1>18 DEF StrmOK
<1>. QED
  BY <1>19 DEF r

\* At the end of a pass everything of it has been made.
LEMMA StrmNext ==
    ASSUME NEW s, NEW q, NEW D, StrmOK(s, q, D), q.pc = "read", q.row > Rows, q.batch = <<>>
    PROVE  /\ q.pass = MaxPasses => StrmOK(s, [q EXCEPT !.pass = @ + 1, !.pc = "done"], D)
           /\ q.pass # MaxPasses => StrmOK(s, [q EXCEPT !.pass = @ + 1, !.row = 1], D)
<1>0. /\ q \in StrmRecord /\ q.made \in Nat /\ Len(q.batch) = 0 /\ Rows \in Nat
      /\ MaxPasses \in Nat \ {0} /\ q.pass \in 1..(MaxPasses + 1) /\ q.row \in 1..(Rows + 1)
  BY StrmFacts, StreamerAssumption, EmptySeq
<1>1. q.pass <= MaxPasses /\ q.made = Base(q.pass) + Good(q.row) /\ q.row = Rows + 1
  BY <1>0 DEF StrmOK
<1>2. q.pass \in 1..MaxPasses
  BY <1>0, <1>1
<1>3. q.made = Base(q.pass + 1) /\ Base(MaxPasses + 1) = All /\ Good(1) = 0
  BY <1>1, <1>2, BaseFacts, GoodFacts
<1>4. q.pass + 1 \in 1..(MaxPasses + 1) /\ 1 \in 1..(Rows + 1)
  BY <1>0, <1>2
<1>5. Base(q.pass + 1) + 0 <= q.made /\ q.made = Base(q.pass + 1) + 0
  BY <1>0, <1>3
<1>6. CASE q.pass = MaxPasses
  <2>. DEFINE r == [q EXCEPT !.pass = @ + 1, !.pc = "done"]
  <2>1. /\ r \in StrmRecord /\ r.pc = "done" /\ r.row = q.row /\ r.pass = q.pass + 1
        /\ r.made = q.made /\ r.batch = q.batch
    BY <1>0, <1>4 DEF StrmRecord
  <2>. HIDE DEF r
  <2>2. StrmOK(s, r, D)
    BY <1>0, <1>3, <1>5, <1>6, <2>1 DEF StrmOK
  <2>. QED
    BY <1>6, <2>2 DEF r
<1>7. CASE q.pass # MaxPasses
  <2>. DEFINE r == [q EXCEPT !.pass = @ + 1, !.row = 1]
  <2>1. /\ r \in StrmRecord /\ r.pc = "read" /\ r.row = 1 /\ r.pass = q.pass + 1
        /\ r.made = q.made /\ r.batch = q.batch
    BY <1>0, <1>4 DEF StrmRecord
  <2>2. r.pass <= MaxPasses
    BY <1>0, <1>2, <1>7, <2>1
  <2>. HIDE DEF r
  <2>3. StrmOK(s, r, D)
    BY <1>0, <1>3, <1>5, <2>1, <2>2 DEF StrmOK
  <2>. QED
    BY <1>7, <2>3 DEF r
<1>. QED
  BY <1>6, <1>7

LEMMA SuffixFacts ==
    ASSUME NEW h \in Seq(Messages), NEW a \in Nat, NEW n \in Nat, n = Len(h), a <= n
    PROVE  LET t == SubSeq(h, a + 1, n)
           IN  /\ t \in Seq(Messages) /\ Len(t) = n - a
               /\ \A k \in 1..(n - a) : t[k] = h[a + k]
<1>. DEFINE t == SubSeq(h, a + 1, n)
<1>1. CASE a = n
  <2>1. t = <<>>
    <3>1. n < a + 1 /\ n \in Int /\ a + 1 \in Int
      BY <1>1
    <3>. QED
      BY <3>1, SubSeqEmpty
  <2>2. t \in Seq(Messages) /\ Len(t) = 0
    BY <2>1, EmptySeq
  <2>. QED
    BY <1>1, <2>2
<1>2. CASE a # n
  <2>1. a + 1 \in Int /\ n \in Int /\ a + 1 <= n
    BY <1>2
  <2>2. \A i \in (a + 1)..n : h[i] \in Messages
    BY ElementOfSeq
  <2>3. t \in Seq(Messages) /\ Len(t) = n - (a + 1) + 1
    BY <2>1, <2>2, SubSeqProperties
  <2>4. \A i \in 1..(n - (a + 1) + 1) : t[i] = h[(a + 1) + i - 1]
    BY <2>1, <2>2, SubSeqProperties
  <2>5. n - (a + 1) + 1 = n - a
    BY <2>1
  <2>6. \A k \in 1..(n - a) : (a + 1) + k - 1 = a + k
    BY <2>1
  <2>. QED
    BY <2>3, <2>4, <2>5, <2>6
<1>. QED
  BY <1>1, <1>2

\* What is left after an answer: the suffix that was not accepted.
LEMMA RestFacts ==
    ASSUME NEW call, NEW q, NEW D, CallOK(call, q, D), NEW rest,
           rest = IF BatchSize = 1 THEN UnaryRest(call) ELSE BatchRest(call)
    PROVE  /\ rest \in Seq(Messages) /\ Len(rest) \in Nat
           /\ Len(rest) = Len(call.msgs) - call.accepted
           /\ \A k \in 1..Len(rest) : rest[k] = call.msgs[call.accepted + k]
<1>. DEFINE n == Len(call.msgs)
            a == call.accepted
<1>1. n \in Nat \ {0} /\ a \in Nat /\ a <= n /\ call.msgs \in Seq(Messages) /\ n - a \in Nat
  BY CallFacts DEF CallOK, CallRecord
<1>2. CASE BatchSize # 1
  <2>1. rest = SubSeq(call.msgs, a + 1, n)
    BY <1>2 DEF BatchRest
  <2>. DEFINE h == call.msgs
  <2>2. h \in Seq(Messages) /\ n = Len(h) /\ rest = SubSeq(h, a + 1, n)
    BY <1>1, <2>1
  <2>3. n \in Nat /\ a \in Nat /\ a <= n
    BY <1>1
  <2>. HIDE DEF h, n, a
  <2>4. /\ rest \in Seq(Messages) /\ Len(rest) = n - a
        /\ \A k \in 1..(n - a) : rest[k] = h[a + k]
    <3>1. h \in Seq(Messages) /\ n = Len(h) /\ n \in Nat /\ a \in Nat /\ a <= n
      BY <2>2, <2>3
    <3>2. /\ SubSeq(h, a + 1, n) \in Seq(Messages) /\ Len(SubSeq(h, a + 1, n)) = n - a
          /\ \A k \in 1..(n - a) : SubSeq(h, a + 1, n)[k] = h[a + k]
      BY ONLY <3>1, SuffixFacts
    <3>. QED
      BY <2>2, <3>2
  <2>. QED
    BY <1>1, <2>4 DEF h, n, a
<1>3. CASE BatchSize = 1
  <2>1. n = 1
    BY <1>1, <1>3 DEF CallOK
  <2>2. CASE a = 1
    <3>1. rest = <<>>
      BY <1>3, <2>2 DEF UnaryRest
    <3>2. rest \in Seq(Messages) /\ Len(rest) = 0
      BY <3>1, EmptySeq
    <3>. QED
      BY <2>1, <2>2, <3>2
  <2>3. CASE a # 1
    <3>1. rest = call.msgs /\ a = 0
      BY <1>1, <1>3, <2>1, <2>3 DEF UnaryRest
    <3>. QED
      BY <1>1, <2>1, <3>1
  <2>. QED
    BY <2>2, <2>3
<1>. QED
  BY <1>2, <1>3

\* An answer: what was accepted is in D, the rest is the batch.
LEMMA StrmReply ==
    ASSUME NEW s, NEW q, NEW D, StrmOK(s, q, D), q.pc = "await",
           NEW a \in Nat, a <= Len(q.batch),
           \A n \in 1..((q.made - Len(q.batch)) + a) : <<s, n>> \in D,
           NEW rest \in Seq(Messages), Len(rest) \in Nat, Len(rest) = Len(q.batch) - a,
           \A k \in 1..Len(rest) : rest[k] = q.batch[a + k],
           NEW pc, pc = IF rest = <<>> THEN "read" ELSE "send"
    PROVE  StrmOK(s, [q EXCEPT !.batch = rest, !.pc = pc], D)
<1>. DEFINE r == [q EXCEPT !.batch = rest, !.pc = pc]
<1>0. /\ q \in StrmRecord /\ q.made \in Nat /\ Len(q.batch) \in Nat /\ Len(q.batch) <= q.made
      /\ BatchSize \in Nat \ {0} /\ q.pass \in 1..(MaxPasses + 1)
  BY StrmFacts, StreamerAssumption
<1>1. /\ r \in StrmRecord /\ r.pc = pc /\ r.row = q.row /\ r.pass = q.pass
      /\ r.made = q.made /\ r.batch = rest
  BY <1>0 DEF StrmRecord
<1>. HIDE DEF r
<1>2. r.made - Len(r.batch) = (q.made - Len(q.batch)) + a
  BY <1>0, <1>1
<1>3. \A k \in 1..Len(r.batch) : r.batch[k] = <<s, (r.made - Len(r.batch)) + k>>
  <2>. SUFFICES ASSUME NEW k \in 1..Len(r.batch)
                PROVE  r.batch[k] = <<s, (r.made - Len(r.batch)) + k>>
    OBVIOUS
  <2>1. k \in 1..Len(rest) /\ a + k \in 1..Len(q.batch)
    BY <1>0, <1>1
  <2>2. q.batch[a + k] = <<s, (q.made - Len(q.batch)) + (a + k)>>
    BY <2>1 DEF StrmOK
  <2>3. (q.made - Len(q.batch)) + (a + k) = ((q.made - Len(q.batch)) + a) + k
    BY <1>0
  <2>. QED
    BY <1>1, <1>2, <2>1, <2>2, <2>3
<1>4. \A n \in 1..(r.made - Len(r.batch)) : <<s, n>> \in D
  BY <1>2
<1>5. Base(q.pass) \in Nat /\ Base(q.pass) + Len(q.batch) <= q.made /\ Len(q.batch) <= BatchSize
  BY <1>0, BaseFacts DEF StrmOK
<1>6. Base(r.pass) + Len(r.batch) <= r.made /\ Len(r.batch) <= BatchSize
  BY <1>0, <1>1, <1>5
<1>7. r.pc = "read" => Len(r.batch) < BatchSize
  <2>1. rest = <<>> => Len(rest) = 0
    BY EmptySeq
  <2>. QED
    BY <1>0, <1>1, <2>1
<1>8. r.pc \in {"read", "send"} /\ (r.pc = "send" => r.batch # <<>>)
  BY <1>1
<1>9. q.pass <= MaxPasses /\ q.made = Base(q.pass) + Good(q.row)
  BY DEF StrmOK
<1>10. StrmOK(s, r, D)
  BY <1>1, <1>3, <1>4, <1>6, <1>7, <1>8, <1>9 DEF StrmOK
<1>. QED
  BY <1>10 DEF r

\* Where a pending call's messages are: they are the batch.
LEMMA PendingStart ==
    ASSUME StrmsOK, CallsOK, NEW call \in calls, call.orphan = 0
    PROVE  LET q == strm[call.by]
           IN  /\ call.by \in Streamers /\ q.pc = "await" /\ call.msgs = q.batch
               /\ Start0(call) = q.made - Len(q.batch)
<1>. DEFINE s == call.by
            q == strm[call.by]
<1>1. CallOK(call, q, Admitted)
  BY DEF CallsOK
<1>2. s \in Streamers /\ q.pc = "await" /\ call.msgs = q.batch
  BY <1>1 DEF CallOK, CallRecord
<1>3. StrmOK(s, q, Admitted)
  BY <1>2 DEF StrmsOK
<1>4. q.made \in Nat /\ Len(q.batch) \in Nat /\ Len(q.batch) <= q.made
  BY <1>3, StrmFacts
<1>5. Len(q.batch) \in Nat \ {0}
  BY <1>1, <1>2, CallFacts
<1>6. 1 \in 1..Len(q.batch)
  BY <1>5
<1>7. q.batch[1] = <<s, (q.made - Len(q.batch)) + 1>>
  BY <1>3, <1>6 DEF StrmOK
<1>8. Start0(call) = ((q.made - Len(q.batch)) + 1) - 1
  BY <1>2, <1>7 DEF Start0
<1>. QED
  BY <1>2, <1>4, <1>8

\* The message that an admission adds.
LEMMA AdmitFacts ==
    ASSUME CallsOK, copies \in [Messages -> Nat], NEW call \in calls, AdmitMove(call),
           NEW m, m = call.msgs[call.accepted + 1]
    PROVE  /\ m \in Messages /\ call.by \in Streamers
           /\ m = <<call.by, Start0(call) + (call.accepted + 1)>>
           /\ call.accepted + 1 \in 1..Len(call.msgs)
           /\ copies' \in [Messages -> Nat] /\ copies'[m] = copies[m] + 1
           /\ \A x \in Messages : x # m => copies'[x] = copies[x]
           /\ Admitted' = Admitted \cup {m}
<1>1. CallOK(call, strm[call.by], Admitted) /\ call.at = "enqueue"
  BY DEF CallsOK, AdmitMove, EnqueueNext
<1>2. /\ call.msgs \in Seq(Messages) /\ call.by \in Streamers /\ call.accepted \in Nat
      /\ Len(call.msgs) \in Nat /\ call.accepted < Len(call.msgs)
  BY <1>1, CallFacts DEF CallOK, CallRecord
<1>3. call.accepted + 1 \in 1..Len(call.msgs)
  BY <1>2
<1>4. m \in Messages
  BY <1>2, <1>3, ElementOfSeq
<1>5. m = <<call.by, Start0(call) + (call.accepted + 1)>>
  BY <1>1, <1>3 DEF CallOK
<1>6. copies' = [copies EXCEPT ![m] = @ + 1]
  BY DEF AdmitMove
<1>7. copies[m] \in Nat /\ copies[m] + 1 \in Nat /\ copies[m] + 1 > 0
  BY <1>4
<1>8. /\ copies' \in [Messages -> Nat] /\ copies'[m] = copies[m] + 1
      /\ \A x \in Messages : x # m => copies'[x] = copies[x]
  BY <1>4, <1>6, <1>7
<1>9. Admitted' = Admitted \cup {m}
  BY <1>4, <1>7, <1>8 DEF Admitted
<1>. QED
  BY <1>2, <1>3, <1>4, <1>5, <1>8, <1>9

\* A streamer's step is one of its own record and leaves the history alone.
LEMMA CallerStep ==
    ASSUME StrmsOK, CallsOK, NEW s \in Streamers, CallerMove(s)
    PROVE  /\ copies' = copies /\ Admitted' = Admitted
           /\ strm' = [strm EXCEPT ![s] = strm'[s]] /\ StrmOK(s, strm'[s], Admitted)
           /\ strm'[s].made >= strm[s].made
<1>. DEFINE q == strm[s]
<1>0. copies' = copies /\ Admitted' = Admitted
  <2>1. copies' = copies
    BY DEF CallerMove, StreamerStep, SkipRow, ReadRow, EndPass, Send, ServerGone, Reply,
           CallBreaks, Cancel
  <2>. QED
    BY <2>1 DEF Admitted
<1>1. StrmOK(s, q, Admitted) /\ strm = [t \in Streamers |-> strm[t]]
  BY DEF StrmsOK
<1>2. q \in StrmRecord /\ q.made \in Nat
  BY <1>1, StrmFacts
<1>3. ASSUME NEW new, Goes(s, new), StrmOK(s, new, Admitted), new.made >= q.made
      PROVE  /\ strm' = [strm EXCEPT ![s] = strm'[s]] /\ StrmOK(s, strm'[s], Admitted)
             /\ strm'[s].made >= strm[s].made
  <2>1. strm' = [strm EXCEPT ![s] = new]
    BY <1>3 DEF Goes
  <2>2. strm'[s] = new
    BY <1>1, <2>1
  <2>. QED
    BY <1>3, <2>1, <2>2
<1>4. ASSUME NEW pc \in {"send", "await", "stopped"}, Goes(s, [q EXCEPT !.pc = pc]),
             q.pc # "done", q.batch # <<>> \/ pc = "stopped"
      PROVE  \E new : Goes(s, new) /\ StrmOK(s, new, Admitted) /\ new.made >= q.made
  <2>. DEFINE new == [q EXCEPT !.pc = pc]
  <2>1. StrmOK(s, new, Admitted) /\ Goes(s, new)
    BY <1>1, <1>4, StrmPc
  <2>2. new.made = q.made
    BY <1>2 DEF StrmRecord
  <2>. HIDE DEF new
  <2>3. new.made >= q.made
    BY <1>2, <2>2
  <2>. QED
    BY <2>1, <2>3
<1>. DEFINE Fine == \E new : Goes(s, new) /\ StrmOK(s, new, Admitted) /\ new.made >= q.made
<1>5. CASE SkipRow(s)
  <2>. DEFINE new == [q EXCEPT !.row = @ + 1]
  <2>1. q.pc = "read" /\ q.row \in Bad /\ Goes(s, new)
    BY <1>5 DEF SkipRow
  <2>2. StrmOK(s, new, Admitted)
    BY <1>1, <2>1, StrmSkip
  <2>3. new.made = q.made
    BY <1>2 DEF StrmRecord
  <2>. HIDE DEF new
  <2>4. Fine
    BY <1>2, <2>1, <2>2, <2>3
  <2>. QED
    BY <1>0, <1>3, <2>4
<1>6. CASE ReadRow(s)
  <2>. DEFINE batch == Append(q.batch, <<s, q.made + 1>>)
              pc == IF Len(batch) >= BatchSize THEN "send" ELSE "read"
              new == [q EXCEPT !.row = @ + 1, !.made = @ + 1, !.batch = batch, !.pc = pc]
  <2>1. q.pc = "read" /\ q.row \in 1..Rows \ Bad /\ Goes(s, new)
    BY <1>6 DEF ReadRow
  <2>2. StrmOK(s, new, Admitted)
    BY <1>1, <2>1, StrmRead
  <2>3. new.made = q.made + 1
    BY <1>2 DEF StrmRecord
  <2>. HIDE DEF new
  <2>4. Fine
    BY <1>2, <2>1, <2>2, <2>3
  <2>. QED
    BY <1>0, <1>3, <2>4
<1>7. CASE EndPass(s)
  <2>1. q.pc = "read" /\ q.row > Rows
    BY <1>7 DEF EndPass
  <2>2. CASE q.batch # <<>>
    <3>1. Goes(s, [q EXCEPT !.pc = "send"])
      BY <1>7, <2>2 DEF EndPass
    <3>2. Fine
      BY <1>4, <2>1, <2>2, <3>1
    <3>. QED
      BY <1>0, <1>3, <3>2
  <2>3. CASE q.batch = <<>>
    <3>1. NextPass(s)
      BY <1>7, <2>3 DEF EndPass
    <3>2. CASE q.pass = MaxPasses
      <4>. DEFINE new == [q EXCEPT !.pass = @ + 1, !.pc = "done"]
      <4>1. Goes(s, new)
        BY <3>1, <3>2 DEF NextPass
      <4>2. StrmOK(s, new, Admitted)
        BY <1>1, <2>1, <2>3, <3>2, StrmNext
      <4>3. new.made = q.made
        BY <1>2 DEF StrmRecord
      <4>. HIDE DEF new
      <4>4. Fine
        BY <1>2, <4>1, <4>2, <4>3
      <4>. QED
        BY <1>0, <1>3, <4>4
    <3>3. CASE q.pass # MaxPasses
      <4>. DEFINE new == [q EXCEPT !.pass = @ + 1, !.row = 1]
      <4>1. Goes(s, new)
        BY <3>1, <3>3 DEF NextPass
      <4>2. StrmOK(s, new, Admitted)
        BY <1>1, <2>1, <2>3, <3>3, StrmNext
      <4>3. new.made = q.made
        BY <1>2 DEF StrmRecord
      <4>. HIDE DEF new
      <4>4. Fine
        BY <1>2, <4>1, <4>2, <4>3
      <4>. QED
        BY <1>0, <1>3, <4>4
    <3>. QED
      BY <3>2, <3>3
  <2>. QED
    BY <2>2, <2>3
<1>8. CASE Send(s) \/ ServerGone(s) \/ CallBreaks(s)
  <2>1. /\ q.pc \in {"send", "await"}
        /\ \E pc \in {"send", "await"} : Goes(s, [q EXCEPT !.pc = pc])
    BY <1>8 DEF Send, ServerGone, CallBreaks
  <2>2. q.batch # <<>>
    BY <1>1, <2>1 DEF StrmOK
  <2>3. Fine
    BY <1>4, <2>1, <2>2
  <2>. QED
    BY <1>0, <1>3, <2>3
<1>9. CASE Cancel(s)
  <2>1. q.pc # "done" /\ Goes(s, [q EXCEPT !.pc = "stopped"])
    BY <1>9 DEF Cancel
  <2>2. Fine
    BY <1>4, <2>1
  <2>. QED
    BY <1>0, <1>3, <2>2
<1>10. ASSUME NEW call \in calls, Reply(s, call) PROVE Fine
  <2>. DEFINE rest == IF BatchSize = 1 THEN UnaryRest(call) ELSE BatchRest(call)
              pc == IF rest = <<>> THEN "read" ELSE "send"
              new == [q EXCEPT !.batch = rest, !.pc = pc]
              a == call.accepted
  <2>1. Goes(s, new) /\ q.pc = "await" /\ call.by = s /\ call.orphan = 0
    BY <1>10 DEF Reply, Pending
  <2>2. CallOK(call, q, Admitted)
    BY <2>1 DEF CallsOK
  <2>3. /\ rest \in Seq(Messages) /\ Len(rest) \in Nat /\ Len(rest) = Len(call.msgs) - a
        /\ \A k \in 1..Len(rest) : rest[k] = call.msgs[a + k]
    BY <2>2, RestFacts
  <2>4. call.msgs = q.batch /\ Start0(call) = q.made - Len(q.batch)
    BY <2>1, PendingStart
  <2>5. /\ a \in Nat /\ a <= Len(q.batch)
        /\ \A n \in 1..((q.made - Len(q.batch)) + a) : <<s, n>> \in Admitted
    BY <2>1, <2>2, <2>4, CallFacts DEF CallOK
  <2>6. new.made = q.made
    BY <1>2 DEF StrmRecord
  <2>7. pc = IF rest = <<>> THEN "read" ELSE "send"
    OBVIOUS
  <2>. HIDE DEF rest, a, pc, q
  <2>8. StrmOK(s, new, Admitted)
    <3>1. /\ Len(rest) = Len(q.batch) - a
          /\ \A k \in 1..Len(rest) : rest[k] = q.batch[a + k]
      BY <2>3, <2>4
    <3>2. StrmOK(s, q, Admitted) /\ q.pc = "await" /\ rest \in Seq(Messages) /\ Len(rest) \in Nat
      BY <1>1, <2>1, <2>3
    <3>. QED
      BY ONLY <2>5, <2>7, <3>1, <3>2, StrmReply
  <2>. HIDE DEF new
  <2>. QED
    BY <1>2, <2>1, <2>6, <2>8
<1>11. CASE \E call \in calls : Reply(s, call)
  BY <1>0, <1>3, <1>10, <1>11
<1>. QED
  BY <1>5, <1>6, <1>7, <1>8, <1>9, <1>11 DEF CallerMove, StreamerStep

\* Only a streamer's own step changes its record, and only an admission the history.
LEMMA OthersStep ==
    ASSUME Next, ~ \E s \in Streamers : CallerMove(s)
    PROVE  /\ strm' = strm /\ faults' = faults
           /\ copies' = copies \/ \E call \in calls : AdmitMove(call)
<1>1. ASSUME NEW call \in calls, CallMove(call) PROVE UNCHANGED strmVars
  BY <1>1 DEF CallMove, OrphanReturns
<1>2. ASSUME NEW call \in calls, AdmitMove(call) PROVE strm' = strm /\ faults' = faults
  BY <1>2 DEF AdmitMove
<1>3. ASSUME UNCHANGED vars PROVE UNCHANGED strmVars
  BY <1>3 DEF vars
<1>4. UNCHANGED strmVars => strm' = strm /\ faults' = faults /\ copies' = copies
  BY DEF strmVars
<1>. QED
  BY <1>1, <1>2, <1>3, <1>4, NextSplit

LEMMA StrmsStep ==
    ASSUME StrmsOK, CallsOK, copies \in [Messages -> Nat], Next
    PROVE  /\ StrmsOK' /\ Admitted \subseteq Admitted'
           /\ \A s \in Streamers : strm'[s].made >= strm[s].made
<1>0. \A s \in Streamers : strm[s].made \in Nat
  BY StrmFacts DEF StrmsOK
<1>1. ASSUME NEW s \in Streamers, CallerMove(s)
      PROVE  /\ StrmsOK' /\ Admitted \subseteq Admitted'
             /\ \A t \in Streamers : strm'[t].made >= strm[t].made
  <2>1. /\ Admitted' = Admitted
        /\ strm' = [strm EXCEPT ![s] = strm'[s]] /\ StrmOK(s, strm'[s], Admitted)
        /\ strm'[s].made >= strm[s].made
    BY <1>1, CallerStep
  <2>2. strm = [t \in Streamers |-> strm[t]] /\ \A t \in Streamers : StrmOK(t, strm[t], Admitted)
    BY DEF StrmsOK
  <2>3. strm' = [t \in Streamers |-> strm'[t]] /\ \A t \in Streamers : t # s => strm'[t] = strm[t]
    BY <2>1, <2>2
  <2>4. \A t \in Streamers : StrmOK(t, strm'[t], Admitted')
    BY <2>1, <2>2, <2>3
  <2>5. \A t \in Streamers : strm'[t].made >= strm[t].made
    <3>. SUFFICES ASSUME NEW t \in Streamers PROVE strm'[t].made >= strm[t].made
      OBVIOUS
    <3>1. CASE t = s
      BY <2>1, <3>1
    <3>2. CASE t # s
      BY <1>0, <2>3, <3>2
    <3>. QED
      BY <3>1, <3>2
  <2>6. StrmsOK'
    <3>1. ASSUME NEW t \in Streamers PROVE StrmOK(t, strm[t], Admitted)'
      BY <2>4 DEF StrmOK, Base, Good, StrmRecord
    <3>. QED
      BY <2>3, <3>1 DEF StrmsOK
  <2>. QED
    BY <2>1, <2>5, <2>6
<1>2. ASSUME strm' = strm, Admitted \subseteq Admitted' PROVE StrmsOK'
  <2>1. ASSUME NEW t \in Streamers PROVE StrmOK(t, strm[t], Admitted)'
    <3>1. StrmOK(t, strm[t], Admitted')
      BY <1>2, StrmMono DEF StrmsOK
    <3>2. strm'[t] = strm[t]
      BY <1>2
    <3>. QED
      BY <3>1, <3>2 DEF StrmOK, Base, Good, StrmRecord
  <2>. QED
    BY <1>2, <2>1 DEF StrmsOK
<1>3. ASSUME copies' = copies PROVE Admitted \subseteq Admitted'
  BY <1>3 DEF Admitted
<1>4. ASSUME NEW call \in calls, AdmitMove(call) PROVE Admitted \subseteq Admitted'
  BY <1>4, AdmitFacts
<1>5. CASE ~ \E s \in Streamers : CallerMove(s)
  <2>1. strm' = strm /\ (copies' = copies \/ \E call \in calls : AdmitMove(call))
    BY <1>5, OthersStep
  <2>2. \A t \in Streamers : strm'[t].made >= strm[t].made
    BY <1>0, <2>1
  <2>. QED
    BY <1>2, <1>3, <1>4, <2>1, <2>2
<1>. QED
  BY <1>1, <1>5

-----------------------------------------------------------------------------
(* The calls.                                                                *)

LEMMA StartFacts ==
    ASSUME NEW call, NEW q, NEW D, CallOK(call, q, D)
    PROVE  Start0(call) \in Nat
<1>1. call.msgs \in Seq(Messages) /\ 1 \in 1..Len(call.msgs)
  BY CallFacts DEF CallRecord
<1>2. call.msgs[1] \in Messages
  BY <1>1, ElementOfSeq
<1>3. call.msgs[1][2] \in 1..All /\ All \in Nat
  BY <1>2, BaseFacts DEF Messages, All
<1>. QED
  BY <1>3 DEF Start0

\* More may be made and admitted meanwhile.
LEMMA CallMono ==
    ASSUME NEW call, NEW q, NEW D, NEW r, NEW E, CallOK(call, q, D), D \subseteq E,
           q.made \in Nat, r.made \in Nat, r.made >= q.made,
           call.orphan = 0 => r.pc = "await" /\ call.msgs = r.batch
    PROVE  CallOK(call, r, E)
<1>1. Start0(call) \in Nat /\ Len(call.msgs) \in Nat
  BY StartFacts, CallFacts
<1>2. Start0(call) + Len(call.msgs) <= q.made
  BY DEF CallOK
<1>3. Start0(call) + Len(call.msgs) <= r.made
  BY <1>1, <1>2
<1>. QED
  BY <1>3 DEF CallOK

\* The caller is gone.
LEMMA CallOrphan ==
    ASSUME NEW call, NEW q, NEW D, NEW n \in Nat \ {0}, CallOK(call, q, D)
    PROVE  LET y == [call EXCEPT !.orphan = n]
           IN  CallOK(y, q, D) /\ y.orphan = n /\ y.by = call.by
<1>. DEFINE y == [call EXCEPT !.orphan = n]
<1>1. call \in CallRecord
  BY CallFacts
<1>2. /\ y \in CallRecord /\ y.by = call.by /\ y.orphan = n /\ y.msgs = call.msgs
      /\ y.accepted = call.accepted /\ y.at = call.at
  BY <1>1 DEF CallRecord
<1>. HIDE DEF y
<1>3. Start0(y) = Start0(call)
  BY <1>2 DEF Start0
<1>4. CallOK(y, q, D) /\ y.orphan = n /\ y.by = call.by
  BY <1>2, <1>3 DEF CallOK
<1>. QED
  BY <1>4 DEF y

\* The call moves on, having accepted some of its messages.
LEMMA CallGoes ==
    ASSUME NEW call, NEW q, NEW D, NEW E, CallOK(call, q, D), D \subseteq E, NEW y \in CallRecord,
           y.by = call.by, y.orphan = call.orphan, y.msgs = call.msgs,
           y.accepted <= Len(call.msgs),
           y.at # "arrived", y.at = "enqueue" => y.accepted < Len(call.msgs),
           \A n \in 1..(Start0(call) + y.accepted) : <<call.by, n>> \in E
    PROVE  CallOK(y, q, E)
<1>1. Start0(y) = Start0(call)
  BY DEF Start0
<1>. QED
  BY <1>1 DEF CallOK

\* A new call brings the batch.
LEMMA CallNew ==
    ASSUME NEW s \in Streamers, NEW q, NEW D, StrmOK(s, q, D), q.pc = "send", NEW y,
           y = [by |-> s, orphan |-> 0, msgs |-> q.batch, accepted |-> 0, at |-> "arrived"]
    PROVE  CallOK(y, [q EXCEPT !.pc = "await"], D)
<1>. DEFINE r == [q EXCEPT !.pc = "await"]
<1>1. /\ q \in StrmRecord /\ q.made \in Nat /\ q.batch \in Seq(Messages) /\ Len(q.batch) \in Nat
      /\ Len(q.batch) <= q.made
  BY StrmFacts
<1>2. /\ y \in CallRecord /\ y.by = s /\ y.orphan = 0 /\ y.msgs = q.batch /\ y.accepted = 0
      /\ y.at = "arrived"
  BY <1>1 DEF CallRecord
<1>3. q.batch # <<>> /\ Len(q.batch) <= BatchSize
  BY DEF StrmOK
<1>4. Len(q.batch) \in 1..BatchSize
  <2>1. Len(q.batch) \in Nat \ {0}
    BY <1>1, <1>3, EmptySeq
  <2>. QED
    BY <1>3, <2>1, StreamerAssumption
<1>5. r.pc = "await" /\ r.batch = q.batch /\ r.made = q.made
  BY <1>1 DEF StrmRecord
<1>. HIDE DEF r
<1>6. Start0(y) = q.made - Len(q.batch)
  <2>1. 1 \in 1..Len(q.batch)
    BY <1>4, StreamerAssumption
  <2>2. q.batch[1] = <<s, (q.made - Len(q.batch)) + 1>>
    BY <2>1 DEF StrmOK
  <2>3. Start0(y) = ((q.made - Len(q.batch)) + 1) - 1
    BY <1>2, <2>2 DEF Start0
  <2>. QED
    BY <1>1, <2>3
<1>7. \A k \in 1..Len(y.msgs) : y.msgs[k] = <<y.by, Start0(y) + k>>
  BY <1>2, <1>6 DEF StrmOK
<1>8. Start0(y) + Len(y.msgs) <= r.made /\ Start0(y) + y.accepted = q.made - Len(q.batch)
  BY <1>1, <1>2, <1>5, <1>6
<1>9. \A n \in 1..(Start0(y) + y.accepted) : <<y.by, n>> \in D
  BY <1>2, <1>8 DEF StrmOK
<1>10. y.accepted < Len(y.msgs) /\ y.accepted <= Len(y.msgs) /\ Len(y.msgs) \in 1..BatchSize
  BY <1>2, <1>4, StreamerAssumption
<1>11. CallOK(y, r, D)
  BY <1>2, <1>5, <1>7, <1>8, <1>9, <1>10 DEF CallOK
<1>. QED
  BY <1>11 DEF r

NewCall(s) == [by |-> s, orphan |-> 0, msgs |-> strm[s].batch, accepted |-> 0, at |-> "arrived"]

\* A streamer that is not waiting has no pending call.
LEMMA NoPending ==
    ASSUME CallsOK, NEW s \in Streamers, strm[s].pc # "await"
    PROVE  Pending(s) = {}
<1>. SUFFICES ASSUME NEW x \in Pending(s) PROVE FALSE
  OBVIOUS
<1>1. x \in calls /\ x.by = s /\ x.orphan = 0
  BY DEF Pending
<1>. QED
  BY <1>1 DEF CallsOK, CallOK

LEMMA OnePending ==
    ASSUME CallsOK, NEW s \in Streamers, NEW x \in Pending(s)
    PROVE  x \in calls /\ x.by = s /\ x.orphan = 0 /\ Pending(s) = {x}
BY DEF CallsOK, Pending

\* What a streamer's step does to the calls.
LEMMA CallerShape ==
    ASSUME StrmsOK, CallsOK, NEW s \in Streamers, CallerMove(s)
    PROVE  \/ calls' = calls /\ Pending(s) = {}
           \/ /\ Send(s) /\ calls' = calls \cup {NewCall(s)} /\ Pending(s) = {}
              /\ strm'[s] = [strm[s] EXCEPT !.pc = "await"]
           \/ \E x \in calls :
                 /\ x.by = s /\ x.orphan = 0 /\ Pending(s) = {x}
                 /\ \/ calls' = calls \ {x}
                    \/ /\ calls' = (calls \ {x}) \cup {[x EXCEPT !.orphan = faults + 1]}
                       /\ faults' = faults + 1
<1>1. CASE SkipRow(s) \/ ReadRow(s) \/ EndPass(s) \/ ServerGone(s)
  <2>1. calls' = calls
    BY <1>1 DEF SkipRow, ReadRow, EndPass, ServerGone, procVars
  <2>2. strm[s].pc = "read" \/ Pending(s) = {}
    BY <1>1 DEF SkipRow, ReadRow, EndPass, ServerGone
  <2>. QED
    BY <2>1, <2>2, NoPending
<1>2. CASE Send(s)
  <2>1. strm[s].pc = "send" /\ calls' = calls \cup {NewCall(s)}
    BY <1>2 DEF Send, NewCall
  <2>2. strm' = [strm EXCEPT ![s] = [strm[s] EXCEPT !.pc = "await"]]
    BY <1>2 DEF Send, Goes
  <2>3. strm'[s] = [strm[s] EXCEPT !.pc = "await"]
    BY <2>2 DEF StrmsOK
  <2>. QED
    BY <1>2, <2>1, <2>3, NoPending
<1>3. ASSUME NEW x \in calls, Reply(s, x)
      PROVE  x.by = s /\ x.orphan = 0 /\ Pending(s) = {x} /\ calls' = calls \ {x}
  BY <1>3, OnePending DEF Reply
<1>4. CASE CallBreaks(s) \/ Cancel(s)
  <2>1. Orphaned(Pending(s)) /\ faults' = faults + 1
    BY <1>4 DEF CallBreaks, Cancel
  <2>. QED
    BY <2>1, OrphanedFacts
<1>. QED
  BY <1>1, <1>2, <1>3, <1>4 DEF CallerMove, StreamerStep

\* What a step of a call does to it.
LEMMA CallShape ==
    ASSUME StrmsOK, CallsOK, copies \in [Messages -> Nat], NEW x \in calls,
           CallMove(x) \/ AdmitMove(x)
    PROVE  \/ calls' = calls \ {x} /\ x.orphan # 0 /\ copies' = copies
           \/ \E y : /\ calls' = (calls \ {x}) \cup {y} /\ CallOK(y, strm[x.by], Admitted')
                     /\ y.by = x.by /\ y.orphan = x.orphan /\ y.msgs = x.msgs
                     /\ y.accepted = IF AdmitMove(x) THEN x.accepted + 1 ELSE x.accepted
<1>0. CallOK(x, strm[x.by], Admitted)
  BY DEF CallsOK
<1>1. /\ x \in CallRecord /\ x.accepted \in Nat /\ Len(x.msgs) \in Nat /\ x.accepted <= Len(x.msgs)
      /\ x.at \in {"arrived", "enqueue"} => x.accepted < Len(x.msgs)
      /\ Left(x) = Len(x.msgs) - x.accepted
      /\ \A n \in 1..(Start0(x) + x.accepted) : <<x.by, n>> \in Admitted
  BY <1>0, CallFacts DEF CallOK
<1>2. CASE OrphanReturns(x)
  BY <1>2 DEF OrphanReturns, strmVars
<1>3. ASSUME NEW at \in {"enqueue", "reply", "unavailable"},
             calls' = (calls \ {x}) \cup {[x EXCEPT !.at = at]},
             at = "enqueue" => x.at = "arrived", copies' = copies
      PROVE  \E y : /\ calls' = (calls \ {x}) \cup {y} /\ CallOK(y, strm[x.by], Admitted')
                    /\ y.by = x.by /\ y.orphan = x.orphan /\ y.msgs = x.msgs
                    /\ y.accepted = x.accepted
  <2>. DEFINE y == [x EXCEPT !.at = at]
  <2>1. Admitted' = Admitted
    BY <1>3 DEF Admitted
  <2>2. /\ y \in CallRecord /\ y.by = x.by /\ y.orphan = x.orphan
        /\ y.msgs = x.msgs /\ y.accepted = x.accepted /\ y.at = at
    BY <1>1 DEF CallRecord
  <2>3. at = "enqueue" => x.accepted < Len(x.msgs)
    BY <1>1, <1>3
  <2>. HIDE DEF y
  <2>4. CallOK(y, strm[x.by], Admitted)
    BY <1>0, <1>1, <2>2, <2>3, CallGoes
  <2>. QED
    BY <1>3, <2>1, <2>2, <2>4 DEF y
<1>4. CASE (CheckDraining(x) \/ EnqueueRefused(x)) /\ UNCHANGED strmVars
  <2>1. copies' = copies
    BY <1>4 DEF strmVars
  <2>2. \E at \in {"enqueue", "reply", "unavailable"} :
           calls' = (calls \ {x}) \cup {[x EXCEPT !.at = at]} /\ (at = "enqueue" => x.at = "arrived")
    BY <1>4 DEF CheckDraining, EnqueueRefused, Becomes
  <2>3. ~AdmitMove(x)
    <3>. SUFFICES ASSUME AdmitMove(x) PROVE FALSE
      OBVIOUS
    <3>1. PICK m : m = x.msgs[x.accepted + 1]
      OBVIOUS
    <3>2. m \in Messages /\ copies'[m] = copies[m] + 1
      BY <3>1, AdmitFacts
    <3>3. copies[m] \in Nat
      BY <3>2
    <3>. QED
      BY <2>1, <3>2, <3>3
  <2>. QED
    BY <1>3, <2>1, <2>2, <2>3
<1>5. CASE AdmitMove(x)
  <2>. DEFINE a == x.accepted + 1
              at == IF Left(x) = 1 THEN "reply" ELSE x.at
              y == [x EXCEPT !.accepted = a, !.at = at]
              m == x.msgs[x.accepted + 1]
  <2>1. calls' = (calls \ {x}) \cup {y} /\ x.at = "enqueue"
    BY <1>5 DEF AdmitMove, EnqueueNext, Becomes
  <2>2. Admitted' = Admitted \cup {m} /\ m = <<x.by, Start0(x) + a>>
    BY <1>5, AdmitFacts
  <2>3. Start0(x) \in Nat
    BY <1>0, StartFacts
  <2>4. a \in Nat /\ a <= Len(x.msgs) /\ at \in {"enqueue", "reply", "unavailable"}
    BY <1>1, <2>1
  <2>5. at = "enqueue" => a < Len(x.msgs)
    BY <1>1, <2>1
  <2>6. \A n \in 1..(Start0(x) + a) : <<x.by, n>> \in Admitted'
    <3>. SUFFICES ASSUME NEW n \in 1..(Start0(x) + a) PROVE <<x.by, n>> \in Admitted'
      OBVIOUS
    <3>1. n \in 1..(Start0(x) + x.accepted) \/ n = Start0(x) + a
      BY <1>1, <2>3
    <3>. QED
      BY <1>1, <2>2, <3>1
  <2>7. a = x.accepted + 1 /\ Admitted \subseteq Admitted' /\ at # "arrived"
    BY <2>1, <2>2
  <2>. HIDE DEF a, at, m
  <2>8. /\ y \in CallRecord /\ y.by = x.by /\ y.orphan = x.orphan
        /\ y.msgs = x.msgs /\ y.accepted = a /\ y.at = at
    BY <1>1, <2>4 DEF CallRecord
  <2>. HIDE DEF y
  <2>9. CallOK(y, strm[x.by], Admitted')
    BY <1>0, <2>4, <2>5, <2>6, <2>7, <2>8, CallGoes
  <2>. QED
    BY <1>5, <2>1, <2>7, <2>8, <2>9
<1>. QED
  BY <1>2, <1>4, <1>5 DEF CallMove

LEMMA CallsStep ==
    ASSUME StrmsOK, CallsOK, copies \in [Messages -> Nat], faults \in Nat, Next
    PROVE  CallsOK'
<1>0. /\ StrmsOK' /\ Admitted \subseteq Admitted'
      /\ \A s \in Streamers : strm'[s].made >= strm[s].made
  BY StrmsStep
<1>1. \A s \in Streamers : strm[s].made \in Nat /\ strm'[s].made \in Nat
  <2>1. \A s \in Streamers : strm[s].made \in Nat
    BY StrmFacts DEF StrmsOK
  <2>2. \A s \in Streamers : strm'[s].made \in Nat
    BY <1>0, <2>1 DEF StrmsOK, StrmOK, StrmRecord
  <2>. QED
    BY <2>1, <2>2
<1>2. /\ IsFiniteSet(calls)
      /\ \A c \in calls : CallOK(c, strm[c.by], Admitted) /\ c.by \in Streamers
      /\ \A c, d \in calls : c.orphan = 0 /\ d.orphan = 0 /\ c.by = d.by => c = d
  BY DEF CallsOK, CallOK, CallRecord
\* What is to be shown, with the primes inside.
<1>3. ASSUME IsFiniteSet(calls'), \A c \in calls' : CallOK(c, strm'[c.by], Admitted'),
             \A c, d \in calls' : c.orphan = 0 /\ d.orphan = 0 /\ c.by = d.by => c = d
      PROVE  CallsOK'
  <2>1. ASSUME NEW c \in calls' PROVE CallOK(c, strm[c.by], Admitted)'
    BY <1>3 DEF CallOK, CallRecord, Start0
  <2>. QED
    BY <1>3, <2>1 DEF CallsOK
\* A call that stays while its caller does, or is an orphan.
<1>4. ASSUME NEW c \in calls, c.orphan = 0 => strm'[c.by] = strm[c.by]
      PROVE  CallOK(c, strm'[c.by], Admitted')
  <2>1. CallOK(c, strm[c.by], Admitted) /\ c.by \in Streamers
    BY <1>2
  <2>2. c.orphan = 0 => strm'[c.by].pc = "await" /\ c.msgs = strm'[c.by].batch
    BY <1>4, <2>1 DEF CallOK
  <2>3. strm[c.by].made \in Nat /\ strm'[c.by].made \in Nat /\ strm'[c.by].made >= strm[c.by].made
    BY <1>0, <1>1, <2>1
  <2>. QED
    BY <1>0, <2>1, <2>2, <2>3, CallMono
<1>5. ASSUME calls' \subseteq calls, strm' = strm PROVE CallsOK'
  <2>1. IsFiniteSet(calls')
    BY <1>2, <1>5, FS_Subset
  <2>. QED
    BY <1>2, <1>3, <1>4, <1>5, <2>1
<1>6. ASSUME NEW s \in Streamers, CallerMove(s) PROVE CallsOK'
  <2>1. \A t \in Streamers : t # s => strm'[t] = strm[t]
    BY <1>6, CallerStep DEF StrmsOK
  <2>2. \A c \in calls : ~(c.by = s /\ c.orphan = 0) => CallOK(c, strm'[c.by], Admitted')
    BY <1>2, <1>4, <2>1
  <2>3. CASE calls' = calls /\ Pending(s) = {}
    <3>1. \A c \in calls : ~(c.by = s /\ c.orphan = 0)
      BY <2>3 DEF Pending
    <3>. QED
      BY <1>2, <1>3, <2>2, <2>3, <3>1
  <2>4. CASE /\ Send(s) /\ calls' = calls \cup {NewCall(s)} /\ Pending(s) = {}
             /\ strm'[s] = [strm[s] EXCEPT !.pc = "await"]
    <3>. DEFINE y == NewCall(s)
    <3>1. strm[s].pc = "send" /\ StrmOK(s, strm[s], Admitted) /\ Admitted' = Admitted
      BY <1>6, <2>4, CallerStep DEF Send, StrmsOK
    <3>2. CallOK(y, strm'[s], Admitted')
      BY <2>4, <3>1, CallNew DEF NewCall
    <3>3. y.by = s /\ y.orphan = 0
      BY DEF NewCall
    <3>4. \A c \in calls : ~(c.by = s /\ c.orphan = 0)
      BY <2>4 DEF Pending
    <3>. HIDE DEF y
    <3>5. IsFiniteSet(calls') /\ calls' = calls \cup {y}
      BY <1>2, <2>4, FS_AddElement DEF y
    <3>6. \A c \in calls' : CallOK(c, strm'[c.by], Admitted')
      BY <2>2, <3>2, <3>3, <3>4, <3>5
    <3>7. \A c, d \in calls' : c.orphan = 0 /\ d.orphan = 0 /\ c.by = d.by => c = d
      BY <1>2, <3>3, <3>4, <3>5
    <3>. QED
      BY <1>3, <3>5, <3>6, <3>7
  <2>5. ASSUME NEW x \in calls, Pending(s) = {x}, calls' = calls \ {x} PROVE CallsOK'
    <3>1. \A c \in calls' : c \in calls /\ ~(c.by = s /\ c.orphan = 0)
      BY <2>5 DEF Pending
    <3>2. IsFiniteSet(calls')
      BY <1>2, <2>5, FS_RemoveElement
    <3>. QED
      BY <1>2, <1>3, <2>2, <3>1, <3>2
  <2>6. ASSUME NEW x \in calls, x.by = s, Pending(s) = {x},
               calls' = (calls \ {x}) \cup {[x EXCEPT !.orphan = faults + 1]}
        PROVE  CallsOK'
    <3>. DEFINE y == [x EXCEPT !.orphan = faults + 1]
    <3>1. faults + 1 \in Nat \ {0}
      OBVIOUS
    <3>2. CallOK(y, strm[s], Admitted) /\ y.orphan = faults + 1 /\ y.by = s
      BY <1>2, <2>6, <3>1, CallOrphan
    <3>3. calls' = (calls \ {x}) \cup {y}
      BY <2>6
    <3>. HIDE DEF y
    <3>4. y.orphan # 0
      BY <3>1, <3>2
    <3>5. CallOK(y, strm'[y.by], Admitted')
      <4>1. strm[s].made \in Nat /\ strm'[s].made \in Nat /\ strm'[s].made >= strm[s].made
        BY <1>0, <1>1
      <4>. QED
        BY <1>0, <3>2, <3>4, <4>1, CallMono
    <3>6. \A c \in calls' : c = y \/ (c \in calls /\ ~(c.by = s /\ c.orphan = 0))
      BY <2>6, <3>3 DEF Pending
    <3>7. IsFiniteSet(calls')
      BY <1>2, <3>3, FS_RemoveElement, FS_AddElement
    <3>8. \A c \in calls' : CallOK(c, strm'[c.by], Admitted')
      BY <2>2, <3>5, <3>6
    <3>9. \A c, d \in calls' : c.orphan = 0 /\ d.orphan = 0 /\ c.by = d.by => c = d
      BY <1>2, <3>4, <3>6
    <3>. QED
      BY <1>3, <3>7, <3>8, <3>9
  <2>. QED
    BY <1>6, <2>3, <2>4, <2>5, <2>6, CallerShape
<1>7. ASSUME NEW x \in calls, CallMove(x) \/ AdmitMove(x), strm' = strm PROVE CallsOK'
  <2>1. ASSUME NEW y, calls' = (calls \ {x}) \cup {y}, CallOK(y, strm[x.by], Admitted'),
               y.by = x.by, y.orphan = x.orphan
        PROVE  CallsOK'
    <3>1. IsFiniteSet(calls')
      BY <1>2, <2>1, FS_RemoveElement, FS_AddElement
    <3>2. \A c \in calls' : CallOK(c, strm'[c.by], Admitted')
      BY <1>4, <1>7, <2>1
    <3>3. \A c, d \in calls' : c.orphan = 0 /\ d.orphan = 0 /\ c.by = d.by => c = d
      BY <1>2, <2>1
    <3>. QED
      BY <1>3, <3>1, <3>2, <3>3
  <2>2. CASE calls' = calls \ {x}
    BY <1>5, <1>7, <2>2
  <2>. QED
    BY <1>7, <2>1, <2>2, CallShape
<1>8. ASSUME ProcStep \/ UNCHANGED vars PROVE calls' \subseteq calls
  <2>1. CASE UNCHANGED vars
    BY <2>1 DEF vars, procVars
  <2>2. CASE ProcStep
    BY <2>2 DEF ProcStep, Connect, Leave, Returned, Take, Consume, CountAck, Requeue, DeadLetter,
                LeaseEnds, Replay, BeginDrain, DrainTick, LoadConsumed, DrainStats, Judge, DrainDeadline, EndDrain, Shutdown, Exit,
                Crash, MemoryLost, Start
  <2>. QED
    BY <1>8, <2>1, <2>2
<1>9. CASE ~ \E s \in Streamers : CallerMove(s)
  <2>1. strm' = strm
    BY <1>9, OthersStep
  <2>. QED
    BY <1>5, <1>7, <1>8, <1>9, <2>1, NextSplit
<1>. QED
  BY <1>6, <1>9

-----------------------------------------------------------------------------
(* The copies of a message.                                                  *)

LEMMA MessageFacts ==
    ASSUME NEW m \in Messages
    PROVE  m[1] \in Streamers /\ m[2] \in 1..All /\ m[2] \in Nat /\ m = <<m[1], m[2]>>
BY BaseFacts DEF Messages, All

\* Which messages a call may still admit, by number.
LEMMA MayAdmitFacts ==
    ASSUME NEW call, NEW q, NEW D, CallOK(call, q, D), NEW m \in Messages
    PROVE  MayAdmit(call, m) <=>
              /\ m[1] = call.by
              /\ m[2] \in ((Start0(call) + call.accepted) + 1)..(Start0(call) + Len(call.msgs))
<1>1. /\ Start0(call) \in Nat /\ Len(call.msgs) \in Nat /\ call.accepted \in Nat
      /\ \A k \in 1..Len(call.msgs) : call.msgs[k] = <<call.by, Start0(call) + k>>
  BY StartFacts, CallFacts DEF CallOK
<1>2. m[2] \in Nat /\ m = <<m[1], m[2]>>
  BY MessageFacts
<1>3. ASSUME MayAdmit(call, m)
      PROVE  /\ m[1] = call.by
             /\ m[2] \in ((Start0(call) + call.accepted) + 1)..(Start0(call) + Len(call.msgs))
  <2>1. PICK k \in (call.accepted + 1)..Len(call.msgs) : call.msgs[k] = m
    BY <1>3 DEF MayAdmit
  <2>2. k \in 1..Len(call.msgs)
    BY <1>1
  <2>3. m = <<call.by, Start0(call) + k>>
    BY <1>1, <2>1, <2>2
  <2>4. m[1] = call.by /\ m[2] = Start0(call) + k
    BY <2>3
  <2>. QED
    BY <1>1, <2>4
<1>4. ASSUME m[1] = call.by,
             m[2] \in ((Start0(call) + call.accepted) + 1)..(Start0(call) + Len(call.msgs))
      PROVE  MayAdmit(call, m)
  <2>. DEFINE k == m[2] - Start0(call)
  <2>1. /\ k \in (call.accepted + 1)..Len(call.msgs) /\ k \in 1..Len(call.msgs)
        /\ Start0(call) + k = m[2]
    BY <1>1, <1>2, <1>4
  <2>. HIDE DEF k
  <2>2. call.msgs[k] = <<call.by, Start0(call) + k>>
    BY <1>1, <2>1
  <2>3. call.msgs[k] = m
    BY <1>2, <1>4, <2>1, <2>2
  <2>. QED
    BY <2>1, <2>3 DEF MayAdmit
<1>. QED
  BY <1>3, <1>4

LEMMA CountType ==
    ASSUME NEW C, IsFiniteSet(C), NEW m
    PROVE  IsFiniteSet({call \in C : MayAdmit(call, m)}) /\ Count(C, m) \in Nat
<1>1. IsFiniteSet({call \in C : MayAdmit(call, m)})
  BY FS_Subset
<1>. QED
  BY <1>1, FS_CardinalityType DEF Count

LEMMA CountDrop ==
    ASSUME NEW C, IsFiniteSet(C), NEW m, NEW x \in C
    PROVE  /\ Count(C, m) \in Nat /\ Count(C \ {x}, m) \in Nat /\ IsFiniteSet(C \ {x})
           /\ Count(C \ {x}, m) = IF MayAdmit(x, m) THEN Count(C, m) - 1 ELSE Count(C, m)
<1>. DEFINE A == {call \in C : MayAdmit(call, m)}
            B == {call \in C \ {x} : MayAdmit(call, m)}
<1>1. IsFiniteSet(C \ {x})
  BY FS_RemoveElement
<1>2. IsFiniteSet(A) /\ Count(C, m) \in Nat /\ Count(C \ {x}, m) \in Nat
  BY <1>1, CountType
<1>3. B = A \ {x} /\ (x \in A <=> MayAdmit(x, m))
  OBVIOUS
<1>4. Count(C, m) = Cardinality(A) /\ Count(C \ {x}, m) = Cardinality(B)
  BY DEF Count
<1>. HIDE DEF A, B
<1>5. Cardinality(A \ {x}) = IF x \in A THEN Cardinality(A) - 1 ELSE Cardinality(A)
  BY <1>2, FS_RemoveElement
<1>. QED
  BY <1>1, <1>2, <1>3, <1>4, <1>5

LEMMA CountAdd ==
    ASSUME NEW C, IsFiniteSet(C), NEW m, NEW y
    PROVE  /\ Count(C, m) \in Nat /\ Count(C \cup {y}, m) \in Nat
           /\ Count(C \cup {y}, m) <= Count(C, m) + 1
           /\ ~MayAdmit(y, m) => Count(C \cup {y}, m) = Count(C, m)
<1>. DEFINE A == {call \in C : MayAdmit(call, m)}
            B == {call \in C \cup {y} : MayAdmit(call, m)}
<1>1. IsFiniteSet(C \cup {y})
  BY FS_AddElement
<1>2. IsFiniteSet(A) /\ Count(C, m) \in Nat /\ Count(C \cup {y}, m) \in Nat
  BY <1>1, CountType
<1>3. IF MayAdmit(y, m) THEN B = A \cup {y} ELSE B = A
  OBVIOUS
<1>4. Count(C, m) = Cardinality(A) /\ Count(C \cup {y}, m) = Cardinality(B)
  BY DEF Count
<1>. HIDE DEF A, B
<1>5. Cardinality(A \cup {y}) = IF y \in A THEN Cardinality(A) ELSE Cardinality(A) + 1
  BY <1>2, FS_AddElement
<1>. QED
  BY <1>2, <1>3, <1>4, <1>5

LEMMA CountReplace ==
    ASSUME NEW C, IsFiniteSet(C), NEW m, NEW x \in C, NEW y, MayAdmit(y, m) => MayAdmit(x, m),
           NEW D, D = (C \ {x}) \cup {y}
    PROVE  /\ Count(C, m) \in Nat /\ Count(D, m) \in Nat
           /\ Count(D, m) <= Count(C, m)
           /\ MayAdmit(x, m) /\ ~MayAdmit(y, m) => Count(D, m) <= Count(C, m) - 1
<1>. DEFINE B == C \ {x}
<1>1. /\ Count(C, m) \in Nat /\ Count(B, m) \in Nat /\ IsFiniteSet(B)
      /\ Count(B, m) = IF MayAdmit(x, m) THEN Count(C, m) - 1 ELSE Count(C, m)
  BY CountDrop
<1>2. D = B \cup {y}
  OBVIOUS
<1>. HIDE DEF B
<1>3. /\ Count(D, m) \in Nat /\ Count(D, m) <= Count(B, m) + 1
      /\ ~MayAdmit(y, m) => Count(D, m) = Count(B, m)
  BY <1>1, <1>2, CountAdd
<1>4. CASE MayAdmit(y, m)
  BY <1>1, <1>3, <1>4
<1>5. CASE ~MayAdmit(y, m)
  BY <1>1, <1>3, <1>5
<1>. QED
  BY <1>4, <1>5

\* A call of another streamer cannot admit the message.
LEMMA OtherCall ==
    ASSUME NEW call, NEW q, NEW D, CallOK(call, q, D), NEW m \in Messages, m[1] # call.by
    PROVE  ~MayAdmit(call, m)
BY MayAdmitFacts

\* The count does not grow, and the next call, if it is to come, already was.
LEMMA CopyLess ==
    ASSUME NEW m \in Messages, NEW q, NEW r, NEW P, NEW R, NEW k \in Nat, NEW l \in Nat,
           NEW b \in Nat, NEW c \in Nat, CopyFits(m, q, P, k, b),
           l <= k, b <= c, r.made = q.made, r.batch = q.batch, R = {} => P = {}
    PROVE  CopyFits(m, r, R, l, c)
<1>1. m[2] > r.made => l = 0
  BY DEF CopyFits
<1>2. l <= c
  BY DEF CopyFits
<1>3. m[2] \in ((r.made - Len(r.batch)) + 1)..r.made /\ R = {} => l + 1 <= c
  BY DEF CopyFits
<1>. QED
  BY <1>1, <1>2, <1>3 DEF CopyFits

\* The count does not grow and the bound does.
LEMMA CopyMore ==
    ASSUME NEW m \in Messages, NEW q, NEW r, NEW P, NEW R, NEW k \in Nat, NEW l \in Nat,
           NEW b \in Nat, NEW c \in Nat, CopyFits(m, q, P, k, b),
           l <= k, b + 1 <= c, r.made = q.made
    PROVE  CopyFits(m, r, R, l, c)
BY DEF CopyFits

\* Only a new call adds to the count, and only for the messages of its batch.
LEMMA CallerCount ==
    ASSUME StrmsOK, CallsOK, NEW s \in Streamers, CallerMove(s), NEW m \in Messages
    PROVE  /\ Count(calls, m) \in Nat /\ Count(calls', m) \in Nat
           /\ \/ Count(calls', m) <= Count(calls, m)
              \/ /\ Send(s) /\ Pending(s) = {} /\ m[1] = s
                 /\ m[2] \in ((strm[s].made - Len(strm[s].batch)) + 1)..strm[s].made
                 /\ Count(calls', m) <= Count(calls, m) + 1
           /\ m[1] # s => (Pending(m[1])' = {} => Pending(m[1]) = {})
<1>. DEFINE Keeps == m[1] # s => (Pending(m[1])' = {} => Pending(m[1]) = {})
<1>0. IsFiniteSet(calls)
  BY DEF CallsOK
<1>1. Count(calls, m) \in Nat
  BY <1>0, CountType
<1>2. CASE calls' = calls
  BY <1>1, <1>2 DEF Pending
<1>3. CASE /\ Send(s) /\ calls' = calls \cup {NewCall(s)} /\ Pending(s) = {}
           /\ strm'[s] = [strm[s] EXCEPT !.pc = "await"]
  <2>. DEFINE y == NewCall(s)
  <2>1. strm[s].pc = "send" /\ StrmOK(s, strm[s], Admitted)
    BY <1>3 DEF Send, StrmsOK
  <2>2. CallOK(y, strm'[s], Admitted)
    BY <1>3, <2>1, CallNew DEF NewCall
  <2>3. y.by = s /\ y.accepted = 0 /\ y.msgs = strm[s].batch
    BY DEF NewCall
  <2>4. strm[s].made \in Nat /\ Len(strm[s].batch) \in Nat /\ strm[s].made - Len(strm[s].batch) \in Nat
    BY <2>1, StrmFacts
  <2>5. Start0(y) = strm[s].made - Len(strm[s].batch)
    <3>1. Len(strm[s].batch) \in Nat \ {0}
      BY <2>2, <2>3, CallFacts
    <3>2. 1 \in 1..Len(strm[s].batch)
      BY <3>1
    <3>3. strm[s].batch[1] = <<s, (strm[s].made - Len(strm[s].batch)) + 1>>
      BY <2>1, <3>2 DEF StrmOK
    <3>4. Start0(y) = ((strm[s].made - Len(strm[s].batch)) + 1) - 1
      BY <2>3, <3>3 DEF Start0
    <3>. QED
      BY <2>4, <3>4
  <2>6. MayAdmit(y, m) =>
           m[1] = s /\ m[2] \in ((strm[s].made - Len(strm[s].batch)) + 1)..strm[s].made
    <3>1. MayAdmit(y, m) =>
             /\ m[1] = s
             /\ m[2] \in ((Start0(y) + 0) + 1)..(Start0(y) + Len(strm[s].batch))
      BY <2>2, <2>3, MayAdmitFacts
    <3>2. Start0(y) + 0 = strm[s].made - Len(strm[s].batch) /\ Start0(y) + Len(strm[s].batch) = strm[s].made
      BY <2>4, <2>5
    <3>. QED
      BY <3>1, <3>2
  <2>7. calls' = calls \cup {y}
    BY <1>3
  <2>. HIDE DEF y
  <2>8. /\ Count(calls', m) \in Nat /\ Count(calls', m) <= Count(calls, m) + 1
        /\ ~MayAdmit(y, m) => Count(calls', m) = Count(calls, m)
    BY <1>0, <2>7, CountAdd
  <2>9. Keeps
    BY <2>7 DEF Pending
  <2>. QED
    BY <1>1, <1>3, <2>6, <2>8, <2>9
<1>4. ASSUME NEW x \in calls, x.by = s, calls' = calls \ {x}
      PROVE  Count(calls', m) \in Nat /\ Count(calls', m) <= Count(calls, m) /\ Keeps
  <2>1. /\ Count(calls', m) \in Nat
        /\ Count(calls', m) = IF MayAdmit(x, m) THEN Count(calls, m) - 1 ELSE Count(calls, m)
    BY <1>0, <1>4, CountDrop
  <2>2. Keeps
    BY <1>4 DEF Pending
  <2>. QED
    BY <1>1, <2>1, <2>2
<1>5. ASSUME NEW x \in calls, x.by = s,
             calls' = (calls \ {x}) \cup {[x EXCEPT !.orphan = faults + 1]}
      PROVE  Count(calls', m) \in Nat /\ Count(calls', m) <= Count(calls, m) /\ Keeps
  <2>. DEFINE y == [x EXCEPT !.orphan = faults + 1]
  <2>1. x \in CallRecord
    BY DEF CallsOK, CallOK
  <2>2. y.msgs = x.msgs /\ y.accepted = x.accepted /\ calls' = (calls \ {x}) \cup {y}
    BY <1>5, <2>1 DEF CallRecord
  <2>. HIDE DEF y
  <2>3. MayAdmit(y, m) => MayAdmit(x, m)
    BY <2>2 DEF MayAdmit
  <2>4. Count(calls', m) \in Nat /\ Count(calls', m) <= Count(calls, m)
    BY <1>0, <2>2, <2>3, CountReplace
  <2>5. Keeps
    BY <1>5, <2>2 DEF Pending
  <2>. QED
    BY <2>4, <2>5
<1>. QED
  BY <1>1, <1>2, <1>3, <1>4, <1>5, CallerShape

LEMMA BoundFacts ==
    ASSUME PhaseOK, faults \in 0..MaxFaults
    PROVE  runs \in Nat \ {0} /\ faults \in Nat /\ Bound \in Nat /\ Bound >= 1
<1>1. runs \in Nat \ {0} /\ faults \in Nat
  BY ProcessAssumption, StreamerAssumption DEF PhaseOK
<1>. QED
  BY <1>1 DEF Bound

\* A streamer's step keeps the copies of every message within the bound.
LEMMA CopiesCaller ==
    ASSUME PhaseOK, StrmsOK, CallsOK, CopiesOK, Still, NEW s \in Streamers, CallerMove(s),
           NEW m \in Messages
    PROVE  CopyOK(m)' /\ faults' \in 0..MaxFaults
<1>. DEFINE q == strm[m[1]]
            r == strm'[m[1]]
            P == Pending(m[1])
            R == Pending(m[1])'
            k == copies[m] + Count(calls, m)
            l == copies[m] + Count(calls', m)
            b == Bound
            c == Bound'
<1>1. CopyFits(m, q, P, k, b)
  BY DEF CopiesOK, CopyOK
<1>2. /\ m[1] \in Streamers /\ m[2] \in Nat /\ copies[m] \in Nat /\ copies' = copies
      /\ strm = [t \in Streamers |-> strm[t]] /\ StrmOK(m[1], q, Admitted)
      /\ strm' = [strm EXCEPT ![s] = strm'[s]] /\ StrmOK(s, strm'[s], Admitted)
  BY MessageFacts, CallerStep DEF CopiesOK, StrmsOK
<1>3. /\ q.made \in Nat /\ Len(q.batch) \in Nat /\ Len(q.batch) <= q.made
  BY <1>2, StrmFacts
<1>4. /\ Count(calls, m) \in Nat /\ Count(calls', m) \in Nat
      /\ \/ Count(calls', m) <= Count(calls, m)
         \/ /\ Send(s) /\ Pending(s) = {} /\ m[1] = s
            /\ m[2] \in ((q.made - Len(q.batch)) + 1)..q.made
            /\ Count(calls', m) <= Count(calls, m) + 1
      /\ m[1] # s => (R = {} => P = {})
  BY CallerCount
<1>5. k \in Nat /\ l \in Nat /\ (Count(calls', m) <= Count(calls, m) => l <= k)
  BY <1>2, <1>4
<1>6. /\ faults \in Nat /\ b \in Nat /\ b >= 1 /\ MaxFaults \in Nat
      /\ b = runs + faults + (IF phase = "down" THEN 1 ELSE 0) /\ runs \in Nat
  BY BoundFacts, StreamerAssumption DEF CopiesOK, Bound
<1>7. c = runs + faults' + (IF phase = "down" THEN 1 ELSE 0)
  BY DEF Bound, Still
<1>8. IF CallBreaks(s) \/ Cancel(s) THEN faults' = faults + 1 /\ faults < MaxFaults
      ELSE faults' = faults
  <2>1. ASSUME CallBreaks(s) \/ Cancel(s) PROVE faults' = faults + 1 /\ faults < MaxFaults
    BY <2>1 DEF CallBreaks, Cancel
  <2>2. ASSUME StreamerStep(s) PROVE faults' = faults
    BY <2>2 DEF StreamerStep, SkipRow, ReadRow, EndPass, Send, ServerGone, Reply
  <2>. QED
    BY <2>1, <2>2 DEF CallerMove
<1>9. /\ c \in Nat /\ b <= c /\ (CallBreaks(s) \/ Cancel(s) => b + 1 <= c)
      /\ faults' \in 0..MaxFaults
  BY <1>6, <1>7, <1>8 DEF CopiesOK
<1>10. ASSUME CopyFits(m, r, R, l, c) PROVE CopyOK(m)'
  BY <1>2, <1>10 DEF CopyOK, CopyFits, Count, MayAdmit
<1>. HIDE DEF q, r, P, R, k, l, b, c
<1>11. CASE m[1] # s
  <2>1. r = q
    BY <1>2, <1>11 DEF q, r
  <2>2. CopyFits(m, r, R, l, c)
    BY <1>1, <1>4, <1>5, <1>6, <1>9, <1>11, <2>1, CopyLess
  <2>. QED
    BY <1>9, <1>10, <2>2
<1>12. ASSUME m[1] = s, NEW new, Goes(s, new) PROVE r = new
  <2>1. strm' = [strm EXCEPT ![s] = new]
    BY <1>12 DEF Goes
  <2>. QED
    BY <1>2, <1>12, <2>1 DEF r
<1>13. q \in StrmRecord
  BY <1>2, StrmFacts
<1>14. CASE m[1] = s /\ (CallBreaks(s) \/ Cancel(s))
  <2>1. ~Send(s)
    <3>1. Send(s) => faults' = faults
      BY DEF Send
    <3>. QED
      BY <1>6, <1>8, <1>14, <3>1
  <2>2. l <= k
    BY <1>4, <1>5, <2>1
  <2>3. \E pc : r = [q EXCEPT !.pc = pc]
    BY <1>12, <1>14 DEF CallBreaks, Cancel, q
  <2>4. r.made = q.made
    BY <1>13, <2>3 DEF StrmRecord
  <2>5. CopyFits(m, r, R, l, c)
    BY <1>1, <1>5, <1>6, <1>9, <1>14, <2>2, <2>4, CopyMore
  <2>. QED
    BY <1>9, <1>10, <2>5
<1>15. CASE m[1] = s /\ (SkipRow(s) \/ EndPass(s) \/ ServerGone(s))
  <2>1. calls' = calls
    BY <1>15 DEF SkipRow, EndPass, ServerGone, procVars
  <2>2. l <= k /\ R = P
    BY <1>5, <2>1 DEF k, l, P, R, Pending
  <2>3. r.made = q.made /\ r.batch = q.batch
    <3>1. \/ r = [q EXCEPT !.row = @ + 1]
          \/ r = [q EXCEPT !.pc = "send"]
          \/ r = [q EXCEPT !.pass = @ + 1, !.pc = "done"]
          \/ r = [q EXCEPT !.pass = @ + 1, !.row = 1]
      BY <1>12, <1>15 DEF SkipRow, EndPass, NextPass, ServerGone, q
    <3>. QED
      BY <1>13, <3>1 DEF StrmRecord
  <2>4. CopyFits(m, r, R, l, c)
    BY <1>1, <1>5, <1>6, <1>9, <2>2, <2>3, CopyLess
  <2>. QED
    BY <1>9, <1>10, <2>4
<1>16. CASE m[1] = s /\ ReadRow(s)
  <2>1. calls' = calls
    BY <1>16 DEF ReadRow, procVars
  <2>2. l <= k /\ R = P
    BY <1>5, <2>1 DEF k, l, P, R, Pending
  <2>3. r.made = q.made + 1 /\ Len(r.batch) = Len(q.batch) + 1
    <3>1. PICK batch, pc : /\ batch = Append(q.batch, <<s, q.made + 1>>)
                           /\ r = [q EXCEPT !.row = @ + 1, !.made = @ + 1, !.batch = batch, !.pc = pc]
      BY <1>12, <1>16 DEF ReadRow, q
    <3>2. r.made = q.made + 1 /\ r.batch = batch
      BY <1>13, <3>1 DEF StrmRecord
    <3>3. StrmOK(s, r, Admitted)
      BY <1>2, <1>16 DEF r
    <3>4. r.batch \in Seq(Messages) /\ q.batch \in Seq(Messages)
      BY <1>2, <3>3, StrmFacts
    <3>5. Len(Append(q.batch, <<s, q.made + 1>>)) = Len(q.batch) + 1
      BY <3>4
    <3>. QED
      BY <3>1, <3>2, <3>5
  <2>4. (r.made - Len(r.batch)) + 1 = (q.made - Len(q.batch)) + 1
    <3>1. \A i, j \in Nat : ((i + 1) - (j + 1)) + 1 = (i - j) + 1
      OBVIOUS
    <3>. QED
      BY <1>3, <2>3, <3>1
  <2>5. m[2] > q.made => l = 0
    BY <1>1, <1>5, <2>2 DEF CopyFits
  <2>6. m[2] > r.made => l = 0
    BY <1>2, <1>3, <2>3, <2>5
  <2>7. l <= c
    BY <1>1, <1>5, <1>6, <1>9, <2>2 DEF CopyFits
  <2>8. ASSUME m[2] \in ((r.made - Len(r.batch)) + 1)..r.made, R = {} PROVE l + 1 <= c
    <3>1. CASE m[2] > q.made
      BY <1>6, <1>9, <2>5, <3>1
    <3>2. CASE ~(m[2] > q.made)
      <4>1. m[2] \in ((q.made - Len(q.batch)) + 1)..q.made
        BY <1>2, <1>3, <2>3, <2>4, <2>8, <3>2
      <4>2. k + 1 <= b
        BY <1>1, <2>2, <2>8, <4>1 DEF CopyFits
      <4>. QED
        BY <1>5, <1>6, <1>9, <2>2, <4>2
    <3>. QED
      BY <3>1, <3>2
  <2>9. CopyFits(m, r, R, l, c)
    BY <2>6, <2>7, <2>8 DEF CopyFits
  <2>. QED
    BY <1>9, <1>10, <2>9
<1>17. CASE m[1] = s /\ Send(s)
  <2>1. r = [q EXCEPT !.pc = "await"]
    BY <1>12, <1>17 DEF Send, q
  <2>2. r.made = q.made /\ r.batch = q.batch
    BY <1>13, <2>1 DEF StrmRecord
  <2>3. R # {}
    <3>1. NewCall(s) \in calls' /\ NewCall(s).by = s /\ NewCall(s).orphan = 0
      BY <1>17 DEF Send, NewCall
    <3>. QED
      BY <1>17, <3>1 DEF R, Pending
  <2>4. \/ l <= k
        \/ l <= k + 1 /\ k + 1 <= b /\ m[2] \in ((q.made - Len(q.batch)) + 1)..q.made
    <3>1. CASE Count(calls', m) <= Count(calls, m)
      BY <1>5, <3>1
    <3>2. CASE /\ Pending(s) = {} /\ m[2] \in ((q.made - Len(q.batch)) + 1)..q.made
               /\ Count(calls', m) <= Count(calls, m) + 1
      <4>1. P = {}
        BY <1>17, <3>2 DEF P
      <4>2. k + 1 <= b
        BY <1>1, <3>2, <4>1 DEF CopyFits
      <4>3. l <= k + 1
        BY <1>2, <1>4, <3>2 DEF k, l
      <4>. QED
        BY <3>2, <4>2, <4>3
    <3>. QED
      BY <1>4, <3>1, <3>2
  <2>5. m[2] > q.made => l = 0
    BY <1>1, <1>2, <1>3, <1>5, <2>4 DEF CopyFits
  <2>6. l <= c
    BY <1>1, <1>5, <1>6, <1>9, <2>4 DEF CopyFits
  <2>7. CopyFits(m, r, R, l, c)
    BY <2>2, <2>3, <2>5, <2>6 DEF CopyFits
  <2>. QED
    BY <1>9, <1>10, <2>7
<1>18. ASSUME NEW x \in calls, m[1] = s, Reply(s, x) PROVE CopyFits(m, r, R, l, c)
  <2>. DEFINE rest == IF BatchSize = 1 THEN UnaryRest(x) ELSE BatchRest(x)
              pc == IF rest = <<>> THEN "read" ELSE "send"
  <2>1. x.by = s /\ x.orphan = 0 /\ calls' = calls \ {x} /\ Goes(s, [q EXCEPT !.batch = rest, !.pc = pc])
    BY <1>18 DEF Reply, Pending, q
  <2>2. CallOK(x, q, Admitted)
    BY <1>18, <2>1 DEF CallsOK, q
  <2>3. rest \in Seq(Messages) /\ Len(rest) = Len(x.msgs) - x.accepted
    BY <2>2, RestFacts
  <2>4. x.msgs = q.batch /\ Start0(x) = q.made - Len(q.batch) /\ x.accepted \in Nat
    BY <1>18, <2>1, <2>2, PendingStart, CallFacts DEF q
  <2>. HIDE DEF rest, pc
  <2>5. r = [q EXCEPT !.batch = rest, !.pc = pc]
    BY <1>12, <1>18, <2>1
  <2>6. r.made = q.made /\ r.batch = rest
    BY <1>13, <2>5 DEF StrmRecord
  <2>7. /\ Count(calls', m) = IF MayAdmit(x, m) THEN Count(calls, m) - 1 ELSE Count(calls, m)
    BY <2>1, CountDrop DEF CallsOK
  <2>8. l = IF MayAdmit(x, m) THEN k - 1 ELSE k
    BY <1>2, <1>4, <2>7 DEF k, l
  <2>9. m[2] \in ((r.made - Len(r.batch)) + 1)..r.made => MayAdmit(x, m)
    <3>1. /\ (Start0(x) + x.accepted) + 1 = (r.made - Len(r.batch)) + 1
          /\ Start0(x) + Len(x.msgs) = r.made
      BY <1>3, <2>3, <2>4, <2>6
    <3>2. MayAdmit(x, m) <=>
             /\ m[1] = x.by
             /\ m[2] \in ((Start0(x) + x.accepted) + 1)..(Start0(x) + Len(x.msgs))
      BY <2>2, MayAdmitFacts
    <3>. QED
      BY <1>18, <2>1, <3>1, <3>2
  <2>10. m[2] > r.made => l = 0
    BY <1>1, <1>5, <2>6, <2>8 DEF CopyFits
  <2>11. k <= b /\ l <= c
    BY <1>1, <1>5, <1>6, <1>9, <2>8 DEF CopyFits
  <2>12. MayAdmit(x, m) => l + 1 <= c
    BY <1>5, <1>6, <1>9, <2>8, <2>11
  <2>. QED
    BY <2>9, <2>10, <2>11, <2>12 DEF CopyFits
<1>19. CASE m[1] = s /\ \E x \in calls : Reply(s, x)
  BY <1>9, <1>10, <1>18, <1>19
<1>. QED
  BY <1>11, <1>14, <1>15, <1>16, <1>17, <1>19 DEF CallerMove, StreamerStep

\* A call's step moves at most one from what it may admit to what was admitted.
LEMMA CopiesCall ==
    ASSUME PhaseOK, StrmsOK, CallsOK, CopiesOK, NEW x \in calls, CallMove(x) \/ AdmitMove(x),
           UNCHANGED <<phase, runs, strm, faults>>, copies' = copies \/ AdmitMove(x),
           NEW m \in Messages
    PROVE  CopyOK(m)'
<1>. DEFINE q == strm[m[1]]
            P == Pending(m[1])
            R == Pending(m[1])'
            k == copies[m] + Count(calls, m)
            l == copies'[m] + Count(calls', m)
            b == Bound
<1>1. CopyFits(m, q, P, k, b) /\ b \in Nat /\ b <= b /\ copies \in [Messages -> Nat]
  BY BoundFacts DEF CopiesOK, CopyOK
<1>2. IsFiniteSet(calls) /\ Count(calls, m) \in Nat /\ copies[m] \in Nat
  BY <1>1, CountType DEF CallsOK
<1>3. CallOK(x, strm[x.by], Admitted) /\ x.accepted \in Nat /\ Len(x.msgs) \in Nat
  BY CallFacts DEF CallsOK
<1>4. ASSUME CopyFits(m, q, R, l, b) PROVE CopyOK(m)'
  <2>1. Bound' = Bound /\ strm' = strm
    BY DEF Bound
  <2>. QED
    BY <1>4, <2>1 DEF CopyOK, CopyFits, Count, MayAdmit
<1>5. ASSUME l \in Nat, l <= k, R = {} => P = {} PROVE CopyOK(m)'
  <2>1. k \in Nat
    BY <1>2
  <2>. HIDE DEF q, P, R, k, l, b
  <2>2. CopyFits(m, q, R, l, b)
    BY <1>1, <1>5, <2>1, CopyLess
  <2>. QED
    BY <1>4, <2>2
<1>6. CASE calls' = calls \ {x} /\ x.orphan # 0 /\ copies' = copies
  <2>1. /\ Count(calls', m) \in Nat
        /\ Count(calls', m) = IF MayAdmit(x, m) THEN Count(calls, m) - 1 ELSE Count(calls, m)
    BY <1>2, <1>6, CountDrop
  <2>2. R = {} => P = {}
    BY <1>6 DEF Pending
  <2>. QED
    BY <1>2, <1>5, <1>6, <2>1, <2>2
<1>7. ASSUME NEW y, calls' = (calls \ {x}) \cup {y}, CallOK(y, strm[x.by], Admitted'),
             y.by = x.by, y.orphan = x.orphan, y.msgs = x.msgs,
             y.accepted = IF AdmitMove(x) THEN x.accepted + 1 ELSE x.accepted
      PROVE  CopyOK(m)'
  <2>1. R = {} => P = {}
    BY <1>7 DEF Pending
  <2>2. MayAdmit(y, m) => MayAdmit(x, m)
    <3>1. \A i \in (y.accepted + 1)..Len(y.msgs) : i \in (x.accepted + 1)..Len(x.msgs)
      BY <1>3, <1>7
    <3>. QED
      BY <1>7, <3>1 DEF MayAdmit
  <2>3. /\ Count(calls', m) \in Nat /\ Count(calls', m) <= Count(calls, m)
        /\ MayAdmit(x, m) /\ ~MayAdmit(y, m) => Count(calls', m) <= Count(calls, m) - 1
    BY <1>2, <1>7, <2>2, CountReplace
  <2>4. CASE copies' = copies
    BY <1>2, <1>5, <2>1, <2>3, <2>4
  <2>5. CASE AdmitMove(x)
    <3>. DEFINE n == x.msgs[x.accepted + 1]
    <3>1. /\ n \in Messages /\ n = <<x.by, Start0(x) + (x.accepted + 1)>>
          /\ x.accepted + 1 \in 1..Len(x.msgs) /\ copies'[n] = copies[n] + 1
          /\ \A z \in Messages : z # n => copies'[z] = copies[z]
      BY <1>1, <2>5, AdmitFacts
    <3>. HIDE DEF n
    <3>2. CASE m # n
      <4>1. copies'[m] = copies[m]
        BY <3>1, <3>2
      <4>. QED
        BY <1>2, <1>5, <2>1, <2>3, <4>1
    <3>3. CASE m = n
      <4>1. m[1] = x.by /\ m[2] = Start0(x) + (x.accepted + 1) /\ Start0(x) \in Nat
        BY <1>3, <3>1, <3>3, StartFacts
      <4>2. MayAdmit(x, m)
        <5>1. m[2] \in ((Start0(x) + x.accepted) + 1)..(Start0(x) + Len(x.msgs))
          BY <1>3, <3>1, <4>1
        <5>. QED
          BY <1>3, <4>1, <5>1, MayAdmitFacts
      <4>3. ~MayAdmit(y, m)
        <5>1. Start0(y) = Start0(x) /\ y.accepted = x.accepted + 1
          BY <1>7, <2>5 DEF Start0
        <5>2. m[2] \notin ((Start0(y) + y.accepted) + 1)..(Start0(y) + Len(y.msgs))
          BY <1>3, <4>1, <5>1
        <5>. QED
          BY <1>7, <5>2, MayAdmitFacts
      <4>4. copies'[m] = copies[m] + 1 /\ Count(calls', m) <= Count(calls, m) - 1
        BY <2>3, <3>1, <3>3, <4>2, <4>3
      <4>. QED
        BY <1>2, <1>5, <2>1, <2>3, <4>4
    <3>. QED
      BY <3>2, <3>3
  <2>. QED
    BY <2>4, <2>5
<1>. QED
  BY <1>1, <1>6, <1>7, CallShape

\* The process by itself admits nothing; when it goes down, it takes the calls along.
LEMMA CopiesProc ==
    ASSUME PhaseOK, CallsOK, CopiesOK, ProcStep \/ UNCHANGED vars, UNCHANGED strmVars,
           NEW m \in Messages
    PROVE  CopyOK(m)'
<1>. DEFINE q == strm[m[1]]
            P == Pending(m[1])
            R == Pending(m[1])'
            k == copies[m] + Count(calls, m)
            l == copies[m] + Count(calls', m)
            b == Bound
            c == Bound'
<1>0. strm' = strm /\ copies' = copies /\ faults' = faults
  BY DEF strmVars
<1>1. CopyFits(m, q, P, k, b) /\ b \in Nat /\ copies[m] \in Nat /\ runs \in Nat /\ faults \in Nat
  BY BoundFacts DEF CopiesOK, CopyOK
<1>2. Count(calls, m) \in Nat /\ k \in Nat
  <2>1. Count(calls, m) \in Nat
    BY CountType DEF CallsOK
  <2>. QED
    BY <1>1, <2>1
<1>3. ASSUME CopyFits(m, q, R, l, c) PROVE CopyOK(m)'
  BY <1>0, <1>3 DEF CopyOK, CopyFits, Count, MayAdmit
<1>4. ASSUME calls' = calls, Bound' = Bound PROVE CopyOK(m)'
  <2>1. l = k /\ R = P /\ c = b
    BY <1>4 DEF Pending
  <2>. QED
    BY <1>1, <1>3, <2>1
<1>5. CASE Exit \/ Crash
  <2>1. phase # "down" /\ phase' = "down" /\ runs' = runs /\ calls' = {}
    BY <1>5 DEF Exit, Crash, MemoryLost
  <2>2. b = runs + faults + 0 /\ c = runs + faults + 1
    BY <1>0, <2>1 DEF Bound
  <2>3. c \in Nat /\ b + 1 <= c
    BY <1>1, <2>2
  <2>4. Count(calls', m) = 0
    <3>1. {call \in calls' : MayAdmit(call, m)} = {}
      BY <2>1
    <3>. QED
      BY <3>1, FS_EmptySet DEF Count
  <2>5. l \in Nat /\ l <= k
    BY <1>1, <1>2, <2>4
  <2>. HIDE DEF q, P, R, k, l, b, c
  <2>6. CopyFits(m, q, R, l, c)
    BY <1>1, <1>2, <2>3, <2>5, CopyMore
  <2>. QED
    BY <1>3, <2>6
<1>6. CASE Start
  <2>1. phase = "down" /\ phase' = "serving" /\ runs' = runs + 1 /\ calls' = calls
    BY <1>6 DEF Start
  <2>2. Bound = runs + faults + 1 /\ Bound' = (runs + 1) + faults + 0
    BY <1>0, <2>1 DEF Bound
  <2>. QED
    BY <1>1, <1>4, <2>1, <2>2
<1>7. ASSUME calls' = calls, runs' = runs, phase = "down" <=> phase' = "down" PROVE CopyOK(m)'
  BY <1>0, <1>4, <1>7 DEF Bound
<1>8. ASSUME NEW d \in Consumers,
             \/ Connect(d) \/ Leave(d) \/ Returned(d)
             \/ \E lane \in {"depth", "retryDepth"} : Take(d, lane)
             \/ Consume(d) \/ CountAck(d) \/ Requeue(d) \/ DeadLetter(d)
      PROVE  CopyOK(m)'
  <2>1. calls' = calls /\ runs' = runs /\ phase' = phase
    BY <1>8 DEF Connect, Leave, Returned, Take, Consume, CountAck, Requeue, DeadLetter, LeaseEnds
  <2>. QED
    BY <1>7, <2>1
<1>9. CASE \/ Replay \/ BeginDrain \/ DrainTick \/ LoadConsumed \/ DrainStats
           \/ DrainDeadline \/ Shutdown
  <2>1. calls' = calls /\ runs' = runs /\ phase # "down" /\ phase' # "down"
    BY <1>9 DEF Replay, BeginDrain, DrainTick, LoadConsumed, DrainStats, Judge, DrainDeadline,
                EndDrain, Shutdown
  <2>. QED
    BY <1>7, <2>1
<1>10. CASE UNCHANGED vars
  BY <1>7, <1>10 DEF vars, procVars
<1>. QED
  BY <1>5, <1>6, <1>8, <1>9, <1>10 DEF ProcStep

LEMMA CopiesStep ==
    ASSUME PhaseOK, StrmsOK, CallsOK, CopiesOK, Next
    PROVE  CopiesOK'
<1>0. /\ copies \in [Messages -> Nat] /\ faults \in 0..MaxFaults
      /\ \A s \in Streamers : \A m, n \in 1..All :
            m < n /\ <<s, n>> \in Admitted => <<s, m>> \in Admitted
  BY DEF CopiesOK
<1>1. ASSUME copies' = copies, faults' \in 0..MaxFaults, \A m \in Messages : CopyOK(m)'
      PROVE  CopiesOK'
  <2>1. Admitted' = Admitted
    BY <1>1 DEF Admitted
  <2>. QED
    BY <1>0, <1>1, <2>1 DEF CopiesOK, All, PerPass, Messages
<1>2. ASSUME NEW s \in Streamers, CallerMove(s), Still PROVE CopiesOK'
  <2>1. \A m \in Messages : CopyOK(m)' /\ faults' \in 0..MaxFaults
    BY <1>2, CopiesCaller
  <2>2. copies' = copies
    BY <1>2, CallerStep
  <2>3. faults' \in 0..MaxFaults
    <3>1. faults' = faults \/ (faults' = faults + 1 /\ faults < MaxFaults)
      BY <1>2 DEF CallerMove, StreamerStep, SkipRow, ReadRow, EndPass, Send, ServerGone, Reply,
                  CallBreaks, Cancel
    <3>. QED
      BY <1>0, <3>1, StreamerAssumption
  <2>. QED
    BY <1>1, <2>1, <2>2, <2>3
<1>3. ASSUME NEW x \in calls, CallMove(x), Still PROVE CopiesOK'
  <2>1. UNCHANGED <<strm, copies, faults>>
    BY <1>3 DEF CallMove, OrphanReturns, strmVars
  <2>2. \A m \in Messages : CopyOK(m)'
    BY <1>3, <2>1, CopiesCall DEF Still
  <2>. QED
    BY <1>0, <1>1, <2>1, <2>2
<1>4. ASSUME NEW x \in calls, AdmitMove(x) PROVE CopiesOK'
  <2>1. UNCHANGED <<phase, runs, strm, faults>>
    BY <1>4 DEF AdmitMove, EnqueueNext
  <2>2. \A m \in Messages : CopyOK(m)'
    BY <1>4, <2>1, CopiesCall
  <2>. DEFINE a == x.msgs[x.accepted + 1]
  <2>3. /\ a = <<x.by, Start0(x) + (x.accepted + 1)>> /\ copies' \in [Messages -> Nat]
        /\ Admitted' = Admitted \cup {a}
    BY <1>0, <1>4, AdmitFacts
  <2>4. /\ Start0(x) \in Nat /\ x.accepted \in Nat
        /\ \A n \in 1..(Start0(x) + x.accepted) : <<x.by, n>> \in Admitted
    BY StartFacts, CallFacts DEF CallsOK, CallOK
  <2>. HIDE DEF a
  <2>5. ASSUME NEW s \in Streamers, NEW m \in 1..All, NEW n \in 1..All, m < n, <<s, n>> \in Admitted'
        PROVE  <<s, m>> \in Admitted'
    <3>1. CASE <<s, n>> \in Admitted
      BY <1>0, <2>3, <2>5, <3>1
    <3>2. CASE <<s, n>> = a
      <4>1. s = x.by /\ n = Start0(x) + (x.accepted + 1)
        BY <2>3, <3>2
      <4>2. m \in 1..(Start0(x) + x.accepted)
        BY <2>4, <2>5, <4>1, BaseFacts
      <4>. QED
        BY <2>3, <2>4, <4>1, <4>2
    <3>. QED
      BY <2>3, <2>5, <3>1, <3>2
  <2>. QED
    BY <1>0, <2>1, <2>2, <2>3, <2>5 DEF CopiesOK, All, PerPass, Messages
<1>5. ASSUME ProcStep \/ UNCHANGED vars, UNCHANGED strmVars PROVE CopiesOK'
  <2>1. \A m \in Messages : CopyOK(m)'
    BY <1>5, CopiesProc
  <2>2. copies' = copies /\ faults' = faults
    BY <1>5 DEF strmVars
  <2>. QED
    BY <1>0, <1>1, <2>1, <2>2
<1>6. UNCHANGED vars => UNCHANGED strmVars
  BY DEF vars
<1>. QED
  BY <1>2, <1>3, <1>4, <1>5, <1>6, NextSplit

LEMMA StreamerNext ==
    ASSUME StreamerInv, Next
    PROVE  StreamerInv'
<1>0. /\ ProcInv /\ NumbersOK /\ PhaseOK /\ SilenceOK /\ LateOK /\ StrmsOK /\ CallsOK /\ CopiesOK
      /\ IsFiniteSet(Units(OfferMap)) /\ copies \in [Messages -> Nat] /\ faults \in Nat
      /\ seen.late \in Nat
  BY StreamerAssumption DEF StreamerInv, ProcInv, LateOK, CopiesOK, SilenceOK, SeenRecord
<1>1. NumbersOK'
  BY <1>0, NumbersStep
<1>2. PhaseOK'
  BY <1>0, PhaseStep
<1>3. SilenceOK'
  BY <1>0, SilenceStep
<1>4. LateOK'
  BY <1>0, LateStep
<1>5. StrmsOK' /\ CallsOK' /\ CopiesOK'
  BY <1>0, StrmsStep, CallsStep, CopiesStep
<1>. QED
  BY <1>1, <1>2, <1>3, <1>4, <1>5 DEF StreamerInv, ProcInv

LEMMA StreamerInit ==
    ASSUME Init
    PROVE  StreamerInv
<1>0. /\ StallTicks \in Nat \ {0} /\ MaxRuns \in Nat \ {0} /\ Capacity \in Nat
      /\ DLQCapacity \in Nat /\ MaxReplays \in Nat
      /\ Rows \in Nat /\ BatchSize \in Nat \ {0} /\ MaxPasses \in Nat \ {0} /\ MaxFaults \in Nat
  BY ProcessAssumption, StreamerAssumption
<1>1. ProcInit
  BY DEF Init
<1>2. NumbersOK
  <2>1. DOMAIN LeaseMap = Consumers /\ \A c \in Consumers : LeaseMap[c] = 0
    BY <1>1 DEF LeaseMap, ProcInit, NoHandler
  <2>2. IsFiniteSet(Units(LeaseMap)) /\ Total(LeaseMap) = 0
    BY <2>1, TotalZero
  <2>3. Used = 0
    <3>1. InFlight = 0
      BY <2>2 DEF InFlight, LeaseMap
    <3>. QED
      BY <1>1, <3>1 DEF Used, ProcInit, NoMessages
  <2>. QED
    BY <1>0, <1>1, <2>2, <2>3 DEF NumbersOK, StatsRecord, HandlerRecord, Idle, ProcInit,
                                  NoMessages, NoHandler
<1>3. PhaseOK
  BY <1>0, <1>1 DEF PhaseOK, DrainRecord, ProcInit, NoDrain
<1>4. SilenceOK
  BY <1>1 DEF SilenceOK, SeenRecord, StallNeedsSilence, ProcInit, NoDrain, NothingSeen
<1>5. LateOK
  <2>1. DOMAIN OfferMap = {}
    BY <1>1 DEF OfferMap, ProcInit
  <2>2. IsFiniteSet(Units(OfferMap))
    BY <2>1, TotalZero
  <2>. QED
    BY <1>1, <2>2 DEF LateOK, CompleteDrainIsClean, ProcInit, NoDrain
<1>6. \A m \in Messages : copies[m] = 0
  BY DEF Init
<1>7. Admitted = {} /\ copies \in [Messages -> Nat] /\ faults \in 0..MaxFaults
  BY <1>0, <1>6 DEF Admitted, Init
<1>8. StrmsOK
  <2>. DEFINE q == [pc |-> "read", row |-> 1, pass |-> 1, made |-> 0, batch |-> <<>>]
  <2>1. strm = [s \in Streamers |-> q]
    BY DEF Init
  <2>2. <<>> \in Seq(Messages) /\ Len(<<>>) = 0
    BY EmptySeq
  <2>3. 1 \in 1..(Rows + 1) /\ 1 \in 1..(MaxPasses + 1) /\ 1 <= MaxPasses
    BY <1>0
  <2>4. /\ q \in StrmRecord /\ q.pc = "read" /\ q.row = 1 /\ q.pass = 1 /\ q.made = 0
        /\ q.batch = <<>> /\ Len(q.batch) = 0
    BY <2>2, <2>3 DEF StrmRecord
  <2>. HIDE DEF q
  <2>5. Base(1) = 0 /\ Good(1) = 0
    BY BaseFacts, GoodFacts
  <2>6. ASSUME NEW s \in Streamers PROVE StrmOK(s, q, Admitted)
    BY <1>0, <2>3, <2>4, <2>5 DEF StrmOK
  <2>. QED
    BY <2>1, <2>6 DEF StrmsOK
<1>9. CallsOK
  BY <1>1, FS_EmptySet DEF CallsOK, ProcInit
<1>10. CopiesOK
  <2>1. runs = 1 /\ faults = 0 /\ phase = "serving" /\ calls = {}
    BY <1>1 DEF ProcInit, Init
  <2>2. Bound = 1
    BY <2>1 DEF Bound
  <2>3. ASSUME NEW m \in Messages PROVE CopyOK(m)
    <3>1. {call \in calls : MayAdmit(call, m)} = {}
      BY <2>1
    <3>2. Count(calls, m) = 0
      BY <3>1, FS_EmptySet DEF Count
    <3>3. copies[m] + Count(calls, m) = 0
      BY <1>6, <3>2
    <3>. QED
      BY <2>2, <3>3 DEF CopyOK, CopyFits
  <2>. QED
    BY <1>7, <2>3 DEF CopiesOK
<1>. QED
  BY <1>2, <1>3, <1>4, <1>5, <1>8, <1>9, <1>10 DEF StreamerInv, ProcInv

-----------------------------------------------------------------------------
(* The theorems.                                                             *)

\* The streamers and the process keep their inductive invariant.
THEOREM StreamerCorrect == Spec => []StreamerInv
<1>1. Init => StreamerInv
  BY StreamerInit
<1>2. StreamerInv /\ [Next]_vars => StreamerInv'
  <2>. SUFFICES ASSUME StreamerInv, [Next]_vars PROVE StreamerInv'
    OBVIOUS
  <2>1. CASE Next
    BY <2>1, StreamerNext
  <2>2. CASE UNCHANGED vars
    <3>1. UNCHANGED <<phase, policy, runs, stats, calls, handler, drain, seen, strm, copies, faults>>
      BY <2>2 DEF vars, procVars, strmVars
    <3>2. UNCHANGED <<LeaseMap, OfferMap, Used, Offered, Admitted, Bound>>
      BY <3>1 DEF LeaseMap, OfferMap, Used, InFlight, Offered, Admitted, Bound, Total, Units
    <3>3. NumbersOK' /\ PhaseOK' /\ SilenceOK' /\ LateOK'
      BY <3>1, <3>2 DEF StreamerInv, ProcInv, NumbersOK, PhaseOK, SilenceOK, StallNeedsSilence,
                        LateOK, CompleteDrainIsClean, Units, LeaseMap, OfferMap
    <3>4. StrmsOK' /\ CallsOK'
      BY <3>1, <3>2 DEF StreamerInv, StrmsOK, CallsOK
    <3>5. \A m \in Messages : CopyOK(m)'
      BY <3>1, <3>2 DEF StreamerInv, CopiesOK, CopyOK, Pending
    <3>6. CopiesOK'
      BY <3>1, <3>2, <3>5 DEF StreamerInv, CopiesOK, All, PerPass, Messages
    <3>. QED
      BY <3>3, <3>4, <3>6 DEF StreamerInv, ProcInv
  <2>. QED
    BY <2>1, <2>2
<1>. QED
  BY <1>1, <1>2, PTL DEF Spec

\* Types: the store stays within its budget, calls within their messages, a batch is
\* what its streamer made last, and a streamer waits for at most one call.
THEOREM StreamerTypes == Spec => []TypeOK
<1>1. StreamerInv => TypeOK
  <2>. SUFFICES ASSUME StreamerInv PROVE TypeOK
    OBVIOUS
  <2>0. NumbersOK /\ PhaseOK /\ StrmsOK /\ CallsOK /\ CopiesOK
    BY DEF StreamerInv, ProcInv
  <2>1. ASSUME NEW call \in calls
        PROVE  /\ call.at \in {"arrived", "enqueue", "reply", "unavailable"}
               /\ call.accepted \in 0..Len(call.msgs)
               /\ call.at = "enqueue" => Left(call) > 0
    <3>1. CallOK(call, strm[call.by], Admitted)
      BY <2>0 DEF CallsOK
    <3>2. /\ call \in CallRecord /\ Len(call.msgs) \in Nat /\ call.accepted \in Nat
          /\ call.at = "enqueue" => Left(call) > 0
      BY <3>1, CallFacts
    <3>3. call.accepted <= Len(call.msgs)
      BY <3>1 DEF CallOK
    <3>4. call.at \in {"arrived", "enqueue", "reply", "unavailable"}
      BY <3>2 DEF CallRecord
    <3>. QED
      BY <3>2, <3>3, <3>4
  <2>2. ProcTypeOK
    <3>1. /\ stats.depth \in Nat /\ stats.retryDepth \in Nat /\ stats.consumed \in {0, 1}
          /\ stats.dlqDepth \in 0..DLQCapacity /\ stats.replays \in 0..MaxReplays
      BY <2>0 DEF NumbersOK, StatsRecord
    <3>2. /\ policy \in Policies /\ Used <= Capacity
          /\ \A c \in Consumers :
                /\ handler[c].at \in {"none", "open", "leaving"}
                /\ handler[c].acked \in BOOLEAN
      BY <2>0 DEF NumbersOK, HandlerRecord
    <3>3. ASSUME NEW c \in Consumers, handler[c].at = "none" PROVE handler[c] = NoHandler
      BY <2>0, <3>3 DEF NumbersOK, HandlerRecord, Idle, NoHandler
    <3>4. /\ phase \in {"serving", "draining", "leaving", "shutdown", "down"}
          /\ runs \in 1..MaxRuns /\ drain.idleTicks \in 0..(StallTicks - 1)
          /\ drain.exit \in {"none", "complete", "stalled", "deadline"}
      BY <2>0 DEF PhaseOK, DrainRecord
    <3>. QED
      BY <2>1, <3>1, <3>2, <3>3, <3>4 DEF ProcTypeOK
  <2>3. ASSUME NEW s \in Streamers
        PROVE  /\ strm[s].pc \in {"read", "send", "await", "stopped", "done"}
               /\ strm[s].row \in 1..(Rows + 1)
               /\ strm[s].pass \in 1..(MaxPasses + 1)
               /\ Len(strm[s].batch) <= BatchSize
               /\ \A k \in DOMAIN strm[s].batch :
                     strm[s].batch[k] = <<s, strm[s].made - Len(strm[s].batch) + k>>
    <3>1. StrmOK(s, strm[s], Admitted)
      BY <2>0 DEF StrmsOK
    <3>2. DOMAIN strm[s].batch = 1..Len(strm[s].batch)
      BY <3>1, LenProperties DEF StrmOK, StrmRecord
    <3>. QED
      BY <3>1, <3>2 DEF StrmOK, StrmRecord
  <2>4. ASSUME NEW s \in Streamers PROVE Cardinality(Pending(s)) <= 1
    <3>1. CASE Pending(s) = {}
      BY <3>1, FS_EmptySet
    <3>2. CASE Pending(s) # {}
      <4>1. PICK x \in Pending(s) : TRUE
        BY <3>2
      <4>2. Pending(s) = {x}
        BY <2>0, <4>1, OnePending
      <4>3. Cardinality({x}) = 1
        BY FS_Singleton
      <4>. QED
        BY <4>2, <4>3
    <3>. QED
      BY <3>1, <3>2
  <2>. QED
    BY <2>0, <2>2, <2>3, <2>4 DEF TypeOK, CopiesOK
<1>. QED
  BY <1>1, StreamerCorrect, PTL

\* No row is skipped (StreamBatched, produceBatchWithRetry): what a streamer no longer
\* holds was admitted by a broker, and messages are first admitted in their order.
THEOREM StreamerSkipsNothing == Spec => []NothingSkipped
<1>1. StreamerInv => NothingSkipped
  <2>. SUFFICES ASSUME StreamerInv, NEW s \in Streamers
                PROVE  /\ \A n \in 1..(strm[s].made - Len(strm[s].batch)) : copies[<<s, n>>] > 0
                       /\ \A n \in 1..((strm[s].pass - 1) * PerPass) : copies[<<s, n>>] > 0
                       /\ \A m, n \in 1..(MaxPasses * PerPass) :
                             m < n /\ copies[<<s, n>>] > 0 => copies[<<s, m>>] > 0
    BY DEF NothingSkipped
  <2>. DEFINE q == strm[s]
  <2>1. StrmOK(s, q, Admitted) /\ CopiesOK
    BY DEF StreamerInv, StrmsOK
  <2>2. \A n \in 1..(q.made - Len(q.batch)) : copies[<<s, n>>] > 0
    BY <2>1 DEF StrmOK, Admitted
  <2>3. /\ q.made \in Nat /\ Len(q.batch) \in Nat /\ Base(q.pass) \in Nat
        /\ Base(q.pass) + Len(q.batch) <= q.made
    BY <2>1, StrmFacts, BaseFacts DEF StrmOK
  <2>4. \A n \in 1..Base(q.pass) : n \in 1..(q.made - Len(q.batch))
    BY <2>3
  <2>5. Base(q.pass) = (q.pass - 1) * PerPass /\ All = MaxPasses * PerPass
    BY DEF Base, All
  <2>6. ASSUME NEW m \in 1..All, NEW n \in 1..All, m < n, copies[<<s, n>>] > 0
        PROVE  copies[<<s, m>>] > 0
    <3>1. <<s, n>> \in Messages
      BY DEF Messages, All
    <3>2. <<s, n>> \in Admitted
      BY <2>6, <3>1 DEF Admitted
    <3>3. <<s, m>> \in Admitted
      BY <2>1, <2>6, <3>2 DEF CopiesOK
    <3>. QED
      BY <3>3 DEF Admitted
  <2>. HIDE DEF q
  <2>7. \A n \in 1..((q.pass - 1) * PerPass) : copies[<<s, n>>] > 0
    BY <2>2, <2>4, <2>5
  <2>8. \A m, n \in 1..(MaxPasses * PerPass) : m < n /\ copies[<<s, n>>] > 0 => copies[<<s, m>>] > 0
    BY <2>5, <2>6
  <2>. QED
    BY <2>2, <2>7, <2>8 DEF q
<1>. QED
  BY <1>1, StreamerCorrect, PTL

\* Duplicates are explained: a message is admitted at most once per run of the
\* process and fault of a call; refusals, drains and timeouts add none.
THEOREM StreamerCopies == Spec => []CopiesBounded
<1>1. StreamerInv => CopiesBounded
  <2>. SUFFICES ASSUME StreamerInv, NEW m \in Messages PROVE copies[m] <= Bound
    BY DEF CopiesBounded, Bound
  <2>1. copies[m] + Count(calls, m) <= Bound /\ copies[m] \in Nat
    BY DEF StreamerInv, CopiesOK, CopyOK, CopyFits
  <2>2. Count(calls, m) \in Nat
    BY CountType DEF StreamerInv, CallsOK
  <2>3. Bound \in Nat
    BY BoundFacts DEF StreamerInv, ProcInv, CopiesOK
  <2>. QED
    BY <2>1, <2>2, <2>3
<1>. QED
  BY <1>1, StreamerCorrect, PTL

\* What the drain of cmd/mq leaves behind: after "drain complete" the store holds, and
\* may yet get, only what calls past the drain check still offered at the loop's last
\* look, and what DLQReplay brought back since.
THEOREM DrainLeavesLateOnly == Spec => []CompleteDrainIsClean
<1>1. StreamerInv => CompleteDrainIsClean
  BY DEF StreamerInv, ProcInv, LateOK
<1>. QED
  BY <1>1, StreamerCorrect, PTL

\* The drain loop reports a stall only after StallTicks ticks that found no consumer,
\* with no ack counted between the reads of consumed of these ticks and the one before.
THEOREM DrainStallIsSilent == Spec => []StallNeedsSilence
<1>1. StreamerInv => StallNeedsSilence
  BY DEF StreamerInv, ProcInv, SilenceOK
<1>. QED
  BY <1>1, StreamerCorrect, PTL

=============================================================================
