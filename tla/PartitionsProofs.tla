-------------------------- MODULE PartitionsProofs ---------------------------
(***************************************************************************)
(* What retention keeps and drops, and that a punctual job never wedges    *)
(* itself, for every retention window, pre-creation window and clock skew, *)
(* whatever the clients of the gateway do meanwhile.                       *)
(*                                                                         *)
(* Neither property is inductive.  That the job does not wedge rests on    *)
(* the days from yesterday to the last pre-created one having partitions   *)
(* without a gap (NoGap), and on no row being stamped later than the skew  *)
(* allows; that old rows are only in DEFAULT rests on ensure_partitions    *)
(* never bringing a dropped day back (NothingReturns).                     *)
(***************************************************************************)
EXTENDS Gateway, TLAPS

\* The types the proofs need.
Types ==
    /\ today \in Nat /\ ensuredTo \in Nat /\ lastDropped \in Nat
    /\ lastDropped <= today
    /\ parts \subseteq Int
    /\ stored \subseteq Nat \X Metrics
    /\ punctual \in BOOLEAN

\* No sender's clock is further ahead than Skew.
RowsInReach == \A r \in stored : Day(r) <= today + Skew

\* In time, and every day from yesterday to the end of the window is there.
NoGap ==
    punctual => /\ InTime(today)
                /\ \A d \in Int : today - 1 <= d /\ d <= ensuredTo => d \in parts

\* No partition is older than the window of the last run of the job.
NothingReturns == \A d \in parts : lastDropped - Retention <= d

TableInv == Types /\ RowsInReach /\ NoGap /\ NothingReturns

-----------------------------------------------------------------------------
\* The migration leaves the table in order.
LEMMA InitTableInv == TableInit => TableInv
<1> SUFFICES ASSUME TableInit PROVE TableInv
    OBVIOUS
<1> USE PartitionsAssumption
<1>1. stored \subseteq (0..FirstDay) \X Metrics
    BY DEF TableInit
<1>2. Types
    BY <1>1 DEF TableInit, Types, EnsuredDays, InTime
<1>3. RowsInReach
    BY <1>1 DEF TableInit, RowsInReach, Day
<1>4. NoGap
  <2>1. punctual => InTime(today)
    BY Zenon DEF TableInit
  <2>2. \A d \in Int : today - 1 <= d /\ d <= ensuredTo => d \in parts
    BY DEF TableInit, EnsuredDays
  <2> QED
    BY <2>1, <2>2 DEF NoGap
<1>5. NothingReturns
    BY DEF TableInit, NothingReturns, EnsuredDays
<1> QED
    BY <1>2, <1>3, <1>4, <1>5 DEF TableInv

\* INSERT: a row is stamped no later than the skew allows.
LEMMA InsertInv ==
    ASSUME TableInv, NEW r \in (0..(today + Skew)) \X Metrics, Insert(r)
    PROVE  TableInv'
<1> USE PartitionsAssumption
<1>1. Types'
    BY DEF TableInv, Types, Insert
<1>2. RowsInReach'
    BY DEF TableInv, Types, RowsInReach, Insert, Day
<1>3. NoGap' /\ NothingReturns'
    BY DEF TableInv, NoGap, NothingReturns, InTime, Insert
<1> QED
    BY <1>1, <1>2, <1>3 DEF TableInv

\* Midnight: the window that must be there moves with the day.
LEMMA NextDayInv == ASSUME TableInv, NextDay PROVE TableInv'
<1> USE PartitionsAssumption DEF TableInv, Types, NextDay
<1>1. Types'
  <2>1. punctual' \in BOOLEAN
    BY Zenon
  <2> QED
    BY <2>1
<1>2. RowsInReach'
  <2>1. \A r \in stored : Day(r) \in Nat
    BY DEF Day
  <2> QED
    BY <2>1 DEF RowsInReach, Day
<1>3. NoGap'
  <2>1. punctual' => punctual /\ InTime(today')
    BY Zenon
  <2>2. InTime(today') => InTime(today)'
    BY DEF InTime
  <2> QED
    BY <2>1, <2>2 DEF NoGap
<1>4. NothingReturns'
    BY DEF NothingReturns
<1> QED
    BY <1>1, <1>2, <1>3, <1>4

\* drop_old_partitions leaves yesterday and all later days alone.
LEMMA JobDropsInv == ASSUME TableInv, JobDrops PROVE TableInv'
<1> USE PartitionsAssumption DEF TableInv, Types, JobDrops, DropBefore
<1>1. Types'
  <2>1. parts' \subseteq parts /\ stored' \subseteq stored
    OBVIOUS
  <2>2. /\ today' = today /\ ensuredTo' = ensuredTo /\ lastDropped' = today
        /\ punctual' = punctual
    OBVIOUS
  <2> QED
    BY ONLY <2>1, <2>2, TableInv DEF TableInv, Types
<1>2. RowsInReach'
    BY DEF RowsInReach, Day
<1>3. NoGap'
    BY DEF NoGap, InTime
<1>4. NothingReturns'
    BY DEF NothingReturns
<1> QED
    BY <1>1, <1>2, <1>3, <1>4

\* ensure_partitions closes the window up to today + Ahead.
LEMMA JobEnsuresInv == ASSUME TableInv, JobEnsures PROVE TableInv'
<1> USE PartitionsAssumption DEF TableInv, Types, JobEnsures, EnsuredDays, Reached
<1>1. Types'
    OBVIOUS
<1>2. RowsInReach'
    BY DEF RowsInReach, Day
<1>3. NoGap'
    BY DEF NoGap, InTime
<1>4. NothingReturns'
    BY DEF NothingReturns
<1> QED
    BY <1>1, <1>2, <1>3, <1>4

\* Whatever step the table takes, TableInv is kept.
LEMMA TableStepInv == ASSUME TableInv, [TableNext]_tableVars PROVE TableInv'
<1>1. CASE \E r \in (0..(today + Skew)) \X Metrics : Insert(r)
    BY <1>1, InsertInv
<1>2. CASE NextDay
    BY <1>2, NextDayInv
<1>3. CASE JobDrops
    BY <1>3, JobDropsInv
<1>4. CASE JobEnsures
    BY <1>4, JobEnsuresInv
<1>5. CASE JobFails
    BY <1>5 DEF JobFails, TableInv, Types, RowsInReach, NoGap, NothingReturns, InTime, Day
<1>6. CASE UNCHANGED tableVars
    BY <1>6 DEF tableVars, TableInv, Types, RowsInReach, NoGap, NothingReturns, InTime, Day
<1> QED
    BY <1>1, <1>2, <1>3, <1>4, <1>5, <1>6 DEF TableNext

\* A request of the gateway only reads the table.
LEMMA GatewayLeavesTable == ASSUME [Next]_vars PROVE [TableNext]_tableVars
    BY DEF Next, vars, GetTelemetry, Count, Page, QueryFails, Table, tableVars

LEMMA AlwaysTableInv == Spec => []TableInv
<1>1. Init => TableInv
    BY InitTableInv DEF Init
<1>2. TableInv /\ [Next]_vars => TableInv'
    BY GatewayLeavesTable, TableStepInv
<1> QED
    BY <1>1, <1>2, PTL DEF Spec

-----------------------------------------------------------------------------
\* The retention job cannot wedge itself: as long as ensure_partitions always
\* came before the pre-created days ran out, it finds no row in DEFAULT for a day
\* it creates, for every window and skew.
THEOREM PunctualJobSucceeds == Spec => []PunctualNeverWedges
<1>1. TableInv => PunctualNeverWedges
  <2> SUFFICES ASSUME TableInv, punctual, NEW r \in InDefault, Day(r) \in EnsuredDays(Ahead)
               PROVE  FALSE
    BY DEF PunctualNeverWedges, Wedged
  <2>1. Day(r) \in Int /\ Day(r) <= today + Skew /\ today - 1 <= Day(r)
    BY PartitionsAssumption DEF TableInv, Types, RowsInReach, InDefault, EnsuredDays, Day
  <2>2. today + Skew <= ensuredTo
    BY DEF TableInv, NoGap, InTime
  <2>3. Day(r) <= ensuredTo
    BY <2>1, <2>2, PartitionsAssumption DEF TableInv, Types
  <2>4. Day(r) \in parts
    BY <2>1, <2>3 DEF TableInv, NoGap
  <2> QED
    BY <2>4 DEF InDefault
<1> QED
    BY <1>1, AlwaysTableInv, PTL

\* Retention keeps nothing it should drop, except in DEFAULT: drop_old_partitions
\* removes every old partition, and ensure_partitions never creates one again.
THEOREM OldRowsDropped == Spec => []OldRowsOnlyInDefault
<1>1. TableInv => OldRowsOnlyInDefault
  <2> SUFFICES ASSUME TableInv, NEW r \in stored, Day(r) < lastDropped - Retention,
                      Day(r) \in parts
               PROVE  FALSE
    BY DEF OldRowsOnlyInDefault, InDefault
  <2>1. lastDropped - Retention <= Day(r)
    BY DEF TableInv, NothingReturns
  <2>2. Day(r) \in Int
    BY Zenon DEF TableInv, Types
  <2>3. lastDropped \in Int /\ Retention \in Int
    BY PartitionsAssumption DEF TableInv, Types
  <2> QED
    BY <2>1, <2>2, <2>3
<1> QED
    BY <1>1, AlwaysTableInv, PTL

\* Retention loses nothing it should keep: a row leaves the table only when its
\* day lies before the retention window.
THEOREM WindowKept == Spec => InWindowSurvive
<1>1. ASSUME TableInv, [Next]_vars
      PROVE  [\A r \in stored \ stored' : Day(r) < today - Retention]_tableVars
  <2> SUFFICES ASSUME TableNext, NEW r \in stored, r \notin stored'
               PROVE  Day(r) < today - Retention
    BY <1>1, GatewayLeavesTable
  <2>1. JobDrops
    BY DEF TableNext, Insert, NextDay, JobEnsures, JobFails
  <2> QED
    BY <2>1 DEF JobDrops, DropBefore
<1> QED
    BY <1>1, AlwaysTableInv, PTL DEF Spec, InWindowSurvive
=============================================================================
