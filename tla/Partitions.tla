----------------------------- MODULE Partitions ------------------------------
(***************************************************************************)
(* The table gpu_metrics of migration 000003, one partition per day and a  *)
(* DEFAULT partition, the collectors' INSERT and the nightly retention job *)
(* that drops old partitions and creates the coming ones.                  *)
(*                                                                         *)
(* A row is <<timestamp, metric>>, the natural key within one GPU, and a   *)
(* timestamp is a day: that is all the partitions look at.  Postgres       *)
(* refuses to create the partition of a day the DEFAULT partition has rows *)
(* of, so a row is in DEFAULT iff its day has no partition.                *)
(***************************************************************************)
EXTENDS Integers, FiniteSets

CONSTANTS
    Metrics,   \* metric names, as numbers: only their order matters
    Retention, \* retention.days
    Ahead,     \* retention.precreateDays: days the job creates ahead
    Migrated,  \* days the migration creates ahead (3)
    Skew,      \* days a sender's clock may be ahead
    FirstDay,  \* the day of the migration
    LastDay,   \* bound: the last day looked at
    MaxStored  \* bound: rows in the table

ASSUME PartitionsAssumption ==
    /\ Metrics \subseteq Nat /\ Retention \in Nat \ {0}
    /\ Ahead \in Nat /\ Migrated \in Nat /\ Skew \in Nat /\ FirstDay \in Nat \ {0}
    /\ LastDay \in Nat /\ FirstDay <= LastDay

VARIABLES
    today,
    parts,       \* days that have a partition
    stored,      \* rows in the table
    job,         \* "idle", or "ensure" between its two statements
    ensuredTo,   \* history: the last day that ensure_partitions was ever asked for
    lastDropped, \* history: day of the last drop_old_partitions
    punctual     \* history: ensure_partitions always came in time

tableVars == <<today, parts, stored, job, ensuredTo, lastDropped, punctual>>

Day(r) == r[1]

InDefault == {r \in stored : Day(r) \notin parts}

\* What ensure_partitions(n) makes sure exists.
EnsuredDays(n) == (today - 1)..(today + n)

\* Pre-created partitions reach as far as rows can be stamped.
InTime(day) == day + Skew <= ensuredTo

\* The migration: partitions first, then the rows of the flat table.
TableInit ==
    /\ today = FirstDay
    /\ parts = EnsuredDays(Migrated)
    /\ stored \in {{}} \cup {{flat} : flat \in (0..FirstDay) \X Metrics}
    /\ job = "idle"
    /\ ensuredTo = FirstDay + Migrated /\ lastDropped = 0
    /\ punctual = InTime(FirstDay)

\* INSERT ... ON CONFLICT DO NOTHING, of a live row, a late or a skewed one.
Insert(r) ==
    /\ Cardinality(stored \cup {r}) <= MaxStored
    /\ stored' = stored \cup {r}
    /\ UNCHANGED <<today, parts, job, ensuredTo, lastDropped, punctual>>

\* current_date
NextDay ==
    /\ today < LastDay
    /\ today' = today + 1
    /\ punctual' = (punctual /\ InTime(today + 1))
    /\ UNCHANGED <<parts, stored, job, ensuredTo, lastDropped>>

\* Every partition before day limit is dropped with its rows, DEFAULT never.
DropBefore(limit) ==
    LET gone == {d \in parts : d < limit}
    IN  /\ parts' = parts \ gone
        /\ stored' = {r \in stored : Day(r) \notin gone}

\* Mutant: the last day of the window is dropped too.
JobDropsTooMuch ==
    /\ job = "idle"
    /\ DropBefore(today - Retention + 1)
    /\ job' = "ensure" /\ lastDropped' = today
    /\ UNCHANGED <<today, ensuredTo, punctual>>

\* Mutant: the first day outside the window is kept.
JobDropsTooLittle ==
    /\ job = "idle"
    /\ DropBefore(today - Retention - 1)
    /\ job' = "ensure" /\ lastDropped' = today
    /\ UNCHANGED <<today, ensuredTo, punctual>>

\* The first statement of the job: drop_old_partitions.
JobDrops ==
    /\ job = "idle"
    /\ DropBefore(today - Retention)
    /\ job' = "ensure" /\ lastDropped' = today
    /\ UNCHANGED <<today, ensuredTo, punctual>>

\* CREATE TABLE fails: DEFAULT has a row of a day to be created.
Wedged == \E r \in InDefault : Day(r) \in EnsuredDays(Ahead)

\* The job asks for days up to today + Ahead; the migration may have gone further.
Reached == ensuredTo' = IF ensuredTo < today + Ahead THEN today + Ahead ELSE ensuredTo

\* Mutant: the last day of the window is not created.
JobEnsuresTooLittle ==
    /\ job = "ensure" /\ ~Wedged
    /\ parts' = parts \cup EnsuredDays(Ahead - 1)
    /\ job' = "idle" /\ Reached
    /\ UNCHANGED <<today, stored, lastDropped, punctual>>

\* The second statement: ensure_partitions.
JobEnsures ==
    /\ job = "ensure" /\ ~Wedged
    /\ parts' = parts \cup EnsuredDays(Ahead)
    /\ job' = "idle" /\ Reached
    /\ UNCHANGED <<today, stored, lastDropped, punctual>>

\* ensure_partitions raises and is rolled back, or the job is killed before it.
JobFails ==
    /\ job = "ensure"
    /\ job' = "idle"
    /\ UNCHANGED <<today, parts, stored, ensuredTo, lastDropped, punctual>>

TableNext ==
    \/ \E r \in (0..(today + Skew)) \X Metrics : Insert(r)
    \/ NextDay \/ JobDrops \/ JobEnsures \/ JobFails

-----------------------------------------------------------------------------
\* Days and rows stay within the bounds, partitions within what was asked for.
TableTypeOK ==
    /\ today \in FirstDay..LastDay
    /\ parts \subseteq 0..ensuredTo
    /\ stored \subseteq (0..(LastDay + Skew)) \X Metrics
    /\ job \in {"idle", "ensure"}
    /\ ensuredTo \in Nat /\ ensuredTo >= FirstDay + Migrated /\ lastDropped \in 0..today

\* Retention loses nothing it should keep: a row leaves the table only when its
\* day lies before the retention window, however the job's steps, late rows and
\* midnight interleave.
InWindowSurvive == [][\A r \in stored \ stored' : Day(r) < today - Retention]_tableVars

\* Retention keeps nothing it should drop, except in DEFAULT: after a run of the
\* job, every row older than the window of that run sits in the DEFAULT
\* partition (migrated or late), where no later run will find it.
OldRowsOnlyInDefault ==
    \A r \in stored : Day(r) < lastDropped - Retention => r \in InDefault

\* The job cannot wedge itself: as long as ensure_partitions always came before
\* the pre-created days ran out, clock skew included, it succeeds again, whatever
\* rows came late and whatever was dropped.  (Once it was too late, a row in
\* DEFAULT makes every run fail until its day is past.)
PunctualNeverWedges == punctual => ~Wedged
=============================================================================
