---------------------------- MODULE BrokerProofs -----------------------------
(***************************************************************************)
(* The Broker implements the Store contract, and with it keeps custody and *)
(* budget, for every capacity, policy, number of messages and of callers.  *)
(***************************************************************************)
EXTENDS Broker, FiniteSetTheorems, TLAPS

\* The theorems about the contract, seen through the refinement mapping.
Proved == INSTANCE StoreProofs WITH
    MayEvict <- (Policy = "drop-oldest"),
    issued   <- nextID,
    queued   <- Elems(main),
    retrying <- DOMAIN retry,
    owner    <- [i \in DOMAIN leases |-> leases[i].consumer],
    dead     <- Elems(dlq)

-----------------------------------------------------------------------------
(* Lemmas about lanes and tables.                                            *)

\* Taking the head off a lane without repetitions removes exactly that id.
LEMMA LaneTail ==
    ASSUME NEW S, NEW s \in Seq(S), s # <<>>, NoRepeat(s)
    PROVE  /\ Tail(s) \in Seq(S) /\ Len(Tail(s)) = Len(s) - 1 /\ Len(s) \in Nat \ {0}
           /\ Head(s) \in S /\ Head(s) \in Elems(s)
           /\ Elems(Tail(s)) = Elems(s) \ {Head(s)}
           /\ NoRepeat(Tail(s))
<1>1. /\ Tail(s) \in Seq(S) /\ Len(Tail(s)) = Len(s) - 1 /\ Len(s) \in Nat \ {0}
      /\ Head(s) \in S /\ Head(s) = s[1]
      /\ DOMAIN s = 1..Len(s) /\ DOMAIN Tail(s) = 1..(Len(s) - 1)
      /\ \A k \in 1..(Len(s) - 1) : Tail(s)[k] = s[k + 1]
  OBVIOUS
<1>2. Head(s) \in Elems(s)
  BY <1>1 DEF Elems
<1>3. Elems(Tail(s)) \subseteq Elems(s) \ {Head(s)}
  BY <1>1 DEF Elems, NoRepeat
<1>4. Elems(s) \ {Head(s)} \subseteq Elems(Tail(s))
  <2>1. SUFFICES ASSUME NEW k \in 1..Len(s), s[k] # Head(s)
                 PROVE  s[k] \in Elems(Tail(s))
    BY <1>1 DEF Elems
  <2>2. k - 1 \in 1..(Len(s) - 1) /\ Tail(s)[k - 1] = s[k]
    BY <1>1, <2>1
  <2>. QED BY <1>1, <2>2 DEF Elems
<1>5. NoRepeat(Tail(s))
  BY <1>1 DEF NoRepeat
<1>. QED BY <1>1, <1>2, <1>3, <1>4, <1>5

\* Appending a new id to a lane adds exactly that id.
LEMMA LaneAppend ==
    ASSUME NEW S, NEW s \in Seq(S), NEW e \in S
    PROVE  /\ Append(s, e) \in Seq(S) /\ Len(Append(s, e)) = Len(s) + 1
           /\ Elems(Append(s, e)) = Elems(s) \cup {e}
           /\ NoRepeat(s) /\ e \notin Elems(s) => NoRepeat(Append(s, e))
<1>1. /\ Append(s, e) \in Seq(S) /\ Len(Append(s, e)) = Len(s) + 1 /\ Len(s) \in Nat
      /\ DOMAIN s = 1..Len(s) /\ DOMAIN Append(s, e) = 1..(Len(s) + 1)
      /\ \A k \in 1..Len(s) : Append(s, e)[k] = s[k]
      /\ Append(s, e)[Len(s) + 1] = e
  OBVIOUS
<1>2. Elems(Append(s, e)) \subseteq Elems(s) \cup {e}
  BY <1>1 DEF Elems
<1>3. Elems(s) \cup {e} \subseteq Elems(Append(s, e))
  BY <1>1 DEF Elems
<1>4. NoRepeat(s) /\ e \notin Elems(s) => NoRepeat(Append(s, e))
  BY <1>1 DEF Elems, NoRepeat
<1>. QED BY <1>1, <1>2, <1>3, <1>4

\* Dropping the oldest id to append a new one.
LEMMA LaneSlide ==
    ASSUME NEW S, NEW s \in Seq(S), s # <<>>, NoRepeat(s), NEW e \in S, e \notin Elems(s)
    PROVE  /\ Append(Tail(s), e) \in Seq(S) /\ Len(Append(Tail(s), e)) = Len(s)
           /\ Elems(Append(Tail(s), e)) = (Elems(s) \ {Head(s)}) \cup {e}
           /\ NoRepeat(Append(Tail(s), e))
<1>1. PICK t \in Seq(S) : t = Tail(s)
  BY LaneTail
<1>2. /\ Len(t) = Len(s) - 1 /\ Len(s) \in Nat
      /\ Elems(t) = Elems(s) \ {Head(s)} /\ NoRepeat(t)
  BY <1>1, LaneTail
<1>3. /\ Append(t, e) \in Seq(S) /\ Len(Append(t, e)) = Len(t) + 1
      /\ Elems(Append(t, e)) = Elems(t) \cup {e}
      /\ NoRepeat(Append(t, e))
  BY <1>2, LaneAppend
<1>. QED BY <1>1, <1>2, <1>3

\* A lane without repetitions has as many ids as places.
LEMMA LaneCard ==
    ASSUME NEW S, NEW s \in Seq(S), NoRepeat(s)
    PROVE  /\ IsFiniteSet(Elems(s)) /\ Cardinality(Elems(s)) = Len(s)
           /\ Elems(s) \subseteq S /\ Len(s) \in Nat
<1>1. Len(s) \in Nat /\ DOMAIN s = 1..Len(s) /\ Elems(s) \subseteq S
  BY DEF Elems
<1>2. s \in Bijection(1..Len(s), Elems(s))
  <2>1. s \in [1..Len(s) -> Elems(s)]
    BY <1>1 DEF Elems
  <2>2. \A j, k \in 1..Len(s) : s[j] = s[k] => j = k
    BY <1>1 DEF NoRepeat
  <2>3. \A t \in Elems(s) : \E k \in 1..Len(s) : s[k] = t
    BY <1>1 DEF Elems
  <2>. QED BY <2>1, <2>2, <2>3, <1>1 DEF Bijection, Injection, Surjection, IsInjective
<1>3. ExistsBijection(1..Len(s), Elems(s))
  BY <1>2 DEF ExistsBijection
<1>. QED
  BY <1>1, <1>3, FS_NatBijection, FS_CountingElements

\* A lane of ids from S is a lane of ids from any larger set.
LEMMA LaneWiden ==
    ASSUME NEW S, NEW T, S \subseteq T, NEW s \in Seq(S)
    PROVE  s \in Seq(T)
  OBVIOUS

\* The backoff is a number of ticks, whatever the attempt.
LEMMA BackoffType == \A n : Backoff(n) \in Nat
  BY BrokerAssumption DEF Backoff

-----------------------------------------------------------------------------
(* The inductive invariant.  Custody needs LoopsSeeLeases: a loop that       *)
(* requeued an id that is no longer leased would put it in two lanes.  Type  *)
(* correctness needs Custody and DeliveryCounts: only because a queued or    *)
(* retrying message has deliveries left does a lease keep within             *)
(* MaxDeliveries.                                                            *)

IInv ==
    /\ TypeOK
    /\ Custody
    /\ Budget
    /\ DeliveryCounts
    /\ LoopsSeeLeases
    /\ NoSleepWithRoom

\* The contract counts with the same cardinality operator.
LEMMA SameCardinality ==
    ASSUME NEW S
    PROVE  /\ Contract!Cardinality(S) = Cardinality(S)
           /\ Proved!Cardinality(S) = Cardinality(S)
  BY DEF Contract!Cardinality, Proved!Cardinality, Cardinality

\* The budget the code computes is the budget of the contract.
LEMMA StoreView ==
    ASSUME LaneTypes, Custody
    PROVE  /\ Used = Contract!Cardinality(Contract!InBudget)
           /\ Len(dlq) = Contract!Cardinality(Elems(dlq))
           /\ Used \in Nat /\ Len(main) \in Nat /\ Len(dlq) \in Nat
<1>1. IsFiniteSet(Ids)
  <2>1. 1 \in Int /\ nextID \in Int
    BY DEF LaneTypes
  <2>. QED BY <2>1, FS_Interval DEF Ids
<1>2. /\ IsFiniteSet(Elems(main)) /\ Cardinality(Elems(main)) = Len(main)
      /\ Cardinality(Elems(dlq)) = Len(dlq)
      /\ Len(main) \in Nat /\ Len(dlq) \in Nat
  <2>1. main \in Seq(Ids) /\ dlq \in Seq(Ids) /\ NoRepeat(main) /\ NoRepeat(dlq)
    BY DEF LaneTypes, Custody
  <2>. QED BY <2>1, LaneCard
<1>3. IsFiniteSet(DOMAIN retry) /\ IsFiniteSet(DOMAIN leases)
  BY <1>1, FS_Subset DEF LaneTypes
<1>4. /\ Elems(main) \cap DOMAIN retry = {}
      /\ (Elems(main) \cup DOMAIN retry) \cap DOMAIN leases = {}
  BY DEF Custody, Contract!OneCustodian, Contract!Leased
<1>5. /\ IsFiniteSet(Elems(main) \cup DOMAIN retry)
      /\ Cardinality(Elems(main) \cup DOMAIN retry)
            = Cardinality(Elems(main)) + Cardinality(DOMAIN retry) - Cardinality({})
  <2>1. Elems(main) \cap DOMAIN retry = {}
    BY <1>4
  <2>. QED BY <1>2, <1>3, <2>1, FS_Union
<1>6. Cardinality((Elems(main) \cup DOMAIN retry) \cup DOMAIN leases)
         = Cardinality(Elems(main) \cup DOMAIN retry)
              + Cardinality(DOMAIN leases) - Cardinality({})
  <2>1. (Elems(main) \cup DOMAIN retry) \cap DOMAIN leases = {}
    BY <1>4
  <2>. QED BY <1>3, <1>5, <2>1, FS_Union
<1>7. /\ Cardinality({}) = 0
      /\ Cardinality(DOMAIN retry) \in Nat /\ Cardinality(DOMAIN leases) \in Nat
  BY <1>3, FS_EmptySet, FS_CardinalityType
<1>8. Contract!InBudget = (Elems(main) \cup DOMAIN retry) \cup DOMAIN leases
  BY DEF Contract!InBudget, Contract!Leased
<1>. QED
  BY <1>2, <1>5, <1>6, <1>7, <1>8, SameCardinality DEF Used

\* Which steps touch the lanes: everything else leaves them alone.
LEMMA NextCases ==
    ASSUME IInv, Next
    PROVE  \/ UNCHANGED <<lanes, history>>
           \/ \E p \in Producers : EnqueueRoom(p) \/ EnqueueDropOldest(p)
           \/ \E c \in Consumers : Lease(c)
           \/ \E c \in Consumers, i \in DOMAIN leases :
                 /\ leases[i].consumer = c
                 /\ leases' = Without(leases, i)
                 /\ acked' = acked \cup {i}
                 /\ UNCHANGED <<main, retry, dlq, attempts, nextID, lost>>
           \/ \E i \in DOMAIN leases, d \in Nat : Requeue(i, d)
           \/ ReplayNext
<1>1. ASSUME NEW p \in Producers,
             Enqueue(p) \/ EnqueueWoken(p) \/ EnqueueTimeout(p) \/ EnqueueCancel(p)
      PROVE  \/ UNCHANGED <<lanes, history>>
             \/ EnqueueRoom(p) \/ EnqueueDropOldest(p)
  BY <1>1 DEF Enqueue, EnqueueWoken, EnqueueTimeout, EnqueueCancel, EnqueueLoop,
              EnqueueClosed, EnqueueRefuse, EnqueuePark, history
<1>2. ASSUME NEW c \in Consumers, NEW i \in 1..nextID, Ack(i, c)
      PROVE  \/ UNCHANGED <<lanes, history>>
             \/ /\ i \in DOMAIN leases /\ leases[i].consumer = c
                /\ leases' = Without(leases, i)
                /\ acked' = acked \cup {i}
                /\ UNCHANGED <<main, retry, dlq, attempts, nextID, lost>>
  BY <1>2 DEF Ack, Held, vars, history
<1>3. ASSUME NEW c \in Consumers, NEW i \in 1..nextID, ReleaseLease(i, c)
      PROVE  i \in DOMAIN leases /\ Requeue(i, 0)
  BY <1>3 DEF ReleaseLease, Held
<1>4. ASSUME ReleaseNext \/ SweepNext
      PROVE  \E i \in DOMAIN leases, d \in Nat : Requeue(i, d)
  BY <1>4, BackoffType DEF ReleaseNext, SweepNext, IInv, LoopsSeeLeases
<1>5. ASSUME \/ \E c \in Consumers : ReleaseConsumer(c)
             \/ SweepExpired \/ DLQReplay \/ ReplayDone \/ Close \/ SweeperStop \/ Tick
      PROVE  UNCHANGED <<lanes, history>>
  BY <1>5 DEF ReleaseConsumer, SweepExpired, DLQReplay, ReplayDone, Close, SweeperStop, Tick
<1>. QED
  BY <1>1, <1>2, <1>3, <1>4, <1>5 DEF Next

-----------------------------------------------------------------------------
(* Refinement: every step is a step of the contract or invisible to it.      *)

\* The room or the victim that Enqueue finds is the one the contract asks for.
LEMMA EnqueueRefines ==
    ASSUME IInv, NEW p \in Producers, EnqueueRoom(p) \/ EnqueueDropOldest(p)
    PROVE  /\ Contract!StoreNext
           /\ LaneTypes' /\ NoRepeat(main') /\ NoRepeat(dlq') /\ DeliveryCounts'
           /\ EnqueueDropOldest(p) => Len(main') = Len(main)
<1>. USE DEF IInv, TypeOK
<1>1. /\ nextID \in Nat /\ nextID + 1 \in Nat /\ nextID + 1 \notin Ids
      /\ Ids \subseteq 1..(nextID + 1)
  BY DEF LaneTypes, Ids
<1>2. main \in Seq(1..(nextID + 1)) /\ dlq \in Seq(1..(nextID + 1))
  BY <1>1, LaneWiden DEF LaneTypes
<1>3. NoRepeat(main) /\ NoRepeat(dlq) /\ Elems(main) \subseteq Ids
  BY LaneCard DEF LaneTypes, Custody
<1>4. /\ nextID' = nextID + 1 /\ attempts' = With(attempts, nextID + 1, 0)
      /\ UNCHANGED <<retry, leases, dlq, acked>>
  BY DEF EnqueueRoom, EnqueueDropOldest, PushBack, history
<1>5. attempts' \in [1..(nextID + 1) -> 0..MaxDeliveries]
  <2>1. 1..(nextID + 1) = Ids \cup {nextID + 1}
    BY <1>1 DEF Ids
  <2>2. attempts \in [Ids -> 0..MaxDeliveries] /\ 0 \in 0..MaxDeliveries
    BY BrokerAssumption DEF LaneTypes
  <2>. QED BY <1>4, <2>1, <2>2 DEF With
<1>count. /\ \A i \in Ids : attempts'[i] = attempts[i]
          /\ attempts'[nextID + 1] = 0
          /\ Elems(dlq) \subseteq Ids
  BY <1>1, <1>4, LaneCard DEF LaneTypes, With, Custody
<1>6. CASE EnqueueRoom(p)
  <2>1. main' = Append(main, nextID + 1) /\ lost' = lost
    BY <1>6 DEF EnqueueRoom, PushBack, history
  <2>2. /\ Elems(main') = Elems(main) \cup {nextID + 1} /\ NoRepeat(main')
        /\ main' \in Seq(1..(nextID + 1))
    BY <1>1, <1>2, <1>3, <2>1, LaneAppend
  <2>card. Contract!Cardinality(Contract!InBudget) < Capacity
    BY <1>6, StoreView DEF EnqueueRoom
  <2>3. Contract!Admit
    BY <1>4, <2>card, <2>1, <2>2 DEF Contract!Admit
  <2>4. LaneTypes'
    BY <1>1, <1>2, <1>4, <1>5, <2>1, <2>2 DEF LaneTypes, Ids
  <2>5. DeliveryCounts'
    BY <1>3, <1>4, <1>count, <2>2 DEF DeliveryCounts, LaneTypes
  <2>6. ~EnqueueDropOldest(p)
    BY <1>6, StoreView, BrokerAssumption DEF EnqueueRoom, EnqueueDropOldest
  <2>. QED BY <1>3, <1>4, <2>2, <2>3, <2>4, <2>5, <2>6 DEF Contract!StoreNext
<1>7. CASE EnqueueDropOldest(p)
  <2>1. /\ main' = Append(Tail(main), nextID + 1) /\ lost' = lost \cup {Head(main)}
        /\ main # <<>> /\ Policy = "drop-oldest"
    BY <1>7 DEF EnqueueDropOldest, PushBack
  <2>2. /\ Tail(main) \in Seq(1..(nextID + 1)) /\ Head(main) \in Elems(main)
        /\ Elems(Tail(main)) = Elems(main) \ {Head(main)} /\ NoRepeat(Tail(main))
    BY <1>2, <1>3, <2>1, LaneTail
  <2>3. /\ Elems(main') = (Elems(main) \ {Head(main)}) \cup {nextID + 1}
        /\ NoRepeat(main') /\ main' \in Seq(1..(nextID + 1)) /\ Len(main') = Len(main)
    <3>1. nextID + 1 \notin Elems(main) /\ nextID + 1 \in 1..(nextID + 1)
      BY <1>1, <1>3
    <3>. QED BY <1>2, <1>3, <2>1, <3>1, LaneSlide
  <2>card. Contract!Cardinality(Contract!InBudget) >= Capacity
    BY <1>7, StoreView DEF EnqueueDropOldest
  <2>4. Contract!AdmitEvicting
    BY <1>4, <2>card, <2>1, <2>2, <2>3 DEF Contract!AdmitEvicting
  <2>5. LaneTypes'
    BY <1>1, <1>2, <1>3, <1>4, <1>5, <2>1, <2>2, <2>3 DEF LaneTypes, Ids
  <2>6. DeliveryCounts'
    BY <1>3, <1>4, <1>count, <2>3 DEF DeliveryCounts, LaneTypes
  <2>. QED BY <1>3, <1>4, <2>3, <2>4, <2>5, <2>6 DEF Contract!StoreNext
<1>. QED BY <1>6, <1>7

\* The head of the retry heap, or of the main lane, moves to the lease table.
LEMMA LeaseRefines ==
    ASSUME IInv, NEW c \in Consumers, Lease(c)
    PROVE  /\ Contract!StoreNext
           /\ LaneTypes' /\ NoRepeat(main') /\ NoRepeat(dlq') /\ DeliveryCounts'
           /\ Contract!InBudget' = Contract!InBudget
<1>. USE DEF IInv, TypeOK
<1>1. UNCHANGED <<dlq, nextID, acked, lost>>
  BY DEF Lease, history
<1>2. /\ main \in Seq(Ids) /\ NoRepeat(main) /\ NoRepeat(dlq)
      /\ Elems(main) \subseteq Ids /\ Elems(dlq) \subseteq Ids
      /\ attempts \in [Ids -> 0..MaxDeliveries] /\ MaxDeliveries \in Nat \ {0}
  BY LaneCard, BrokerAssumption DEF LaneTypes, Custody
<1>3. ASSUME NEW i \in Ids, RecordLease(i, c), i \notin DOMAIN leases,
             attempts[i] < MaxDeliveries,
             i \in Elems(main) \cup DOMAIN retry,
             Elems(main') = Elems(main) \ {i}, DOMAIN retry' = DOMAIN retry \ {i},
             main' \in Seq(Ids), NoRepeat(main'), retry' \in [DOMAIN retry' -> Nat]
      PROVE  /\ Contract!StoreNext
             /\ LaneTypes' /\ NoRepeat(main') /\ NoRepeat(dlq') /\ DeliveryCounts'
             /\ Contract!InBudget' = Contract!InBudget
  <2>1. /\ DOMAIN leases' = DOMAIN leases \cup {i}
        /\ leases'[i] = [consumer |-> c, deadline |-> now + LeaseTTL]
        /\ \A j \in DOMAIN leases : leases'[j] = leases[j]
        /\ attempts' = [attempts EXCEPT ![i] = attempts[i] + 1]
    <3>1. PICK v : /\ v = [consumer |-> c, deadline |-> now + LeaseTTL]
                   /\ leases' = With(leases, i, v)
      BY <1>3 DEF RecordLease
    <3>2. attempts' = [attempts EXCEPT ![i] = attempts[i] + 1]
      BY <1>3 DEF RecordLease
    <3>. QED BY <1>3, <3>1, <3>2 DEF With
  <2>2. leases' \in [DOMAIN leases' -> LeaseRecs]
    <3>1. [consumer |-> c, deadline |-> now + LeaseTTL] \in LeaseRecs
      BY BrokerAssumption DEF LeaseRecs, ControlTypes
    <3>2. leases' = [j \in DOMAIN leases \cup {i} |-> leases'[j]]
      BY <1>3 DEF RecordLease, With
    <3>. QED BY <2>1, <3>1, <3>2 DEF LaneTypes
  <2>3. Contract!StoreLease(c, i)
    <3>1. [j \in DOMAIN leases |-> leases[j].consumer]'
             = [j \in DOMAIN leases \cup {i} |->
                   IF j = i THEN c ELSE [k \in DOMAIN leases |-> leases[k].consumer][j]]
      BY <1>3, <2>1
    <3>. QED BY <1>1, <1>3, <3>1 DEF Contract!StoreLease, Contract!Leased
  <2>4. attempts' \in [Ids -> 0..MaxDeliveries]
    BY <1>2, <1>3, <2>1
  <2>5. LaneTypes'
    BY <1>1, <1>3, <2>1, <2>2, <2>4 DEF LaneTypes, Ids
  <2>6. i \notin Elems(dlq)
    BY <1>3 DEF Custody, Contract!OneCustodian, Contract!Leased
  <2>7. /\ attempts'[i] \in 1..MaxDeliveries
        /\ \A j \in Ids : j # i => attempts'[j] = attempts[j]
    BY <1>2, <1>3, <2>1
  <2>8. DeliveryCounts'
    BY <1>1, <1>2, <1>3, <2>1, <2>6, <2>7 DEF DeliveryCounts, LaneTypes
  <2>9. Contract!InBudget' = Contract!InBudget
    BY <1>3, <2>1 DEF Contract!InBudget, Contract!Leased
  <2>. QED BY <1>1, <1>2, <1>3, <2>3, <2>5, <2>8, <2>9 DEF Contract!StoreNext, Ids
<1>4. CASE LeaseRetry(c)
  <2>. PICK i \in DOMAIN retry : retry' = Without(retry, i) /\ RecordLease(i, c) /\ main' = main
    BY <1>4 DEF LeaseRetry
  <2>1. /\ i \in Ids /\ i \notin DOMAIN leases /\ i \notin Elems(main)
        /\ attempts[i] < MaxDeliveries
    BY <1>2 DEF LaneTypes, Custody, Contract!OneCustodian, Contract!Leased, DeliveryCounts
  <2>2. DOMAIN retry' = DOMAIN retry \ {i} /\ retry' \in [DOMAIN retry' -> Nat]
    BY DEF Without, LaneTypes
  <2>. QED BY <1>2, <1>3, <2>1, <2>2
<1>5. CASE LeaseMain(c)
  <2>1. /\ main # <<>> /\ main' = Tail(main) /\ RecordLease(Head(main), c) /\ retry' = retry
    BY <1>5 DEF LeaseMain
  <2>2. /\ main' \in Seq(Ids) /\ NoRepeat(main') /\ Head(main) \in Ids
        /\ Head(main) \in Elems(main) /\ Elems(main') = Elems(main) \ {Head(main)}
    BY <1>2, <2>1, LaneTail
  <2>3. /\ Head(main) \notin DOMAIN leases /\ Head(main) \notin DOMAIN retry
        /\ attempts[Head(main)] < MaxDeliveries
    BY <1>2, <2>2 DEF Custody, Contract!OneCustodian, Contract!Leased, DeliveryCounts
  <2>4. DOMAIN retry' = DOMAIN retry \ {Head(main)} /\ retry' \in [DOMAIN retry' -> Nat]
    BY <2>1, <2>3 DEF LaneTypes
  <2>. QED BY <1>3, <2>1, <2>2, <2>3, <2>4
<1>. QED BY <1>4, <1>5 DEF Lease

\* An ack by the holder ends the lease and the life of the message.
LEMMA AckRefines ==
    ASSUME IInv, NEW c \in Consumers, NEW i \in DOMAIN leases,
           leases[i].consumer = c,
           leases' = Without(leases, i),
           acked' = acked \cup {i},
           UNCHANGED <<main, retry, dlq, attempts, nextID, lost>>
    PROVE  /\ Contract!StoreNext
           /\ LaneTypes' /\ NoRepeat(main') /\ NoRepeat(dlq') /\ DeliveryCounts'
<1>. USE DEF IInv, TypeOK
<1>1. /\ DOMAIN leases' = DOMAIN leases \ {i}
      /\ \A j \in DOMAIN leases : j # i => leases'[j] = leases[j]
  BY DEF Without
<1>2. Contract!StoreAck(c, i)
  <2>1. [j \in DOMAIN leases |-> leases[j].consumer]'
           = [j \in DOMAIN leases \ {i} |-> [k \in DOMAIN leases |-> leases[k].consumer][j]]
    BY <1>1
  <2>. QED BY <2>1 DEF Contract!StoreAck, Contract!DropLeases, Contract!Leased
<1>3. LaneTypes'
  <2>1. leases' \in [DOMAIN leases' -> LeaseRecs]
    BY <1>1 DEF LaneTypes, Without
  <2>. QED BY <1>1, <2>1 DEF LaneTypes, Ids
<1>4. DeliveryCounts'
  BY <1>1 DEF DeliveryCounts
<1>5. i \in 1..nextID /\ NoRepeat(main') /\ NoRepeat(dlq')
  BY DEF LaneTypes, Ids, Custody
<1>. QED BY <1>2, <1>3, <1>4, <1>5 DEF Contract!StoreNext

\* A lease that ends without an ack: retry lane or dead-letter lane.
LEMMA RequeueRefines ==
    ASSUME IInv, NEW i \in DOMAIN leases, NEW d \in Nat, Requeue(i, d)
    PROVE  /\ Contract!StoreNext
           /\ LaneTypes' /\ NoRepeat(main') /\ NoRepeat(dlq') /\ DeliveryCounts'
           /\ attempts[i] < MaxDeliveries => Contract!InBudget' = Contract!InBudget
<1>. USE DEF IInv, TypeOK
<1>1. /\ DOMAIN leases' = DOMAIN leases \ {i}
      /\ \A j \in DOMAIN leases : j # i => leases'[j] = leases[j]
      /\ leases' = Without(leases, i)
      /\ UNCHANGED <<main, attempts, nextID, acked>>
  BY DEF Requeue, Without
<1>2. leases' \in [DOMAIN leases' -> LeaseRecs]
  BY <1>1 DEF LaneTypes, Without
<1>3. [j \in DOMAIN leases |-> leases[j].consumer]'
         = [j \in DOMAIN leases \ {i} |-> [k \in DOMAIN leases |-> leases[k].consumer][j]]
  BY <1>1
<1>4. /\ i \in Ids /\ i \notin Elems(dlq) /\ i \notin DOMAIN retry
      /\ attempts[i] \in 1..MaxDeliveries /\ MaxDeliveries \in Nat \ {0}
      /\ dlq \in Seq(Ids) /\ NoRepeat(main) /\ NoRepeat(dlq) /\ Elems(dlq) \subseteq Ids
  BY LaneCard, BrokerAssumption
     DEF LaneTypes, Custody, Contract!OneCustodian, Contract!Leased, DeliveryCounts
<1>5. CASE attempts[i] < MaxDeliveries
  <2>1. retry' = With(retry, i, now + d) /\ UNCHANGED <<dlq, lost>>
    BY <1>4, <1>5 DEF Requeue, LaneTypes
  <2>2. DOMAIN retry' = DOMAIN retry \cup {i} /\ retry' \in [DOMAIN retry' -> Nat]
    BY <2>1 DEF With, LaneTypes, ControlTypes
  <2>3. Contract!StoreRequeue(i)
    BY <1>1, <1>3, <2>1, <2>2
       DEF Contract!StoreRequeue, Contract!DropLeases, Contract!Leased
  <2>4. LaneTypes'
    BY <1>1, <1>2, <1>4, <2>1, <2>2 DEF LaneTypes, Ids
  <2>5. DeliveryCounts'
    BY <1>1, <1>4, <1>5, <2>1, <2>2 DEF DeliveryCounts
  <2>6. Contract!InBudget' = Contract!InBudget
    BY <1>1, <2>2 DEF Contract!InBudget, Contract!Leased
  <2>. QED BY <1>1, <1>4, <2>1, <2>3, <2>4, <2>5, <2>6 DEF Contract!StoreNext, Ids
<1>6. CASE attempts[i] >= MaxDeliveries
  <2>1. PushDLQ(i) /\ retry' = retry /\ attempts[i] = MaxDeliveries
    BY <1>4, <1>6 DEF Requeue, LaneTypes
  <2>2. Len(dlq) \in Nat /\ Len(dlq) = Contract!Cardinality(Elems(dlq)) /\ Len(dlq) <= DLQCapacity
    BY StoreView DEF Budget
  <2>max. ~(attempts[i] < MaxDeliveries)
    BY <1>4, <1>6
  <2>3. CASE Len(dlq) = DLQCapacity
    <3>1. dlq # <<>>
      BY <2>3, BrokerAssumption
    <3>2. dlq' = Append(Tail(dlq), i) /\ lost' = lost \cup {Head(dlq)}
      BY <2>1, <2>3 DEF PushDLQ
    <3>3. /\ dlq' \in Seq(Ids) /\ NoRepeat(dlq')
          /\ Elems(dlq') = (Elems(dlq) \ {Head(dlq)}) \cup {i}
          /\ Head(dlq) \in Elems(dlq)
      BY <1>4, <3>1, <3>2, LaneSlide, LaneTail
    <3>4. Contract!StoreDeadLetter(i)
      BY <1>1, <1>3, <2>1, <2>2, <2>3, <3>2, <3>3
         DEF Contract!StoreDeadLetter, Contract!DropLeases, Contract!Leased
    <3>5. LaneTypes'
      BY <1>1, <1>2, <1>4, <2>1, <3>2, <3>3 DEF LaneTypes, Ids
    <3>6. DeliveryCounts'
      BY <1>1, <1>4, <2>1, <3>3 DEF DeliveryCounts
    <3>. QED BY <1>1, <1>4, <2>max, <3>3, <3>4, <3>5, <3>6 DEF Contract!StoreNext, Ids
  <2>4. CASE Len(dlq) < DLQCapacity
    <3>2. dlq' = Append(dlq, i) /\ lost' = lost
      BY <2>1, <2>2, <2>4 DEF PushDLQ
    <3>3. /\ dlq' \in Seq(Ids) /\ NoRepeat(dlq') /\ Elems(dlq') = Elems(dlq) \cup {i}
      BY <1>4, <3>2, LaneAppend
    <3>4. Contract!StoreDeadLetter(i)
      BY <1>1, <1>3, <2>1, <2>2, <2>4, <3>2, <3>3
         DEF Contract!StoreDeadLetter, Contract!DropLeases, Contract!Leased
    <3>5. LaneTypes'
      BY <1>1, <1>2, <1>4, <2>1, <3>2, <3>3 DEF LaneTypes, Ids
    <3>6. DeliveryCounts'
      BY <1>1, <1>4, <2>1, <3>3 DEF DeliveryCounts
    <3>. QED BY <1>1, <1>4, <2>max, <3>3, <3>4, <3>5, <3>6 DEF Contract!StoreNext, Ids
  <2>. QED BY <2>2, <2>3, <2>4, BrokerAssumption
<1>. QED BY <1>4, <1>5, <1>6

\* A replayed message is fresh work again.
LEMMA ReplayRefines ==
    ASSUME IInv, ReplayNext
    PROVE  /\ Contract!StoreNext
           /\ LaneTypes' /\ NoRepeat(main') /\ NoRepeat(dlq') /\ DeliveryCounts'
<1>. USE DEF IInv, TypeOK
<1>1. /\ Used < Capacity /\ dlq # <<>>
      /\ dlq' = Tail(dlq) /\ main' = Append(main, Head(dlq))
      /\ attempts' = [attempts EXCEPT ![Head(dlq)] = 0]
      /\ UNCHANGED <<retry, leases, nextID, acked, lost>>
  BY DEF ReplayNext, history
<1>2. /\ main \in Seq(Ids) /\ dlq \in Seq(Ids) /\ NoRepeat(main) /\ NoRepeat(dlq)
      /\ Elems(main) \subseteq Ids /\ Elems(dlq) \subseteq Ids
      /\ attempts \in [Ids -> 0..MaxDeliveries] /\ MaxDeliveries \in Nat \ {0}
  BY LaneCard, BrokerAssumption DEF LaneTypes, Custody
<1>3. PICK h : h = Head(dlq)
  OBVIOUS
<1>4. /\ dlq' \in Seq(Ids) /\ NoRepeat(dlq') /\ Elems(dlq') = Elems(dlq) \ {h}
      /\ h \in Ids /\ h \in Elems(dlq)
  BY <1>1, <1>2, <1>3, LaneTail
<1>5. h \notin Elems(main) /\ h \notin DOMAIN retry /\ h \notin DOMAIN leases
  BY <1>4 DEF Custody, Contract!OneCustodian, Contract!Leased
<1>6. main' \in Seq(Ids) /\ NoRepeat(main') /\ Elems(main') = Elems(main) \cup {h}
  BY <1>1, <1>2, <1>3, <1>4, <1>5, LaneAppend
<1>7. Contract!Cardinality(Contract!InBudget) < Capacity
  BY <1>1, StoreView
<1>8. Contract!StoreReplay(h)
  BY <1>1, <1>4, <1>6, <1>7 DEF Contract!StoreReplay
<1>9. /\ attempts' \in [Ids -> 0..MaxDeliveries] /\ attempts'[h] = 0
      /\ \A j \in Ids : j # h => attempts'[j] = attempts[j]
  BY <1>1, <1>2, <1>3, <1>4
<1>10. LaneTypes'
  BY <1>1, <1>4, <1>6, <1>9 DEF LaneTypes, Ids
<1>11. DeliveryCounts'
  BY <1>1, <1>2, <1>4, <1>5, <1>6, <1>9 DEF DeliveryCounts, LaneTypes
<1>. QED BY <1>4, <1>6, <1>8, <1>10, <1>11 DEF Contract!StoreNext, Ids

\* A step the lanes do not see preserves what is said of the lanes.
LEMMA QuietKeepsLanes ==
    ASSUME IInv, UNCHANGED <<lanes, history>>
    PROVE  /\ UNCHANGED Contract!storeVars
           /\ LaneTypes' /\ NoRepeat(main') /\ NoRepeat(dlq') /\ DeliveryCounts'
<1>1. UNCHANGED <<main, retry, leases, dlq, attempts, nextID, acked, lost>>
  BY DEF lanes, history
<1>2. UNCHANGED Contract!storeVars
  BY <1>1 DEF Contract!storeVars
<1>3. LaneTypes' /\ DeliveryCounts'
  BY <1>1 DEF IInv, TypeOK, LaneTypes, DeliveryCounts, Ids
<1>4. NoRepeat(main') /\ NoRepeat(dlq')
  BY <1>1 DEF IInv, Custody
<1>. QED BY <1>2, <1>3, <1>4

\* The step condition of the refinement, with the part of the invariant that
\* only the lanes decide.
THEOREM StepRefines ==
    ASSUME IInv, [Next]_vars
    PROVE  /\ [Contract!StoreNext]_(Contract!storeVars)
           /\ LaneTypes' /\ NoRepeat(main') /\ NoRepeat(dlq') /\ DeliveryCounts'
<1>1. CASE UNCHANGED vars
  BY <1>1, QuietKeepsLanes DEF vars
<1>2. CASE Next
  BY <1>2, NextCases, QuietKeepsLanes, EnqueueRefines, LeaseRefines, AckRefines,
     RequeueRefines, ReplayRefines
<1>. QED BY <1>1, <1>2

-----------------------------------------------------------------------------
(* Custody and Budget follow from the theorems about the contract.           *)

\* The invariant of the contract holds through the mapping.
LEMMA ContractInv == IInv => Contract!StoreInv
<1>. SUFFICES ASSUME IInv PROVE Contract!StoreInv
  OBVIOUS
<1>. USE DEF IInv, TypeOK
<1>1. Elems(main) \subseteq Ids /\ Elems(dlq) \subseteq Ids
  BY LaneCard DEF LaneTypes, Custody
<1>2. [i \in DOMAIN leases |-> leases[i].consumer] \in [DOMAIN leases -> Consumers]
  BY DEF LaneTypes, LeaseRecs
<1>3. Contract!StoreTypeOK
  BY <1>1, <1>2 DEF LaneTypes, Ids, Contract!StoreTypeOK, Contract!Leased
<1>4. Contract!WithinBudget
  BY StoreView DEF Budget, Contract!WithinBudget
<1>. QED BY <1>3, <1>4 DEF Custody, Contract!StoreInv

\* Both instances of the contract are the same formulas.
LEMMA SameContract ==
    /\ Contract!StoreInv <=> Proved!StoreInv
    /\ Contract!StoreNext <=> Proved!StoreNext
    /\ UNCHANGED Contract!storeVars <=> UNCHANGED Proved!storeVars
<1>1. Contract!StoreInv <=> Proved!StoreInv
  BY SameCardinality
     DEF Contract!StoreInv, Contract!StoreTypeOK, Contract!OneCustodian,
         Contract!WithinBudget, Contract!InBudget, Contract!Leased,
         Proved!StoreInv, Proved!StoreTypeOK, Proved!OneCustodian,
         Proved!WithinBudget, Proved!InBudget, Proved!Leased
<1>2. Contract!InBudget = Proved!InBudget /\ Contract!Leased = Proved!Leased
  BY DEF Contract!InBudget, Contract!Leased, Proved!InBudget, Proved!Leased
<1>3. Contract!StoreNext <=> Proved!StoreNext
  <2>1. Contract!Admit <=> Proved!Admit
    BY <1>2, SameCardinality DEF Contract!Admit, Proved!Admit
  <2>2. Contract!AdmitEvicting <=> Proved!AdmitEvicting
    BY <1>2, SameCardinality DEF Contract!AdmitEvicting, Proved!AdmitEvicting
  <2>3. ASSUME NEW i
        PROVE  Contract!DropLeases({i}) = Proved!DropLeases({i})
    BY <1>2 DEF Contract!DropLeases, Proved!DropLeases
  <2>4. ASSUME NEW i, NEW c
        PROVE  /\ Contract!StoreLease(c, i) <=> Proved!StoreLease(c, i)
               /\ Contract!StoreAck(c, i) <=> Proved!StoreAck(c, i)
    BY <1>2, <2>3 DEF Contract!StoreLease, Contract!StoreAck,
                      Proved!StoreLease, Proved!StoreAck
  <2>5. ASSUME NEW i
        PROVE  /\ Contract!StoreRequeue(i) <=> Proved!StoreRequeue(i)
               /\ Contract!StoreDeadLetter(i) <=> Proved!StoreDeadLetter(i)
               /\ Contract!StoreReplay(i) <=> Proved!StoreReplay(i)
    BY <1>2, <2>3, SameCardinality
       DEF Contract!StoreRequeue, Contract!StoreDeadLetter, Contract!StoreReplay,
           Proved!StoreRequeue, Proved!StoreDeadLetter, Proved!StoreReplay
  <2>. QED
    BY <2>1, <2>2, <2>4, <2>5 DEF Contract!StoreNext, Proved!StoreNext
<1>. QED BY <1>1, <1>3 DEF Contract!storeVars, Proved!storeVars

\* Custody and Budget are preserved, because the step is one of the contract.
LEMMA CustodyStep ==
    ASSUME IInv, [Next]_vars
    PROVE  LaneTypes' /\ Custody' /\ Budget' /\ DeliveryCounts'
<1>1. Contract!StoreNext \/ UNCHANGED Contract!storeVars
  BY StepRefines
<1>2. Proved!StoreInv'
  BY <1>1, ContractInv, SameContract, Proved!StoreStepInv, Proved!StoreStutterInv,
     BrokerAssumption
<1>3. (Contract!StoreInv <=> Proved!StoreInv)'
  BY SameContract, PTL
<1>4. LaneTypes' /\ Custody' /\ DeliveryCounts'
  BY <1>2, <1>3, StepRefines DEF Contract!StoreInv, Custody
<1>5. (LaneTypes /\ Custody =>
         /\ Used = Contract!Cardinality(Contract!InBudget)
         /\ Len(dlq) = Contract!Cardinality(Elems(dlq)))'
  BY StoreView, PTL
<1>6. Budget'
  BY <1>2, <1>3, <1>4, <1>5 DEF Contract!StoreInv, Contract!WithinBudget, Budget
<1>. QED BY <1>4, <1>6

-----------------------------------------------------------------------------
(* Control state.                                                            *)

\* Locks, producers, clock and counters keep their types.
LEMMA ControlStep ==
    ASSUME IInv, [Next]_vars
    PROVE  ControlTypes'
<1>. USE DEF IInv, TypeOK, ControlTypes
<1>1. CASE UNCHANGED vars
  BY <1>1 DEF vars, control, counters
<1>2. ASSUME NEW p \in Producers, EnqueueLoop(p)
      PROVE  ControlTypes'
  BY <1>2 DEF EnqueueLoop, EnqueueClosed, EnqueueRoom, EnqueueDropOldest, EnqueueRefuse,
              EnqueuePark, Return, control, counters
<1>3. ASSUME NEW p \in Producers, EnqueueTimeout(p) \/ EnqueueCancel(p)
      PROVE  ControlTypes'
  BY <1>3 DEF EnqueueTimeout, EnqueueCancel, Return, control, counters
<1>4. ASSUME NEW c \in Consumers, Lease(c)
      PROVE  ControlTypes'
  BY <1>4 DEF Lease, control, counters
<1>5. ASSUME NEW c \in Consumers, NEW i \in 1..nextID, Ack(i, c)
      PROVE  ControlTypes'
  BY <1>5 DEF Ack, SignalSpace, vars, control, counters
<1>6. ASSUME NEW i, NEW d, Requeue(i, d)
      PROVE  /\ producer' \in [Producers -> {"idle", "parked", "woken"}]
             /\ UNCHANGED <<closed, sweeper, now, rejected, droppedOverflow>>
             /\ deadLettered' \in Nat /\ dlqEvicted' \in Nat
  BY <1>6 DEF Requeue, PushDLQ, SignalSpace
<1>7. ASSUME NEW c \in Consumers, NEW i \in 1..nextID, ReleaseLease(i, c)
      PROVE  ControlTypes'
  BY <1>6, <1>7 DEF ReleaseLease
<1>8. CASE ReleaseNext
  BY <1>6, <1>8 DEF ReleaseNext, Advance
<1>9. CASE SweepNext
  BY <1>6, <1>9 DEF SweepNext, Advance
<1>10. CASE \/ \E c \in Consumers : ReleaseConsumer(c)
            \/ SweepExpired \/ DLQReplay \/ ReplayNext \/ ReplayDone
            \/ SweeperStop \/ Tick
  BY <1>10 DEF ReleaseConsumer, SweepExpired, DLQReplay, ReplayNext, ReplayDone,
               SweeperStop, Tick, control, counters
<1>11. CASE Close
  BY <1>11 DEF Close, SignalSpace, counters
<1>. QED
  BY <1>1, <1>2, <1>3, <1>4, <1>5, <1>7, <1>8, <1>9, <1>10, <1>11
     DEF Next, Enqueue, EnqueueWoken

\* Nothing but the loop itself takes its ids off the lease table: whoever else
\* could needs the mutex the loop holds.
LEMMA LoopStep ==
    ASSUME IInv, [Next]_vars
    PROVE  LoopsSeeLeases'
<1>. USE DEF LoopsSeeLeases
<1>0. LoopsSeeLeases
  BY DEF IInv
<1>1. CASE UNCHANGED vars
  BY <1>0, <1>1 DEF vars, lanes, control
<1>2. ASSUME NEW p \in Producers,
             Enqueue(p) \/ EnqueueWoken(p) \/ EnqueueTimeout(p) \/ EnqueueCancel(p)
      PROVE  LoopsSeeLeases'
  <2>1. UNCHANGED <<lock, todo, leases>>
    BY <1>2 DEF Enqueue, EnqueueWoken, EnqueueTimeout, EnqueueCancel, EnqueueLoop,
                EnqueueClosed, EnqueueRoom, EnqueueDropOldest, EnqueueRefuse, EnqueuePark,
                lanes, control
  <2>. QED BY <1>0, <2>1
<1>3. ASSUME NEW c \in Consumers, Lease(c)
      PROVE  LoopsSeeLeases'
  BY <1>0, <1>3 DEF Lease, Free, control
<1>4. ASSUME NEW c \in Consumers, NEW i \in 1..nextID, Ack(i, c) \/ ReleaseLease(i, c)
      PROVE  LoopsSeeLeases'
  BY <1>0, <1>4 DEF Ack, ReleaseLease, Free, vars, control
<1>5. CASE (\E c \in Consumers : ReleaseConsumer(c)) \/ SweepExpired
  BY <1>5 DEF ReleaseConsumer, SweepExpired, Expired, lanes
<1>6. CASE ReleaseNext \/ SweepNext
  <2>1. PICK i \in todo : leases' = Without(leases, i) /\ Advance(i)
    BY <1>6 DEF ReleaseNext, SweepNext, Requeue
  <2>2. DOMAIN leases' = DOMAIN leases \ {i} /\ todo' = todo \ {i}
    BY <2>1 DEF Without, Advance
  <2>3. lock' \in {"free", "replay"} => todo' = {}
    BY <1>6, <2>1 DEF Advance, ReleaseNext, SweepNext
  <2>. QED BY <1>0, <2>2, <2>3
<1>7. CASE DLQReplay \/ ReplayDone
  BY <1>0, <1>7 DEF DLQReplay, ReplayDone, Free, lanes
<1>8. CASE ReplayNext \/ Close \/ SweeperStop \/ Tick
  BY <1>0, <1>8 DEF ReplayNext, Close, SweeperStop, Tick, lanes, control
<1>. QED
  BY <1>1, <1>2, <1>3, <1>4, <1>5, <1>6, <1>7, <1>8 DEF Next

\* A producer that sleeps was not reached by a space signal, so no slot was
\* freed since it looked.
LEMMA WakeupStep ==
    ASSUME IInv, [Next]_vars
    PROVE  NoSleepWithRoom'
<1>. SUFFICES ASSUME NEW q \in Producers, producer'[q] = "parked"
              PROVE  Used' = Capacity /\ closed' = FALSE
  BY DEF NoSleepWithRoom
<1>. USE DEF IInv, TypeOK
<1>0. /\ producer \in [Producers -> {"idle", "parked", "woken"}] /\ closed \in BOOLEAN
      /\ Used \in Nat /\ Used <= Capacity /\ Capacity \in Nat
  BY StoreView, BrokerAssumption DEF ControlTypes, Budget
<1>parked. producer[q] = "parked" => Used = Capacity /\ closed = FALSE
  BY <1>0 DEF NoSleepWithRoom
<1>same. UNCHANGED <<lanes, history>> => Used' = Used
  BY DEF lanes, Used
<1>view. Contract!InBudget' = Contract!InBudget => Used' = Used
  <2>1. (LaneTypes /\ Custody => Used = Contract!Cardinality(Contract!InBudget))'
    BY StoreView, PTL
  <2>2. LaneTypes' /\ Custody'
    BY CustodyStep
  <2>3. Used = Contract!Cardinality(Contract!InBudget)
    BY StoreView
  <2>4. Used' = Contract!Cardinality(Contract!InBudget')
    BY <2>1, <2>2
  <2>. QED BY <2>3, <2>4
<1>signal. ~SignalSpace
  BY <1>0 DEF SignalSpace
<1>1. CASE UNCHANGED vars
  BY <1>1, <1>parked, <1>same DEF vars, control
<1>2. ASSUME NEW p \in Producers, EnqueueLoop(p)
      PROVE  Used' = Capacity /\ closed' = FALSE
  <2>0. UNCHANGED closed
    BY <1>2 DEF EnqueueLoop, control
  <2>1. CASE EnqueuePark(p)
    BY <1>0, <1>same, <2>0, <2>1 DEF EnqueuePark
  <2>2. CASE EnqueueClosed(p) \/ EnqueueRefuse(p)
    BY <1>0, <1>same, <1>parked, <2>0, <2>2 DEF EnqueueClosed, EnqueueRefuse, Return
  <2>3. CASE EnqueueRoom(p)
    BY <1>0, <1>parked, <2>3 DEF EnqueueRoom, Return
  <2>4. CASE EnqueueDropOldest(p)
    <3>1. Len(main') = Len(main) /\ UNCHANGED <<retry, leases>>
      BY <2>4, EnqueueRefines DEF EnqueueDropOldest
    <3>2. Used' = Used
      BY <3>1 DEF Used
    <3>. QED BY <1>0, <1>parked, <2>0, <2>4, <3>2 DEF EnqueueDropOldest, Return
  <2>. QED BY <1>2, <2>1, <2>2, <2>3, <2>4 DEF EnqueueLoop
<1>3. ASSUME NEW p \in Producers, EnqueueTimeout(p) \/ EnqueueCancel(p)
      PROVE  Used' = Capacity /\ closed' = FALSE
  BY <1>0, <1>3, <1>same, <1>parked DEF EnqueueTimeout, EnqueueCancel, Return, control, history
<1>4. ASSUME NEW c \in Consumers, Lease(c)
      PROVE  Used' = Capacity /\ closed' = FALSE
  <2>1. Used' = Used
    BY <1>4, <1>view, LeaseRefines
  <2>. QED BY <1>4, <1>parked, <2>1 DEF Lease, control
<1>5. ASSUME NEW c \in Consumers, NEW i \in 1..nextID, Ack(i, c)
      PROVE  Used' = Capacity /\ closed' = FALSE
  BY <1>5, <1>signal, <1>same, <1>parked DEF Ack, vars, control, history
<1>6. ASSUME NEW i \in DOMAIN leases, NEW d \in Nat, Requeue(i, d)
      PROVE  Used' = Capacity /\ closed' = FALSE
  <2>1. attempts[i] < MaxDeliveries /\ producer' = producer /\ closed' = closed
    BY <1>6, <1>signal DEF Requeue
  <2>2. Used' = Used
    BY <1>6, <1>view, <2>1, RequeueRefines
  <2>. QED BY <1>parked, <2>1, <2>2
<1>7. ASSUME NEW c \in Consumers, NEW i \in 1..nextID, ReleaseLease(i, c)
      PROVE  Used' = Capacity /\ closed' = FALSE
  BY <1>6, <1>7 DEF ReleaseLease, Held
<1>8. CASE ReleaseNext \/ SweepNext
  BY <1>6, <1>8, BackoffType DEF ReleaseNext, SweepNext, LoopsSeeLeases
<1>9. CASE ReplayNext
  BY <1>0, <1>9, <1>parked DEF ReplayNext
<1>10. CASE \/ \E c \in Consumers : ReleaseConsumer(c)
            \/ SweepExpired \/ DLQReplay \/ ReplayDone \/ SweeperStop \/ Tick
  BY <1>10, <1>same, <1>parked
     DEF ReleaseConsumer, SweepExpired, DLQReplay, ReplayDone, SweeperStop, Tick, control
<1>11. CASE Close
  BY <1>11, <1>signal DEF Close
<1>. QED
  BY <1>1, <1>2, <1>3, <1>4, <1>5, <1>7, <1>8, <1>9, <1>10, <1>11
     DEF Next, Enqueue, EnqueueWoken
-----------------------------------------------------------------------------
(* The theorems.                                                             *)

\* The empty broker satisfies the invariant and is an empty store.
LEMMA InitIInv == Init => IInv /\ Contract!StoreInit
<1>. SUFFICES ASSUME Init PROVE IInv /\ Contract!StoreInit
  OBVIOUS
<1>1. /\ Elems(main) = {} /\ Elems(dlq) = {} /\ DOMAIN retry = {} /\ DOMAIN leases = {}
      /\ Ids = {} /\ Len(main) = 0 /\ Len(dlq) = 0
  BY DEF Init, Elems, Ids
<1>2. LaneTypes
  BY <1>1 DEF Init, LaneTypes
<1>3. ControlTypes
  BY DEF Init, ControlTypes
<1>4. Custody
  BY <1>1 DEF Init, Custody, Contract!OneCustodian, Contract!Leased, NoRepeat, Ids
<1>5. Budget
  BY <1>1, FS_EmptySet, BrokerAssumption DEF Budget, Used
<1>6. DeliveryCounts /\ LoopsSeeLeases
  BY <1>1 DEF Init, DeliveryCounts, LoopsSeeLeases
<1>7. NoSleepWithRoom
  BY DEF Init, NoSleepWithRoom
<1>8. Contract!StoreInit
  BY <1>1 DEF Init, Contract!StoreInit
<1>. QED
  BY <1>1, <1>2, <1>3, <1>4, <1>5, <1>6, <1>7, <1>8 DEF IInv, TypeOK, Init

\* The invariant is inductive.
THEOREM StepIInv == IInv /\ [Next]_vars => IInv'
<1>. SUFFICES ASSUME IInv, [Next]_vars PROVE IInv'
  OBVIOUS
<1>1. LaneTypes' /\ Custody' /\ Budget' /\ DeliveryCounts'
  BY CustodyStep
<1>2. ControlTypes' /\ LoopsSeeLeases' /\ NoSleepWithRoom'
  BY ControlStep, LoopStep, WakeupStep
<1>3. (todo \subseteq Ids)'
  BY <1>1, <1>2 DEF LoopsSeeLeases, LaneTypes
<1>. QED BY <1>1, <1>2, <1>3 DEF IInv, TypeOK

\* The inductive invariant holds in every reachable state of the broker.
THEOREM IInvHolds == Spec => []IInv
  BY InitIInv, StepIInv, PTL DEF Spec

\* Type correctness of the Broker, for every value of the constants.
THEOREM TypeCorrect == Spec => []TypeOK
<1>1. IInv => TypeOK
  BY DEF IInv
<1>. QED BY <1>1, IInvHolds, PTL

\* Capacity accounting: main + retry + in-flight <= Capacity under every
\* interleaving of Enqueue, Lease, Ack, release, sweep and replay.
THEOREM BudgetHolds == Spec => []Budget
<1>1. IInv => Budget
  BY DEF IInv
<1>. QED BY <1>1, IInvHolds, PTL

\* No message is ever duplicated in, or missing from, the broker's lanes.
THEOREM CustodyHolds == Spec => []Custody
<1>1. IInv => Custody
  BY DEF IInv
<1>. QED BY <1>1, IInvHolds, PTL

\* Delivery counts decide the lane, and never exceed MaxDeliveries.
THEOREM DeliveryCountsHold == Spec => []DeliveryCounts
<1>1. IInv => DeliveryCounts
  BY DEF IInv
<1>. QED BY <1>1, IInvHolds, PTL

\* The looping methods only touch leases that exist.
THEOREM LoopsSeeLeasesHolds == Spec => []LoopsSeeLeases
<1>1. IInv => LoopsSeeLeases
  BY DEF IInv
<1>. QED BY <1>1, IInvHolds, PTL

\* No producer blocked in Enqueue sleeps through a freed slot or Close.
THEOREM NoLostWakeup == Spec => []NoSleepWithRoom
<1>1. IInv => NoSleepWithRoom
  BY DEF IInv
<1>. QED BY <1>1, IInvHolds, PTL

\* The Broker implements the Store contract.
THEOREM BrokerImplementsStore == Spec => ImplementsStore
<1>1. IInv /\ [Next]_vars => [Contract!StoreNext]_(Contract!storeVars)
  BY StepRefines
<1>. QED
  BY <1>1, InitIInv, IInvHolds, PTL DEF Spec, ImplementsStore, Contract!StoreSpec

-----------------------------------------------------------------------------
(* Loss accounting, on top of IInv: Custody makes every evicted id a new one.*)

\* What the accounting of losses talks about.
LossVars == <<lost, droppedOverflow, dlqEvicted, deadLettered, dlq>>

\* Every step that adds to lost bumps exactly one of the two eviction counters,
\* and the dead-letter count keeps up with the lane.
LEMMA LossStep ==
    ASSUME IInv, LossAccounted, [Next]_vars
    PROVE  LossAccounted'
<1>. USE DEF IInv, TypeOK
<1>0. /\ IsFiniteSet(lost) /\ Cardinality(lost) \in Nat
      /\ Len(dlq) \in Nat /\ dlq \in Seq(Ids) /\ NoRepeat(dlq)
      /\ main \in Seq(Ids) /\ NoRepeat(main)
      /\ droppedOverflow \in Nat /\ dlqEvicted \in Nat /\ deadLettered \in Nat
  <2>1. 1 \in Int /\ nextID \in Int /\ lost \subseteq Ids
    BY DEF LaneTypes
  <2>2. IsFiniteSet(Ids)
    BY <2>1, FS_Interval DEF Ids
  <2>3. IsFiniteSet(lost) /\ Cardinality(lost) \in Nat
    BY <2>1, <2>2, FS_Subset, FS_CardinalityType
  <2>. QED BY <2>3, StoreView DEF LaneTypes, ControlTypes, Custody
<1>new. ASSUME NEW x, x \notin lost
        PROVE  Cardinality(lost \cup {x}) = Cardinality(lost) + 1
  BY <1>0, <1>new, FS_AddElement
<1>same. UNCHANGED LossVars => LossAccounted'
  BY DEF LossVars, LossAccounted
<1>1. CASE UNCHANGED vars
  BY <1>1, <1>same DEF vars, lanes, counters, history, LossVars
<1>2. ASSUME NEW p \in Producers, EnqueueLoop(p)
      PROVE  LossAccounted'
  <2>1. CASE ~EnqueueDropOldest(p)
    BY <1>2, <1>same, <2>1
       DEF EnqueueLoop, EnqueueClosed, EnqueueRoom, EnqueueRefuse, EnqueuePark,
           lanes, counters, history, LossVars
  <2>2. CASE EnqueueDropOldest(p)
    <3>1. /\ main # <<>> /\ lost' = lost \cup {Head(main)}
          /\ droppedOverflow' = droppedOverflow + 1
          /\ UNCHANGED <<dlq, dlqEvicted, deadLettered>>
      BY <2>2 DEF EnqueueDropOldest
    <3>2. Head(main) \in Elems(main)
      BY <1>0, <3>1, LaneTail
    <3>3. Head(main) \notin lost
      BY <3>2 DEF Custody, Contract!OneCustodian
    <3>. QED BY <1>0, <1>new, <3>1, <3>3 DEF LossAccounted
  <2>. QED BY <2>1, <2>2
<1>3. ASSUME NEW p \in Producers, EnqueueTimeout(p) \/ EnqueueCancel(p)
      PROVE  LossAccounted'
  BY <1>3, <1>same DEF EnqueueTimeout, EnqueueCancel, lanes, counters, history, LossVars
<1>4. ASSUME NEW c \in Consumers, Lease(c)
      PROVE  LossAccounted'
  BY <1>4, <1>same DEF Lease, counters, history, LossVars
<1>5. ASSUME NEW c \in Consumers, NEW i \in 1..nextID, Ack(i, c)
      PROVE  LossAccounted'
  BY <1>5, <1>same DEF Ack, vars, lanes, counters, history, LossVars
<1>6. ASSUME NEW i \in DOMAIN leases, NEW d \in Nat, Requeue(i, d)
      PROVE  LossAccounted'
  <2>1. CASE UNCHANGED LossVars
    BY <1>same, <2>1
  <2>2. CASE PushDLQ(i) /\ deadLettered' = deadLettered + 1 /\ droppedOverflow' = droppedOverflow
    <3>0. i \in Ids /\ i \notin Elems(dlq)
      BY DEF LaneTypes, Custody, Contract!OneCustodian, Contract!Leased
    <3>1. CASE Len(dlq) = DLQCapacity
      <4>1. /\ dlq # <<>> /\ dlq' = Append(Tail(dlq), i)
            /\ lost' = lost \cup {Head(dlq)} /\ dlqEvicted' = dlqEvicted + 1
        BY <2>2, <3>1, BrokerAssumption DEF PushDLQ
      <4>2. Len(dlq') = Len(dlq) /\ Head(dlq) \in Elems(dlq)
        BY <1>0, <3>0, <4>1, LaneSlide, LaneTail
      <4>3. Head(dlq) \notin lost
        BY <4>2 DEF Custody, Contract!OneCustodian
      <4>. QED BY <1>0, <1>new, <2>2, <4>1, <4>2, <4>3 DEF LossAccounted
    <3>2. CASE Len(dlq) # DLQCapacity
      <4>1. dlq' = Append(dlq, i) /\ UNCHANGED <<lost, dlqEvicted>>
        BY <2>2, <3>2 DEF PushDLQ
      <4>2. Len(dlq') = Len(dlq) + 1
        BY <1>0, <3>0, <4>1, LaneAppend
      <4>. QED BY <1>0, <2>2, <4>1, <4>2 DEF LossAccounted
    <3>. QED BY <3>1, <3>2
  <2>. QED BY <1>6, <2>1, <2>2 DEF Requeue, LossVars
<1>7. ASSUME NEW c \in Consumers, NEW i \in 1..nextID, ReleaseLease(i, c)
      PROVE  LossAccounted'
  BY <1>6, <1>7 DEF ReleaseLease, Held
<1>8. CASE ReleaseNext \/ SweepNext
  BY <1>6, <1>8, BackoffType DEF ReleaseNext, SweepNext, LoopsSeeLeases
<1>9. CASE ReplayNext
  <2>1. dlq # <<>> /\ dlq' = Tail(dlq) /\ UNCHANGED <<lost, droppedOverflow, dlqEvicted, deadLettered>>
    BY <1>9 DEF ReplayNext, counters, history
  <2>2. Len(dlq') = Len(dlq) - 1
    BY <1>0, <2>1, LaneTail
  <2>. QED BY <1>0, <2>1, <2>2 DEF LossAccounted
<1>10. CASE \/ \E c \in Consumers : ReleaseConsumer(c)
            \/ SweepExpired \/ DLQReplay \/ ReplayDone \/ Close \/ SweeperStop \/ Tick
  BY <1>10, <1>same
     DEF ReleaseConsumer, SweepExpired, DLQReplay, ReplayDone, Close, SweeperStop, Tick,
         lanes, counters, history, LossVars
<1>. QED
  BY <1>1, <1>2, <1>3, <1>4, <1>5, <1>7, <1>8, <1>9, <1>10
     DEF Next, Enqueue, EnqueueWoken

\* Every message the broker gives up is counted, as an overflow drop or as a
\* dead-letter eviction.
THEOREM NoUncountedLoss == Spec => []LossAccounted
<1>1. Init => LossAccounted
  BY FS_EmptySet DEF Init, LossAccounted
<1>2. IInv /\ LossAccounted /\ [Next]_vars => LossAccounted'
  BY LossStep
<1>. QED BY <1>1, <1>2, IInvHolds, PTL DEF Spec

=============================================================================
