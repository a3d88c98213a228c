---------------------------- MODULE StoreProofs ------------------------------
(***************************************************************************)
(* StoreInv is an inductive invariant of the Store contract, for every     *)
(* capacity, every set of consumers and every number of messages.          *)
(***************************************************************************)
EXTENDS Store, FiniteSetTheorems, TLAPS

\* What is in a lane is finite, because only finitely many ids were issued.
LEMMA LanesFinite ==
    ASSUME StoreTypeOK
    PROVE  /\ IsFiniteSet(InBudget) /\ Cardinality(InBudget) \in Nat
           /\ IsFiniteSet(dead) /\ Cardinality(dead) \in Nat
<1>1. IsFiniteSet(1..issued)
  BY FS_Interval DEF StoreTypeOK
<1>2. InBudget \subseteq 1..issued /\ dead \subseteq 1..issued
  BY DEF StoreTypeOK, InBudget
<1>. QED
  BY <1>1, <1>2, FS_Subset, FS_CardinalityType

\* Adding an element adds at most one to a cardinality, removing an element
\* adds nothing, and neither does exchanging a member for another element.
LEMMA CardStep ==
    ASSUME NEW S, IsFiniteSet(S), NEW x, NEW y
    PROVE  /\ Cardinality(S \cup {x}) \in 0..(Cardinality(S) + 1)
           /\ Cardinality(S \ {x}) \in 0..Cardinality(S)
           /\ x \in S => Cardinality((S \ {x}) \cup {y}) \in 0..Cardinality(S)
<1>1. /\ IsFiniteSet(S \ {x}) /\ IsFiniteSet(S \cup {x})
      /\ IsFiniteSet((S \ {x}) \cup {y})
  BY FS_RemoveElement, FS_AddElement
<1>2. /\ Cardinality(S) \in Nat /\ Cardinality(S \ {x}) \in Nat
      /\ Cardinality(S \cup {x}) \in Nat
      /\ Cardinality((S \ {x}) \cup {y}) \in Nat
  BY <1>1, FS_CardinalityType
<1>3. /\ Cardinality(S \cup {x}) \in {Cardinality(S), Cardinality(S) + 1}
      /\ Cardinality(S \ {x}) = IF x \in S THEN Cardinality(S) - 1 ELSE Cardinality(S)
  BY FS_AddElement, FS_RemoveElement
<1>4. Cardinality((S \ {x}) \cup {y}) \in {Cardinality(S \ {x}), Cardinality(S \ {x}) + 1}
  BY <1>1, FS_AddElement
<1>. QED
  BY <1>2, <1>3, <1>4

\* The empty store satisfies the invariant.
THEOREM StoreInitInv == StoreInit => StoreInv
<1>. SUFFICES ASSUME StoreInit PROVE StoreInv
  OBVIOUS
<1>1. Leased = {} /\ InBudget = {}
  BY DEF StoreInit, Leased, InBudget
<1>2. Cardinality({}) = 0
  BY FS_EmptySet
<1>3. StoreTypeOK /\ OneCustodian
  BY <1>1 DEF StoreInit, StoreTypeOK, OneCustodian
<1>4. WithinBudget
  BY <1>1, <1>2, StoreAssumption DEF StoreInit, WithinBudget
<1>. QED
  BY <1>3, <1>4 DEF StoreInv

\* Every operation of the contract preserves the invariant.
THEOREM StoreStepInv == StoreInv /\ StoreNext => StoreInv'
<1>. SUFFICES ASSUME StoreInv, StoreNext PROVE StoreInv'
  OBVIOUS
<1>. USE DEF StoreInv
<1>fin. /\ IsFiniteSet(InBudget) /\ Cardinality(InBudget) \in Nat
        /\ IsFiniteSet(dead) /\ Cardinality(dead) \in Nat
  BY LanesFinite
<1>1. CASE Admit
  <2>1. InBudget' = InBudget \cup {issued + 1} /\ Leased' = Leased
    BY <1>1 DEF Admit, InBudget, Leased
  <2>2. StoreTypeOK' /\ OneCustodian'
    BY <1>1, <2>1 DEF Admit, StoreTypeOK, OneCustodian
  <2>3. Cardinality(InBudget \cup {issued + 1}) \in 0..(Cardinality(InBudget) + 1)
    BY <1>fin, CardStep
  <2>4. WithinBudget'
    BY <1>1, <1>fin, <2>1, <2>3, StoreAssumption DEF Admit, WithinBudget
  <2>. QED BY <2>2, <2>4
<1>2. CASE AdmitEvicting
  <2>. PICK victim \in queued :
          /\ queued' = (queued \ {victim}) \cup {issued + 1}
          /\ lost' = lost \cup {victim}
    BY <1>2 DEF AdmitEvicting
  <2>1. Leased' = Leased
    BY <1>2 DEF AdmitEvicting, Leased
  <2>2. StoreTypeOK' /\ OneCustodian'
    BY <1>2, <2>1 DEF AdmitEvicting, StoreTypeOK, OneCustodian
  <2>3. InBudget' = (InBudget \ {victim}) \cup {issued + 1} /\ victim \in InBudget
    BY <1>2, <2>1 DEF AdmitEvicting, InBudget, OneCustodian
  <2>4. Cardinality((InBudget \ {victim}) \cup {issued + 1})
           \in 0..Cardinality(InBudget)
    BY <1>fin, <2>3, CardStep
  <2>5. WithinBudget'
    BY <1>2, <1>fin, <2>3, <2>4, StoreAssumption DEF AdmitEvicting, WithinBudget
  <2>. QED BY <2>2, <2>5
<1>3. ASSUME NEW i \in 1..issued, NEW c \in Consumers, StoreLease(c, i)
      PROVE  StoreInv'
  <2>1. Leased' = Leased \cup {i}
    BY <1>3 DEF StoreLease, Leased
  <2>2. InBudget' = InBudget /\ dead' = dead
    BY <1>3, <2>1 DEF StoreLease, InBudget
  <2>3. owner' \in [Leased' -> Consumers]
    BY <1>3, <2>1 DEF StoreLease, StoreTypeOK, Leased
  <2>4. StoreTypeOK' /\ OneCustodian'
    BY <1>3, <2>1, <2>3 DEF StoreLease, StoreTypeOK, OneCustodian
  <2>5. WithinBudget'
    BY <2>2 DEF WithinBudget
  <2>. QED BY <2>4, <2>5
<1>4. ASSUME NEW i \in 1..issued, NEW c \in Consumers, StoreAck(c, i)
      PROVE  StoreInv'
  <2>1. Leased' = Leased \ {i} /\ i \in Leased
    BY <1>4 DEF StoreAck, DropLeases, Leased
  <2>2. owner' \in [Leased' -> Consumers]
    BY <1>4, <2>1 DEF StoreAck, DropLeases, StoreTypeOK, Leased
  <2>3. StoreTypeOK' /\ OneCustodian'
    BY <1>4, <2>1, <2>2 DEF StoreAck, StoreTypeOK, OneCustodian
  <2>4. InBudget' = InBudget \ {i} /\ dead' = dead
    BY <1>4, <2>1 DEF StoreAck, InBudget, OneCustodian
  <2>5. Cardinality(InBudget \ {i}) \in 0..Cardinality(InBudget)
    BY <1>fin, CardStep
  <2>6. WithinBudget'
    BY <1>fin, <2>4, <2>5, StoreAssumption DEF WithinBudget
  <2>. QED BY <2>3, <2>6
<1>5. ASSUME NEW i \in 1..issued, StoreRequeue(i)
      PROVE  StoreInv'
  <2>1. Leased' = Leased \ {i} /\ i \in Leased
    BY <1>5 DEF StoreRequeue, DropLeases, Leased
  <2>2. owner' \in [Leased' -> Consumers]
    BY <1>5, <2>1 DEF StoreRequeue, DropLeases, StoreTypeOK, Leased
  <2>type. StoreTypeOK'
    BY <1>5, <2>1, <2>2 DEF StoreRequeue, StoreTypeOK
  <2>3. OneCustodian'
    BY <1>5, <2>1 DEF StoreRequeue, OneCustodian
  <2>4. InBudget' = InBudget /\ dead' = dead
    BY <1>5, <2>1 DEF StoreRequeue, InBudget
  <2>5. WithinBudget'
    BY <2>4 DEF WithinBudget
  <2>. QED BY <2>type, <2>3, <2>5
<1>6. ASSUME NEW i \in 1..issued, StoreDeadLetter(i)
      PROVE  StoreInv'
  <2>1. Leased' = Leased \ {i} /\ i \in Leased
    BY <1>6 DEF StoreDeadLetter, DropLeases, Leased
  <2>2. owner' \in [Leased' -> Consumers]
    BY <1>6, <2>1 DEF StoreDeadLetter, DropLeases, StoreTypeOK, Leased
  <2>3. InBudget' = InBudget \ {i} /\ i \in InBudget
    BY <1>6, <2>1 DEF StoreDeadLetter, InBudget, OneCustodian
  <2>card. Cardinality(InBudget \ {i}) \in 0..Cardinality(InBudget)
    BY <1>fin, CardStep
  <2>4. Cardinality(InBudget') <= Capacity
    BY <1>fin, <2>3, <2>card, StoreAssumption DEF WithinBudget
  <2>5. CASE /\ Cardinality(dead) < DLQCapacity
             /\ dead' = dead \cup {i}
             /\ UNCHANGED lost
    <3>1. StoreTypeOK' /\ OneCustodian'
      BY <1>6, <2>1, <2>2, <2>5 DEF StoreDeadLetter, StoreTypeOK, OneCustodian
    <3>2. Cardinality(dead \cup {i}) \in 0..(Cardinality(dead) + 1)
      BY <1>fin, CardStep
    <3>3. Cardinality(dead') <= DLQCapacity
      BY <1>fin, <2>5, <3>2, StoreAssumption
    <3>. QED BY <2>4, <3>1, <3>3 DEF WithinBudget
  <2>6. CASE /\ Cardinality(dead) = DLQCapacity
             /\ \E victim \in dead :
                   /\ dead' = (dead \ {victim}) \cup {i}
                   /\ lost' = lost \cup {victim}
    <3>. PICK victim \in dead : /\ dead' = (dead \ {victim}) \cup {i}
                                /\ lost' = lost \cup {victim}
      BY <2>6
    <3>type. StoreTypeOK'
      BY <1>6, <2>1, <2>2 DEF StoreDeadLetter, StoreTypeOK
    <3>1. OneCustodian'
      BY <1>6, <2>1 DEF StoreDeadLetter, OneCustodian
    <3>2. Cardinality((dead \ {victim}) \cup {i}) \in 0..Cardinality(dead)
      BY <1>fin, CardStep
    <3>3. Cardinality(dead') <= DLQCapacity
      BY <1>fin, <2>6, <3>2, StoreAssumption
    <3>. QED BY <2>4, <3>type, <3>1, <3>3 DEF WithinBudget
  <2>. QED BY <1>6, <2>5, <2>6 DEF StoreDeadLetter
<1>7. ASSUME NEW i \in 1..issued, StoreReplay(i)
      PROVE  StoreInv'
  <2>1. Leased' = Leased
    BY <1>7 DEF StoreReplay, Leased
  <2>2. StoreTypeOK' /\ OneCustodian'
    BY <1>7, <2>1 DEF StoreReplay, StoreTypeOK, OneCustodian
  <2>3. InBudget' = InBudget \cup {i}
    BY <1>7, <2>1 DEF StoreReplay, InBudget
  <2>4. Cardinality(InBudget \cup {i}) \in 0..(Cardinality(InBudget) + 1)
    BY <1>fin, CardStep
  <2>5. Cardinality(dead \ {i}) \in 0..Cardinality(dead)
    BY <1>fin, CardStep
  <2>6. WithinBudget'
    BY <1>7, <1>fin, <2>3, <2>4, <2>5, StoreAssumption DEF StoreReplay, WithinBudget
  <2>. QED BY <2>2, <2>6
<1>. QED
  BY <1>1, <1>2, <1>3, <1>4, <1>5, <1>6, <1>7 DEF StoreNext

\* A step that leaves the contract's variables alone preserves the invariant.
LEMMA StoreStutterInv == StoreInv /\ UNCHANGED storeVars => StoreInv'
  BY DEF StoreInv, storeVars, StoreTypeOK, OneCustodian, WithinBudget, InBudget, Leased

\* The contract keeps its promise: one custodian per message, within budget.
THEOREM StoreCorrect == StoreSpec => []StoreInv
<1>1. StoreInv /\ [StoreNext]_storeVars => StoreInv'
  BY StoreStepInv, StoreStutterInv
<1>. QED
  BY StoreInitInv, <1>1, PTL DEF StoreSpec
=============================================================================
