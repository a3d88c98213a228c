-------------------------------- MODULE Store --------------------------------
(***************************************************************************)
(* The contract of the MQ storage seam, the Go interface queue.Store.      *)
(*                                                                         *)
(* The contract says where a message is, never in which order, when, or    *)
(* under which lock.  Every broker id issued so far has exactly one        *)
(* custodian: the main lane, the retry lane, the lease of one consumer,    *)
(* the dead-letter lane, or one of the two ends a message can come to      *)
(* (consumed, lost).  The in-memory Broker is shown to implement this      *)
(* contract, and the gRPC server is modelled on top of it, so that a       *)
(* WAL-backed store meeting the same contract could take its place.        *)
(***************************************************************************)
EXTENDS Integers, FiniteSets

CONSTANTS
    Capacity,    \* budget: queued + retrying + leased messages
    DLQCapacity, \* budget of the dead-letter lane
    Consumers,   \* identities a lease can be recorded for
    MayEvict     \* TRUE iff the overflow policy is drop-oldest

ASSUME StoreAssumption ==
    /\ Capacity \in Nat \ {0}
    /\ DLQCapacity \in Nat \ {0}
    /\ MayEvict \in BOOLEAN

VARIABLES
    issued,   \* how many broker ids have been assigned; the ids are 1..issued
    queued,   \* ids in the main lane
    retrying, \* ids in the retry lane
    owner,    \* leased id |-> the consumer that holds it
    dead,     \* ids in the dead-letter lane
    acked,    \* ids whose lease an ack removed: consumed for good
    lost      \* ids evicted from the main lane or from the dead-letter lane

storeVars == <<issued, queued, retrying, owner, dead, acked, lost>>

Leased == DOMAIN owner

\* What the capacity budget counts.
InBudget == queued \cup retrying \cup Leased

StoreInit ==
    /\ issued = 0
    /\ queued = {} /\ retrying = {} /\ dead = {} /\ acked = {} /\ lost = {}
    /\ owner = [i \in {} |-> i]

\* The lease table without the leases of the ids in S.
DropLeases(S) == [i \in Leased \ S |-> owner[i]]

-----------------------------------------------------------------------------
\* Enqueue finds room in the budget: the next id joins the main lane.
Admit ==
    /\ Cardinality(InBudget) < Capacity
    /\ issued' = issued + 1
    /\ queued' = queued \cup {issued + 1}
    /\ UNCHANGED <<retrying, owner, dead, acked, lost>>

\* Enqueue at a full budget under drop-oldest: one queued message is evicted
\* for the new one.  A leased or retrying message is never the victim.
AdmitEvicting ==
    /\ MayEvict
    /\ Cardinality(InBudget) >= Capacity
    /\ \E victim \in queued :
          /\ queued' = (queued \ {victim}) \cup {issued + 1}
          /\ lost' = lost \cup {victim}
    /\ issued' = issued + 1
    /\ UNCHANGED <<retrying, owner, dead, acked>>

\* Lease hands one queued or retrying message to consumer c.
StoreLease(c, i) ==
    /\ i \in queued \cup retrying
    /\ queued' = queued \ {i}
    /\ retrying' = retrying \ {i}
    /\ owner' = [j \in Leased \cup {i} |-> IF j = i THEN c ELSE owner[j]]
    /\ UNCHANGED <<issued, dead, acked, lost>>

\* Ack by the holder ends the life of the message.
StoreAck(c, i) ==
    /\ i \in Leased /\ owner[i] = c
    /\ owner' = DropLeases({i})
    /\ acked' = acked \cup {i}
    /\ UNCHANGED <<issued, queued, retrying, dead, lost>>

\* A lease that ends without an ack goes back into circulation.
StoreRequeue(i) ==
    /\ i \in Leased
    /\ owner' = DropLeases({i})
    /\ retrying' = retrying \cup {i}
    /\ UNCHANGED <<issued, queued, dead, acked, lost>>

\* A lease that ends without an ack is dead-lettered.  A full dead-letter lane
\* gives up one of its own entries; nothing else is ever lost here.
StoreDeadLetter(i) ==
    /\ i \in Leased
    /\ owner' = DropLeases({i})
    /\ \/ /\ Cardinality(dead) < DLQCapacity
          /\ dead' = dead \cup {i}
          /\ UNCHANGED lost
       \/ /\ Cardinality(dead) = DLQCapacity
          /\ \E victim \in dead :
                /\ dead' = (dead \ {victim}) \cup {i}
                /\ lost' = lost \cup {victim}
    /\ UNCHANGED <<issued, queued, retrying, acked>>

\* DLQReplay puts one dead-lettered message back into the main lane.
StoreReplay(i) ==
    /\ i \in dead
    /\ Cardinality(InBudget) < Capacity
    /\ dead' = dead \ {i}
    /\ queued' = queued \cup {i}
    /\ UNCHANGED <<issued, retrying, owner, acked, lost>>

StoreNext ==
    \/ Admit
    \/ AdmitEvicting
    \/ \E i \in 1..issued :
          \/ \E c \in Consumers : StoreLease(c, i) \/ StoreAck(c, i)
          \/ StoreRequeue(i)
          \/ StoreDeadLetter(i)
          \/ StoreReplay(i)

StoreSpec == StoreInit /\ [][StoreNext]_storeVars

-----------------------------------------------------------------------------
\* The ids in the lanes are ids that were issued; leases name consumers.
StoreTypeOK ==
    /\ issued \in Nat
    /\ queued \subseteq 1..issued /\ retrying \subseteq 1..issued
    /\ Leased \subseteq 1..issued /\ owner \in [Leased -> Consumers]
    /\ dead \subseteq 1..issued /\ acked \subseteq 1..issued
    /\ lost \subseteq 1..issued

\* Every issued id has exactly one custodian: nothing is duplicated, nothing
\* vanishes, and what was consumed or lost never comes back.
OneCustodian ==
    /\ 1..issued = queued \cup retrying \cup Leased \cup dead \cup acked \cup lost
    /\ queued \cap (retrying \cup Leased \cup dead \cup acked \cup lost) = {}
    /\ retrying \cap (Leased \cup dead \cup acked \cup lost) = {}
    /\ Leased \cap (dead \cup acked \cup lost) = {}
    /\ dead \cap (acked \cup lost) = {}
    /\ acked \cap lost = {}

\* Capacity accounting: queued + retrying + leased never exceeds Capacity, and
\* the dead-letter lane never exceeds its own.
WithinBudget ==
    /\ Cardinality(InBudget) <= Capacity
    /\ Cardinality(dead) <= DLQCapacity

StoreInv == StoreTypeOK /\ OneCustodian /\ WithinBudget

=============================================================================
