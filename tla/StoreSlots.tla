----------------------------- MODULE StoreSlots -----------------------------
(***************************************************************************)
(* What the pool of image stores promises: a slot is leased to one owner   *)
(* at a time, the lowest free one first; dropping a lease returns its slot,*)
(* and forgetting one holds its slot for the rest of the process.          *)
(***************************************************************************)
EXTENDS Naturals, Functions

CONSTANTS Owner,        \* whatever a lease can be kept in
          SlotCount,    \* bound on the slots, of which the pool has no limit
          None

ASSUME SlotCountAssumption == SlotCount \in Nat
ASSUME NoneAssumption == None \notin Nat

Slot == 0 .. SlotCount - 1

VARIABLES leased,       \* StoreSlotPool.leased
          owner         \* the slot of the StoreSlotLease kept by an owner

vars == <<leased, owner>>

TypeOK == leased \subseteq Slot /\ owner \in [Owner -> Slot \cup {None}]

\* StoreSlotPool::with_root
Init == leased = {} /\ owner = [o \in Owner |-> None]

\* Mutant: the slot is not marked as leased.
Lease_NotMarked(o) ==
  /\ owner[o] = None
  /\ \E k \in Slot \ leased :
       /\ \A j \in Slot \ leased : k <= j
       /\ owner' = [owner EXCEPT ![o] = k]
  /\ UNCHANGED leased

\* StoreSlotPool::lease_with and take_lowest_free, when the slot is opened; a
\* lease that fails returns its slot on the way and changes nothing.
Lease(o) ==
  /\ owner[o] = None
  /\ \E k \in Slot \ leased :
       /\ \A j \in Slot \ leased : k <= j
       /\ leased' = leased \cup {k}
       /\ owner' = [owner EXCEPT ![o] = k]

\* StoreSlotLease::drop, for the leases of one owner or of several at once.
Return(owners) ==
  /\ leased' = leased \ {owner[o] : o \in owners}
  /\ owner' = [o \in Owner |-> IF o \in owners THEN None ELSE owner[o]]

\* std::mem::forget of a lease.
Forget(o) ==
  /\ owner' = [owner EXCEPT ![o] = None]
  /\ UNCHANGED leased

Next ==
  \/ \E o \in Owner : Lease(o) \/ Forget(o)
  \/ \E owners \in SUBSET Owner : Return(owners)

Spec == Init /\ [][Next]_vars

\* No slot is leased twice, and a slot someone owns is marked in the pool.
Exclusive ==
  \A o \in Owner : owner[o] # None =>
    /\ owner[o] \in leased
    /\ \A p \in Owner \ {o} : owner[p] # owner[o]

\* A slot whose lease was forgotten is never handed out again: the machine that
\* was leaked with it may still have the store mounted.
ForgottenStaysHeld ==
  [][\A k \in leased \ Range(owner) : k \in leased' \ Range(owner')]_vars
=============================================================================
