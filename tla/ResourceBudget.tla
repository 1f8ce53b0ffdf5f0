--------------------------- MODULE ResourceBudget ---------------------------
(***************************************************************************)
(* Hierarchical resource budgets (src/resource.cpp): root and child        *)
(* budgets, move-only reservations, and worker threads that use them       *)
(* concurrently.                                                           *)
(*                                                                         *)
(* A budget state is a shared heap object guarded by its own mutex.  It is *)
(* kept alive by std::shared_ptr: the ResourceBudget handles of the        *)
(* threads, the reservations charged to it, and its child states all own   *)
(* it.  The thread that removes the last owner runs the destructor, which  *)
(* locks the PARENT, gives the child's capacity back and then drops the    *)
(* child's reference to the parent, which may in turn be the last one.     *)
(*                                                                         *)
(* Each thread runs one call at a time; a call is cut at every point where *)
(* another thread can observe it: taking a mutex, the check made under it, *)
(* the update that releases it, and the work done after it is released.    *)
(*                                                                         *)
(* Abstractions.  A request for zero units is refused before any shared    *)
(* state is touched, and so is a failed allocation in create_root: both    *)
(* are stuttering steps and amounts range over 1..MaxUnits.  The resource  *)
(* kind is a label copied from parent to child and is left out.  A handle  *)
(* is the fact that a thread holds a copy; one reservation object is used  *)
(* by one thread at a time, as for any C++ object with non-const members.  *)
(***************************************************************************)
EXTENDS Integers, FiniteSets

CONSTANTS
  Threads,       \* worker threads
  Budgets,       \* addresses of ResourceBudgetState objects, reused once freed
  Reservations,  \* ResourceReservation objects of the program
  MaxUnits,      \* largest capacity or amount a caller asks for
  None           \* the null pointer / no owner

ASSUME BudgetAssumption ==
  /\ IsFiniteSet(Budgets)
  /\ IsFiniteSet(Reservations)
  /\ Budgets \cap Reservations = {}
  /\ MaxUnits \in Nat
  /\ None \notin Threads \cup Budgets \cup Reservations

VARIABLES
  live,           \* the budget states that are allocated
  capacity, used, \* ResourceBudgetState::capacity, ::used
  parent,         \* ResourceBudgetState::parent
  parent_amount,  \* ResourceBudgetState::parent_amount
  mutex,          \* the thread inside ResourceBudgetState::mutex, or None
  handle,         \* handle[t]: budgets thread t holds a ResourceBudget for
  state_,         \* ResourceReservation::state_
  amount_,        \* ResourceReservation::amount_
  pc,             \* where each thread is in the call it is making
  on,             \* the budget that call works on (or is destroying)
  amt,            \* its amount / capacity argument
  slot,           \* the reservation it creates, releases or assigns to
  from,           \* the reservation a move assignment takes from
  kid             \* the child state create_child has allocated

budgetVars == <<live, capacity, used, parent, parent_amount>>
resVars    == <<state_, amount_>>
callVars   == <<pc, on, amt, slot, from, kid>>
vars       == <<budgetVars, mutex, handle, resVars, callVars>>

Units == 1..MaxUnits

Labels == {"idle", "query_read", "reserve_check", "reserve_charge",
           "child_alloc", "child_lock", "child_check", "child_charge",
           "release_debit", "release_reset", "assign",
           "destroy", "refund", "free", "terminated"}

-----------------------------------------------------------------------------
(* Ownership and locking.                                                  *)

\* Mutant: a child does not own its parent.
OwnedIgnoringChildren(b, h, s, p, k) ==
  \/ \E t \in Threads : b \in h[t] \/ k[t] = b
  \/ \E r \in Reservations : s[r] = b

\* Does some std::shared_ptr still own b, given the handles h, the
\* reservations' pointers s, the children's pointers p and the states k that
\* create_child has allocated but not yet published?
Owned(b, h, s, p, k) ==
  \/ \E t \in Threads : b \in h[t] \/ k[t] = b
  \/ \E r \in Reservations : s[r] = b
  \/ \E c \in Budgets : p[c] = b

\* Reservation objects a call in progress works on are not available to
\* other threads.
Claimed(r) == \E t \in Threads : r \in {slot[t], from[t]}

\* Mutant: no lock.
AcquireUnguarded(t, b) == mutex' = [mutex EXCEPT ![b] = t]

\* std::scoped_lock lock(b->mutex)
Acquire(t, b) ==
  /\ mutex[b] = None
  /\ mutex' = [mutex EXCEPT ![b] = t]

Unlock(b) == mutex' = [mutex EXCEPT ![b] = None]

Goto(t, label) == pc' = [pc EXCEPT ![t] = label]

\* The call returns to its caller.
Return(t) ==
  /\ Goto(t, "idle")
  /\ on'   = [on EXCEPT ![t] = None]
  /\ amt'  = [amt EXCEPT ![t] = 0]
  /\ slot' = [slot EXCEPT ![t] = None]
  /\ from' = [from EXCEPT ![t] = None]
  /\ kid'  = [kid EXCEPT ![t] = None]

\* std::terminate(): the accounting was found inconsistent.
Terminate(t) ==
  /\ Goto(t, "terminated")
  /\ UNCHANGED <<budgetVars, mutex, handle, resVars, on, amt, slot, from, kid>>

\* release() is over: the destructor of a reservation or release() itself
\* returns, a move assignment goes on to take the other reservation's state.
Resume(t) ==
  IF from[t] = None
  THEN Return(t)
  ELSE /\ Goto(t, "assign")
       /\ on' = [on EXCEPT ![t] = None]
       /\ UNCHANGED <<amt, slot, from, kid>>

\* A pointer to b was just dropped by t: the last owner runs ~State().
Dropped(t, b) ==
  IF Owned(b, handle', state_', parent', kid)
  THEN Resume(t)
  ELSE /\ Goto(t, "destroy")
       /\ on' = [on EXCEPT ![t] = b]
       /\ UNCHANGED <<amt, slot, from, kid>>

-----------------------------------------------------------------------------
(* Budget handles.                                                         *)

\* ResourceBudget::create_root
CreateRoot(t, b, n) ==
  /\ pc[t] = "idle"
  /\ b \notin live
  /\ live' = live \cup {b}
  /\ capacity' = [capacity EXCEPT ![b] = n]
  /\ handle' = [handle EXCEPT ![t] = @ \cup {b}]
  /\ UNCHANGED <<used, parent, parent_amount, mutex, resVars, callVars>>

\* Copying a ResourceBudget, for instance into the task of another thread.
CopyHandle(t, u, b) ==
  /\ pc[t] = "idle"
  /\ b \in handle[t] \ handle[u]
  /\ handle' = [handle EXCEPT ![u] = @ \cup {b}]
  /\ UNCHANGED <<budgetVars, mutex, resVars, callVars>>

\* Destroying a ResourceBudget.
DropHandle(t, b) ==
  /\ pc[t] = "idle"
  /\ b \in handle[t]
  /\ handle' = [handle EXCEPT ![t] = @ \ {b}]
  /\ UNCHANGED <<budgetVars, mutex, resVars>>
  /\ Dropped(t, b)

\* used() and available(): one read under the mutex.
QueryLock(t, b) ==
  /\ pc[t] = "idle"
  /\ b \in handle[t]
  /\ Acquire(t, b)
  /\ Goto(t, "query_read")
  /\ on' = [on EXCEPT ![t] = b]
  /\ UNCHANGED <<budgetVars, handle, resVars, amt, slot, from, kid>>

QueryRead(t) ==
  /\ pc[t] = "query_read"
  /\ Unlock(on[t])
  /\ Return(t)
  /\ UNCHANGED <<budgetVars, handle, resVars>>

-----------------------------------------------------------------------------
(* ResourceBudget::reserve                                                 *)

ReserveLock(t, b, n, r) ==
  /\ pc[t] = "idle"
  /\ b \in handle[t]
  /\ state_[r] = None
  /\ ~Claimed(r)
  /\ Acquire(t, b)
  /\ Goto(t, "reserve_check")
  /\ on' = [on EXCEPT ![t] = b]
  /\ amt' = [amt EXCEPT ![t] = n]
  /\ slot' = [slot EXCEPT ![t] = r]
  /\ UNCHANGED <<budgetVars, handle, resVars, from, kid>>

\* amount > capacity - used, the test both reserve and create_child make
Exhausted(t, b) == amt[t] > capacity[b] - used[b]

ReserveFits(t) ==
  /\ pc[t] = "reserve_check"
  /\ ~Exhausted(t, on[t])
  /\ Goto(t, "reserve_charge")
  /\ UNCHANGED <<budgetVars, mutex, handle, resVars, on, amt, slot, from, kid>>

\* limit_exceeded
ReserveFails(t) ==
  /\ pc[t] = "reserve_check"
  /\ Exhausted(t, on[t])
  /\ Unlock(on[t])
  /\ Return(t)
  /\ UNCHANGED <<budgetVars, handle, resVars>>

ReserveCharge(t) ==
  /\ pc[t] = "reserve_charge"
  /\ used' = [used EXCEPT ![on[t]] = @ + amt[t]]
  /\ state_' = [state_ EXCEPT ![slot[t]] = on[t]]
  /\ amount_' = [amount_ EXCEPT ![slot[t]] = amt[t]]
  /\ Unlock(on[t])
  /\ Return(t)
  /\ UNCHANGED <<live, capacity, parent, parent_amount, handle>>

-----------------------------------------------------------------------------
(* ResourceBudget::create_child                                            *)

CreateChild(t, b, n) ==
  /\ pc[t] = "idle"
  /\ b \in handle[t]
  /\ Goto(t, "child_alloc")
  /\ on' = [on EXCEPT ![t] = b]
  /\ amt' = [amt EXCEPT ![t] = n]
  /\ UNCHANGED <<budgetVars, mutex, handle, resVars, slot, from, kid>>

\* allocate_state succeeds, before the parent is locked
ChildAlloc(t, c) ==
  /\ pc[t] = "child_alloc"
  /\ c \notin live
  /\ live' = live \cup {c}
  /\ capacity' = [capacity EXCEPT ![c] = amt[t]]
  /\ kid' = [kid EXCEPT ![t] = c]
  /\ Goto(t, "child_lock")
  /\ UNCHANGED <<used, parent, parent_amount, mutex, handle, resVars,
                 on, amt, slot, from>>

\* allocation_failed
ChildAllocFails(t) ==
  /\ pc[t] = "child_alloc"
  /\ Return(t)
  /\ UNCHANGED <<budgetVars, mutex, handle, resVars>>

ChildLock(t) ==
  /\ pc[t] = "child_lock"
  /\ Acquire(t, on[t])
  /\ Goto(t, "child_check")
  /\ UNCHANGED <<budgetVars, handle, resVars, on, amt, slot, from, kid>>

ChildFits(t) ==
  /\ pc[t] = "child_check"
  /\ ~Exhausted(t, on[t])
  /\ Goto(t, "child_charge")
  /\ UNCHANGED <<budgetVars, mutex, handle, resVars, on, amt, slot, from, kid>>

\* limit_exceeded: the lock goes first, then the local child, which has no
\* parent yet.
ChildFails(t) ==
  /\ pc[t] = "child_check"
  /\ Exhausted(t, on[t])
  /\ Unlock(on[t])
  /\ Goto(t, "destroy")
  /\ on' = [on EXCEPT ![t] = kid[t]]
  /\ kid' = [kid EXCEPT ![t] = None]
  /\ UNCHANGED <<budgetVars, handle, resVars, amt, slot, from>>

\* Mutant: the child's capacity is not taken from its parent.
ChildChargeFree(t) ==
  /\ pc[t] = "child_charge"
  /\ parent' = [parent EXCEPT ![kid[t]] = on[t]]
  /\ parent_amount' = [parent_amount EXCEPT ![kid[t]] = amt[t]]
  /\ handle' = [handle EXCEPT ![t] = @ \cup {kid[t]}]
  /\ Unlock(on[t])
  /\ Return(t)
  /\ UNCHANGED <<live, capacity, used, resVars>>

ChildCharge(t) ==
  /\ pc[t] = "child_charge"
  /\ used' = [used EXCEPT ![on[t]] = @ + amt[t]]
  /\ parent' = [parent EXCEPT ![kid[t]] = on[t]]
  /\ parent_amount' = [parent_amount EXCEPT ![kid[t]] = amt[t]]
  /\ handle' = [handle EXCEPT ![t] = @ \cup {kid[t]}]
  /\ Unlock(on[t])
  /\ Return(t)
  /\ UNCHANGED <<live, capacity, resVars>>

-----------------------------------------------------------------------------
(* ResourceReservation: release, destruction and moves.                    *)

\* release() of an active reservation, called explicitly or by the
\* destructor.  On an inactive one it returns at once.
ReleaseLock(t, r) ==
  /\ pc[t] = "idle"
  /\ state_[r] # None
  /\ ~Claimed(r)
  /\ Acquire(t, state_[r])
  /\ Goto(t, "release_debit")
  /\ slot' = [slot EXCEPT ![t] = r]
  /\ UNCHANGED <<budgetVars, handle, resVars, on, amt, from, kid>>

\* Move assignment dst = std::move(src) to an active dst: release() first.
\* Assigning a reservation to itself does nothing.
MoveAssignLock(t, dst, src) ==
  /\ pc[t] = "idle"
  /\ dst # src
  /\ state_[dst] # None
  /\ ~Claimed(dst) /\ ~Claimed(src)
  /\ Acquire(t, state_[dst])
  /\ Goto(t, "release_debit")
  /\ slot' = [slot EXCEPT ![t] = dst]
  /\ from' = [from EXCEPT ![t] = src]
  /\ UNCHANGED <<budgetVars, handle, resVars, on, amt, kid>>

ReleaseDebit(t) ==
  LET r == slot[t]
      b == state_[r]
  IN
  /\ pc[t] = "release_debit"
  /\ \/ /\ amount_[r] > used[b]
        /\ Terminate(t)
     \/ /\ amount_[r] <= used[b]
        /\ used' = [used EXCEPT ![b] = @ - amount_[r]]
        /\ Unlock(b)
        /\ Goto(t, "release_reset")
        /\ UNCHANGED <<live, capacity, parent, parent_amount, handle, resVars,
                       on, amt, slot, from, kid>>

\* Mutant: the reservation stays active.
ReleaseResetKeeps(t) ==
  /\ pc[t] = "release_reset"
  /\ UNCHANGED <<budgetVars, mutex, handle, resVars>>
  /\ Dropped(t, state_[slot[t]])

\* state_.reset(); amount_ = 0
ReleaseReset(t) ==
  /\ pc[t] = "release_reset"
  /\ state_' = [state_ EXCEPT ![slot[t]] = None]
  /\ amount_' = [amount_ EXCEPT ![slot[t]] = 0]
  /\ UNCHANGED <<budgetVars, mutex, handle>>
  /\ Dropped(t, state_[slot[t]])

\* The state of src and its amount become those of dst; src is left inactive.
Transfer(dst, src) ==
  /\ state_' = [state_ EXCEPT ![dst] = state_[src], ![src] = None]
  /\ amount_' = [amount_ EXCEPT ![dst] = amount_[src], ![src] = 0]

\* Move construction, and move assignment to an inactive reservation.
MoveConstruct(t, dst, src) ==
  /\ pc[t] = "idle"
  /\ dst # src
  /\ state_[dst] = None /\ state_[src] # None
  /\ ~Claimed(dst) /\ ~Claimed(src)
  /\ Transfer(dst, src)
  /\ UNCHANGED <<budgetVars, mutex, handle, callVars>>

MoveAssign(t) ==
  /\ pc[t] = "assign"
  /\ Transfer(slot[t], from[t])
  /\ Return(t)
  /\ UNCHANGED <<budgetVars, mutex, handle>>

-----------------------------------------------------------------------------
(* ~ResourceBudgetState, run by the thread that dropped the last owner.    *)

DestroyLock(t) ==
  LET b == on[t]
  IN
  /\ pc[t] = "destroy"
  /\ parent[b] # None
  /\ parent_amount[b] # 0
  /\ Acquire(t, parent[b])
  /\ Goto(t, "refund")
  /\ UNCHANGED <<budgetVars, handle, resVars, on, amt, slot, from, kid>>

\* Mutant: used instead of parent->used.
RefundToSelf(t) ==
  /\ pc[t] = "refund"
  /\ used' = [used EXCEPT ![on[t]] = @ - parent_amount[on[t]]]
  /\ Unlock(parent[on[t]])
  /\ Goto(t, "free")
  /\ UNCHANGED <<live, capacity, parent, parent_amount, handle, resVars,
                 on, amt, slot, from, kid>>

Refund(t) ==
  LET b == on[t]
      p == parent[b]
  IN
  /\ pc[t] = "refund"
  /\ \/ /\ parent_amount[b] > used[p]
        /\ Terminate(t)
     \/ /\ parent_amount[b] <= used[p]
        /\ used' = [used EXCEPT ![p] = @ - parent_amount[b]]
        /\ Unlock(p)
        /\ Goto(t, "free")
        /\ UNCHANGED <<live, capacity, parent, parent_amount, handle, resVars,
                       on, amt, slot, from, kid>>

\* Mutant: the reference to the parent leaks.
FreeLeaksParent(t) ==
  LET b == on[t]
  IN
  /\ \/ pc[t] = "free"
     \/ pc[t] = "destroy" /\ (parent[b] = None \/ parent_amount[b] = 0)
  /\ live' = live \ {b}
  /\ capacity' = [capacity EXCEPT ![b] = 0]
  /\ used' = [used EXCEPT ![b] = 0]
  /\ parent' = [parent EXCEPT ![b] = None]
  /\ parent_amount' = [parent_amount EXCEPT ![b] = 0]
  /\ UNCHANGED <<mutex, handle, resVars>>
  /\ Resume(t)

\* The members of b are destroyed, its parent pointer among them.
Free(t) ==
  LET b == on[t]
  IN
  /\ \/ pc[t] = "free"
     \/ pc[t] = "destroy" /\ (parent[b] = None \/ parent_amount[b] = 0)
  /\ live' = live \ {b}
  /\ capacity' = [capacity EXCEPT ![b] = 0]
  /\ used' = [used EXCEPT ![b] = 0]
  /\ parent' = [parent EXCEPT ![b] = None]
  /\ parent_amount' = [parent_amount EXCEPT ![b] = 0]
  /\ UNCHANGED <<mutex, handle, resVars>>
  /\ IF parent[b] = None THEN Resume(t) ELSE Dropped(t, parent[b])

-----------------------------------------------------------------------------
Init ==
  /\ live = {}
  /\ capacity = [b \in Budgets |-> 0]
  /\ used = [b \in Budgets |-> 0]
  /\ parent = [b \in Budgets |-> None]
  /\ parent_amount = [b \in Budgets |-> 0]
  /\ mutex = [b \in Budgets |-> None]
  /\ handle = [t \in Threads |-> {}]
  /\ state_ = [r \in Reservations |-> None]
  /\ amount_ = [r \in Reservations |-> 0]
  /\ pc = [t \in Threads |-> "idle"]
  /\ on = [t \in Threads |-> None]
  /\ amt = [t \in Threads |-> 0]
  /\ slot = [t \in Threads |-> None]
  /\ from = [t \in Threads |-> None]
  /\ kid = [t \in Threads |-> None]

\* Calls by which a thread asks for something or moves it around ...
NewWork(t) ==
  \/ \E b \in Budgets, n \in Units : CreateRoot(t, b, n) \/ CreateChild(t, b, n)
  \/ \E b \in Budgets, n \in Units, r \in Reservations : ReserveLock(t, b, n, r)
  \/ \E b \in Budgets : QueryLock(t, b) \/ \E u \in Threads : CopyHandle(t, u, b)
  \/ \E dst, src \in Reservations :
       MoveConstruct(t, dst, src) \/ MoveAssignLock(t, dst, src)

\* ... calls that end the lifetime of something ...
ScopeExit(t) ==
  \/ \E b \in Budgets : DropHandle(t, b)
  \/ \E r \in Reservations : ReleaseLock(t, r)

\* ... and the rest of the call a thread is in.
Continue(t) ==
  \/ QueryRead(t)
  \/ ReserveFits(t) \/ ReserveFails(t) \/ ReserveCharge(t)
  \/ (\E c \in Budgets : ChildAlloc(t, c)) \/ ChildAllocFails(t)
  \/ ChildLock(t) \/ ChildFits(t) \/ ChildFails(t) \/ ChildCharge(t)
  \/ ReleaseDebit(t) \/ ReleaseReset(t) \/ MoveAssign(t)
  \/ DestroyLock(t) \/ Refund(t) \/ Free(t)

Next == \E t \in Threads : NewWork(t) \/ ScopeExit(t) \/ Continue(t)

Spec == Init /\ [][Next]_vars

\* The scheduler runs every thread, and every scope ends: a thread that can
\* destroy a handle or a reservation does so sooner or later.
FairSpec ==
  /\ Spec
  /\ \A t \in Threads : WF_vars(Continue(t)) /\ WF_vars(ScopeExit(t))

-----------------------------------------------------------------------------
(* Properties.                                                             *)

\* Every variable keeps the type its C++ declaration gives it; a live state
\* has a capacity and a dead one has nothing left in it.
TypeOK ==
  /\ live \subseteq Budgets
  /\ capacity \in [Budgets -> 0..MaxUnits]
  /\ used \in [Budgets -> Nat]
  /\ parent \in [Budgets -> Budgets \cup {None}]
  /\ parent_amount \in [Budgets -> 0..MaxUnits]
  /\ mutex \in [Budgets -> Threads \cup {None}]
  /\ handle \in [Threads -> SUBSET Budgets]
  /\ state_ \in [Reservations -> Budgets \cup {None}]
  /\ amount_ \in [Reservations -> 0..MaxUnits]
  /\ pc \in [Threads -> Labels]
  /\ on \in [Threads -> Budgets \cup {None}]
  /\ amt \in [Threads -> 0..MaxUnits]
  /\ slot \in [Threads -> Reservations \cup {None}]
  /\ from \in [Threads -> Reservations \cup {None}]
  /\ kid \in [Threads -> Budgets \cup {None}]

\* However the calls of the threads interleave, no budget is ever charged
\* more than its capacity, so capacity - used in reserve, create_child and
\* available() never wraps around.
UsedWithinCapacity == \A b \in Budgets : used[b] <= capacity[b]

\* release() has subtracted the amount but not yet reset the reservation.
Released(r) == \E t \in Threads : pc[t] = "release_reset" /\ slot[t] = r

\* ~State() has given the capacity back but not yet freed the child.
Refunded(c) == \E t \in Threads : pc[t] = "free" /\ on[t] = c

\* Whoever can hold units of a budget, and how many units of b each holds.
Holders == Reservations \cup Budgets
Held(b) ==
  [o \in Holders |->
     IF o \in Reservations /\ state_[o] = b /\ ~Released(o) THEN amount_[o]
     ELSE IF o \in Budgets /\ parent[o] = b /\ ~Refunded(o) THEN parent_amount[o]
     ELSE 0]

\* The sum of f over all holders, as the number of single units they hold.
Total(f) == Cardinality({u \in Holders \X Units : u[2] <= f[u[1]]})

\* The used counter of a budget is at every instant exactly what its
\* outstanding reservations and funded children hold: nothing is charged
\* twice, leaked by a failed call, or given back twice by release, moves and
\* destructors racing each other.
Conservation == \A b \in Budgets : used[b] = Total(Held(b))

\* The std::terminate() calls of release() and ~ResourceBudgetState are
\* unreachable: no thread ever gives back more than is charged.
NoTerminate == \A t \in Threads : pc[t] # "terminated"

\* Thread t is in a critical section of b's mutex.
Inside(t, b) ==
  \/ /\ pc[t] \in {"query_read", "reserve_check", "reserve_charge",
                   "child_check", "child_charge"}
     /\ b = on[t]
  \/ pc[t] = "release_debit" /\ b = state_[slot[t]]
  \/ pc[t] = "refund" /\ b = parent[on[t]]

\* No freed state is reachable: every pointer of a handle, a reservation, a
\* child or a running call, and every mutex a thread is inside of or waits
\* for, belongs to a live state.  In particular a parent outlives the
\* destructor of its child, which locks it.
NoDangling ==
  /\ \A t \in Threads :
       /\ handle[t] \subseteq live
       /\ {on[t], kid[t]} \subseteq live \cup {None}
  /\ \A r \in Reservations : state_[r] \in live \cup {None}
  /\ \A b \in Budgets : parent[b] \in live \cup {None}
  /\ \A b \in Budgets \ live :
       mutex[b] = None /\ \A t \in Threads : ~Inside(t, b)

\* b and the budgets below it: whatever is in every set of budgets that holds
\* b and, with a budget, its children.
Subtree(b) ==
  {c \in Budgets :
     \A S \in SUBSET Budgets :
       b \in S /\ (\A x \in Budgets : parent[x] \in S => x \in S) => c \in S}

\* The whole hierarchy below a budget, however deep, never holds more
\* reservations than that budget's capacity: sibling scopes cannot
\* collectively promise more than their parent owns.
SubtreeWithinCapacity ==
  \A b \in live :
    LET below == Subtree(b)
        reserved == [o \in Holders |->
                       IF o \in Reservations /\ state_[o] \in below /\ ~Released(o)
                       THEN amount_[o] ELSE 0]
    IN Total(reserved) <= capacity[b]

\* Once threads stop asking for new work, scope exits alone give everything
\* back: every reservation, child and root is eventually destroyed, whichever
\* thread's destructor the last reference ends up in.
Drains == (<>[][~\E t \in Threads : NewWork(t)]_vars) => <>[](live = {})

\* A documented promise (docs/resource-governance.md): destroying the final
\* handle of a child gives its capacity back to the parent, at the latest when
\* every call has returned.
FinalHandleReleases ==
  (\A t \in Threads : pc[t] = "idle") =>
    \A c \in Budgets :
      parent[c] # None => \E t \in Threads : c \in handle[t]

-----------------------------------------------------------------------------
(* The ledger these calls implement.  A child is on the books from the     *)
(* step that charges its parent to the step that refunds it, a root while  *)
(* somebody owns it.                                                       *)

OnBooks(b) ==
  \/ parent[b] # None /\ ~Refunded(b)
  \/ /\ b \in live
     /\ parent[b] = None
     /\ Owned(b, handle, state_, parent, [t \in Threads |-> None])

Ledger == INSTANCE BudgetLedger WITH
  Accounts <- Budgets,
  Claims   <- Reservations,
  limit    <- [b \in Budgets |-> IF OnBooks(b) THEN capacity[b] ELSE 0],
  spent    <- used,
  funder   <- [b \in Budgets |-> IF OnBooks(b) THEN parent[b] ELSE None],
  claim    <- [r \in Reservations |->
                 IF state_[r] # None /\ ~Released(r)
                 THEN <<state_[r], amount_[r]>> ELSE <<None, 0>>]

\* The concurrent implementation is the atomic ledger: each call takes effect
\* in one step, and a child's capacity goes back to its parent only when no
\* reservation and no grandchild is drawn on the child.
LedgerSpec == Ledger!Spec

=============================================================================
