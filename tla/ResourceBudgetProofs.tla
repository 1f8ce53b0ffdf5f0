------------------------ MODULE ResourceBudgetProofs ------------------------
(***************************************************************************)
(* Proofs about ResourceBudget for every number of threads, budgets and    *)
(* reservations and every MaxUnits: that every action preserves IInv, from *)
(* which the safety properties follow; that every step is one step of      *)
(* BudgetLedger, or none; and that whole subtrees stay within capacity.    *)
(***************************************************************************)
EXTENDS ResourceBudget, FiniteSetTheorems, FunctionTheorems, TLAPS

-----------------------------------------------------------------------------
(* The inductive invariant.                                                *)

UsesHandle(t) ==
  pc[t] \in {"query_read", "reserve_check", "reserve_charge",
             "child_alloc", "child_lock", "child_check", "child_charge"}
Destroying(t) == pc[t] \in {"destroy", "refund", "free"}
HasKid(t) == pc[t] \in {"child_lock", "child_check", "child_charge"}
Releasing(t) == pc[t] \in {"release_debit", "release_reset"}

\* What the locals of a call refer to at each point of it.
CallShape ==
  \A t \in Threads :
    /\ UsesHandle(t) => on[t] \in handle[t]
    /\ HasKid(t) <=> kid[t] # None
    /\ pc[t] = "idle" => slot[t] = None /\ on[t] = None
    /\ pc[t] \in {"reserve_check", "reserve_charge", "assign"} \/ Releasing(t) =>
         slot[t] # None
    /\ slot[t] # None => (state_[slot[t]] # None <=> Releasing(t))
    /\ pc[t] = "assign" => from[t] # None
    /\ pc[t] = "refund" => parent[on[t]] # None
    /\ on[t] # None => UsesHandle(t) \/ Destroying(t)
    /\ from[t] # None => slot[t] # None /\ slot[t] # from[t]

\* No two calls share a reservation object, a new child or a dying state.
Exclusive ==
  \A t, u \in Threads : t # u =>
    /\ slot[t] # None => slot[t] \notin {slot[u], from[u]}
    /\ from[t] # None => from[t] \notin {slot[u], from[u]}
    /\ kid[t] # None => kid[t] # kid[u]
    /\ Destroying(t) /\ Destroying(u) => on[t] # on[u]

\* Owners keep states alive; a state being destroyed has no owner left; a new
\* child is known to its creator only; a freed state is blank.
Lifetimes ==
  /\ \A t \in Threads : handle[t] \subseteq live
  /\ \A r \in Reservations : state_[r] # None => state_[r] \in live
  /\ \A b \in Budgets : parent[b] # None => parent[b] \in live
  /\ \A t \in Threads : Destroying(t) =>
       on[t] \in live /\ ~Owned(on[t], handle, state_, parent, kid)
  /\ \A t \in Threads : kid[t] # None =>
       /\ kid[t] \in live
       /\ parent[kid[t]] = None
       /\ used[kid[t]] = 0
       /\ ~Owned(kid[t], handle, state_, parent, [u \in Threads |-> None])
  /\ \A b \in Budgets \ live :
       capacity[b] = 0 /\ used[b] = 0 /\ parent[b] = None

\* A mutex is held by exactly the thread that is in its critical section.
MutexInv ==
  \A t \in Threads, b \in Budgets : Inside(t, b) <=> mutex[b] = t

\* Between the check and the charge nobody else touches the budget.
StillFits ==
  \A t \in Threads : pc[t] \in {"reserve_charge", "child_charge"} =>
    amt[t] <= capacity[on[t]] - used[on[t]]

IInv == /\ TypeOK
        /\ CallShape
        /\ Exclusive
        /\ Lifetimes
        /\ MutexInv
        /\ StillFits
        /\ UsedWithinCapacity
        /\ Conservation
        /\ NoTerminate

-----------------------------------------------------------------------------
(* Sums as numbers of units.                                               *)

\* The units counted by Total form a finite set.
LEMMA UnitsFinite ==
  ASSUME NEW f
  PROVE  IsFiniteSet({u \in Holders \X Units : u[2] <= f[u[1]]})
<1>1. IsFiniteSet(Holders)
  BY BudgetAssumption, FS_Union DEF Holders
<1>2. IsFiniteSet(Units)
  BY BudgetAssumption, FS_Interval DEF Units
<1>3. IsFiniteSet(Holders \X Units)
  BY <1>1, <1>2, FS_Product
<1> QED  BY <1>3, FS_Subset

\* A block of n units of one holder counts as n.
LEMMA BlockSize ==
  ASSUME NEW x, NEW n \in Nat
  PROVE  IsFiniteSet({x} \X (1..n)) /\ Cardinality({x} \X (1..n)) = n
<1>1. IsFiniteSet(1..n) /\ Cardinality(1..n) = n
  BY FS_Interval
<1>2. IsFiniteSet({x}) /\ Cardinality({x}) = 1
  BY FS_Singleton
<1> QED  BY <1>1, <1>2, FS_Product

\* Changing what one holder has changes the total by the difference, and the
\* total is at least what any one holder has.
LEMMA TotalUpdate ==
  ASSUME NEW f \in [Holders -> 0..MaxUnits],
         NEW g \in [Holders -> 0..MaxUnits],
         NEW x \in Holders,
         \A o \in Holders \ {x} : g[o] = f[o]
  PROVE  /\ Total(f) \in Nat
         /\ f[x] <= Total(f)
         /\ Total(g) = Total(f) - f[x] + g[x]
<1> DEFINE F == {u \in Holders \X Units : u[2] <= f[u[1]]}
           G == {u \in Holders \X Units : u[2] <= g[u[1]]}
           rest == {u \in F : u[1] # x}
           fx == {x} \X (1..f[x])
           gx == {x} \X (1..g[x])
<1>0. /\ f[x] \in Nat /\ f[x] <= MaxUnits
      /\ g[x] \in Nat /\ g[x] <= MaxUnits
      /\ MaxUnits \in Nat
  BY BudgetAssumption
<1>1. IsFiniteSet(F)
  BY UnitsFinite
<1>2. IsFiniteSet(rest)
  BY <1>1, FS_Subset
<1>3. F = rest \cup fx /\ rest \cap fx = {}
  BY <1>0 DEF Units
<1>4. G = rest \cup gx /\ rest \cap gx = {}
  BY <1>0 DEF Units
<1>5. /\ IsFiniteSet(fx) /\ Cardinality(fx) = f[x]
      /\ IsFiniteSet(gx) /\ Cardinality(gx) = g[x]
  BY <1>0, BlockSize
<1>6. Cardinality({}) = 0
  BY FS_EmptySet
<1>7. Cardinality(rest) \in Nat
  BY <1>2, FS_CardinalityType
<1> HIDE DEF F, G, rest, fx, gx
<1>8. Cardinality(F) = Cardinality(rest) + f[x]
  <2>1. Cardinality(rest \cup fx) =
          Cardinality(rest) + Cardinality(fx) - Cardinality(rest \cap fx)
    BY <1>2, <1>5, FS_Union
  <2>2. Cardinality(F) =
          Cardinality(rest) + Cardinality(fx) - Cardinality({})
    BY <2>1, <1>3
  <2> QED  BY <2>2, <1>0, <1>5, <1>6, <1>7
<1>9. Cardinality(G) = Cardinality(rest) + g[x]
  <2>1. Cardinality(rest \cup gx) =
          Cardinality(rest) + Cardinality(gx) - Cardinality(rest \cap gx)
    BY <1>2, <1>5, FS_Union
  <2>2. Cardinality(G) =
          Cardinality(rest) + Cardinality(gx) - Cardinality({})
    BY <2>1, <1>4
  <2> QED  BY <2>2, <1>0, <1>5, <1>6, <1>7
<1>10. Total(f) = Cardinality(F) /\ Total(g) = Cardinality(G)
  BY DEF Total, F, G
<1> QED  BY <1>0, <1>7, <1>8, <1>9, <1>10

\* Nobody holding anything adds up to zero.
LEMMA TotalZero ==
  ASSUME NEW f, \A x \in Holders : f[x] = 0
  PROVE  Total(f) = 0
<1>1. {u \in Holders \X Units : u[2] <= f[u[1]]} = {}
  BY BudgetAssumption DEF Units
<1> QED  BY <1>1, FS_EmptySet DEF Total

\* An injective map bounds the size of its domain.
LEMMA InjectionBound ==
  ASSUME NEW S, NEW T, IsFiniteSet(T), NEW f \in [S -> T],
         \A x, y \in S : f[x] = f[y] => x = y
  PROVE  IsFiniteSet(S) /\ Cardinality(S) <= Cardinality(T)
<1>1. f \in Injection(S, T)
  BY DEF Injection, IsInjective
<1> QED
  BY <1>1, FS_Injection

\* What is held of a budget is an amount of units per holder, now ...
LEMMA HeldType ==
  ASSUME TypeOK, NEW b
  PROVE  Held(b) \in [Holders -> 0..MaxUnits]
BY BudgetAssumption DEF TypeOK, Held, Holders

\* ... and after a step.
LEMMA HeldTypeNext ==
  ASSUME TypeOK', NEW b
  PROVE  Held(b)' \in [Holders -> 0..MaxUnits]
BY BudgetAssumption DEF TypeOK, Held, Holders

\* Whoever is charged for, or repays, units of q moves used of q by as much.
LEMMA HeldChange ==
  ASSUME IInv, TypeOK', NEW q \in Budgets, NEW x \in Holders,
         \A o \in Holders \ {x} : Held(q)'[o] = Held(q)[o],
         \A b \in Budgets \ {q} : Held(b)' = Held(b) /\ used'[b] = used[b],
         used'[q] = used[q] - Held(q)[x] + Held(q)'[x]
  PROVE  Conservation'
<1>1. Held(q) \in [Holders -> 0..MaxUnits] /\ Held(q)' \in [Holders -> 0..MaxUnits]
  BY HeldType, HeldTypeNext DEF IInv
<1>2. Total(Held(q)') = Total(Held(q)) - Held(q)[x] + Held(q)'[x]
  BY <1>1, TotalUpdate
<1> QED  BY <1>2 DEF Conservation, IInv, TypeOK

\* Nobody gives back more than is charged.
LEMMA HeldBound ==
  ASSUME IInv, NEW q \in Budgets, NEW x \in Holders
  PROVE  Held(q)[x] \in 0..MaxUnits /\ Held(q)[x] <= used[q]
BY HeldType, TotalUpdate DEF IInv, Conservation

\* Steps that leave reservations, children and their release state alone
\* leave holdings alone.
LEMMA HeldFrame ==
  ASSUME UNCHANGED <<state_, amount_, parent, parent_amount>>,
         \A r \in Reservations : Released(r)' <=> Released(r),
         \A c \in Budgets : Refunded(c)' <=> Refunded(c)
  PROVE  \A b \in Budgets : Held(b)' = Held(b)
BY BudgetAssumption DEF Held, Holders

-----------------------------------------------------------------------------
(* One lemma per action: it preserves every part of the invariant.         *)

\* The types of the variables that say where the calls are.
CallTypes ==
  /\ pc \in [Threads -> Labels]
  /\ on \in [Threads -> Budgets \cup {None}]
  /\ amt \in [Threads -> 0..MaxUnits]
  /\ slot \in [Threads -> Reservations \cup {None}]
  /\ from \in [Threads -> Reservations \cup {None}]
  /\ kid \in [Threads -> Budgets \cup {None}]

\* Going on after a release, and dropping a pointer, leave the calls in
\* well-typed places.
LEMMA ResumeType ==
  ASSUME TypeOK, NEW t \in Threads, Resume(t)
  PROVE  CallTypes'
<1>1. CASE from[t] = None
  <2>1. Goto(t, "idle") /\ pc' \in [Threads -> Labels]
    BY <1>1 DEF Resume, Return, Goto, TypeOK, Labels
  <2>2. /\ on'   = [on EXCEPT ![t] = None]
        /\ amt'  = [amt EXCEPT ![t] = 0]
        /\ slot' = [slot EXCEPT ![t] = None]
        /\ from' = [from EXCEPT ![t] = None]
        /\ kid'  = [kid EXCEPT ![t] = None]
    BY <1>1 DEF Resume, Return
  <2>3. 0 \in 0..MaxUnits
    BY BudgetAssumption
  <2> QED  BY <2>1, <2>2, <2>3 DEF TypeOK, CallTypes
<1>2. CASE from[t] # None
  BY <1>2 DEF Resume, Goto, TypeOK, CallTypes, Labels
<1> QED  BY <1>1, <1>2

\* The same when the reference just dropped may have been the last.
LEMMA DroppedType ==
  ASSUME TypeOK, NEW t \in Threads, NEW b \in Budgets, Dropped(t, b)
  PROVE  CallTypes'
<1>1. CASE Owned(b, handle', state_', parent', kid)
  BY <1>1, ResumeType DEF Dropped
<1>2. CASE ~Owned(b, handle', state_', parent', kid)
  BY <1>2 DEF Dropped, Goto, TypeOK, CallTypes, Labels
<1> QED  BY <1>1, <1>2

\* A new root owes nothing and is owed nothing.
LEMMA CreateRootStep ==
  ASSUME IInv, NEW t \in Threads, NEW b \in Budgets, NEW n \in Units,
         CreateRoot(t, b, n)
  PROVE  IInv'
<1> USE BudgetAssumption DEF CreateRoot, Goto, budgetVars, resVars, callVars
<1>1. TypeOK'
  BY DEF TypeOK, Labels, Units, IInv
<1>2. CallShape'
  BY DEF CallShape, UsesHandle, HasKid, Releasing, TypeOK, IInv, Labels, Units,
     Destroying
<1>3. Exclusive'
  BY DEF Exclusive, Destroying, TypeOK, CallShape, Lifetimes, IInv, Labels,
     Units, Owned
<1>4. Lifetimes'
  BY DEF Lifetimes, Destroying, Owned, TypeOK, CallShape, IInv, Labels, Units
<1>5. MutexInv'
  BY DEF MutexInv, Inside, TypeOK, IInv, Labels, Units
<1>6. StillFits'
  BY DEF StillFits, TypeOK, CallShape, MutexInv, IInv, Destroying, Owned,
     UsedWithinCapacity, Labels, Units, Inside, Lifetimes
<1>7. UsedWithinCapacity'
  BY DEF UsedWithinCapacity, TypeOK, CallShape, IInv, StillFits, Destroying,
     Labels, Units, Lifetimes, Inside
<1>8. Conservation'
  <2>1. \A x \in Reservations : Released(x)' <=> Released(x)
    BY DEF Released, IInv, TypeOK
  <2>2. \A x \in Budgets : Refunded(x)' <=> Refunded(x)
    BY DEF Refunded, IInv, TypeOK
  <2> QED  BY <2>1, <2>2, HeldFrame DEF Conservation, IInv
<1>9. NoTerminate'
  BY DEF NoTerminate, TypeOK, IInv, Labels, Units
<1> QED  BY <1>1, <1>2, <1>3, <1>4, <1>5, <1>6, <1>7, <1>8, <1>9 DEF IInv

\* Copying a handle adds an owner and nothing else.
LEMMA CopyHandleStep ==
  ASSUME IInv, NEW t \in Threads, NEW u \in Threads, NEW b \in Budgets,
         CopyHandle(t, u, b)
  PROVE  IInv'
<1> USE BudgetAssumption DEF CopyHandle, Goto, budgetVars, resVars, callVars
<1>1. TypeOK'
  BY DEF TypeOK, Labels, Units, IInv
<1>2. CallShape'
  BY DEF CallShape, UsesHandle, HasKid, Releasing, TypeOK, IInv, Labels, Units,
     Destroying
<1>3. Exclusive'
  BY DEF Exclusive, Destroying, TypeOK, CallShape, Lifetimes, IInv, Labels,
     Units, Owned
<1>4. Lifetimes'
  BY DEF Lifetimes, Destroying, Owned, TypeOK, CallShape, IInv, Labels, Units
<1>5. MutexInv'
  BY DEF MutexInv, Inside, TypeOK, IInv, Labels, Units
<1>6. StillFits'
  BY DEF StillFits, TypeOK, MutexInv, IInv, UsedWithinCapacity, Labels, Units,
     Inside
<1>7. UsedWithinCapacity'
  BY DEF UsedWithinCapacity, TypeOK, IInv, StillFits, Labels, Units, Inside
<1>8. Conservation'
  <2>1. \A x \in Reservations : Released(x)' <=> Released(x)
    BY DEF Released, IInv, TypeOK
  <2>2. \A x \in Budgets : Refunded(x)' <=> Refunded(x)
    BY DEF Refunded, IInv, TypeOK
  <2> QED  BY <2>1, <2>2, HeldFrame DEF Conservation, IInv
<1>9. NoTerminate'
  BY DEF NoTerminate, TypeOK, IInv, Labels, Units
<1> QED  BY <1>1, <1>2, <1>3, <1>4, <1>5, <1>6, <1>7, <1>8, <1>9 DEF IInv

\* Dropping a handle may leave a state without owners: its thread destroys it.
LEMMA DropHandleStep ==
  ASSUME IInv, NEW t \in Threads, NEW b \in Budgets, DropHandle(t, b)
  PROVE  IInv'
<1> USE BudgetAssumption DEF DropHandle, Goto, Dropped, Resume, Return,
   budgetVars, resVars, callVars
<1>1. TypeOK'
  BY DroppedType DEF TypeOK, CallTypes, IInv
<1>2. CallShape'
  BY DEF CallShape, UsesHandle, HasKid, Releasing, TypeOK, IInv, Labels, Units,
     Destroying
<1>3. Exclusive'
  BY DEF Exclusive, Destroying, TypeOK, CallShape, Lifetimes, IInv, Labels,
     Units, Owned
<1>4. Lifetimes'
  <2>1. /\ \A u \in Threads : handle'[u] \subseteq live'
        /\ \A r \in Reservations : state_'[r] # None => state_'[r] \in live'
        /\ \A x \in Budgets : parent'[x] # None => parent'[x] \in live'
    BY DEF Lifetimes, TypeOK, IInv
  <2>2. \A u \in Threads : Destroying(u)' =>
          on'[u] \in live' /\ ~Owned(on[u], handle, state_, parent, kid)'
    BY DEF Lifetimes, Destroying, Owned, TypeOK, CallShape, IInv
  <2>3. \A u \in Threads : kid'[u] # None =>
          /\ kid'[u] \in live' /\ parent'[kid'[u]] = None /\ used'[kid'[u]] = 0
          /\ ~Owned(kid[u], handle, state_, parent, [v \in Threads |-> None])'
    BY DEF Lifetimes, Owned, TypeOK, IInv
  <2>4. \A x \in Budgets \ live' :
          capacity'[x] = 0 /\ used'[x] = 0 /\ parent'[x] = None
    BY DEF Lifetimes, TypeOK, IInv
  <2> QED
    BY <2>1, <2>2, <2>3, <2>4 DEF Lifetimes
<1>5. MutexInv'
  BY DEF MutexInv, Inside, TypeOK, IInv, Labels, Units
<1>6. StillFits'
  BY DEF StillFits, TypeOK, MutexInv, IInv, UsedWithinCapacity, Labels, Units,
     Inside
<1>7. UsedWithinCapacity'
  BY DEF UsedWithinCapacity, TypeOK, IInv, StillFits, Labels, Units, Inside
<1>8. Conservation'
  <2>1. \A x \in Reservations : Released(x)' <=> Released(x)
    BY DEF Released, IInv, TypeOK
  <2>2. \A x \in Budgets : Refunded(x)' <=> Refunded(x)
    BY DEF Refunded, IInv, TypeOK
  <2> QED  BY <2>1, <2>2, HeldFrame DEF Conservation, IInv
<1>9. NoTerminate'
  BY DEF NoTerminate, TypeOK, IInv, Labels, Units
<1> QED  BY <1>1, <1>2, <1>3, <1>4, <1>5, <1>6, <1>7, <1>8, <1>9 DEF IInv

\* used() and available() only enter the critical section ...
LEMMA QueryLockStep ==
  ASSUME IInv, NEW t \in Threads, NEW b \in Budgets, QueryLock(t, b)
  PROVE  IInv'
<1> USE BudgetAssumption DEF QueryLock, Goto, Acquire, budgetVars, resVars,
   callVars
<1>1. TypeOK'
  BY DEF TypeOK, Labels, Units, IInv
<1>2. CallShape'
  BY DEF CallShape, UsesHandle, HasKid, Releasing, TypeOK, IInv, Labels, Units,
     Destroying
<1>3. Exclusive'
  BY DEF Exclusive, Destroying, TypeOK, CallShape, Lifetimes, IInv, Labels,
     Units, Owned
<1>4. Lifetimes'
  BY DEF Lifetimes, Destroying, Owned, TypeOK, CallShape, IInv, Labels, Units
<1>5. MutexInv'
  BY DEF MutexInv, Inside, TypeOK, IInv, Labels, Units
<1>6. StillFits'
  BY DEF StillFits, TypeOK, MutexInv, IInv, UsedWithinCapacity, Labels, Units,
     Inside
<1>7. UsedWithinCapacity'
  BY DEF UsedWithinCapacity, TypeOK, IInv, StillFits, Labels, Units, Inside
<1>8. Conservation'
  <2>1. \A x \in Reservations : Released(x)' <=> Released(x)
    BY DEF Released, IInv, TypeOK
  <2>2. \A x \in Budgets : Refunded(x)' <=> Refunded(x)
    BY DEF Refunded, IInv, TypeOK
  <2> QED  BY <2>1, <2>2, HeldFrame DEF Conservation, IInv
<1>9. NoTerminate'
  BY DEF NoTerminate, TypeOK, IInv, Labels, Units
<1> QED  BY <1>1, <1>2, <1>3, <1>4, <1>5, <1>6, <1>7, <1>8, <1>9 DEF IInv

\* ... and leave it.
LEMMA QueryReadStep ==
  ASSUME IInv, NEW t \in Threads, QueryRead(t)
  PROVE  IInv'
<1> USE BudgetAssumption DEF QueryRead, Goto, Unlock, Return, budgetVars,
   resVars, callVars
<1>1. TypeOK'
  BY DEF TypeOK, Labels, Units, IInv, CallShape, UsesHandle, HasKid, Releasing
<1>2. CallShape'
  BY DEF CallShape, UsesHandle, HasKid, Releasing, TypeOK, IInv, Labels, Units,
     Destroying
<1>3. Exclusive'
  BY DEF Exclusive, Destroying, TypeOK, CallShape, Lifetimes, IInv, Labels,
     Units, Owned
<1>4. Lifetimes'
  BY DEF Lifetimes, Destroying, Owned, TypeOK, CallShape, IInv, Labels, Units
<1>5. MutexInv'
  BY DEF MutexInv, Inside, TypeOK, IInv, Labels, Units
<1>6. StillFits'
  BY DEF StillFits, TypeOK, MutexInv, IInv, UsedWithinCapacity, Labels, Units,
     Inside
<1>7. UsedWithinCapacity'
  BY DEF UsedWithinCapacity, TypeOK, IInv, StillFits, Labels, Units, Inside
<1>8. Conservation'
  <2>1. \A x \in Reservations : Released(x)' <=> Released(x)
    BY DEF Released, IInv, TypeOK
  <2>2. \A x \in Budgets : Refunded(x)' <=> Refunded(x)
    BY DEF Refunded, IInv, TypeOK
  <2> QED  BY <2>1, <2>2, HeldFrame DEF Conservation, IInv
<1>9. NoTerminate'
  BY DEF NoTerminate, TypeOK, IInv, Labels, Units
<1> QED  BY <1>1, <1>2, <1>3, <1>4, <1>5, <1>6, <1>7, <1>8, <1>9 DEF IInv

\* reserve() claims an inactive reservation object and enters.
LEMMA ReserveLockStep ==
  ASSUME IInv, NEW t \in Threads, NEW b \in Budgets, NEW n \in Units, NEW r \in Reservations,
         ReserveLock(t, b, n, r)
  PROVE  IInv'
<1> USE BudgetAssumption DEF ReserveLock, Goto, Acquire, Claimed, budgetVars,
   resVars, callVars
<1>1. TypeOK'
  BY DEF TypeOK, Labels, Units, IInv
<1>2. CallShape'
  BY DEF CallShape, UsesHandle, HasKid, Releasing, TypeOK, IInv, Labels, Units,
     Destroying
<1>3. Exclusive'
  BY DEF Exclusive, Destroying, TypeOK, CallShape, Lifetimes, IInv, Labels,
     Units, Owned
<1>4. Lifetimes'
  BY DEF Lifetimes, Destroying, Owned, TypeOK, CallShape, IInv, Labels, Units
<1>5. MutexInv'
  BY DEF MutexInv, Inside, TypeOK, IInv, Labels, Units
<1>6. StillFits'
  BY DEF StillFits, TypeOK, MutexInv, IInv, UsedWithinCapacity, Labels, Units,
     Inside
<1>7. UsedWithinCapacity'
  BY DEF UsedWithinCapacity, TypeOK, IInv, StillFits, Labels, Units, Inside
<1>8. Conservation'
  <2>1. \A x \in Reservations : Released(x)' <=> Released(x)
    BY DEF Released, IInv, TypeOK
  <2>2. \A x \in Budgets : Refunded(x)' <=> Refunded(x)
    BY DEF Refunded, IInv, TypeOK
  <2> QED  BY <2>1, <2>2, HeldFrame DEF Conservation, IInv
<1>9. NoTerminate'
  BY DEF NoTerminate, TypeOK, IInv, Labels, Units
<1> QED  BY <1>1, <1>2, <1>3, <1>4, <1>5, <1>6, <1>7, <1>8, <1>9 DEF IInv

\* The check of reserve() establishes StillFits.
LEMMA ReserveFitsStep ==
  ASSUME IInv, NEW t \in Threads, ReserveFits(t)
  PROVE  IInv'
<1> USE BudgetAssumption DEF ReserveFits, Goto, Exhausted, budgetVars, resVars,
   callVars
<1>1. TypeOK'
  BY DEF TypeOK, Labels, Units, IInv
<1>2. CallShape'
  BY DEF CallShape, UsesHandle, HasKid, Releasing, TypeOK, IInv, Labels, Units,
     Destroying
<1>3. Exclusive'
  BY DEF Exclusive, Destroying, TypeOK, CallShape, Lifetimes, IInv, Labels,
     Units, Owned
<1>4. Lifetimes'
  BY DEF Lifetimes, Destroying, Owned, TypeOK, CallShape, IInv, Labels, Units
<1>5. MutexInv'
  BY DEF MutexInv, Inside, TypeOK, IInv, Labels, Units
<1>6. StillFits'
  BY DEF StillFits, TypeOK, CallShape, MutexInv, IInv, UsedWithinCapacity,
     Labels, Units, UsesHandle, HasKid, Releasing, Inside
<1>7. UsedWithinCapacity'
  BY DEF UsedWithinCapacity, TypeOK, IInv, StillFits, Labels, Units, Inside
<1>8. Conservation'
  <2>1. \A x \in Reservations : Released(x)' <=> Released(x)
    BY DEF Released, IInv, TypeOK
  <2>2. \A x \in Budgets : Refunded(x)' <=> Refunded(x)
    BY DEF Refunded, IInv, TypeOK
  <2> QED  BY <2>1, <2>2, HeldFrame DEF Conservation, IInv
<1>9. NoTerminate'
  BY DEF NoTerminate, TypeOK, IInv, Labels, Units
<1> QED  BY <1>1, <1>2, <1>3, <1>4, <1>5, <1>6, <1>7, <1>8, <1>9 DEF IInv

\* A refused reserve() leaves the budget as it was.
LEMMA ReserveFailsStep ==
  ASSUME IInv, NEW t \in Threads, ReserveFails(t)
  PROVE  IInv'
<1> USE BudgetAssumption DEF ReserveFails, Goto, Exhausted, Unlock, Return,
   budgetVars, resVars, callVars
<1>1. TypeOK'
  BY DEF TypeOK, Labels, Units, IInv, CallShape, UsesHandle, HasKid, Releasing
<1>2. CallShape'
  BY DEF CallShape, UsesHandle, HasKid, Releasing, TypeOK, IInv, Labels, Units,
     Destroying
<1>3. Exclusive'
  BY DEF Exclusive, Destroying, TypeOK, CallShape, Lifetimes, IInv, Labels,
     Units, Owned
<1>4. Lifetimes'
  BY DEF Lifetimes, Destroying, Owned, TypeOK, CallShape, IInv, Labels, Units
<1>5. MutexInv'
  BY DEF MutexInv, Inside, TypeOK, IInv, Labels, Units
<1>6. StillFits'
  BY DEF StillFits, TypeOK, MutexInv, IInv, UsedWithinCapacity, Labels, Units,
     Inside
<1>7. UsedWithinCapacity'
  BY DEF UsedWithinCapacity, TypeOK, IInv, StillFits, Labels, Units, Inside
<1>8. Conservation'
  <2>1. \A x \in Reservations : Released(x)' <=> Released(x)
    BY DEF Released, IInv, TypeOK
  <2>2. \A x \in Budgets : Refunded(x)' <=> Refunded(x)
    BY DEF Refunded, IInv, TypeOK
  <2> QED  BY <2>1, <2>2, HeldFrame DEF Conservation, IInv
<1>9. NoTerminate'
  BY DEF NoTerminate, TypeOK, IInv, Labels, Units
<1> QED  BY <1>1, <1>2, <1>3, <1>4, <1>5, <1>6, <1>7, <1>8, <1>9 DEF IInv

\* The charge of reserve() is what the new reservation holds.
LEMMA ReserveChargeStep ==
  ASSUME IInv, NEW t \in Threads, ReserveCharge(t)
  PROVE  IInv'
<1> USE BudgetAssumption DEF ReserveCharge, Goto, Unlock, Return, budgetVars,
   resVars, callVars
<1>1. TypeOK'
  BY DEF TypeOK, Labels, Units, IInv, CallShape, UsesHandle, HasKid, Releasing
<1>2. CallShape'
  BY DEF CallShape, UsesHandle, HasKid, Releasing, TypeOK, Exclusive, IInv,
     Labels, Units, Destroying
<1>3. Exclusive'
  BY DEF Exclusive, Destroying, TypeOK, CallShape, Lifetimes, IInv, Labels,
     Units, Owned
<1>4. Lifetimes'
  BY DEF Lifetimes, Destroying, Owned, TypeOK, CallShape, IInv, Labels, Units
<1>5. MutexInv'
  BY DEF MutexInv, Inside, TypeOK, CallShape, IInv, Labels, Units, UsesHandle,
     HasKid, Releasing
<1>6. StillFits'
  BY DEF StillFits, TypeOK, MutexInv, IInv, UsedWithinCapacity, Labels, Units,
     Inside
<1>7. UsedWithinCapacity'
  BY DEF UsedWithinCapacity, TypeOK, IInv, StillFits, Labels, Units, Inside
<1>8. Conservation'
  <2> PICK q \in Budgets, r \in Reservations : q = on[t] /\ r = slot[t]
    BY DEF IInv, TypeOK, CallShape, UsesHandle, HasKid, Releasing
  <2>1. state_[r] = None /\ ~Released(r)
    BY DEF Released, IInv, TypeOK, CallShape, UsesHandle, HasKid, Releasing
  <2>2. \A o \in Reservations : Released(o)' <=> Released(o)
    BY DEF Released, IInv, TypeOK
  <2>3. \A o \in Budgets : Refunded(o)' <=> Refunded(o)
    BY DEF Refunded, IInv, TypeOK
  <2>4. r \in Holders /\ Held(q)[r] = 0 /\ Held(q)'[r] = amt[t]
    BY <2>1, <2>2, <2>3, BudgetAssumption DEF Held, Holders, IInv, TypeOK
  <2>5. \A o \in Holders \ {r} : Held(q)'[o] = Held(q)[o]
    BY <2>2, <2>3 DEF Held, Holders, IInv, TypeOK
  <2>6. \A b \in Budgets \ {q} : Held(b)' = Held(b) /\ used'[b] = used[b]
    BY <2>1, <2>2, <2>3 DEF Held, Holders, IInv, TypeOK
  <2>7. used'[q] = used[q] - Held(q)[r] + Held(q)'[r]
    BY <2>4 DEF IInv, TypeOK
  <2> QED  BY <1>1, <2>4, <2>5, <2>6, <2>7, HeldChange
<1>9. NoTerminate'
  BY DEF NoTerminate, TypeOK, IInv, Labels, Units
<1> QED  BY <1>1, <1>2, <1>3, <1>4, <1>5, <1>6, <1>7, <1>8, <1>9 DEF IInv

\* create_child() begins without touching shared state.
LEMMA CreateChildStep ==
  ASSUME IInv, NEW t \in Threads, NEW b \in Budgets, NEW n \in Units,
         CreateChild(t, b, n)
  PROVE  IInv'
<1> USE BudgetAssumption DEF CreateChild, Goto, budgetVars, resVars, callVars
<1>1. TypeOK'
  BY DEF TypeOK, Labels, Units, IInv
<1>2. CallShape'
  BY DEF CallShape, UsesHandle, HasKid, Releasing, TypeOK, IInv, Labels, Units,
     Destroying
<1>3. Exclusive'
  BY DEF Exclusive, Destroying, TypeOK, CallShape, Lifetimes, IInv, Labels,
     Units, Owned
<1>4. Lifetimes'
  BY DEF Lifetimes, Destroying, Owned, TypeOK, CallShape, IInv, Labels, Units
<1>5. MutexInv'
  BY DEF MutexInv, Inside, TypeOK, IInv, Labels, Units
<1>6. StillFits'
  BY DEF StillFits, TypeOK, MutexInv, IInv, UsedWithinCapacity, Labels, Units,
     Inside
<1>7. UsedWithinCapacity'
  BY DEF UsedWithinCapacity, TypeOK, IInv, StillFits, Labels, Units, Inside
<1>8. Conservation'
  <2>1. \A x \in Reservations : Released(x)' <=> Released(x)
    BY DEF Released, IInv, TypeOK
  <2>2. \A x \in Budgets : Refunded(x)' <=> Refunded(x)
    BY DEF Refunded, IInv, TypeOK
  <2> QED  BY <2>1, <2>2, HeldFrame DEF Conservation, IInv
<1>9. NoTerminate'
  BY DEF NoTerminate, TypeOK, IInv, Labels, Units
<1> QED  BY <1>1, <1>2, <1>3, <1>4, <1>5, <1>6, <1>7, <1>8, <1>9 DEF IInv

\* The new child is known to its creator only.
LEMMA ChildAllocStep ==
  ASSUME IInv, NEW t \in Threads, NEW c \in Budgets, ChildAlloc(t, c)
  PROVE  IInv'
<1> USE BudgetAssumption DEF ChildAlloc, Goto, budgetVars, resVars, callVars
<1>1. TypeOK'
  BY DEF TypeOK, Labels, Units, IInv
<1>2. CallShape'
  BY DEF CallShape, UsesHandle, HasKid, Releasing, TypeOK, IInv, Labels, Units,
     Destroying
<1>3. Exclusive'
  BY DEF Exclusive, Destroying, TypeOK, CallShape, Lifetimes, IInv, Labels,
     Units, Owned
<1>4. Lifetimes'
  BY DEF Lifetimes, Destroying, Owned, TypeOK, CallShape, IInv, Labels, Units
<1>5. MutexInv'
  BY DEF MutexInv, Inside, TypeOK, IInv, Labels, Units
<1>6. StillFits'
  BY DEF StillFits, TypeOK, CallShape, MutexInv, IInv, Destroying, Owned,
     UsedWithinCapacity, Labels, Units, Inside, Lifetimes
<1>7. UsedWithinCapacity'
  BY DEF UsedWithinCapacity, TypeOK, CallShape, IInv, StillFits, Destroying,
     Labels, Units, Lifetimes, Inside
<1>8. Conservation'
  <2>1. \A x \in Reservations : Released(x)' <=> Released(x)
    BY DEF Released, IInv, TypeOK
  <2>2. \A x \in Budgets : Refunded(x)' <=> Refunded(x)
    BY DEF Refunded, IInv, TypeOK
  <2> QED  BY <2>1, <2>2, HeldFrame DEF Conservation, IInv
<1>9. NoTerminate'
  BY DEF NoTerminate, TypeOK, IInv, Labels, Units
<1> QED  BY <1>1, <1>2, <1>3, <1>4, <1>5, <1>6, <1>7, <1>8, <1>9 DEF IInv

\* A failed allocation leaves nothing behind.
LEMMA ChildAllocFailsStep ==
  ASSUME IInv, NEW t \in Threads, ChildAllocFails(t)
  PROVE  IInv'
<1> USE BudgetAssumption DEF ChildAllocFails, Goto, Return, budgetVars, resVars,
   callVars
<1>1. TypeOK'
  BY DEF TypeOK, Labels, Units, IInv
<1>2. CallShape'
  BY DEF CallShape, UsesHandle, HasKid, Releasing, TypeOK, IInv, Labels, Units,
     Destroying
<1>3. Exclusive'
  BY DEF Exclusive, Destroying, TypeOK, CallShape, Lifetimes, IInv, Labels,
     Units, Owned
<1>4. Lifetimes'
  BY DEF Lifetimes, Destroying, Owned, TypeOK, CallShape, IInv, Labels, Units
<1>5. MutexInv'
  BY DEF MutexInv, Inside, TypeOK, IInv, Labels, Units
<1>6. StillFits'
  BY DEF StillFits, TypeOK, MutexInv, IInv, UsedWithinCapacity, Labels, Units,
     Inside
<1>7. UsedWithinCapacity'
  BY DEF UsedWithinCapacity, TypeOK, IInv, StillFits, Labels, Units, Inside
<1>8. Conservation'
  <2>1. \A x \in Reservations : Released(x)' <=> Released(x)
    BY DEF Released, IInv, TypeOK
  <2>2. \A x \in Budgets : Refunded(x)' <=> Refunded(x)
    BY DEF Refunded, IInv, TypeOK
  <2> QED  BY <2>1, <2>2, HeldFrame DEF Conservation, IInv
<1>9. NoTerminate'
  BY DEF NoTerminate, TypeOK, IInv, Labels, Units
<1> QED  BY <1>1, <1>2, <1>3, <1>4, <1>5, <1>6, <1>7, <1>8, <1>9 DEF IInv

\* create_child() enters the critical section of the parent.
LEMMA ChildLockStep ==
  ASSUME IInv, NEW t \in Threads, ChildLock(t)
  PROVE  IInv'
<1> USE BudgetAssumption DEF ChildLock, Goto, Acquire, budgetVars, resVars,
   callVars
<1>1. TypeOK'
  BY DEF TypeOK, Labels, Units, IInv
<1>2. CallShape'
  BY DEF CallShape, UsesHandle, HasKid, Releasing, TypeOK, IInv, Labels, Units,
     Destroying
<1>3. Exclusive'
  BY DEF Exclusive, Destroying, TypeOK, CallShape, Lifetimes, IInv, Labels,
     Units, Owned
<1>4. Lifetimes'
  BY DEF Lifetimes, Destroying, Owned, TypeOK, CallShape, IInv, Labels, Units
<1>5. MutexInv'
  BY DEF MutexInv, Inside, TypeOK, IInv, Labels, Units
<1>6. StillFits'
  BY DEF StillFits, TypeOK, MutexInv, IInv, UsedWithinCapacity, Labels, Units,
     Inside
<1>7. UsedWithinCapacity'
  BY DEF UsedWithinCapacity, TypeOK, IInv, StillFits, Labels, Units, Inside
<1>8. Conservation'
  <2>1. \A x \in Reservations : Released(x)' <=> Released(x)
    BY DEF Released, IInv, TypeOK
  <2>2. \A x \in Budgets : Refunded(x)' <=> Refunded(x)
    BY DEF Refunded, IInv, TypeOK
  <2> QED  BY <2>1, <2>2, HeldFrame DEF Conservation, IInv
<1>9. NoTerminate'
  BY DEF NoTerminate, TypeOK, IInv, Labels, Units
<1> QED  BY <1>1, <1>2, <1>3, <1>4, <1>5, <1>6, <1>7, <1>8, <1>9 DEF IInv

\* The check of create_child() establishes StillFits.
LEMMA ChildFitsStep ==
  ASSUME IInv, NEW t \in Threads, ChildFits(t)
  PROVE  IInv'
<1> USE BudgetAssumption DEF ChildFits, Goto, Exhausted, budgetVars, resVars,
   callVars
<1>1. TypeOK'
  BY DEF TypeOK, Labels, Units, IInv
<1>2. CallShape'
  BY DEF CallShape, UsesHandle, HasKid, Releasing, TypeOK, IInv, Labels, Units,
     Destroying
<1>3. Exclusive'
  BY DEF Exclusive, Destroying, TypeOK, CallShape, Lifetimes, IInv, Labels,
     Units, Owned
<1>4. Lifetimes'
  BY DEF Lifetimes, Destroying, Owned, TypeOK, CallShape, IInv, Labels, Units
<1>5. MutexInv'
  BY DEF MutexInv, Inside, TypeOK, IInv, Labels, Units
<1>6. StillFits'
  BY DEF StillFits, TypeOK, CallShape, MutexInv, IInv, UsedWithinCapacity,
     Labels, Units, UsesHandle, HasKid, Releasing, Inside
<1>7. UsedWithinCapacity'
  BY DEF UsedWithinCapacity, TypeOK, IInv, StillFits, Labels, Units, Inside
<1>8. Conservation'
  <2>1. \A x \in Reservations : Released(x)' <=> Released(x)
    BY DEF Released, IInv, TypeOK
  <2>2. \A x \in Budgets : Refunded(x)' <=> Refunded(x)
    BY DEF Refunded, IInv, TypeOK
  <2> QED  BY <2>1, <2>2, HeldFrame DEF Conservation, IInv
<1>9. NoTerminate'
  BY DEF NoTerminate, TypeOK, IInv, Labels, Units
<1> QED  BY <1>1, <1>2, <1>3, <1>4, <1>5, <1>6, <1>7, <1>8, <1>9 DEF IInv

\* A refused child, unfunded and unowned, goes to its destructor.
LEMMA ChildFailsStep ==
  ASSUME IInv, NEW t \in Threads, ChildFails(t)
  PROVE  IInv'
<1> USE BudgetAssumption DEF ChildFails, Goto, Exhausted, Unlock, budgetVars,
   resVars, callVars
<1>1. TypeOK'
  BY DEF TypeOK, Labels, Units, IInv
<1>2. CallShape'
  BY DEF CallShape, UsesHandle, HasKid, Releasing, TypeOK, IInv, Labels, Units,
     Destroying
<1>3. Exclusive'
  BY DEF Exclusive, Destroying, TypeOK, CallShape, Lifetimes, IInv, Labels,
     Units, Owned
<1>4. Lifetimes'
  BY DEF Lifetimes, Destroying, Owned, TypeOK, CallShape, Exclusive, IInv,
     Labels, Units, UsesHandle, HasKid, Releasing
<1>5. MutexInv'
  BY DEF MutexInv, Inside, TypeOK, IInv, Labels, Units
<1>6. StillFits'
  BY DEF StillFits, TypeOK, MutexInv, IInv, UsedWithinCapacity, Labels, Units,
     Inside
<1>7. UsedWithinCapacity'
  BY DEF UsedWithinCapacity, TypeOK, IInv, StillFits, Labels, Units, Inside
<1>8. Conservation'
  <2>1. \A x \in Reservations : Released(x)' <=> Released(x)
    BY DEF Released, IInv, TypeOK
  <2>2. \A x \in Budgets : Refunded(x)' <=> Refunded(x)
    BY DEF Refunded, IInv, TypeOK
  <2> QED  BY <2>1, <2>2, HeldFrame DEF Conservation, IInv
<1>9. NoTerminate'
  BY DEF NoTerminate, TypeOK, IInv, Labels, Units
<1> QED  BY <1>1, <1>2, <1>3, <1>4, <1>5, <1>6, <1>7, <1>8, <1>9 DEF IInv

\* The charge of create_child() is what the funded child holds.
LEMMA ChildChargeStep ==
  ASSUME IInv, NEW t \in Threads, ChildCharge(t)
  PROVE  IInv'
<1> USE BudgetAssumption DEF ChildCharge, Goto, Unlock, Return, budgetVars,
   resVars, callVars
<1>1. TypeOK'
  BY DEF TypeOK, Labels, Units, IInv, CallShape, UsesHandle, HasKid, Releasing
<1>2. CallShape'
  BY DEF CallShape, UsesHandle, HasKid, Releasing, TypeOK, IInv, Labels, Units,
     Destroying
<1>3. Exclusive'
  BY DEF Exclusive, Destroying, TypeOK, CallShape, Lifetimes, IInv, Labels,
     Units, Owned
<1>4. Lifetimes'
  BY DEF Lifetimes, Destroying, Owned, TypeOK, CallShape, Exclusive, IInv,
     Labels, Units, UsesHandle, HasKid, Releasing
<1>5. MutexInv'
  BY DEF MutexInv, Inside, TypeOK, CallShape, IInv, Destroying, Labels, Units,
     Lifetimes
<1>6. StillFits'
  BY DEF StillFits, TypeOK, MutexInv, IInv, UsedWithinCapacity, Labels, Units,
     Inside
<1>7. UsedWithinCapacity'
  BY DEF UsedWithinCapacity, TypeOK, IInv, StillFits, Labels, Units, Inside
<1>8. Conservation'
  <2> PICK q \in Budgets, c \in Budgets : q = on[t] /\ c = kid[t]
    BY DEF IInv, TypeOK, CallShape, UsesHandle, HasKid, Releasing
  <2>1. parent[c] = None /\ ~Refunded(c)
    BY DEF Refunded, IInv, TypeOK, CallShape, Lifetimes, Owned, Destroying
  <2>2. \A o \in Reservations : Released(o)' <=> Released(o)
    BY DEF Released, IInv, TypeOK
  <2>3. \A o \in Budgets : Refunded(o)' <=> Refunded(o)
    BY DEF Refunded, IInv, TypeOK
  <2>4. c \in Holders /\ Held(q)[c] = 0 /\ Held(q)'[c] = amt[t]
    BY <2>1, <2>2, <2>3, BudgetAssumption DEF Held, Holders, IInv, TypeOK
  <2>5. \A o \in Holders \ {c} : Held(q)'[o] = Held(q)[o]
    BY <2>2, <2>3 DEF Held, Holders, IInv, TypeOK
  <2>6. \A b \in Budgets \ {q} : Held(b)' = Held(b) /\ used'[b] = used[b]
    BY <2>1, <2>2, <2>3 DEF Held, Holders, IInv, TypeOK
  <2>7. used'[q] = used[q] - Held(q)[c] + Held(q)'[c]
    BY <2>4 DEF IInv, TypeOK
  <2> QED  BY <1>1, <2>4, <2>5, <2>6, <2>7, HeldChange
<1>9. NoTerminate'
  BY DEF NoTerminate, TypeOK, IInv, Labels, Units
<1> QED  BY <1>1, <1>2, <1>3, <1>4, <1>5, <1>6, <1>7, <1>8, <1>9 DEF IInv

\* release() enters the critical section of the budget it is charged to.
LEMMA ReleaseLockStep ==
  ASSUME IInv, NEW t \in Threads, NEW r \in Reservations, ReleaseLock(t, r)
  PROVE  IInv'
<1> USE BudgetAssumption DEF ReleaseLock, Goto, Acquire, Claimed, budgetVars,
   resVars, callVars
<1>1. TypeOK'
  BY DEF TypeOK, Labels, Units, IInv
<1>2. CallShape'
  BY DEF CallShape, UsesHandle, HasKid, Releasing, TypeOK, IInv, Labels, Units,
     Destroying
<1>3. Exclusive'
  BY DEF Exclusive, Destroying, TypeOK, CallShape, Lifetimes, IInv, Labels,
     Units, Owned
<1>4. Lifetimes'
  BY DEF Lifetimes, Destroying, Owned, TypeOK, CallShape, IInv, Labels, Units
<1>5. MutexInv'
  BY DEF MutexInv, Inside, TypeOK, IInv, Labels, Units
<1>6. StillFits'
  BY DEF StillFits, TypeOK, MutexInv, IInv, UsedWithinCapacity, Labels, Units,
     Inside
<1>7. UsedWithinCapacity'
  BY DEF UsedWithinCapacity, TypeOK, IInv, StillFits, Labels, Units, Inside
<1>8. Conservation'
  <2>1. \A x \in Reservations : Released(x)' <=> Released(x)
    BY DEF Released, IInv, TypeOK
  <2>2. \A x \in Budgets : Refunded(x)' <=> Refunded(x)
    BY DEF Refunded, IInv, TypeOK
  <2> QED  BY <2>1, <2>2, HeldFrame DEF Conservation, IInv
<1>9. NoTerminate'
  BY DEF NoTerminate, TypeOK, IInv, Labels, Units
<1> QED  BY <1>1, <1>2, <1>3, <1>4, <1>5, <1>6, <1>7, <1>8, <1>9 DEF IInv

\* So does a move assignment to an active reservation.
LEMMA MoveAssignLockStep ==
  ASSUME IInv, NEW t \in Threads, NEW dst \in Reservations, NEW src \in Reservations,
         MoveAssignLock(t, dst, src)
  PROVE  IInv'
<1> USE BudgetAssumption DEF MoveAssignLock, Goto, Acquire, Claimed, budgetVars,
   resVars, callVars
<1>1. TypeOK'
  BY DEF TypeOK, Labels, Units, IInv
<1>2. CallShape'
  BY DEF CallShape, UsesHandle, HasKid, Releasing, TypeOK, IInv, Labels, Units,
     Destroying
<1>3. Exclusive'
  BY DEF Exclusive, Destroying, TypeOK, CallShape, Lifetimes, IInv, Labels,
     Units, Owned
<1>4. Lifetimes'
  BY DEF Lifetimes, Destroying, Owned, TypeOK, CallShape, IInv, Labels, Units
<1>5. MutexInv'
  BY DEF MutexInv, Inside, TypeOK, IInv, Labels, Units
<1>6. StillFits'
  BY DEF StillFits, TypeOK, MutexInv, IInv, UsedWithinCapacity, Labels, Units,
     Inside
<1>7. UsedWithinCapacity'
  BY DEF UsedWithinCapacity, TypeOK, IInv, StillFits, Labels, Units, Inside
<1>8. Conservation'
  <2>1. \A x \in Reservations : Released(x)' <=> Released(x)
    BY DEF Released, IInv, TypeOK
  <2>2. \A x \in Budgets : Refunded(x)' <=> Refunded(x)
    BY DEF Refunded, IInv, TypeOK
  <2> QED  BY <2>1, <2>2, HeldFrame DEF Conservation, IInv
<1>9. NoTerminate'
  BY DEF NoTerminate, TypeOK, IInv, Labels, Units
<1> QED  BY <1>1, <1>2, <1>3, <1>4, <1>5, <1>6, <1>7, <1>8, <1>9 DEF IInv

\* release() gives back exactly what the reservation holds.
LEMMA ReleaseDebitStep ==
  ASSUME IInv, NEW t \in Threads, ReleaseDebit(t)
  PROVE  IInv'
<1> USE BudgetAssumption DEF ReleaseDebit, Goto, Unlock, Terminate, budgetVars,
   resVars, callVars
<1> PICK q \in Budgets, r \in Reservations : r = slot[t] /\ q = state_[r]
  BY DEF IInv, TypeOK, CallShape, UsesHandle, HasKid, Releasing
<1>a. r \in Holders /\ ~Released(r) /\ Held(q)[r] = amount_[r]
  BY DEF Released, Held, Holders, IInv, TypeOK, CallShape, Exclusive
<1>b. /\ amount_[r] <= used[q] /\ amount_[r] \in Nat /\ used[q] \in Nat
      /\ used' = [used EXCEPT ![q] = @ - amount_[r]]
      /\ UNCHANGED <<live, capacity, parent, parent_amount, handle, state_, amount_>>
      /\ UNCHANGED <<on, amt, slot, from, kid>>
      /\ Unlock(q)
      /\ Goto(t, "release_reset")
  BY <1>a, HeldBound DEF IInv, TypeOK
<1>1. TypeOK'
  BY <1>a, <1>b DEF TypeOK, Labels, Units, IInv
<1>2. CallShape'
  BY <1>a, <1>b DEF CallShape, UsesHandle, HasKid, Releasing, TypeOK, IInv,
     Labels, Units, Destroying
<1>3. Exclusive'
  BY <1>a, <1>b DEF Exclusive, Destroying, TypeOK, CallShape, Lifetimes, IInv,
     Labels, Units, Owned
<1>4. Lifetimes'
  BY <1>a, <1>b DEF Lifetimes, Destroying, Owned, TypeOK, CallShape, IInv,
     Labels, Units
<1>5. MutexInv'
  BY <1>a, <1>b DEF MutexInv, Inside, TypeOK, IInv, Labels, Units
<1>6. StillFits'
  BY <1>a, <1>b DEF StillFits, TypeOK, MutexInv, IInv, UsedWithinCapacity,
     Labels, Units, Inside
<1>7. UsedWithinCapacity'
  BY <1>a, <1>b DEF UsedWithinCapacity, TypeOK, IInv, StillFits, Labels, Units,
     Inside
<1>8. Conservation'
  <2>1. \A o \in Reservations : Released(o)' <=> Released(o) \/ o = r
    BY <1>b DEF Released, IInv, TypeOK
  <2>2. \A o \in Budgets : Refunded(o)' <=> Refunded(o)
    BY <1>b DEF Refunded, IInv, TypeOK
  <2>3. Held(q)'[r] = 0
    BY <1>a, <1>b, <2>1, <2>2, BudgetAssumption DEF Held, Holders
  <2>4. \A o \in Holders \ {r} : Held(q)'[o] = Held(q)[o]
    BY <1>b, <2>1, <2>2 DEF Held, Holders, IInv, TypeOK
  <2>5. \A b \in Budgets \ {q} : Held(b)' = Held(b) /\ used'[b] = used[b]
    BY <1>a, <1>b, <2>1, <2>2 DEF Held, Holders, IInv, TypeOK
  <2>6. used'[q] = used[q] - Held(q)[r] + Held(q)'[r]
    BY <1>a, <1>b, <2>3 DEF IInv, TypeOK
  <2> QED  BY <1>1, <1>a, <2>4, <2>5, <2>6, HeldChange
<1>9. NoTerminate'
  BY <1>a, <1>b DEF NoTerminate, TypeOK, IInv, Labels, Units
<1> QED  BY <1>1, <1>2, <1>3, <1>4, <1>5, <1>6, <1>7, <1>8, <1>9 DEF IInv

\* The reset after it drops one owner and changes no holding.
LEMMA ReleaseResetStep ==
  ASSUME IInv, NEW t \in Threads, ReleaseReset(t)
  PROVE  IInv'
<1> USE BudgetAssumption DEF ReleaseReset, Goto, Dropped, Resume, Return,
   budgetVars, resVars, callVars
<1>1. TypeOK'
  <2> PICK q \in Budgets, r \in Reservations : r = slot[t] /\ q = state_[r]
    BY DEF IInv, TypeOK, CallShape, UsesHandle, HasKid, Releasing
  <2>1. Dropped(t, q)
    BY DEF ReleaseReset
  <2>2. /\ state_' \in [Reservations -> Budgets \cup {None}]
        /\ amount_' \in [Reservations -> 0..MaxUnits]
    BY DEF IInv, TypeOK
  <2> QED  BY <2>1, <2>2, DroppedType DEF IInv, TypeOK, CallTypes
<1>2. CallShape'
  BY DEF CallShape, UsesHandle, HasKid, Releasing, TypeOK, Exclusive, IInv,
     Labels, Units, Destroying
<1>3. Exclusive'
  BY DEF Exclusive, Destroying, TypeOK, CallShape, Lifetimes, IInv, Labels,
     Units, UsesHandle, HasKid, Releasing, Owned
<1>4. Lifetimes'
  <2> PICK q \in Budgets, r \in Reservations : r = slot[t] /\ q = state_[r]
    BY DEF IInv, TypeOK, CallShape, UsesHandle, HasKid, Releasing
  <2>1. \A b \in Budgets :
         Owned(b, handle', state_', parent', kid') => Owned(b, handle, state_, parent, kid)
    BY DEF IInv, TypeOK, CallShape, Lifetimes, Owned, Destroying
  <2>2. \A u \in Threads : Destroying(u)' =>
          on[u]' \in live' /\ ~Owned(on[u]', handle', state_', parent', kid')
    BY <2>1 DEF IInv, TypeOK, CallShape, Lifetimes, Owned, Destroying
  <2>3. \A u \in Threads : kid[u]' # None => kid[u]' = kid[u]
    BY DEF IInv, TypeOK
  <2> QED  BY <2>1, <2>2, <2>3 DEF Lifetimes, Owned, IInv, TypeOK
<1>5. MutexInv'
  <2>1. \A b \in Budgets : ~Inside(t, b) /\ ~Inside(t, b)'
    BY DEF Inside, IInv, TypeOK
  <2>2. \A u \in Threads \ {t} : /\ pc'[u] = pc[u] /\ on'[u] = on[u]
                                 /\ slot'[u] = slot[u]
    BY DEF IInv, TypeOK
  <2>3. \A u \in Threads \ {t} : slot[u] # slot[t]
    BY DEF IInv, Exclusive, CallShape, Releasing
  <2>4. \A u \in Threads \ {t} :
          pc[u] = "release_debit" => state_'[slot[u]] = state_[slot[u]]
    BY <2>3 DEF IInv, TypeOK, CallShape, Releasing
  <2>5. \A u \in Threads \ {t}, b \in Budgets : Inside(u, b)' <=> Inside(u, b)
    BY <2>2, <2>4 DEF Inside
  <2> QED  BY <2>1, <2>5 DEF IInv, MutexInv
<1>6. StillFits'
  BY DEF StillFits, TypeOK, MutexInv, IInv, UsedWithinCapacity, Labels, Units,
     Inside
<1>7. UsedWithinCapacity'
  BY DEF UsedWithinCapacity, TypeOK, IInv, StillFits, Labels, Units, Inside
<1>8. Conservation'
  <2> PICK r \in Reservations : r = slot[t]
    BY DEF IInv, TypeOK, CallShape, UsesHandle, HasKid, Releasing
  <2>1. Released(r)
    BY DEF Released, IInv, TypeOK
  <2>2. \A x \in Reservations \ {r} : Released(x)' <=> Released(x)
    BY DEF Released, IInv, TypeOK
  <2>3. \A x \in Budgets : Refunded(x)' <=> Refunded(x)
    BY DEF Refunded, IInv, TypeOK
  <2>4. \A b \in Budgets : Held(b)' = Held(b)
    BY <2>1, <2>2, <2>3, BudgetAssumption DEF Held, Holders, IInv, TypeOK
  <2> QED  BY <2>4 DEF Conservation, IInv
<1>9. NoTerminate'
  BY DEF NoTerminate, TypeOK, IInv, Labels, Units
<1> QED  BY <1>1, <1>2, <1>3, <1>4, <1>5, <1>6, <1>7, <1>8, <1>9 DEF IInv

\* A move passes a holding on: the total stays what it was.
LEMMA MoveConstructStep ==
  ASSUME IInv, NEW t \in Threads, NEW dst \in Reservations, NEW src \in Reservations,
         MoveConstruct(t, dst, src)
  PROVE  IInv'
<1> USE BudgetAssumption DEF MoveConstruct, Goto, Claimed, Transfer, budgetVars,
   resVars, callVars
<1>1. TypeOK'
  BY DEF TypeOK, Labels, Units, IInv
<1>2. CallShape'
  BY DEF CallShape, UsesHandle, HasKid, Releasing, TypeOK, IInv, Labels, Units,
     Destroying
<1>3. Exclusive'
  BY DEF Exclusive, Destroying, TypeOK, CallShape, Lifetimes, IInv, Labels,
     Units, Owned
<1>4. Lifetimes'
  BY DEF Lifetimes, Destroying, Owned, TypeOK, CallShape, IInv, Labels, Units
<1>5. MutexInv'
  BY DEF MutexInv, Inside, TypeOK, CallShape, IInv, Labels, Units, UsesHandle,
     HasKid, Releasing
<1>6. StillFits'
  BY DEF StillFits, TypeOK, MutexInv, IInv, UsedWithinCapacity, Labels, Units,
     Inside
<1>7. UsedWithinCapacity'
  BY DEF UsedWithinCapacity, TypeOK, IInv, StillFits, Labels, Units, Inside
<1>8. Conservation'
  <2> PICK d \in Reservations, s \in Reservations : d = dst /\ s = src
    BY DEF IInv, TypeOK
  <2>1. d # s /\ state_[d] = None /\ ~Released(d) /\ ~Released(s)
    BY DEF Released, IInv, TypeOK
  <2>2. \A o \in Reservations : Released(o)' <=> Released(o)
    BY DEF Released, IInv, TypeOK
  <2>3. \A o \in Budgets : Refunded(o)' <=> Refunded(o)
    BY DEF Refunded, IInv, TypeOK
  <2> SUFFICES ASSUME NEW b \in Budgets
               PROVE  Total(Held(b)') = Total(Held(b))
    BY DEF Conservation, IInv
  <2> DEFINE h == Held(b)
             m == [h EXCEPT ![s] = 0]
             g == Held(b)'
  <2>a. d \in Holders /\ s \in Holders /\ 0 \in 0..MaxUnits
    BY BudgetAssumption DEF Holders
  <2>b. /\ h \in [Holders -> 0..MaxUnits]
        /\ g \in [Holders -> 0..MaxUnits]
    BY <1>1, HeldType, HeldTypeNext DEF IInv
  <2>5. h[d] = 0 /\ g[s] = 0 /\ g[d] = h[s]
    BY <2>1, <2>2, <2>3, BudgetAssumption DEF Held, Holders, IInv, TypeOK
  <2>6. \A o \in Holders \ {d, s} : g[o] = h[o]
    BY <2>2, <2>3 DEF Held, Holders, IInv, TypeOK
  <2> HIDE DEF h, g
  <2>4. /\ m \in [Holders -> 0..MaxUnits]
        /\ \A o \in Holders \ {s} : m[o] = h[o]
        /\ m[s] = 0 /\ h[s] \in Nat
    BY <2>a, <2>b
  <2> HIDE DEF m
  <2>7. Total(m) = Total(h) - h[s] + m[s] /\ Total(h) \in Nat
    BY <2>a, <2>b, <2>4, TotalUpdate
  <2>8. \A o \in Holders \ {d} : g[o] = m[o]
    BY <2>4, <2>5, <2>6
  <2>9. m[d] = 0
    BY <2>1, <2>a, <2>4, <2>5
  <2>10. Total(g) = Total(m) - m[d] + g[d]
    BY <2>a, <2>b, <2>4, <2>8, TotalUpdate
  <2> QED  BY <2>4, <2>5, <2>7, <2>9, <2>10 DEF h, g
<1>9. NoTerminate'
  BY DEF NoTerminate, TypeOK, IInv, Labels, Units
<1> QED  BY <1>1, <1>2, <1>3, <1>4, <1>5, <1>6, <1>7, <1>8, <1>9 DEF IInv

\* So does the second half of a move assignment.
LEMMA MoveAssignStep ==
  ASSUME IInv, NEW t \in Threads, MoveAssign(t)
  PROVE  IInv'
<1> USE BudgetAssumption DEF MoveAssign, Goto, Transfer, Return, budgetVars,
   resVars, callVars
<1>1. TypeOK'
  BY DEF TypeOK, Labels, Units, IInv, CallShape, UsesHandle, HasKid, Releasing
<1>2. CallShape'
  BY DEF CallShape, UsesHandle, HasKid, Releasing, TypeOK, Exclusive, IInv,
     Labels, Units, Destroying
<1>3. Exclusive'
  BY DEF Exclusive, Destroying, TypeOK, CallShape, Lifetimes, IInv, Labels,
     Units, Owned
<1>4. Lifetimes'
  <2> PICK d \in Reservations, s \in Reservations : d = slot[t] /\ s = from[t]
    BY DEF IInv, TypeOK, CallShape
  <2>1. UNCHANGED <<budgetVars, handle>> /\ kid' = kid
    BY DEF IInv, TypeOK, CallShape, HasKid
  <2>2. /\ state_'[d] \in {state_[s], None} /\ state_'[s] = None
        /\ \A r \in Reservations \ {d, s} : state_'[r] = state_[r]
    BY DEF IInv, TypeOK
  <2>3. \A u \in Threads : Destroying(u)' => Destroying(u) /\ on'[u] = on[u]
    BY DEF IInv, TypeOK, Destroying
  <2>4. live \subseteq Budgets /\ Lifetimes
    BY DEF IInv, TypeOK
  <2> HIDE DEF MoveAssign, Goto, Transfer, Return
  <2>5. \A b \in Budgets, r \in Reservations :
          state_'[r] = b => \E q \in Reservations : state_[q] = b
    BY <2>2
  <2>6. \A b \in Budgets : \A k :
          Owned(b, handle', state_', parent', k) => Owned(b, handle, state_, parent, k)
    BY <2>1, <2>5 DEF Owned
  <2>7. \A r \in Reservations : state_'[r] # None => state_'[r] \in live'
    BY <2>1, <2>2, <2>4 DEF Lifetimes
  <2>8. \A u \in Threads : Destroying(u)' =>
          on'[u] \in live' /\ ~Owned(on'[u], handle', state_', parent', kid')
    BY <2>1, <2>3, <2>4, <2>6 DEF Lifetimes
  <2>9. \A u \in Threads : kid'[u] # None =>
          /\ kid'[u] \in live'
          /\ parent'[kid'[u]] = None
          /\ used'[kid'[u]] = 0
          /\ ~Owned(kid'[u], handle', state_', parent', [v \in Threads |-> None])
    BY <2>1, <2>4, <2>6 DEF Lifetimes
  <2> QED  BY <2>1, <2>4, <2>7, <2>8, <2>9 DEF Lifetimes
<1>5. MutexInv'
  BY DEF MutexInv, Inside, TypeOK, CallShape, IInv, Labels, Units, UsesHandle,
     HasKid, Releasing, Exclusive
<1>6. StillFits'
  BY DEF StillFits, TypeOK, MutexInv, IInv, UsedWithinCapacity, Labels, Units,
     Inside
<1>7. UsedWithinCapacity'
  BY DEF UsedWithinCapacity, TypeOK, IInv, StillFits, Labels, Units, Inside
<1>8. Conservation'
  <2> PICK d \in Reservations, s \in Reservations : d = slot[t] /\ s = from[t]
    BY DEF IInv, TypeOK, CallShape
  <2>1. d # s /\ state_[d] = None /\ ~Released(d) /\ ~Released(s)
    BY DEF Released, IInv, TypeOK, CallShape, Exclusive, UsesHandle, HasKid,
       Releasing
  <2>2. \A o \in Reservations : Released(o)' <=> Released(o)
    BY DEF Released, IInv, TypeOK
  <2>3. \A o \in Budgets : Refunded(o)' <=> Refunded(o)
    BY DEF Refunded, IInv, TypeOK
  <2> SUFFICES ASSUME NEW b \in Budgets
               PROVE  Total(Held(b)') = Total(Held(b))
    BY DEF Conservation, IInv
  <2> DEFINE h == Held(b)
             m == [h EXCEPT ![s] = 0]
             g == Held(b)'
  <2>a. d \in Holders /\ s \in Holders /\ 0 \in 0..MaxUnits
    BY BudgetAssumption DEF Holders
  <2>b. /\ h \in [Holders -> 0..MaxUnits]
        /\ g \in [Holders -> 0..MaxUnits]
    BY <1>1, HeldType, HeldTypeNext DEF IInv
  <2>5. h[d] = 0 /\ g[s] = 0 /\ g[d] = h[s]
    BY <2>1, <2>2, <2>3, BudgetAssumption DEF Held, Holders, IInv, TypeOK
  <2>6. \A o \in Holders \ {d, s} : g[o] = h[o]
    BY <2>2, <2>3 DEF Held, Holders, IInv, TypeOK
  <2> HIDE DEF h, g
  <2>4. /\ m \in [Holders -> 0..MaxUnits]
        /\ \A o \in Holders \ {s} : m[o] = h[o]
        /\ m[s] = 0 /\ h[s] \in Nat
    BY <2>a, <2>b
  <2> HIDE DEF m
  <2>7. Total(m) = Total(h) - h[s] + m[s] /\ Total(h) \in Nat
    BY <2>a, <2>b, <2>4, TotalUpdate
  <2>8. \A o \in Holders \ {d} : g[o] = m[o]
    BY <2>4, <2>5, <2>6
  <2>9. m[d] = 0
    BY <2>1, <2>a, <2>4, <2>5
  <2>10. Total(g) = Total(m) - m[d] + g[d]
    BY <2>a, <2>b, <2>4, <2>8, TotalUpdate
  <2> QED  BY <2>4, <2>5, <2>7, <2>9, <2>10 DEF h, g
<1>9. NoTerminate'
  BY DEF NoTerminate, TypeOK, IInv, Labels, Units
<1> QED  BY <1>1, <1>2, <1>3, <1>4, <1>5, <1>6, <1>7, <1>8, <1>9 DEF IInv

\* The destructor of a child enters the critical section of its parent.
LEMMA DestroyLockStep ==
  ASSUME IInv, NEW t \in Threads, DestroyLock(t)
  PROVE  IInv'
<1> USE BudgetAssumption DEF DestroyLock, Goto, Acquire, budgetVars, resVars,
   callVars
<1>1. TypeOK'
  BY DEF TypeOK, Labels, Units, IInv
<1>2. CallShape'
  BY DEF CallShape, UsesHandle, HasKid, Releasing, TypeOK, IInv, Labels, Units,
     Destroying
<1>3. Exclusive'
  BY DEF Exclusive, Destroying, TypeOK, CallShape, Lifetimes, IInv, Labels,
     Units, Owned
<1>4. Lifetimes'
  BY DEF Lifetimes, Destroying, Owned, TypeOK, CallShape, IInv, Labels, Units
<1>5. MutexInv'
  BY DEF MutexInv, Inside, TypeOK, IInv, Labels, Units
<1>6. StillFits'
  BY DEF StillFits, TypeOK, MutexInv, IInv, UsedWithinCapacity, Labels, Units,
     Inside
<1>7. UsedWithinCapacity'
  BY DEF UsedWithinCapacity, TypeOK, IInv, StillFits, Labels, Units, Inside
<1>8. Conservation'
  <2>1. \A x \in Reservations : Released(x)' <=> Released(x)
    BY DEF Released, IInv, TypeOK
  <2>2. \A x \in Budgets : Refunded(x)' <=> Refunded(x)
    BY DEF Refunded, IInv, TypeOK
  <2> QED  BY <2>1, <2>2, HeldFrame DEF Conservation, IInv
<1>9. NoTerminate'
  BY DEF NoTerminate, TypeOK, IInv, Labels, Units
<1> QED  BY <1>1, <1>2, <1>3, <1>4, <1>5, <1>6, <1>7, <1>8, <1>9 DEF IInv

\* The refund gives back exactly what the child holds.
LEMMA RefundStep ==
  ASSUME IInv, NEW t \in Threads, Refund(t)
  PROVE  IInv'
<1> USE BudgetAssumption DEF Refund, Goto, Unlock, Terminate, budgetVars,
   resVars, callVars
<1> PICK q \in Budgets, c \in Budgets : c = on[t] /\ q = parent[c]
  BY DEF IInv, TypeOK, CallShape, Lifetimes, Owned, Destroying
<1>a. c \in Holders /\ ~Refunded(c) /\ Held(q)[c] = parent_amount[c]
  BY DEF Refunded, Held, Holders, IInv, TypeOK, CallShape, Exclusive, Lifetimes,
     Owned, Destroying
<1>b. /\ parent_amount[c] <= used[q] /\ parent_amount[c] \in Nat /\ used[q] \in Nat
      /\ used' = [used EXCEPT ![q] = @ - parent_amount[c]]
      /\ UNCHANGED <<live, capacity, parent, parent_amount, handle, state_, amount_>>
      /\ UNCHANGED <<on, amt, slot, from, kid>>
      /\ Unlock(q)
      /\ Goto(t, "free")
  BY <1>a, HeldBound DEF IInv, TypeOK
<1>1. TypeOK'
  BY <1>a, <1>b DEF TypeOK, Labels, Units, IInv
<1>2. CallShape'
  BY <1>a, <1>b DEF CallShape, UsesHandle, HasKid, Releasing, TypeOK, IInv,
     Labels, Units, Destroying
<1>3. Exclusive'
  BY <1>a, <1>b DEF Exclusive, Destroying, TypeOK, CallShape, Lifetimes, IInv,
     Labels, Units, Owned
<1>4. Lifetimes'
  BY <1>a, <1>b DEF Lifetimes, Destroying, Owned, TypeOK, CallShape, IInv,
     Labels, Units
<1>5. MutexInv'
  BY <1>a, <1>b DEF MutexInv, Inside, TypeOK, IInv, Labels, Units
<1>6. StillFits'
  BY <1>a, <1>b DEF StillFits, TypeOK, MutexInv, IInv, UsedWithinCapacity,
     Labels, Units, Inside
<1>7. UsedWithinCapacity'
  BY <1>a, <1>b DEF UsedWithinCapacity, TypeOK, IInv, StillFits, Labels, Units,
     Inside
<1>8. Conservation'
  <2>1. \A o \in Budgets : Refunded(o)' <=> Refunded(o) \/ o = c
    BY <1>b DEF Refunded, IInv, TypeOK
  <2>2. \A o \in Reservations : Released(o)' <=> Released(o)
    BY <1>b DEF Released, IInv, TypeOK
  <2>3. Held(q)'[c] = 0
    BY <1>a, <1>b, <2>1, <2>2, BudgetAssumption DEF Held, Holders
  <2>4. \A o \in Holders \ {c} : Held(q)'[o] = Held(q)[o]
    BY <1>b, <2>1, <2>2 DEF Held, Holders, IInv, TypeOK
  <2>5. \A b \in Budgets \ {q} : Held(b)' = Held(b) /\ used'[b] = used[b]
    BY <1>a, <1>b, <2>1, <2>2 DEF Held, Holders, IInv, TypeOK
  <2>6. used'[q] = used[q] - Held(q)[c] + Held(q)'[c]
    BY <1>a, <1>b, <2>3 DEF IInv, TypeOK
  <2> QED  BY <1>1, <1>a, <2>4, <2>5, <2>6, HeldChange
<1>9. NoTerminate'
  BY <1>a, <1>b DEF NoTerminate, TypeOK, IInv, Labels, Units
<1> QED  BY <1>1, <1>2, <1>3, <1>4, <1>5, <1>6, <1>7, <1>8, <1>9 DEF IInv

\* Freeing a state nobody owns touches nobody, and drops its reference to its
\* parent.
LEMMA FreeStep ==
  ASSUME IInv, NEW t \in Threads, Free(t)
  PROVE  IInv'
<1> USE BudgetAssumption DEF Free, Goto, Dropped, Resume, Return, budgetVars,
   resVars, callVars
<1>1. TypeOK'
  <2> PICK c \in Budgets : c = on[t]
    BY DEF IInv, TypeOK, Lifetimes, Destroying
  <2>1. /\ live' \subseteq Budgets
        /\ capacity' \in [Budgets -> 0..MaxUnits]
        /\ used' \in [Budgets -> Nat]
        /\ parent' \in [Budgets -> Budgets \cup {None}]
        /\ parent_amount' \in [Budgets -> 0..MaxUnits]
    BY DEF IInv, TypeOK
  <2>2. CASE parent[c] = None
    <3>1. Resume(t) /\ UNCHANGED <<mutex, handle, state_, amount_>>
      BY <2>2 DEF Free
    <3>2. TypeOK
      BY DEF IInv
    <3> HIDE DEF Resume
    <3> QED  BY <2>1, <3>1, <3>2, ResumeType DEF TypeOK, CallTypes
  <2>3. CASE parent[c] # None
    <3> PICK p \in Budgets : p = parent[c]
      BY <2>3 DEF IInv, TypeOK
    <3>1. Dropped(t, p)
      BY <2>3 DEF Free
    <3>2. UNCHANGED <<mutex, handle, state_, amount_>>
      OBVIOUS
    <3>3. TypeOK
      BY DEF IInv
    <3> HIDE DEF Dropped
    <3> QED  BY <2>1, <3>1, <3>2, <3>3, DroppedType DEF TypeOK, CallTypes
  <2> QED  BY <2>2, <2>3
<1>2. CallShape'
  BY DEF CallShape, UsesHandle, HasKid, Releasing, TypeOK, Exclusive, IInv,
     Labels, Units, Destroying
<1>3. Exclusive'
  BY DEF Exclusive, Destroying, TypeOK, CallShape, Lifetimes, IInv, Labels,
     Units, Owned
<1>4. Lifetimes'
  <2> PICK c \in Budgets : c = on[t]
    BY DEF IInv, TypeOK, Lifetimes, Destroying
  <2>0. c \in live /\ ~Owned(c, handle, state_, parent, kid)
    BY DEF IInv, Lifetimes, Destroying
  <2>1. \A b \in Budgets :
         Owned(b, handle', state_', parent', kid') => Owned(b, handle, state_, parent, kid)
    BY DEF IInv, TypeOK, CallShape, Lifetimes, Owned, Destroying
  <2>2. \A u \in Threads : Destroying(u)' =>
          on[u]' \in live' /\ ~Owned(on[u]', handle', state_', parent', kid')
    <3> SUFFICES ASSUME NEW u \in Threads, Destroying(u)'
                 PROVE  on[u]' \in live' /\ ~Owned(on[u]', handle', state_', parent', kid')
      OBVIOUS
    <3>1. CASE u = t
      BY <2>0, <3>1 DEF IInv, TypeOK, CallShape, Lifetimes, Owned, Destroying
    <3>2. CASE u # t
      BY <2>0, <2>1, <3>2 DEF IInv, TypeOK, CallShape, Exclusive, Lifetimes,
         Owned, Destroying
    <3> QED  BY <3>1, <3>2
  <2>3. \A u \in Threads : kid[u]' # None => kid[u]' = kid[u]
    BY DEF IInv, TypeOK
  <2> QED  BY <2>0, <2>1, <2>2, <2>3 DEF Lifetimes, Owned, IInv, TypeOK
<1>5. MutexInv'
  <2>1. pc[t] \in {"destroy", "free"} /\ pc'[t] \in {"idle", "assign", "destroy"}
    BY DEF IInv, TypeOK
  <2>2. \A b \in Budgets : ~Inside(t, b) /\ ~Inside(t, b)'
    BY <2>1 DEF Inside
  <2>3. \A u \in Threads \ {t} : /\ pc'[u] = pc[u] /\ on'[u] = on[u]
                                 /\ slot'[u] = slot[u]
    BY DEF IInv, TypeOK
  <2>4. \A u \in Threads \ {t} : pc[u] = "refund" => parent'[on[u]] = parent[on[u]]
    BY <2>1 DEF IInv, TypeOK, CallShape, Exclusive, Destroying
  <2>5. UNCHANGED <<state_, mutex>>
    OBVIOUS
  <2> HIDE DEF Free, Goto, Dropped, Resume, Return
  <2>6. \A u \in Threads \ {t}, b \in Budgets : Inside(u, b)' <=> Inside(u, b)
    <3> TAKE u \in Threads \ {t}, b \in Budgets
    <3>1. pc[u] = "refund" \/ (Inside(u, b)' <=> Inside(u, b))
      BY <2>3, <2>5 DEF Inside
    <3>2. pc[u] = "refund" => (Inside(u, b)' <=> Inside(u, b))
      BY <2>3, <2>4, <2>5 DEF Inside
    <3> QED  BY <3>1, <3>2
  <2> QED  BY <2>2, <2>5, <2>6 DEF IInv, MutexInv
<1>6. StillFits'
  <2> SUFFICES ASSUME NEW u \in Threads, pc'[u] \in {"reserve_charge", "child_charge"}
               PROVE  amt'[u] <= capacity'[on'[u]] - used'[on'[u]]
    BY DEF StillFits
  <2>1. u # t /\ pc[u] \in {"reserve_charge", "child_charge"}
    BY DEF IInv, TypeOK
  <2>2. amt'[u] = amt[u] /\ on'[u] = on[u]
    BY <2>1 DEF IInv, TypeOK
  <2>3. Owned(on[u], handle, state_, parent, kid) /\ on[u] \in Budgets
    BY <2>1 DEF IInv, TypeOK, CallShape, UsesHandle, Owned
  <2>4. on[u] # on[t]
    BY <2>3 DEF IInv, Lifetimes, Destroying
  <2>5. capacity'[on[u]] = capacity[on[u]] /\ used'[on[u]] = used[on[u]]
    BY <2>3, <2>4 DEF IInv, TypeOK
  <2>6. amt[u] <= capacity[on[u]] - used[on[u]]
    BY <2>1 DEF IInv, StillFits
  <2> QED  BY <2>2, <2>5, <2>6
<1>7. UsedWithinCapacity'
  BY DEF UsedWithinCapacity, TypeOK, IInv, StillFits, Labels, Units, Inside
<1>8. Conservation'
  <2> PICK c \in Budgets : c = on[t]
    BY DEF IInv, TypeOK, Lifetimes, Destroying
  <2>1. ~Owned(c, handle, state_, parent, kid)
    BY DEF IInv, TypeOK, Lifetimes, Destroying
  <2>2. \A x \in Reservations : Released(x)' <=> Released(x)
    BY DEF Released, IInv, TypeOK
  <2>3. \A x \in Budgets \ {c} : Refunded(x)' <=> Refunded(x)
    <3>1. pc'[t] # "free"
      BY DEF IInv, TypeOK
    <3>2. \A u \in Threads \ {t} : pc'[u] = pc[u] /\ on'[u] = on[u]
      BY DEF IInv, TypeOK
    <3> HIDE DEF Free, Goto, Dropped, Resume, Return
    <3> QED  BY <3>1, <3>2 DEF Refunded
  <2>4. \A x \in Holders : Held(c)'[x] = 0
    <3>1. \A x \in Reservations : state_'[x] # c
      BY <2>1 DEF Owned
    <3>2. \A x \in Budgets : parent'[x] # c
      BY <2>1 DEF Owned, IInv, TypeOK
    <3> HIDE DEF Free, Goto, Dropped, Resume, Return
    <3>3. \A x \in Reservations : Held(c)'[x] = 0
      BY <3>1 DEF Held, Holders
    <3>4. \A x \in Budgets : Held(c)'[x] = 0
      BY <3>2 DEF Held, Holders
    <3> QED  BY <3>3, <3>4 DEF Holders
  <2>5. parent[c] = None \/ Refunded(c) \/ parent_amount[c] = 0
    BY DEF Refunded
  <2>6. \A b \in Budgets \ {c} : Held(b)' = Held(b)
    BY <2>1, <2>2, <2>3, <2>5 DEF Held, Holders, IInv, TypeOK
  <2>7. Total(Held(c)') = 0
    BY <2>4, TotalZero
  <2> QED  BY <2>1, <2>6, <2>7 DEF Conservation, IInv, TypeOK
<1>9. NoTerminate'
  BY DEF NoTerminate, TypeOK, IInv, Labels, Units
<1> QED  BY <1>1, <1>2, <1>3, <1>4, <1>5, <1>6, <1>7, <1>8, <1>9 DEF IInv

-----------------------------------------------------------------------------
(* The theorems.                                                           *)

\* At the start nothing is live and nothing is held.
LEMMA InitStep ==
  Init => IInv
<1> SUFFICES ASSUME Init PROVE IInv
  OBVIOUS
<1> USE BudgetAssumption DEF Init
<1>1. TypeOK
  BY DEF TypeOK, Labels
<1>2. CallShape /\ Exclusive /\ Lifetimes
  BY DEF CallShape, Exclusive, Lifetimes, UsesHandle, HasKid, Releasing,
     Destroying, Owned
<1>3. MutexInv /\ StillFits /\ UsedWithinCapacity /\ NoTerminate
  BY DEF MutexInv, Inside, StillFits, UsedWithinCapacity, NoTerminate
<1>4. Conservation
  <2>1. \A b \in Budgets : \A x \in Holders : Held(b)[x] = 0
    BY DEF Held, Holders
  <2> QED  BY <2>1, TotalZero DEF Conservation
<1> QED  BY <1>1, <1>2, <1>3, <1>4 DEF IInv

\* Every step of every thread, and stuttering, preserves the invariant.
LEMMA NextStep ==
  IInv /\ [Next]_vars => IInv'
<1> SUFFICES ASSUME IInv, [Next]_vars PROVE IInv'
  OBVIOUS
<1>1. CASE UNCHANGED vars
  <2> USE <1>1 DEF vars, budgetVars, resVars, callVars
  <2>1. TypeOK' /\ StillFits' /\ UsedWithinCapacity' /\ NoTerminate'
    BY DEF IInv, TypeOK, StillFits, UsedWithinCapacity, NoTerminate
  <2>2. CallShape' /\ Exclusive'
    BY DEF IInv, CallShape, Exclusive, UsesHandle, HasKid, Releasing, Destroying
  <2>3. Lifetimes'
    BY DEF IInv, Lifetimes, Destroying, Owned
  <2>4. MutexInv'
    BY DEF IInv, MutexInv, Inside
  <2>5. Conservation'
    BY DEF IInv, Conservation, Held, Released, Refunded
  <2> QED  BY <2>1, <2>2, <2>3, <2>4, <2>5 DEF IInv
<1>2. ASSUME NEW t \in Threads, NewWork(t)
      PROVE  IInv'
  BY <1>2, CreateRootStep, CreateChildStep, ReserveLockStep, QueryLockStep,
     CopyHandleStep, MoveConstructStep, MoveAssignLockStep DEF NewWork
<1>3. ASSUME NEW t \in Threads, ScopeExit(t)
      PROVE  IInv'
  BY <1>3, DropHandleStep, ReleaseLockStep DEF ScopeExit
<1>4. ASSUME NEW t \in Threads, Continue(t)
      PROVE  IInv'
  BY <1>4, QueryReadStep, ReserveFitsStep, ReserveFailsStep, ReserveChargeStep,
     ChildAllocStep, ChildAllocFailsStep, ChildLockStep, ChildFitsStep, ChildFailsStep,
     ChildChargeStep, ReleaseDebitStep, ReleaseResetStep, MoveAssignStep,
     DestroyLockStep, RefundStep, FreeStep DEF Continue
<1> QED  BY <1>1, <1>2, <1>3, <1>4 DEF Next

\* The invariant holds in every reachable state.
LEMMA Invariance ==
  Spec => []IInv
BY InitStep, NextStep, PTL DEF Spec

\* Every variable keeps its type in every execution.
THEOREM TypeCorrect ==
  Spec => []TypeOK
BY Invariance, PTL DEF IInv

\* No interleaving of reserve, create_child, release and destructors charges
\* a budget beyond its capacity.
THEOREM CapacityRespected ==
  Spec => []UsedWithinCapacity
BY Invariance, PTL DEF IInv

\* The used counter always equals what live reservations and children hold:
\* charges are neither leaked nor given back twice.
THEOREM AccountingExact ==
  Spec => []Conservation
BY Invariance, PTL DEF IInv

\* The std::terminate() calls of the accounting code are unreachable.
THEOREM TerminateUnreachable ==
  Spec => []NoTerminate
BY Invariance, PTL DEF IInv

\* No pointer, call or mutex refers to a destroyed budget state.
THEOREM NothingDangles ==
  Spec => []NoDangling
<1>1. IInv => NoDangling
  <2> SUFFICES ASSUME IInv PROVE NoDangling
    OBVIOUS
  <2> USE BudgetAssumption DEF IInv, TypeOK
  <2>1. \A t \in Threads :
          handle[t] \subseteq live /\ {on[t], kid[t]} \subseteq live \cup {None}
    BY DEF Lifetimes, CallShape, UsesHandle
  <2>2. \A r \in Reservations : state_[r] \in live \cup {None}
    BY DEF Lifetimes
  <2>3. \A b \in Budgets : parent[b] \in live \cup {None}
    BY DEF Lifetimes
  <2>4. \A b \in Budgets \ live, t \in Threads : ~Inside(t, b)
    BY <2>1, <2>2, <2>3 DEF Inside, CallShape, Releasing, Lifetimes, Destroying
  <2>5. \A b \in Budgets \ live : mutex[b] = None
    BY <2>4 DEF MutexInv
  <2> QED  BY <2>1, <2>2, <2>3, <2>4, <2>5 DEF NoDangling
<1> QED  BY <1>1, Invariance, PTL

-----------------------------------------------------------------------------
(* The ledger.                                                             *)

\* The entries of the ledger, one at a time.
Limit(b) == IF OnBooks(b) THEN capacity[b] ELSE 0
Funder(b) == IF OnBooks(b) THEN parent[b] ELSE None
ClaimOf(r) == IF state_[r] # None /\ ~Released(r) THEN <<state_[r], amount_[r]>> ELSE <<None, 0>>

\* Nothing on the books changes.
LEMMA LedgerStutter ==
  ASSUME UNCHANGED used,
         \A b \in Budgets : Limit(b)' = Limit(b) /\ Funder(b)' = Funder(b),
         \A r \in Reservations : ClaimOf(r)' = ClaimOf(r)
  PROVE  UNCHANGED Ledger!vars
<1>1. /\ [b \in Budgets |-> Limit(b)]' = [b \in Budgets |-> Limit(b)]
      /\ [b \in Budgets |-> Funder(b)]' = [b \in Budgets |-> Funder(b)]
      /\ [r \in Reservations |-> ClaimOf(r)]' = [r \in Reservations |-> ClaimOf(r)]
  OBVIOUS
<1> QED
  BY <1>1 DEF Ledger!vars, Limit, Funder, ClaimOf

\* An account nobody draws on goes off the books, its capacity back to its
\* funder.
LEMMA LedgerClose ==
  ASSUME NEW a \in Budgets, used \in [Budgets -> Nat], used' \in [Budgets -> Nat],
         Limit(a) # 0, Limit(a)' = 0, Funder(a)' = None,
         \A b \in Budgets \ {a} : Limit(b)' = Limit(b) /\ Funder(b)' = Funder(b),
         \A r \in Reservations : ClaimOf(r)' = ClaimOf(r) /\ ClaimOf(r)[1] # a,
         \A b \in Budgets : Funder(b) # a,
         \A b \in Budgets : used'[b] = IF b = Funder(a) THEN used[b] - Limit(a) ELSE used[b]
  PROVE  Ledger!Close(a)
<1> DEFINE limit == [b \in Budgets |-> Limit(b)]
           funder == [b \in Budgets |-> Funder(b)]
           claim == [r \in Reservations |-> ClaimOf(r)]
<1>1. limit' = [limit EXCEPT ![a] = 0]
  <2>1. \A b \in Budgets : Limit(b)' = IF b = a THEN 0 ELSE Limit(b)
    OBVIOUS
  <2> QED
    BY <2>1
<1>2. funder' = [funder EXCEPT ![a] = None]
  OBVIOUS
<1>3. claim' = claim
  OBVIOUS
<1>4. used' = [b \in Budgets |-> IF b = funder[a] THEN used[b] - limit[a] ELSE used[b]]
  <2>1. funder[a] = Funder(a) /\ limit[a] = Limit(a)
    OBVIOUS
  <2> HIDE DEF funder, limit
  <2> QED
    BY <2>1
<1>5. /\ limit[a] # 0
      /\ \A r \in Reservations : claim[r][1] # a
      /\ \A b \in Budgets : funder[b] # a
  OBVIOUS
<1> HIDE DEF limit, funder, claim
<1> QED
  BY <1>1, <1>2, <1>3, <1>4, <1>5
     DEF Ledger!Close, Ledger!Open, limit, funder, claim, Limit, Funder, ClaimOf

\* A new root goes on the books.
LEMMA LedgerOpenRoot ==
  ASSUME NEW a \in Budgets, NEW n \in Units, UNCHANGED used,
         Limit(a) = 0, Limit(a)' = n,
         \A b \in Budgets \ {a} : Limit(b)' = Limit(b),
         \A b \in Budgets : Funder(b)' = Funder(b),
         \A r \in Reservations : ClaimOf(r)' = ClaimOf(r)
  PROVE  Ledger!OpenRoot(a, n)
<1> DEFINE limit == [b \in Budgets |-> Limit(b)]
           funder == [b \in Budgets |-> Funder(b)]
           claim == [r \in Reservations |-> ClaimOf(r)]
<1>1. limit' = [limit EXCEPT ![a] = n]
  <2>1. \A b \in Budgets : Limit(b)' = IF b = a THEN n ELSE Limit(b)
    OBVIOUS
  <2> QED
    BY <2>1
<1>2. funder' = funder /\ claim' = claim /\ limit[a] = 0
  OBVIOUS
<1> HIDE DEF limit, funder, claim
<1> QED
  BY <1>1, <1>2
     DEF Ledger!OpenRoot, Ledger!Open, limit, funder, claim, Limit, Funder, ClaimOf

\* A new child goes on the books, charged to its funder.
LEMMA LedgerFund ==
  ASSUME NEW p \in Budgets, NEW a \in Budgets, NEW n \in Units,
         Limit(p) # 0, Limit(a) = 0, n <= Limit(p) - used[p],
         Limit(a)' = n, Funder(a)' = p,
         \A b \in Budgets \ {a} : Limit(b)' = Limit(b) /\ Funder(b)' = Funder(b),
         \A r \in Reservations : ClaimOf(r)' = ClaimOf(r),
         used' = [used EXCEPT ![p] = @ + n]
  PROVE  Ledger!Fund(p, a, n)
<1> DEFINE limit == [b \in Budgets |-> Limit(b)]
           funder == [b \in Budgets |-> Funder(b)]
           claim == [r \in Reservations |-> ClaimOf(r)]
<1>1. limit' = [limit EXCEPT ![a] = n]
  <2>1. \A b \in Budgets : Limit(b)' = IF b = a THEN n ELSE Limit(b)
    OBVIOUS
  <2> QED
    BY <2>1
<1>2. funder' = [funder EXCEPT ![a] = p]
  OBVIOUS
<1>3. claim' = claim /\ limit[a] = 0 /\ limit[p] # 0 /\ n <= limit[p] - used[p]
  OBVIOUS
<1> HIDE DEF limit, funder, claim
<1> QED
  BY <1>1, <1>2, <1>3
     DEF Ledger!Fund, Ledger!Open, Ledger!Free, limit, funder, claim, Limit, Funder, ClaimOf

\* A reservation goes on the books, charged to its account.
LEMMA LedgerGrant ==
  ASSUME NEW k \in Reservations, NEW a \in Budgets, NEW n \in Units,
         Limit(a) # 0, ClaimOf(k) = <<None, 0>>, n <= Limit(a) - used[a],
         ClaimOf(k)' = <<a, n>>,
         \A r \in Reservations \ {k} : ClaimOf(r)' = ClaimOf(r),
         \A b \in Budgets : Limit(b)' = Limit(b) /\ Funder(b)' = Funder(b),
         used' = [used EXCEPT ![a] = @ + n]
  PROVE  Ledger!Grant(k, a, n)
<1> DEFINE limit == [b \in Budgets |-> Limit(b)]
           funder == [b \in Budgets |-> Funder(b)]
           claim == [r \in Reservations |-> ClaimOf(r)]
<1>1. claim' = [claim EXCEPT ![k] = <<a, n>>]
  OBVIOUS
<1>2. /\ limit' = limit /\ funder' = funder /\ claim[k] = <<None, 0>>
      /\ limit[a] # 0 /\ n <= limit[a] - used[a]
  OBVIOUS
<1> HIDE DEF limit, funder, claim
<1> QED
  BY <1>1, <1>2
     DEF Ledger!Grant, Ledger!Open, Ledger!Free, Ledger!NoClaim, limit, funder, claim,
         Limit, Funder, ClaimOf

\* A reservation goes off the books.
LEMMA LedgerRepay ==
  ASSUME NEW k \in Reservations, ClaimOf(k) # <<None, 0>>, ClaimOf(k)' = <<None, 0>>,
         \A r \in Reservations \ {k} : ClaimOf(r)' = ClaimOf(r),
         \A b \in Budgets : Limit(b)' = Limit(b) /\ Funder(b)' = Funder(b),
         used' = [used EXCEPT ![ClaimOf(k)[1]] = @ - ClaimOf(k)[2]]
  PROVE  Ledger!Repay(k)
<1> DEFINE limit == [b \in Budgets |-> Limit(b)]
           funder == [b \in Budgets |-> Funder(b)]
           claim == [r \in Reservations |-> ClaimOf(r)]
<1>1. claim' = [claim EXCEPT ![k] = <<None, 0>>]
  OBVIOUS
<1>2. limit' = limit /\ funder' = funder /\ claim[k] # <<None, 0>>
  OBVIOUS
<1>3. used' = [used EXCEPT ![claim[k][1]] = @ - claim[k][2]]
  OBVIOUS
<1> HIDE DEF limit, funder, claim
<1> QED
  BY <1>1, <1>2, <1>3
     DEF Ledger!Repay, Ledger!NoClaim, limit, funder, claim, Limit, Funder, ClaimOf

\* A reservation goes from one object to another.
LEMMA LedgerMove ==
  ASSUME NEW dst \in Reservations, NEW src \in Reservations, dst # src,
         ClaimOf(dst) = <<None, 0>>, ClaimOf(dst)' = ClaimOf(src), ClaimOf(src)' = <<None, 0>>,
         \A r \in Reservations \ {dst, src} : ClaimOf(r)' = ClaimOf(r),
         \A b \in Budgets : Limit(b)' = Limit(b) /\ Funder(b)' = Funder(b),
         UNCHANGED used
  PROVE  Ledger!Move(dst, src)
<1> DEFINE limit == [b \in Budgets |-> Limit(b)]
           funder == [b \in Budgets |-> Funder(b)]
           claim == [r \in Reservations |-> ClaimOf(r)]
<1>1. claim' = [claim EXCEPT ![dst] = claim[src], ![src] = <<None, 0>>]
  OBVIOUS
<1>2. limit' = limit /\ funder' = funder /\ claim[dst] = <<None, 0>>
  OBVIOUS
<1> HIDE DEF limit, funder, claim
<1> QED
  BY <1>1, <1>2
     DEF Ledger!Move, Ledger!NoClaim, limit, funder, claim, Limit, Funder, ClaimOf

-----------------------------------------------------------------------------
(* What the books show of every budget.                                    *)

Asking(t) == pc[t] \in {"reserve_check", "reserve_charge", "child_alloc", "child_lock",
                        "child_check", "child_charge"}

\* Capacities are what was asked for, and what a child owes its parent.
Funded ==
  /\ \A b \in live : capacity[b] \in Units
  /\ \A b \in Budgets : parent[b] # None => parent_amount[b] = capacity[b]
  /\ \A t \in Threads : Asking(t) => amt[t] \in Units
  /\ \A t \in Threads : kid[t] # None => capacity[kid[t]] = amt[t]

\* Nothing is funded to begin with.
LEMMA FundedInit == Init => Funded
BY DEF Init, Funded, Asking

\* Steps that touch no budget and start no request.
LEMMA FundedFrame ==
  ASSUME Funded, UNCHANGED <<live, capacity, parent, parent_amount>>,
         \A t \in Threads : /\ Asking(t)' => Asking(t) /\ amt'[t] = amt[t]
                            /\ kid'[t] # None => kid'[t] = kid[t] /\ amt'[t] = amt[t]
  PROVE  Funded'
<1>1. (\A b \in live : capacity[b] \in Units)'
  BY DEF Funded
<1>2. (\A b \in Budgets : parent[b] # None => parent_amount[b] = capacity[b])'
  BY DEF Funded
<1>3. ASSUME NEW t \in Threads, Asking(t)'
      PROVE  amt'[t] \in Units
  <2>1. Asking(t) /\ amt'[t] = amt[t]
    BY <1>3
  <2> QED
    BY <2>1 DEF Funded
<1>4. ASSUME NEW t \in Threads, kid'[t] # None
      PROVE  capacity'[kid'[t]] = amt'[t]
  <2>1. kid'[t] = kid[t] /\ amt'[t] = amt[t]
    BY <1>4
  <2> QED
    BY <1>4, <2>1 DEF Funded
<1> QED
  BY <1>1, <1>2, <1>3, <1>4 DEF Funded

\* Every call keeps the capacities and requests on record.
LEMMA FundedStep ==
  ASSUME IInv, Funded, NEW t \in Threads,
         NewWork(t) \/ ScopeExit(t) \/ Continue(t)
  PROVE  Funded'
<1> USE DEF IInv, TypeOK, Goto, budgetVars, resVars, callVars
<1>1. ASSUME NEW b \in Budgets, NEW n \in Units, CreateRoot(t, b, n)
      PROVE  Funded'
  BY <1>1, BudgetAssumption DEF CreateRoot, Funded, Asking, Lifetimes
<1>2. ASSUME NEW b \in Budgets, NEW n \in Units, CreateChild(t, b, n)
      PROVE  Funded'
  BY <1>2, BudgetAssumption DEF CreateChild, Funded, Asking, CallShape, HasKid
<1>3. ASSUME NEW b \in Budgets, NEW n \in Units, NEW r \in Reservations,
             ReserveLock(t, b, n, r)
      PROVE  Funded'
  BY <1>3, BudgetAssumption DEF ReserveLock, Funded, Asking, CallShape, HasKid
<1>4. ASSUME NEW b \in Budgets, QueryLock(t, b)
      PROVE  Funded'
  BY <1>4, FundedFrame DEF QueryLock, Asking
<1>5. ASSUME NEW u \in Threads, NEW b \in Budgets, CopyHandle(t, u, b)
      PROVE  Funded'
  BY <1>5, FundedFrame DEF CopyHandle, Asking
<1>6. ASSUME NEW dst \in Reservations, NEW src \in Reservations,
             MoveConstruct(t, dst, src) \/ MoveAssignLock(t, dst, src)
      PROVE  Funded'
  BY <1>6, FundedFrame DEF MoveConstruct, MoveAssignLock, Asking
<1>7. ASSUME NEW b \in Budgets, DropHandle(t, b)
      PROVE  Funded'
  BY <1>7, FundedFrame DEF DropHandle, Dropped, Resume, Return, Asking
<1>8. ASSUME NEW r \in Reservations, ReleaseLock(t, r)
      PROVE  Funded'
  BY <1>8, FundedFrame DEF ReleaseLock, Asking
<1>9. CASE QueryRead(t) \/ ReserveFits(t) \/ ReserveFails(t) \/ ReserveCharge(t)
  BY <1>9, FundedFrame
     DEF QueryRead, ReserveFits, ReserveFails, ReserveCharge, Return, Asking
<1>10. ASSUME NEW c \in Budgets, ChildAlloc(t, c)
       PROVE  Funded'
  BY <1>10, BudgetAssumption DEF ChildAlloc, Funded, Asking, Lifetimes
<1>11. CASE ChildAllocFails(t) \/ ChildLock(t) \/ ChildFits(t) \/ ChildFails(t)
  BY <1>11, FundedFrame
     DEF ChildAllocFails, ChildLock, ChildFits, ChildFails, Return, Asking
<1>12. CASE ChildCharge(t)
  BY <1>12, BudgetAssumption DEF ChildCharge, Return, Funded, Asking, CallShape, HasKid
<1>13. CASE ReleaseDebit(t) \/ ReleaseReset(t) \/ MoveAssign(t) \/ DestroyLock(t) \/ Refund(t)
  BY <1>13, FundedFrame
     DEF ReleaseDebit, ReleaseReset, MoveAssign, DestroyLock, Refund, Terminate, Dropped,
         Resume, Return, Transfer, Asking
<1>14. CASE Free(t)
  BY <1>14, BudgetAssumption
     DEF Free, Dropped, Resume, Return, Funded, Asking, Lifetimes, Destroying, Owned
<1> QED
  BY <1>1, <1>2, <1>3, <1>4, <1>5, <1>6, <1>7, <1>8, <1>9, <1>10, <1>11, <1>12, <1>13,
     <1>14 DEF NewWork, ScopeExit, Continue

-----------------------------------------------------------------------------
(* Every step is one of the ledger, or changes nothing on the books.       *)

\* Somebody but the creator of a new child can reach b.
Referenced(b) == Owned(b, handle, state_, parent, [t \in Threads |-> None])

\* What referring to a budget means, now ...
LEMMA ReferencedIff ==
  ASSUME NEW b \in Budgets
  PROVE  Referenced(b) <=> \/ \E t \in Threads : b \in handle[t]
                           \/ \E r \in Reservations : state_[r] = b
                           \/ \E c \in Budgets : parent[c] = b
BY BudgetAssumption DEF Referenced, Owned

\* ... and after a step.
LEMMA ReferencedNext ==
  ASSUME NEW b \in Budgets
  PROVE  Referenced(b)' <=> \/ \E t \in Threads : b \in handle'[t]
                            \/ \E r \in Reservations : state_'[r] = b
                            \/ \E c \in Budgets : parent'[c] = b
BY BudgetAssumption DEF Referenced, Owned

\* What being on the books means, now ...
LEMMA OnBooksIff ==
  ASSUME NEW b
  PROVE  OnBooks(b) <=> \/ parent[b] # None /\ ~Refunded(b)
                        \/ b \in live /\ parent[b] = None /\ Referenced(b)
BY DEF OnBooks, Referenced

\* ... and after a step.
LEMMA OnBooksNext ==
  ASSUME NEW b
  PROVE  OnBooks(b)' <=> \/ parent'[b] # None /\ ~Refunded(b)'
                         \/ b \in live' /\ parent'[b] = None /\ Referenced(b)'
BY DEF OnBooks, Referenced

\* A budget that is being destroyed, or that its creator has not published,
\* is not referenced.
LEMMA Unreferenced ==
  ASSUME IInv, NEW t \in Threads
  PROVE  /\ Destroying(t) => on[t] \in live /\ ~Referenced(on[t])
         /\ kid[t] # None => /\ kid[t] \in live /\ ~Referenced(kid[t])
                             /\ parent[kid[t]] = None
<1>1. /\ Destroying(t) => on[t] \in live /\ ~Owned(on[t], handle, state_, parent, kid)
      /\ kid[t] # None =>
           /\ kid[t] \in live /\ parent[kid[t]] = None
           /\ ~Owned(kid[t], handle, state_, parent, [u \in Threads |-> None])
  BY DEF IInv, Lifetimes
<1>2. on[t] \in live /\ ~Owned(on[t], handle, state_, parent, kid) => ~Referenced(on[t])
  <2> SUFFICES ASSUME on[t] \in live, ~Owned(on[t], handle, state_, parent, kid)
               PROVE  ~Referenced(on[t])
    OBVIOUS
  <2>1. on[t] \in Budgets
    BY DEF IInv, TypeOK
  <2> QED
    BY <2>1, ReferencedIff DEF Owned
<1> QED
  BY <1>1, <1>2 DEF Referenced

\* A budget nobody refers to is unused.
LEMMA UnreferencedUnused ==
  ASSUME IInv, NEW b \in Budgets, ~Referenced(b)
  PROVE  used[b] = 0
<1>1. \A o \in Holders : Held(b)[o] = 0
  BY ReferencedIff DEF Held, Holders
<1>2. Total(Held(b)) = 0
  BY <1>1, TotalZero
<1> QED
  BY <1>2 DEF IInv, Conservation

\* The books show the capacity of every budget that is on them.
LEMMA LimitOnBooks ==
  ASSUME IInv, Funded, NEW b \in Budgets
  PROVE  /\ OnBooks(b) => b \in live /\ Limit(b) = capacity[b] /\ Limit(b) # 0
                          /\ Funder(b) = parent[b]
         /\ ~OnBooks(b) => Limit(b) = 0 /\ Funder(b) = None
<1>1. OnBooks(b) => b \in live
  BY OnBooksIff DEF IInv, Lifetimes
<1>2. b \in live => capacity[b] # 0
  BY BudgetAssumption DEF Funded, Units
<1> QED
  BY <1>1, <1>2 DEF Limit, Funder

\* The entry of a budget is what it was when nothing it depends on changes.
LEMMA EntryFrame ==
  ASSUME NEW b \in Budgets, b \in live' <=> b \in live, capacity'[b] = capacity[b],
         parent'[b] = parent[b], Refunded(b)' <=> Refunded(b), Referenced(b)' <=> Referenced(b)
  PROVE  Limit(b)' = Limit(b) /\ Funder(b)' = Funder(b)
<1>1. OnBooks(b)' <=> OnBooks(b)
  BY OnBooksIff, OnBooksNext
<1> QED
  BY <1>1 DEF Limit, Funder

\* The same for the entry of a reservation.
LEMMA ClaimFrame ==
  ASSUME NEW r \in Reservations, state_'[r] = state_[r], amount_'[r] = amount_[r],
         Released(r)' <=> Released(r)
  PROVE  ClaimOf(r)' = ClaimOf(r)
BY DEF ClaimOf

\* Steps that only move calls along, or hand out one more handle.
LEMMA BooksFrame ==
  ASSUME UNCHANGED <<budgetVars, resVars>>,
         \A r \in Reservations : Released(r)' <=> Released(r),
         \A b \in Budgets : Refunded(b)' <=> Refunded(b),
         \A b \in Budgets : Referenced(b)' <=> Referenced(b)
  PROVE  UNCHANGED Ledger!vars
<1>1. UNCHANGED <<live, capacity, used, parent, state_, amount_>>
  BY DEF budgetVars, resVars
<1>2. \A b \in Budgets : Limit(b)' = Limit(b) /\ Funder(b)' = Funder(b)
  BY <1>1, EntryFrame
<1>3. \A r \in Reservations : ClaimOf(r)' = ClaimOf(r)
  BY <1>1, ClaimFrame
<1> QED
  BY <1>1, <1>2, <1>3, LedgerStutter

\* Dropping a reference to b closes its account if b is a root and the
\* reference was the last, and changes nothing on the books otherwise.
LEMMA LastReference ==
  ASSUME IInv, Funded, IInv', NEW b \in Budgets, Referenced(b), b \in live, b \in live',
         capacity'[b] = capacity[b], parent'[b] = parent[b], Refunded(b)' <=> Refunded(b),
         UNCHANGED used,
         \A x \in Budgets \ {b} : Limit(x)' = Limit(x) /\ Funder(x)' = Funder(x),
         \A r \in Reservations : ClaimOf(r)' = ClaimOf(r)
  PROVE  UNCHANGED Ledger!vars \/ Ledger!Close(b)
<1>1. CASE parent[b] # None \/ Referenced(b)'
  <2>1. OnBooks(b)' <=> OnBooks(b)
    BY <1>1, OnBooksIff, OnBooksNext
  <2>2. Limit(b)' = Limit(b) /\ Funder(b)' = Funder(b)
    BY <2>1 DEF Limit, Funder
  <2> QED
    BY <2>2, LedgerStutter
<1>2. CASE parent[b] = None /\ ~Referenced(b)'
  <2>1. OnBooks(b) /\ ~OnBooks(b)'
    BY <1>2, OnBooksIff, OnBooksNext
  <2>2. Limit(b) # 0 /\ Funder(b) = None /\ Limit(b)' = 0 /\ Funder(b)' = None
    BY <1>2, <2>1, LimitOnBooks DEF Limit, Funder
  <2>3. b # None
    BY BudgetAssumption
  <2>4. /\ \A r \in Reservations : state_'[r] # b
        /\ \A c \in Budgets : parent'[c] # b
    BY <1>2, ReferencedNext
  <2>5. ASSUME NEW r \in Reservations
        PROVE  ClaimOf(r)[1] # b
    <3>1. ClaimOf(r)'[1] = state_'[r] \/ ClaimOf(r)'[1] = None
      BY DEF ClaimOf
    <3> QED
      BY <2>3, <2>4, <3>1
  <2>6. ASSUME NEW c \in Budgets
        PROVE  Funder(c) # b
    <3>1. Funder(c)' = parent'[c] \/ Funder(c)' = None
      BY DEF Funder
    <3>2. CASE c = b
      BY <2>2, <2>3, <3>2
    <3>3. CASE c # b
      BY <2>3, <2>4, <3>1, <3>3
    <3> QED
      BY <3>2, <3>3
  <2>7. used \in [Budgets -> Nat] /\ used' \in [Budgets -> Nat]
    BY DEF IInv, TypeOK
  <2>8. \A x \in Budgets : used'[x] = IF x = Funder(b) THEN used[x] - Limit(b) ELSE used[x]
    BY <2>2, BudgetAssumption
  <2> QED
    BY <2>2, <2>5, <2>6, <2>7, <2>8, LedgerClose
<1> QED
  BY <1>1, <1>2

\* The calls that only look, wait, or fail.
LEMMA WaitingRefines ==
  ASSUME IInv, NEW t \in Threads,
         \/ \E u \in Threads, b \in Budgets : CopyHandle(t, u, b)
         \/ \E b \in Budgets : QueryLock(t, b)
         \/ \E b \in Budgets, n \in Units : CreateChild(t, b, n)
         \/ \E b \in Budgets, n \in Units, r \in Reservations : ReserveLock(t, b, n, r)
         \/ \E r \in Reservations : ReleaseLock(t, r)
         \/ \E dst, src \in Reservations : MoveAssignLock(t, dst, src)
         \/ QueryRead(t) \/ ReserveFits(t) \/ ReserveFails(t)
         \/ ChildAllocFails(t) \/ ChildLock(t) \/ ChildFits(t) \/ ChildFails(t)
         \/ DestroyLock(t)
  PROVE  UNCHANGED Ledger!vars
<1>1. UNCHANGED <<budgetVars, resVars>>
  BY DEF CopyHandle, QueryLock, CreateChild, ReserveLock, ReleaseLock, MoveAssignLock,
         QueryRead, ReserveFits, ReserveFails, ChildAllocFails, ChildLock, ChildFits,
         ChildFails, DestroyLock
<1>2. /\ \A u \in Threads : pc'[u] = pc[u] \/ u = t
      /\ pc[t] \notin {"release_reset", "free"} /\ pc'[t] \notin {"release_reset", "free"}
      /\ \A u \in Threads \ {t} : slot'[u] = slot[u] /\ on'[u] = on[u]
  BY DEF CopyHandle, QueryLock, CreateChild, ReserveLock, ReleaseLock, MoveAssignLock,
         QueryRead, ReserveFits, ReserveFails, ChildAllocFails, ChildLock, ChildFits,
         ChildFails, DestroyLock, Goto, Return, callVars, IInv, TypeOK
<1>3. \A r \in Reservations : Released(r)' <=> Released(r)
  BY <1>2 DEF Released
<1>4. \A b \in Budgets : Refunded(b)' <=> Refunded(b)
  BY <1>2 DEF Refunded
<1>5. ASSUME NEW b \in Budgets
      PROVE  Referenced(b)' <=> Referenced(b)
  <2>1. (\E u \in Threads : b \in handle'[u]) <=> (\E u \in Threads : b \in handle[u])
    BY DEF CopyHandle, QueryLock, CreateChild, ReserveLock, ReleaseLock, MoveAssignLock,
           QueryRead, ReserveFits, ReserveFails, ChildAllocFails, ChildLock, ChildFits,
           ChildFails, DestroyLock, IInv, TypeOK
  <2> QED
    BY <1>1, <2>1, ReferencedIff, ReferencedNext DEF budgetVars, resVars
<1> QED
  BY <1>1, <1>3, <1>4, <1>5, BooksFrame

\* create_root opens an account.
LEMMA CreateRootRefines ==
  ASSUME IInv, NEW t \in Threads, NEW b \in Budgets, NEW n \in Units, CreateRoot(t, b, n)
  PROVE  Ledger!OpenRoot(b, n)
<1>1. /\ b \notin live /\ live' = live \cup {b} /\ capacity' = [capacity EXCEPT ![b] = n]
      /\ handle' = [handle EXCEPT ![t] = @ \cup {b}]
      /\ UNCHANGED <<used, parent, parent_amount, state_, amount_, pc, on, slot>>
  BY DEF CreateRoot, resVars, callVars
<1>2. parent[b] = None /\ capacity'[b] = n /\ b \in handle'[t] /\ n # 0
  BY <1>1, BudgetAssumption DEF IInv, Lifetimes, TypeOK, Units
<1>3. ~OnBooks(b) /\ OnBooks(b)'
  BY <1>1, <1>2, OnBooksIff, OnBooksNext, ReferencedNext
<1>4. Limit(b) = 0 /\ Limit(b)' = n /\ Funder(b) = None /\ Funder(b)' = None
  BY <1>1, <1>2, <1>3 DEF Limit, Funder
<1>5. ASSUME NEW x \in Budgets \ {b}
      PROVE  Limit(x)' = Limit(x) /\ Funder(x)' = Funder(x)
  <2>1. Refunded(x)' <=> Refunded(x)
    BY <1>1 DEF Refunded
  <2>2. Referenced(x)' <=> Referenced(x)
    BY <1>1, ReferencedIff, ReferencedNext DEF IInv, TypeOK
  <2> QED
    BY <1>1, <2>1, <2>2, EntryFrame DEF IInv, TypeOK
<1>6. \A r \in Reservations : ClaimOf(r)' = ClaimOf(r)
  BY <1>1, ClaimFrame DEF Released
<1> QED
  BY <1>1, <1>4, <1>5, <1>6, LedgerOpenRoot

\* reserve takes effect when it charges the budget.
LEMMA ReserveChargeRefines ==
  ASSUME IInv, Funded, NEW t \in Threads, ReserveCharge(t)
  PROVE  \E r \in Reservations, b \in Budgets, n \in Units : Ledger!Grant(r, b, n)
<1>0. pc[t] = "reserve_charge"
  BY DEF ReserveCharge
<1>1. PICK r \in Reservations, b \in Budgets, n \in Units :
        r = slot[t] /\ b = on[t] /\ n = amt[t]
  BY <1>0, BudgetAssumption
     DEF IInv, TypeOK, CallShape, UsesHandle, Releasing, Funded, Asking
<1>1a. /\ used' = [used EXCEPT ![b] = @ + n]
       /\ state_' = [state_ EXCEPT ![r] = b] /\ amount_' = [amount_ EXCEPT ![r] = n]
       /\ UNCHANGED <<live, capacity, parent, parent_amount, handle>>
  BY <1>1 DEF ReserveCharge
<1>2. b \in handle[t] /\ state_[r] = None /\ n <= capacity[b] - used[b]
  BY <1>0, <1>1, BudgetAssumption
     DEF IInv, TypeOK, CallShape, UsesHandle, Releasing, StillFits
<1>3. /\ \A u \in Threads \ {t} : pc'[u] = pc[u] /\ slot'[u] = slot[u] /\ on'[u] = on[u]
      /\ pc'[t] = "idle"
  BY DEF ReserveCharge, Return, Goto, IInv, TypeOK
<1>4. \A x \in Reservations : Released(x)' <=> Released(x)
  BY <1>0, <1>1, <1>1a, <1>3 DEF Released
<1>5. \A x \in Budgets : Refunded(x)' <=> Refunded(x)
  BY <1>0, <1>3 DEF Refunded
<1>6. ~Released(r)
  BY <1>0, <1>1, <1>1a, <1>2 DEF Released, IInv, CallShape, Releasing
<1>7. \A x \in Budgets : Referenced(x)' <=> Referenced(x)
  BY <1>0, <1>1, <1>1a, <1>2, ReferencedIff, ReferencedNext, BudgetAssumption DEF IInv, TypeOK
<1>8. \A x \in Budgets : Limit(x)' = Limit(x) /\ Funder(x)' = Funder(x)
  BY <1>0, <1>1, <1>1a, <1>5, <1>7, EntryFrame
<1>9. ~Refunded(b)
  BY <1>2, Unreferenced, ReferencedIff DEF Refunded, Destroying
<1>10. OnBooks(b)
  BY <1>2, <1>9, ReferencedIff, OnBooksIff DEF IInv, Lifetimes
<1>11. ClaimOf(r) = <<None, 0>> /\ ClaimOf(r)' = <<b, n>>
  <2>1. state_'[r] = b /\ amount_'[r] = n /\ b # None
    BY <1>0, <1>1, <1>1a, <1>2, BudgetAssumption DEF IInv, TypeOK
  <2> QED
    BY <1>2, <1>4, <1>6, <2>1 DEF ClaimOf
<1>12. \A x \in Reservations \ {r} : ClaimOf(x)' = ClaimOf(x)
  BY <1>0, <1>1, <1>1a, <1>4, ClaimFrame DEF IInv, TypeOK
<1>13. Limit(b) # 0 /\ n <= Limit(b) - used[b]
  BY <1>2, <1>10, LimitOnBooks
<1>14. Ledger!Grant(r, b, n)
  BY <1>0, <1>1, <1>1a, <1>2, <1>8, <1>11, <1>12, <1>13, LedgerGrant
<1> QED
  BY <1>14

\* A state that create_child has only allocated is not on the books yet.
LEMMA ChildAllocRefines ==
  ASSUME IInv, NEW t \in Threads, NEW c \in Budgets, ChildAlloc(t, c)
  PROVE  UNCHANGED Ledger!vars
<1>1. /\ c \notin live /\ live' = live \cup {c} /\ capacity' = [capacity EXCEPT ![c] = amt[t]]
      /\ UNCHANGED <<used, parent, parent_amount, handle, state_, amount_, on, slot>>
      /\ pc[t] = "child_alloc" /\ pc' = [pc EXCEPT ![t] = "child_lock"]
  BY DEF ChildAlloc, resVars, Goto
<1>2. \A x \in Reservations : Released(x)' <=> Released(x)
  BY <1>1 DEF Released, IInv, TypeOK
<1>3. \A x \in Budgets : Refunded(x)' <=> Refunded(x)
  BY <1>1 DEF Refunded, IInv, TypeOK
<1>4. \A x \in Budgets : Referenced(x)' <=> Referenced(x)
  BY <1>1, ReferencedIff, ReferencedNext
<1>5. parent[c] = None /\ ~Referenced(c)
  BY <1>1, ReferencedIff, BudgetAssumption DEF IInv, Lifetimes
<1>6. ~OnBooks(c) /\ ~OnBooks(c)'
  BY <1>1, <1>4, <1>5, OnBooksIff, OnBooksNext
<1>7. \A x \in Budgets \ {c} : Limit(x)' = Limit(x) /\ Funder(x)' = Funder(x)
  BY <1>1, <1>3, <1>4, EntryFrame DEF IInv, TypeOK
<1>8. Limit(c)' = Limit(c) /\ Funder(c)' = Funder(c)
  BY <1>6 DEF Limit, Funder
<1>9. \A x \in Reservations : ClaimOf(x)' = ClaimOf(x)
  BY <1>1, <1>2, ClaimFrame
<1> QED
  BY <1>1, <1>7, <1>8, <1>9, LedgerStutter

\* create_child takes effect when it charges the parent.
LEMMA ChildChargeRefines ==
  ASSUME IInv, Funded, NEW t \in Threads, ChildCharge(t)
  PROVE  \E p \in Budgets, c \in Budgets, n \in Units : Ledger!Fund(p, c, n)
<1>0. pc[t] = "child_charge"
  BY DEF ChildCharge
<1>1. PICK p \in Budgets, c \in Budgets, n \in Units :
        p = on[t] /\ c = kid[t] /\ n = amt[t]
  BY <1>0, BudgetAssumption DEF IInv, TypeOK, CallShape, UsesHandle, HasKid, Funded, Asking
<1>1a. /\ used' = [used EXCEPT ![p] = @ + n] /\ parent' = [parent EXCEPT ![c] = p]
       /\ handle' = [handle EXCEPT ![t] = @ \cup {c}]
       /\ UNCHANGED <<live, capacity, state_, amount_>>
  BY <1>1 DEF ChildCharge, resVars
<1>2. /\ p \in handle[t] /\ n <= capacity[p] - used[p]
      /\ capacity[c] = n /\ c # None
  BY <1>0, <1>1, BudgetAssumption
     DEF IInv, TypeOK, CallShape, UsesHandle, HasKid, StillFits, Funded, Asking
<1>3. c \in live /\ ~Referenced(c) /\ parent[c] = None
  BY <1>1, <1>2, Unreferenced
<1>5. /\ \A u \in Threads \ {t} : pc'[u] = pc[u] /\ slot'[u] = slot[u] /\ on'[u] = on[u]
      /\ pc'[t] = "idle"
  BY DEF ChildCharge, Return, Goto, IInv, TypeOK
<1>6. \A x \in Reservations : Released(x)' <=> Released(x)
  BY <1>0, <1>5 DEF Released
<1>7. \A x \in Budgets : Refunded(x)' <=> Refunded(x)
  BY <1>0, <1>5 DEF Refunded
<1>8. ASSUME NEW x \in Budgets \ {c}
      PROVE  Limit(x)' = Limit(x) /\ Funder(x)' = Funder(x)
  <2>1. Referenced(x)' <=> Referenced(x)
    BY <1>0, <1>1, <1>1a, <1>2, <1>3, ReferencedIff, ReferencedNext, BudgetAssumption DEF IInv, TypeOK
  <2> QED
    BY <1>0, <1>1, <1>1a, <1>2, <1>7, <2>1, EntryFrame DEF IInv, TypeOK
<1>9. ~Refunded(c)
  <2>1. ASSUME NEW u \in Threads, pc[u] = "free", on[u] = c
        PROVE  FALSE
    <3>1. ~Owned(c, handle, state_, parent, kid)
      BY <2>1 DEF IInv, Lifetimes, Destroying
    <3> QED
      BY <1>1, <3>1 DEF Owned
  <2> QED
    BY <2>1 DEF Refunded
<1>10. ~OnBooks(c) /\ parent'[c] = p /\ p # None
  BY <1>0, <1>1, <1>1a, <1>2, <1>3, OnBooksIff, BudgetAssumption DEF IInv, TypeOK
<1>11. OnBooks(c)'
  BY <1>2, <1>7, <1>9, <1>10, OnBooksNext
<1>12. Limit(c) = 0 /\ Limit(c)' = n /\ Funder(c)' = p
  BY <1>0, <1>1, <1>1a, <1>2, <1>10, <1>11 DEF Limit, Funder
<1>13. ~Refunded(p)
  BY <1>2, Unreferenced, ReferencedIff DEF Refunded, Destroying
<1>14. OnBooks(p)
  BY <1>2, <1>13, ReferencedIff, OnBooksIff DEF IInv, Lifetimes
<1>15. Limit(p) # 0 /\ n <= Limit(p) - used[p]
  BY <1>2, <1>14, LimitOnBooks
<1>16. \A x \in Reservations : ClaimOf(x)' = ClaimOf(x)
  BY <1>1a, <1>6, ClaimFrame
<1>17. Ledger!Fund(p, c, n)
  BY <1>0, <1>1, <1>1a, <1>2, <1>8, <1>12, <1>15, <1>16, LedgerFund
<1> QED
  BY <1>17

\* release takes effect when it gives the units back.
LEMMA ReleaseDebitRefines ==
  ASSUME IInv, IInv', NEW t \in Threads, ReleaseDebit(t)
  PROVE  \E r \in Reservations : Ledger!Repay(r)
<1>1. pc[t] = "release_debit"
  BY DEF ReleaseDebit
<1>2. PICK r \in Reservations : r = slot[t]
  BY <1>1 DEF IInv, TypeOK, CallShape, Releasing
<1>3. state_[r] # None
  BY <1>1, <1>2 DEF IInv, CallShape, Releasing
<1>4. ~Terminate(t)
  BY DEF Terminate, Goto, IInv, NoTerminate, TypeOK
<1>5. /\ used' = [used EXCEPT ![state_[r]] = @ - amount_[r]]
      /\ pc' = [pc EXCEPT ![t] = "release_reset"]
      /\ UNCHANGED <<live, capacity, parent, handle, state_, amount_, on, slot>>
  BY <1>2, <1>4 DEF ReleaseDebit, Goto, resVars
<1>6. \A x \in Budgets : Refunded(x)' <=> Refunded(x)
  BY <1>1, <1>5 DEF Refunded, IInv, TypeOK
<1>7. \A x \in Budgets : Referenced(x)' <=> Referenced(x)
  BY <1>5, ReferencedIff, ReferencedNext
<1>8. \A x \in Budgets : Limit(x)' = Limit(x) /\ Funder(x)' = Funder(x)
  BY <1>5, <1>6, <1>7, EntryFrame
<1>9. Released(r)' /\ ~Released(r)
  <2>1. Released(r)'
    BY <1>2, <1>5 DEF Released, IInv, TypeOK
  <2>2. \A u \in Threads \ {t} : slot[u] # r
    BY <1>2, BudgetAssumption DEF IInv, Exclusive
  <2>3. ~Released(r)
    BY <1>1, <2>2 DEF Released
  <2> QED
    BY <2>1, <2>3
<1>10. \A x \in Reservations \ {r} : Released(x)' <=> Released(x)
  BY <1>1, <1>2, <1>5 DEF Released, IInv, TypeOK
<1>11. /\ ClaimOf(r) = <<state_[r], amount_[r]>> /\ ClaimOf(r) # <<None, 0>>
       /\ ClaimOf(r)' = <<None, 0>>
  BY <1>3, <1>9 DEF ClaimOf
<1>12. \A x \in Reservations \ {r} : ClaimOf(x)' = ClaimOf(x)
  BY <1>5, <1>10, ClaimFrame
<1>13. used' = [used EXCEPT ![ClaimOf(r)[1]] = @ - ClaimOf(r)[2]]
  <2>1. ClaimOf(r)[1] = state_[r] /\ ClaimOf(r)[2] = amount_[r]
    BY <1>11
  <2> QED
    BY <1>5, <2>1
<1> QED
  BY <1>8, <1>11, <1>12, <1>13, LedgerRepay

\* Dropping a handle may close a root.
LEMMA DropHandleRefines ==
  ASSUME IInv, Funded, IInv', NEW t \in Threads, NEW b \in Budgets, DropHandle(t, b)
  PROVE  UNCHANGED Ledger!vars \/ Ledger!Close(b)
<1>1. /\ pc[t] = "idle" /\ b \in handle[t]
      /\ handle' = [handle EXCEPT ![t] = @ \ {b}]
      /\ UNCHANGED <<live, capacity, used, parent, parent_amount, state_, amount_>>
  BY DEF DropHandle, budgetVars, resVars
<1>2. /\ \A u \in Threads \ {t} : pc'[u] = pc[u] /\ slot'[u] = slot[u] /\ on'[u] = on[u]
      /\ pc'[t] \in {"idle", "assign", "destroy"}
  BY DEF DropHandle, Dropped, Resume, Return, Goto, IInv, TypeOK
<1>3. \A x \in Reservations : Released(x)' <=> Released(x)
  BY <1>1, <1>2 DEF Released
<1>4. \A x \in Budgets : Refunded(x)' <=> Refunded(x)
  BY <1>1, <1>2 DEF Refunded
<1>5. ASSUME NEW x \in Budgets \ {b}
      PROVE  Limit(x)' = Limit(x) /\ Funder(x)' = Funder(x)
  <2>1. Referenced(x)' <=> Referenced(x)
    BY <1>1, ReferencedIff, ReferencedNext DEF IInv, TypeOK
  <2> QED
    BY <1>1, <1>4, <2>1, EntryFrame
<1>6. Referenced(b) /\ b \in live
  BY <1>1, ReferencedIff DEF IInv, Lifetimes
<1>7. \A x \in Reservations : ClaimOf(x)' = ClaimOf(x)
  BY <1>1, <1>3, ClaimFrame
<1> QED
  BY <1>1, <1>4, <1>5, <1>6, <1>7, LastReference

\* Resetting a released reservation may close a root.
LEMMA ReleaseResetRefines ==
  ASSUME IInv, Funded, IInv', NEW t \in Threads, ReleaseReset(t)
  PROVE  UNCHANGED Ledger!vars \/ \E b \in Budgets : Ledger!Close(b)
<1>1. pc[t] = "release_reset"
  BY DEF ReleaseReset
<1>2. PICK r \in Reservations, b \in Budgets : r = slot[t] /\ b = state_[r]
  BY <1>1 DEF IInv, TypeOK, CallShape, Releasing
<1>3. /\ state_' = [state_ EXCEPT ![r] = None] /\ amount_' = [amount_ EXCEPT ![r] = 0]
      /\ UNCHANGED <<live, capacity, used, parent, parent_amount, handle>>
      /\ Dropped(t, b)
  BY <1>2 DEF ReleaseReset, budgetVars
<1>4. /\ \A u \in Threads \ {t} : pc'[u] = pc[u] /\ slot'[u] = slot[u] /\ on'[u] = on[u]
      /\ pc'[t] \in {"idle", "assign", "destroy"}
  BY <1>3 DEF Dropped, Resume, Return, Goto, IInv, TypeOK
<1>5. Released(r)
  BY <1>1, <1>2 DEF Released
<1>6. \A x \in Reservations \ {r} : Released(x)' <=> Released(x)
  BY <1>1, <1>2, <1>4 DEF Released
<1>7. \A x \in Budgets : Refunded(x)' <=> Refunded(x)
  BY <1>1, <1>4 DEF Refunded
<1>8. ASSUME NEW x \in Budgets \ {b}
      PROVE  Limit(x)' = Limit(x) /\ Funder(x)' = Funder(x)
  <2>1. Referenced(x)' <=> Referenced(x)
    BY <1>2, <1>3, ReferencedIff, ReferencedNext, BudgetAssumption DEF IInv, TypeOK
  <2> QED
    BY <1>3, <1>7, <2>1, EntryFrame
<1>9. Referenced(b) /\ b \in live
  BY <1>2, ReferencedIff, BudgetAssumption DEF IInv, Lifetimes
<1>10. ASSUME NEW x \in Reservations
       PROVE  ClaimOf(x)' = ClaimOf(x)
  <2>1. CASE x = r
    <3>1. state_'[r] = None
      BY <1>3 DEF IInv, TypeOK
    <3> QED
      BY <1>5, <2>1, <3>1 DEF ClaimOf
  <2>2. CASE x # r
    BY <1>3, <1>6, <2>2, ClaimFrame DEF IInv, TypeOK
  <2> QED
    BY <2>1, <2>2
<1>11. UNCHANGED Ledger!vars \/ Ledger!Close(b)
  BY <1>3, <1>7, <1>8, <1>9, <1>10, LastReference
<1> QED
  BY <1>11

\* What a move changes, whichever call makes it.
LEMMA TransferRefines ==
  ASSUME IInv, NEW t \in Threads, NEW dst \in Reservations, NEW src \in Reservations,
         dst # src, state_[dst] = None, ~Released(dst), ~Released(src), Transfer(dst, src),
         UNCHANGED <<budgetVars, handle>>,
         \A x \in Reservations : Released(x)' <=> Released(x),
         \A x \in Budgets : Refunded(x)' <=> Refunded(x)
  PROVE  Ledger!Move(dst, src)
<1>1. /\ state_' = [state_ EXCEPT ![dst] = state_[src], ![src] = None]
      /\ amount_' = [amount_ EXCEPT ![dst] = amount_[src], ![src] = 0]
      /\ UNCHANGED <<live, capacity, used, parent, handle>>
  BY DEF Transfer, budgetVars
<1>2. /\ state_'[dst] = state_[src] /\ amount_'[dst] = amount_[src] /\ state_'[src] = None
      /\ \A x \in Reservations \ {dst, src} : state_'[x] = state_[x] /\ amount_'[x] = amount_[x]
  BY <1>1 DEF IInv, TypeOK
<1>3. ASSUME NEW x \in Budgets
      PROVE  Limit(x)' = Limit(x) /\ Funder(x)' = Funder(x)
  <2>1. (\E r \in Reservations : state_'[r] = x) <=> (\E r \in Reservations : state_[r] = x)
    BY <1>2, BudgetAssumption
  <2>2. Referenced(x)' <=> Referenced(x)
    BY <1>1, <2>1, ReferencedIff, ReferencedNext
  <2> QED
    BY <1>1, <2>2, EntryFrame
<1>4. /\ ClaimOf(dst) = <<None, 0>> /\ ClaimOf(dst)' = ClaimOf(src)
      /\ ClaimOf(src)' = <<None, 0>>
  BY <1>2 DEF ClaimOf
<1>5. \A x \in Reservations \ {dst, src} : ClaimOf(x)' = ClaimOf(x)
  BY <1>2, ClaimFrame
<1> QED
  BY <1>1, <1>3, <1>4, <1>5, LedgerMove

\* Move construction moves a claim.
LEMMA MoveConstructRefines ==
  ASSUME IInv, NEW t \in Threads, NEW dst \in Reservations, NEW src \in Reservations,
         MoveConstruct(t, dst, src)
  PROVE  Ledger!Move(dst, src)
<1>1. /\ dst # src /\ state_[dst] = None /\ ~Claimed(dst) /\ ~Claimed(src)
      /\ Transfer(dst, src) /\ UNCHANGED <<budgetVars, handle, pc, on, slot>>
  BY DEF MoveConstruct, callVars
<1>2. ~Released(dst) /\ ~Released(src)
  BY <1>1 DEF Claimed, Released
<1>3. /\ \A x \in Reservations : Released(x)' <=> Released(x)
      /\ \A x \in Budgets : Refunded(x)' <=> Refunded(x)
  BY <1>1 DEF Released, Refunded
<1> QED
  BY <1>1, <1>2, <1>3, TransferRefines

\* So does a move assignment, once the target has been released.
LEMMA MoveAssignRefines ==
  ASSUME IInv, NEW t \in Threads, MoveAssign(t)
  PROVE  \E dst, src \in Reservations : dst # src /\ Ledger!Move(dst, src)
<1>1. pc[t] = "assign"
  BY DEF MoveAssign
<1>2. PICK dst \in Reservations, src \in Reservations : dst = slot[t] /\ src = from[t]
  BY <1>1 DEF IInv, TypeOK, CallShape
<1>3. dst # src /\ state_[dst] = None
  BY <1>1, <1>2, BudgetAssumption DEF IInv, CallShape, Releasing
<1>4. Transfer(dst, src) /\ UNCHANGED <<budgetVars, handle>>
  BY <1>2 DEF MoveAssign
<1>5. ~Released(dst) /\ ~Released(src)
  BY <1>1, <1>2, <1>3, BudgetAssumption DEF Released, IInv, Exclusive
<1>6. /\ \A u \in Threads \ {t} : pc'[u] = pc[u] /\ slot'[u] = slot[u] /\ on'[u] = on[u]
      /\ pc'[t] = "idle"
  BY DEF MoveAssign, Return, Goto, IInv, TypeOK
<1>7. /\ \A x \in Reservations : Released(x)' <=> Released(x)
      /\ \A x \in Budgets : Refunded(x)' <=> Refunded(x)
  BY <1>1, <1>6 DEF Released, Refunded
<1>8. Ledger!Move(dst, src)
  BY <1>3, <1>4, <1>5, <1>7, TransferRefines
<1> QED
  BY <1>3, <1>8

\* The destructor closes a child's account when it gives its capacity back.
LEMMA RefundRefines ==
  ASSUME IInv, Funded, IInv', NEW t \in Threads, Refund(t)
  PROVE  \E b \in Budgets : Ledger!Close(b)
<1>1. pc[t] = "refund" /\ Destroying(t)
  BY DEF Refund, Destroying
<1>2. PICK b \in Budgets, p \in Budgets : b = on[t] /\ p = parent[b]
  BY <1>1, BudgetAssumption DEF IInv, TypeOK, CallShape, Lifetimes
<1>3. ~Terminate(t)
  BY DEF Terminate, Goto, IInv, NoTerminate, TypeOK
<1>4. /\ used' = [used EXCEPT ![p] = @ - parent_amount[b]]
      /\ pc' = [pc EXCEPT ![t] = "free"]
      /\ UNCHANGED <<live, capacity, parent, parent_amount, handle, state_, amount_, on, slot>>
  BY <1>2, <1>3 DEF Refund, Goto, resVars
<1>5. b \in live /\ ~Referenced(b) /\ p # None
  BY <1>1, <1>2, Unreferenced, BudgetAssumption
<1>6. ~Refunded(b) /\ Refunded(b)'
  <2>1. Refunded(b)'
    BY <1>2, <1>4 DEF Refunded, IInv, TypeOK
  <2>2. ~Refunded(b)
    BY <1>1, <1>2 DEF Refunded, IInv, Exclusive, Destroying
  <2> QED
    BY <2>1, <2>2
<1>7. \A x \in Budgets \ {b} : Refunded(x)' <=> Refunded(x)
  BY <1>1, <1>2, <1>4 DEF Refunded, IInv, TypeOK
<1>8. \A x \in Reservations : Released(x)' <=> Released(x)
  BY <1>1, <1>4 DEF Released, IInv, TypeOK
<1>9. \A x \in Budgets : Referenced(x)' <=> Referenced(x)
  BY <1>4, ReferencedIff, ReferencedNext
<1>10. \A x \in Budgets \ {b} : Limit(x)' = Limit(x) /\ Funder(x)' = Funder(x)
  BY <1>4, <1>7, <1>9, EntryFrame
<1>11. \A x \in Reservations : ClaimOf(x)' = ClaimOf(x)
  BY <1>4, <1>8, ClaimFrame
<1>12. OnBooks(b) /\ ~OnBooks(b)'
  BY <1>2, <1>4, <1>5, <1>6, OnBooksIff, OnBooksNext
<1>13. /\ Limit(b) = parent_amount[b] /\ Limit(b) # 0 /\ Funder(b) = p
       /\ Limit(b)' = 0 /\ Funder(b)' = None
  BY <1>2, <1>5, <1>12, LimitOnBooks DEF Limit, Funder, Funded
<1>14. /\ \A x \in Reservations : state_[x] # b
       /\ \A x \in Budgets : parent[x] # b
       /\ b # None
  BY <1>5, ReferencedIff, BudgetAssumption
<1>15. /\ \A x \in Reservations : ClaimOf(x)[1] # b
       /\ \A x \in Budgets : Funder(x) # b
  BY <1>14 DEF ClaimOf, Funder
<1>16. used \in [Budgets -> Nat] /\ used' \in [Budgets -> Nat]
  BY DEF IInv, TypeOK
<1>17. \A x \in Budgets : used'[x] = IF x = Funder(b) THEN used[x] - Limit(b) ELSE used[x]
  BY <1>4, <1>13, <1>16
<1>18. Ledger!Close(b)
  BY <1>10, <1>11, <1>13, <1>15, <1>16, <1>17, LedgerClose
<1> QED
  BY <1>18

\* Freeing a state takes a child that was already closed, or a root that is
\* off the books, out of memory; its reference to the parent may be the last.
LEMMA FreeRefines ==
  ASSUME IInv, Funded, IInv', NEW t \in Threads, Free(t)
  PROVE  UNCHANGED Ledger!vars \/ \E b \in Budgets : Ledger!Close(b)
<1>1. Destroying(t) /\ pc[t] # "release_reset"
  BY DEF Free, Destroying
<1>2. PICK b \in Budgets : b = on[t]
  BY <1>1, BudgetAssumption DEF IInv, TypeOK, Lifetimes
<1>3. b \in live /\ ~Referenced(b)
  BY <1>1, <1>2, Unreferenced
<1>4. /\ \A r \in Reservations : state_[r] # b
      /\ \A c \in Budgets : parent[c] # b
  BY <1>3, ReferencedIff
<1>5. used[b] = 0
  BY <1>3, UnreferencedUnused DEF IInv, TypeOK
<1>6. /\ live' = live \ {b}
      /\ capacity' = [capacity EXCEPT ![b] = 0]
      /\ parent' = [parent EXCEPT ![b] = None]
      /\ UNCHANGED <<used, state_, amount_, handle>>
      /\ IF parent[b] = None THEN Resume(t) ELSE Dropped(t, parent[b])
  BY <1>2, <1>5 DEF Free, IInv, TypeOK, resVars
<1>7. /\ \A u \in Threads \ {t} : pc'[u] = pc[u] /\ slot'[u] = slot[u] /\ on'[u] = on[u]
      /\ pc'[t] \in {"idle", "assign", "destroy"}
  BY <1>6 DEF Dropped, Resume, Return, Goto, IInv, TypeOK
<1>8. \A x \in Reservations : Released(x)' <=> Released(x)
  BY <1>1, <1>7 DEF Released
<1>9. \A x \in Budgets \ {b} : Refunded(x)' <=> Refunded(x)
  BY <1>2, <1>7 DEF Refunded
<1>10. \A x \in Reservations : ClaimOf(x)' = ClaimOf(x)
  BY <1>6, <1>8, ClaimFrame
<1>11. \A x \in Budgets \ {b} : /\ x \in live' <=> x \in live
                                /\ capacity'[x] = capacity[x] /\ parent'[x] = parent[x]
  BY <1>6 DEF IInv, TypeOK
<1>12. ~OnBooks(b) /\ ~OnBooks(b)'
  <2>1. parent'[b] = None /\ b \notin live'
    BY <1>6 DEF IInv, TypeOK
  <2>2. parent[b] # None => Refunded(b)
    <3> SUFFICES ASSUME parent[b] # None PROVE Refunded(b)
      OBVIOUS
    <3>1. parent_amount[b] # 0
      BY <1>3, BudgetAssumption DEF Funded, Units
    <3>2. pc[t] = "free"
      BY <1>2, <3>1 DEF Free
    <3> QED
      BY <1>2, <3>2 DEF Refunded
  <2> QED
    BY <1>3, <2>1, <2>2, OnBooksIff, OnBooksNext
<1>13. Limit(b)' = Limit(b) /\ Funder(b)' = Funder(b)
  BY <1>12 DEF Limit, Funder
<1>14. \A x \in Budgets : Referenced(x)' <=> \/ \E u \in Threads : x \in handle[u]
                                             \/ \E r \in Reservations : state_[r] = x
                                             \/ \E c \in Budgets \ {b} : parent[c] = x
  <2>1. parent'[b] = None
    BY <1>6 DEF IInv, TypeOK
  <2> QED
    BY <1>6, <1>11, <2>1, ReferencedNext, BudgetAssumption
<1>15. \A x \in Budgets \ {b, parent[b]} : Limit(x)' = Limit(x) /\ Funder(x)' = Funder(x)
  <2>1. ASSUME NEW x \in Budgets \ {b, parent[b]}
        PROVE  Referenced(x)' <=> Referenced(x)
    BY <1>14, ReferencedIff
  <2> QED
    BY <1>9, <1>11, <2>1, EntryFrame
<1>16. CASE parent[b] = None
  <2>1. \A x \in Budgets : Limit(x)' = Limit(x) /\ Funder(x)' = Funder(x)
    BY <1>13, <1>15, <1>16, BudgetAssumption
  <2> QED
    BY <1>6, <1>10, <2>1, LedgerStutter
<1>17. CASE parent[b] # None
  <2>1. PICK p \in Budgets : p = parent[b]
    BY <1>17 DEF IInv, TypeOK
  <2>2. Referenced(p) /\ p \in live /\ p # b
    BY <1>3, <1>17, <2>1, ReferencedIff DEF IInv, Lifetimes
  <2>3. /\ p \in live' /\ capacity'[p] = capacity[p] /\ parent'[p] = parent[p]
        /\ Refunded(p)' <=> Refunded(p)
    BY <1>9, <1>11, <2>2
  <2>4. \A x \in Budgets \ {p} : Limit(x)' = Limit(x) /\ Funder(x)' = Funder(x)
    BY <1>13, <1>15, <2>1
  <2>5. UNCHANGED Ledger!vars \/ Ledger!Close(p)
    BY <1>6, <1>10, <2>2, <2>3, <2>4, LastReference
  <2> QED
    BY <2>5
<1> QED
  BY <1>16, <1>17

\* Empty books, to begin with.
LEMMA InitRefines == Init => Ledger!Init
<1> SUFFICES ASSUME Init PROVE Ledger!Init
  OBVIOUS
<1>1. \A b \in Budgets : ~OnBooks(b)
  BY DEF Init, OnBooks
<1>2. \A r \in Reservations : state_[r] = None
  BY DEF Init
<1>3. used = [b \in Budgets |-> 0]
  BY DEF Init
<1> QED
  BY <1>1, <1>2, <1>3 DEF Ledger!Init, Ledger!NoClaim

\* Every step of a thread is one step of the ledger, or none.
LEMMA StepRefines ==
  ASSUME IInv, Funded, IInv', NEW t \in Threads,
         NewWork(t) \/ ScopeExit(t) \/ Continue(t)
  PROVE  [Ledger!Next]_(Ledger!vars)
<1>1. ASSUME NEW b \in Budgets, NEW n \in Units, CreateRoot(t, b, n)
      PROVE  UNCHANGED Ledger!vars \/ Ledger!Next
  BY <1>1, CreateRootRefines DEF Ledger!Next, Ledger!Amounts, Units
<1>2. ASSUME NEW dst \in Reservations, NEW src \in Reservations, MoveConstruct(t, dst, src)
      PROVE  Ledger!Next
  BY <1>2, MoveConstructRefines DEF Ledger!Next, MoveConstruct
<1>3. ASSUME NEW b \in Budgets, DropHandle(t, b)
      PROVE  UNCHANGED Ledger!vars \/ Ledger!Next
  BY <1>3, DropHandleRefines DEF Ledger!Next
<1>4. CASE ReserveCharge(t)
  BY <1>4, ReserveChargeRefines DEF Ledger!Next, Ledger!Amounts, Units
<1>5. ASSUME NEW c \in Budgets, ChildAlloc(t, c)
      PROVE  UNCHANGED Ledger!vars
  BY <1>5, ChildAllocRefines
<1>6. CASE ChildCharge(t)
  BY <1>6, ChildChargeRefines DEF Ledger!Next, Ledger!Amounts, Units
<1>7. CASE ReleaseDebit(t)
  BY <1>7, ReleaseDebitRefines DEF Ledger!Next
<1>8. CASE ReleaseReset(t)
  BY <1>8, ReleaseResetRefines DEF Ledger!Next
<1>9. CASE MoveAssign(t)
  BY <1>9, MoveAssignRefines DEF Ledger!Next
<1>10. CASE Refund(t)
  BY <1>10, RefundRefines DEF Ledger!Next
<1>11. CASE Free(t)
  BY <1>11, FreeRefines DEF Ledger!Next
<1> QED
  BY <1>1, <1>2, <1>3, <1>4, <1>5, <1>6, <1>7, <1>8, <1>9, <1>10, <1>11, WaitingRefines
     DEF NewWork, ScopeExit, Continue

\* A step of the system is a step of the ledger, or none.
LEMMA NextRefines ==
  IInv /\ Funded /\ IInv' /\ [Next]_vars => [Ledger!Next]_(Ledger!vars)
<1> SUFFICES ASSUME IInv, Funded, IInv', [Next]_vars
             PROVE  [Ledger!Next]_(Ledger!vars)
  OBVIOUS
<1>1. CASE UNCHANGED vars
  BY <1>1 DEF vars, budgetVars, resVars, callVars, Ledger!vars, OnBooks, Owned, Refunded, Released
<1>2. CASE Next
  BY <1>2, StepRefines DEF Next
<1> QED
  BY <1>1, <1>2

\* So does every step of the system.
LEMMA FundedNext == IInv /\ Funded /\ [Next]_vars => Funded'
<1> SUFFICES ASSUME IInv, Funded, [Next]_vars PROVE Funded'
  OBVIOUS
<1>1. CASE UNCHANGED vars
  BY <1>1, FundedFrame DEF vars, budgetVars, callVars, Asking
<1>2. CASE Next
  BY <1>2, FundedStep DEF Next
<1> QED
  BY <1>1, <1>2

\* What is asked for and what is owed stay on record in every execution.
LEMMA FundedInvariance ==
  Spec => [](IInv /\ Funded)
<1>1. Init => IInv /\ Funded
  BY InitStep, FundedInit
<1>2. IInv /\ Funded /\ [Next]_vars => (IInv /\ Funded)'
  BY NextStep, FundedNext
<1> QED
  BY <1>1, <1>2, PTL DEF Spec

\* The concurrent implementation is the atomic ledger.
THEOREM LedgerImplemented ==
  Spec => LedgerSpec
<1>1. IInv /\ Funded /\ IInv' /\ [Next]_vars => [Ledger!Next]_(Ledger!vars)
  BY NextRefines
<1> QED
  BY <1>1, FundedInvariance, InitRefines, PTL DEF Spec, LedgerSpec, Ledger!Spec

-----------------------------------------------------------------------------
(* The hierarchy.                                                          *)

\* Every budget below b but b has its parent below b.
LEMMA SubtreeUp ==
  ASSUME NEW b \in Budgets
  PROVE  /\ b \in Subtree(b) /\ Subtree(b) \subseteq Budgets
         /\ \A c \in Subtree(b) \ {b} : parent[c] \in Subtree(b)
<1> DEFINE tree == Subtree(b)
           kept == {c \in tree : c = b \/ parent[c] \in tree}
<1>1. b \in tree /\ tree \subseteq Budgets
  BY DEF Subtree
<1>2. ASSUME NEW x \in Budgets, parent[x] \in tree
      PROVE  x \in tree
  BY <1>2 DEF Subtree
<1>3. kept \in SUBSET Budgets /\ b \in kept
  BY <1>1
<1>4. \A x \in Budgets : parent[x] \in kept => x \in kept
  BY <1>2
<1>5. tree \subseteq kept
  BY <1>3, <1>4 DEF Subtree
<1> QED
  BY <1>1, <1>5

\* The units of a budget that are charged can be numbered.
LEMMA ChargesNumbered ==
  ASSUME IInv, NEW b \in Budgets
  PROVE  \E f \in [{u \in Holders \X Units : u[2] <= Held(b)[u[1]]} -> 1..used[b]] :
           \A u, v \in DOMAIN f : f[u] = f[v] => u = v
<1> DEFINE charged == {u \in Holders \X Units : u[2] <= Held(b)[u[1]]}
<1>1. IsFiniteSet(charged) /\ Cardinality(charged) = used[b]
  BY UnitsFinite DEF Total, IInv, Conservation
<1>2. used[b] \in Nat
  BY DEF IInv, TypeOK
<1>3. IsFiniteSet(1..used[b]) /\ Cardinality(1..used[b]) = used[b]
  <2>1. PICK n \in Nat : n = used[b]
    BY <1>2
  <2>2. IsFiniteSet(1..n) /\ Cardinality(1..n) = n
    BY FS_Interval
  <2> QED
    BY <2>1, <2>2
<1> HIDE DEF charged
<1>4. PICK f : f \in Bijection(charged, 1..used[b])
  BY <1>1, <1>3, FS_SameCardinalityBij DEF ExistsBijection
<1>5. f \in [charged -> 1..used[b]] /\ \A u, v \in charged : f[u] = f[v] => u = v
  BY <1>4 DEF Bijection, Injection, IsInjective
<1> QED
  BY <1>5 DEF charged

\* What the reservations below b hold is part of what b has granted: every
\* child was charged to its parent in full, and uses no more than that.
LEMMA SubtreeWithinUsed ==
  ASSUME IInv, Funded, NEW b \in Budgets,
         NEW reserved, reserved = [o \in Holders |->
           IF o \in Reservations /\ state_[o] \in Subtree(b) /\ ~Released(o)
           THEN amount_[o] ELSE 0]
  PROVE  Total(reserved) <= used[b]
<1> DEFINE tree == Subtree(b)
           paid == {v \in tree \X Units : v[2] <= used[v[1]]}
           own == {b} \X (1..used[b])
           below == {v \in paid : v[1] # b}
           charged(x) == {u \in Holders \X Units : u[2] <= Held(x)[u[1]]}
           charges == {w \in tree \X (Holders \X Units) : w[2] \in charged(w[1])}
           byRes == {w \in charges : w[2][1] \in Reservations}
           byKids == {w \in charges : w[2][1] \in Budgets}
           resUnits == {u \in Holders \X Units : u[2] <= reserved[u[1]]}
<1>1. /\ tree \subseteq Budgets /\ b \in tree
      /\ \A c \in tree \ {b} : parent[c] \in tree
  BY SubtreeUp
<1>2. /\ MaxUnits \in Nat
      /\ \A x \in Budgets : used[x] \in Nat /\ used[x] <= capacity[x] /\ capacity[x] \in 0..MaxUnits
  BY BudgetAssumption DEF IInv, TypeOK, UsedWithinCapacity
<1>3. IsFiniteSet(tree) /\ IsFiniteSet(Units)
  BY <1>1, <1>2, BudgetAssumption, FS_Subset, FS_Interval DEF Units
<1>4. IsFiniteSet(paid)
  <2>1. IsFiniteSet(tree \X Units)
    BY <1>3, FS_Product
  <2> QED
    BY <2>1, FS_Subset
<1>5. paid = own \cup below /\ own \cap below = {}
  BY <1>1, <1>2 DEF Units
<1>6. IsFiniteSet(own) /\ Cardinality(own) = used[b]
  BY <1>2, BlockSize
<1>7. IsFiniteSet(below)
  BY <1>4, FS_Subset
<1>8. Cardinality(paid) = used[b] + Cardinality(below)
  <2> HIDE DEF paid, own, below
  <2>1. Cardinality(own \cup below) = Cardinality(own) + Cardinality(below) - Cardinality({})
    BY <1>5, <1>6, <1>7, FS_Union
  <2>2. Cardinality(below) \in Nat
    BY <1>7, FS_CardinalityType
  <2> QED
    BY <1>2, <1>5, <1>6, <2>1, <2>2, FS_EmptySet
<1>9. IsFiniteSet(charges) /\ Cardinality(charges) <= Cardinality(paid)
  <2> DEFINE number(x) == CHOOSE f \in [charged(x) -> 1..used[x]] :
                            \A u, v \in DOMAIN f : f[u] = f[v] => u = v
             map == [w \in charges |-> <<w[1], number(w[1])[w[2]]>>]
  <2>1. ASSUME NEW x \in tree
        PROVE  /\ number(x) \in [charged(x) -> 1..used[x]]
               /\ \A u, v \in charged(x) : number(x)[u] = number(x)[v] => u = v
    <3>1. \E f \in [charged(x) -> 1..used[x]] : \A u, v \in DOMAIN f : f[u] = f[v] => u = v
      BY <1>1, ChargesNumbered
    <3> HIDE DEF charged
    <3>2. /\ number(x) \in [charged(x) -> 1..used[x]]
          /\ \A u, v \in DOMAIN number(x) : number(x)[u] = number(x)[v] => u = v
      BY <3>1
    <3> QED
      BY <3>2
  <2>2. ASSUME NEW w \in charges
        PROVE  /\ w[1] \in tree /\ w[2] \in charged(w[1]) /\ w = <<w[1], w[2]>>
               /\ number(w[1])[w[2]] \in 1..used[w[1]]
    <3>1. w[1] \in tree /\ w[2] \in charged(w[1]) /\ w = <<w[1], w[2]>>
      OBVIOUS
    <3> HIDE DEF charged, number
    <3> QED
      BY <2>1, <3>1
  <2> HIDE DEF charged, number, charges
  <2>3. map \in [charges -> paid]
    <3>1. ASSUME NEW w \in charges
          PROVE  <<w[1], number(w[1])[w[2]]>> \in paid
      <4>1. /\ w[1] \in tree /\ w[1] \in Budgets
            /\ number(w[1])[w[2]] \in Units
            /\ number(w[1])[w[2]] <= used[w[1]]
        BY <1>1, <1>2, <2>2 DEF Units
      <4> QED
        BY <4>1
    <3> QED
      BY <3>1
  <2>4. ASSUME NEW v \in charges, NEW w \in charges, map[v] = map[w]
        PROVE  v = w
    <3>1. v[1] = w[1] /\ number(v[1])[v[2]] = number(w[1])[w[2]]
      BY <2>4
    <3> QED
      BY <2>1, <2>2, <3>1
  <2> HIDE DEF map, paid
  <2> QED
    BY <1>4, <2>3, <2>4, InjectionBound
<1>10. charges = byRes \cup byKids /\ byRes \cap byKids = {}
  BY BudgetAssumption DEF Holders
<1>11. IsFiniteSet(byRes) /\ IsFiniteSet(byKids)
  BY <1>9, FS_Subset
<1>12. Cardinality(charges) = Cardinality(byRes) + Cardinality(byKids)
  <2> HIDE DEF charges, byRes, byKids
  <2>1. Cardinality(byRes \cup byKids) =
          Cardinality(byRes) + Cardinality(byKids) - Cardinality({})
    BY <1>10, <1>11, FS_Union
  <2>2. Cardinality(byRes) \in Nat /\ Cardinality(byKids) \in Nat
    BY <1>11, FS_CardinalityType
  <2> QED
    BY <1>10, <2>1, <2>2, FS_EmptySet
<1>13. Cardinality(resUnits) <= Cardinality(byRes)
  <2> DEFINE map == [u \in resUnits |-> <<state_[u[1]], u>>]
  <2>1. ASSUME NEW u \in resUnits
        PROVE  <<state_[u[1]], u>> \in byRes
    <3>1. /\ u[1] \in Holders /\ u[2] \in Units /\ u[2] > 0 /\ u[2] <= reserved[u[1]]
      BY DEF Units
    <3>2. /\ u[1] \in Reservations /\ state_[u[1]] \in tree /\ ~Released(u[1])
          /\ u[2] <= amount_[u[1]]
      <4>1. reserved[u[1]] =
              IF u[1] \in Reservations /\ state_[u[1]] \in tree /\ ~Released(u[1])
              THEN amount_[u[1]] ELSE 0
        BY <3>1
      <4>2. u[2] \in Int /\ ~(u[2] <= 0)
        BY <3>1 DEF Units
      <4> QED
        BY <3>1, <4>1, <4>2
    <3>3. u[2] <= Held(state_[u[1]])[u[1]]
      BY <3>1, <3>2 DEF Held
    <3> QED
      BY <3>1, <3>2, <3>3
  <2>2. map \in [resUnits -> byRes]
    BY <2>1
  <2>3. \A u, v \in resUnits : map[u] = map[v] => u = v
    OBVIOUS
  <2> HIDE DEF map, resUnits, byRes
  <2> QED
    BY <1>11, <2>2, <2>3, InjectionBound
<1>14. Cardinality(below) <= Cardinality(byKids)
  <2> DEFINE map == [v \in below |-> <<parent[v[1]], v>>]
  <2>1. ASSUME NEW v \in below
        PROVE  <<parent[v[1]], v>> \in byKids
    <3>1. /\ v[1] \in tree \ {b} /\ v[1] \in Budgets /\ v[2] \in Units /\ v[2] > 0
          /\ v[2] <= used[v[1]]
      BY <1>1 DEF Units
    <3>2. parent[v[1]] \in tree /\ parent[v[1]] # None
      BY <1>1, <3>1, BudgetAssumption
    <3>3. ~Refunded(v[1])
      <4>1. used[v[1]] # 0
        BY <1>2, <3>1 DEF Units
      <4> QED
        BY <3>1, <4>1, Unreferenced, UnreferencedUnused DEF Refunded, Destroying
    <3>4. v[1] \notin Reservations
      BY <3>1, BudgetAssumption
    <3>5. Held(parent[v[1]])[v[1]] = parent_amount[v[1]]
      BY <3>1, <3>3, <3>4 DEF Held, Holders
    <3>6. parent_amount[v[1]] = capacity[v[1]]
      BY <3>1, <3>2 DEF Funded
    <3>7. v[2] <= Held(parent[v[1]])[v[1]]
      BY <1>2, <3>1, <3>5, <3>6 DEF Units
    <3>8. v = <<v[1], v[2]>> /\ v[1] \in Holders
      BY <3>1 DEF Holders
    <3> QED
      BY <3>1, <3>2, <3>7, <3>8
  <2>2. map \in [below -> byKids]
    BY <2>1
  <2>3. \A u, v \in below : map[u] = map[v] => u = v
    OBVIOUS
  <2> HIDE DEF map, below, byKids
  <2> QED
    BY <1>11, <2>2, <2>3, InjectionBound
<1>15. Total(reserved) = Cardinality(resUnits)
  BY DEF Total
<1>16. /\ Cardinality(resUnits) \in Nat /\ Cardinality(byRes) \in Nat
       /\ Cardinality(byKids) \in Nat /\ Cardinality(below) \in Nat
       /\ Cardinality(paid) \in Nat /\ used[b] \in Nat
  <2>1. IsFiniteSet(resUnits)
    BY UnitsFinite
  <2> HIDE DEF resUnits, byRes, byKids, below, paid
  <2> QED
    BY <1>2, <1>4, <1>7, <1>11, <2>1, FS_CardinalityType
<1> HIDE DEF resUnits, byRes, byKids, below, paid, charges
<1> QED
  BY <1>8, <1>9, <1>12, <1>13, <1>14, <1>15, <1>16

\* Sibling scopes can never together promise more than their parent owns,
\* however deep the hierarchy is.
THEOREM HierarchyWithinCapacity ==
  Spec => []SubtreeWithinCapacity
<1>1. IInv /\ Funded => SubtreeWithinCapacity
  <2> SUFFICES ASSUME IInv, Funded, NEW b \in live,
                      NEW reserved, reserved = [o \in Holders |->
                        IF o \in Reservations /\ state_[o] \in Subtree(b) /\ ~Released(o)
                        THEN amount_[o] ELSE 0]
               PROVE  Total(reserved) <= capacity[b]
    BY DEF SubtreeWithinCapacity
  <2>1. b \in Budgets /\ used[b] <= capacity[b] /\ used[b] \in Nat /\ capacity[b] \in Nat
    BY BudgetAssumption DEF IInv, TypeOK, UsedWithinCapacity
  <2>2. Total(reserved) <= used[b]
    BY <2>1, SubtreeWithinUsed
  <2>3. Total(reserved) \in Nat
    BY UnitsFinite, FS_CardinalityType DEF Total
  <2> QED
    BY <2>1, <2>2, <2>3
<1> QED
  BY <1>1, FundedInvariance, PTL

=============================================================================
