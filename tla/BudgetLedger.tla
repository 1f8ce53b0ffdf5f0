---------------------------- MODULE BudgetLedger ----------------------------
(***************************************************************************)
(* What hierarchical budgets promise, without threads, mutexes or          *)
(* reference counts: a ledger of accounts in which every operation of      *)
(* src/resource.cpp that changes accounting is one indivisible step.       *)
(* Capacity is granted only when it is free, comes back exactly once, and  *)
(* an account is closed, its capacity going back to the account that       *)
(* funded it, only when nothing is drawn on it any more.                   *)
(***************************************************************************)
EXTENDS Integers

CONSTANTS Accounts, Claims, MaxUnits, None

VARIABLES
  limit,   \* limit[a]: capacity of an open account, 0 when it is not open
  spent,   \* spent[a]: how much of it is granted
  funder,  \* funder[a]: the account that paid for a, or None for a root
  claim    \* claim[k]: <<account, amount>> of an outstanding reservation

vars == <<limit, spent, funder, claim>>

Amounts == 1..MaxUnits
NoClaim == <<None, 0>>

Open(a) == limit[a] # 0
Free(a) == limit[a] - spent[a]

OpenRoot(a, n) ==
  /\ ~Open(a)
  /\ limit' = [limit EXCEPT ![a] = n]
  /\ UNCHANGED <<spent, funder, claim>>

\* create_child: the child's whole capacity is taken from its funder.
Fund(p, a, n) ==
  /\ Open(p) /\ ~Open(a)
  /\ n <= Free(p)
  /\ limit' = [limit EXCEPT ![a] = n]
  /\ spent' = [spent EXCEPT ![p] = @ + n]
  /\ funder' = [funder EXCEPT ![a] = p]
  /\ UNCHANGED claim

\* reserve
Grant(k, a, n) ==
  /\ Open(a)
  /\ claim[k] = NoClaim
  /\ n <= Free(a)
  /\ claim' = [claim EXCEPT ![k] = <<a, n>>]
  /\ spent' = [spent EXCEPT ![a] = @ + n]
  /\ UNCHANGED <<limit, funder>>

\* release
Repay(k) ==
  /\ claim[k] # NoClaim
  /\ claim' = [claim EXCEPT ![k] = NoClaim]
  /\ spent' = [spent EXCEPT ![claim[k][1]] = @ - claim[k][2]]
  /\ UNCHANGED <<limit, funder>>

\* move construction and move assignment
Move(dst, src) ==
  /\ claim[dst] = NoClaim
  /\ claim' = [claim EXCEPT ![dst] = claim[src], ![src] = NoClaim]
  /\ UNCHANGED <<limit, spent, funder>>

\* ~ResourceBudgetState: nothing is drawn on a any more
Close(a) ==
  /\ Open(a)
  /\ \A k \in Claims : claim[k][1] # a
  /\ \A c \in Accounts : funder[c] # a
  /\ limit' = [limit EXCEPT ![a] = 0]
  /\ funder' = [funder EXCEPT ![a] = None]
  /\ spent' = [x \in Accounts |->
                 IF x = funder[a] THEN spent[x] - limit[a] ELSE spent[x]]
  /\ UNCHANGED claim

Init ==
  /\ limit = [a \in Accounts |-> 0]
  /\ spent = [a \in Accounts |-> 0]
  /\ funder = [a \in Accounts |-> None]
  /\ claim = [k \in Claims |-> NoClaim]

Next ==
  \/ \E a \in Accounts, n \in Amounts :
       \/ OpenRoot(a, n)
       \/ \E p \in Accounts : Fund(p, a, n)
       \/ \E k \in Claims : Grant(k, a, n)
  \/ \E k \in Claims : Repay(k)
  \/ \E dst, src \in Claims : dst # src /\ Move(dst, src)
  \/ \E a \in Accounts : Close(a)

Spec == Init /\ [][Next]_vars

=============================================================================
