------------------------------- MODULE Checks -------------------------------
(***************************************************************************)
(* How the functions of the engine fail: a list of checks made in order,   *)
(* the first that fails deciding the error (result.hpp), and the unsigned  *)
(* arithmetic they use (checked_arithmetic.cpp).                           *)
(***************************************************************************)
EXTENDS Naturals, SequencesExt

CONSTANT MaxWord  \* largest std::uint64_t

ASSUME WordAssumption == MaxWord \in Nat

Check(fails, error) == [fails |-> fails, error |-> error]

\* The error of the first check that fails, "none" if all pass.
FirstError(checks) ==
  LET first == SelectInSeq(checks, LAMBDA c : c.fails)
  IN IF first = 0 THEN "none" ELSE checks[first].error

\* Mutant: the sum is compared after it has wrapped.
AddWrapsFirst(left, right) == (left + right) % (MaxWord + 1) > MaxWord

\* checked_add and checked_multiply
AddOverflows(left, right) == right > MaxWord - left

MultiplyOverflows(left, right) == left # 0 /\ right > MaxWord \div left

=============================================================================
