------------------------------- MODULE Planning -------------------------------
(***************************************************************************)
(* Planning seen from outside: something is asked for, and one step later  *)
(* there is a plan that meets PlanContract.  Scheduler implements this.    *)
(***************************************************************************)
EXTENDS PlanContract

CONSTANT NoPlan   \* no plan has been returned yet

VARIABLES
  asked,   \* what is asked for
  plan     \* the plan, NoPlan until it is returned

Init == plan = NoPlan

Answer ==
  /\ plan = NoPlan /\ plan' # NoPlan
  /\ Meets(asked, plan')
  /\ UNCHANGED asked

Spec == Init /\ [][Answer]_<<asked, plan>>
=============================================================================
