----------------------------- MODULE PlanContract -----------------------------
(***************************************************************************)
(* What createSchedule (src/src/scheduler.ts) promises of the plan it      *)
(* returns, whatever its algorithm: Scheduler is shown to keep it, and     *)
(* PlanLifecycle relies on it.                                             *)
(*                                                                         *)
(* What is asked: the tasks [id, length, splittable, valid, earliest,      *)
(* latest, dayparts], the working windows, the busy intervals of the       *)
(* calendar and the blocks to keep.  The plan: its blocks [task, start,    *)
(* end, ...], the tasks left out, and its status.                          *)
(***************************************************************************)
EXTENDS Slots, FiniteSetsExt

SpanOf(b) == [start |-> b.start, end |-> b.end]

NewIn(asked, plan) == plan.blocks \ asked.kept
BlocksFor(asked, plan, t) == {b \in NewIn(asked, plan) : b.task = t.id}

\* Blocks the user locked are in the plan as they were.
KeepsLocked(asked, plan) == asked.kept \subseteq plan.blocks

\* (mutant) A new block is not held against the blocks that are kept.
EveryBlockAllowedBesideKept(asked, plan) ==
  \A b \in NewIn(asked, plan) :
    /\ \E t \in asked.tasks : /\ t.id = b.task /\ t.valid
                              /\ t.earliest <= b.start /\ b.end <= t.latest
    /\ \E window \in asked.windows : Within(b, window)
    /\ \A x \in asked.busy : ~Overlaps(b, x)
    /\ \A c \in NewIn(asked, plan) \ {b} : ~Overlaps(b, c)

\* A new block is for a schedulable task, in one working window, within the
\* bounds of its task, and clear of the calendar and of every other block.
EveryBlockAllowed(asked, plan) ==
  \A b \in NewIn(asked, plan) :
    /\ \E t \in asked.tasks : /\ t.id = b.task /\ t.valid
                              /\ t.earliest <= b.start /\ b.end <= t.latest
    /\ \E window \in asked.windows : Within(b, window)
    /\ \A x \in asked.busy : ~Overlaps(b, x)
    /\ \A c \in plan.blocks \ {b} : ~Overlaps(b, c)

\* A task has blocks for its whole length, or is reported as left out.
WholeOrLeftOut(asked, plan) ==
  \A t \in asked.tasks :
    LET own == BlocksFor(asked, plan, t)
    IN  /\ t.id \in plan.left <=> own = {}
        /\ own # {} => /\ MapThenSumSet(LAMBDA b : b.end - b.start, own) = t.length
                       /\ ~t.splittable => Cardinality(own) = 1

\* The earliest slot of a length that the finished plan leaves free for a task.
FreeSlots(asked, plan, length, t) ==
  FindSlots(asked.windows, asked.busy \cup {SpanOf(b) : b \in plan.blocks},
            length, t.earliest, t.latest, {})

\* A task that may not be split is left out only if it really does not fit: not
\* even the finished plan has a free slot for it.
LeftOutWithReason(asked, plan) ==
  \A t \in asked.tasks :
    (t.id \in plan.left /\ t.valid /\ ~t.splittable) =>
      FreeSlots(asked, plan, t.length, t) = {}

\* A task without preferred dayparts is placed as early as the plan allows: no block
\* of it could start earlier, in time that the finished plan leaves free.
NoSlotEarlier(asked, plan) ==
  \A t \in asked.tasks : t.dayparts = {} =>
    \A b \in BlocksFor(asked, plan, t) :
      \A slot \in FreeSlots(asked, plan, b.end - b.start, t) : b.start < slot.start

\* The plan is FAILED exactly when something was left out.
HonestStatus(plan) ==
  plan.status = IF plan.left = {} THEN "PROPOSED" ELSE "FAILED"

Meets(asked, plan) ==
  /\ KeepsLocked(asked, plan)
  /\ EveryBlockAllowed(asked, plan)
  /\ WholeOrLeftOut(asked, plan)
  /\ LeftOutWithReason(asked, plan)
  /\ NoSlotEarlier(asked, plan)
  /\ HonestStatus(plan)
=============================================================================
