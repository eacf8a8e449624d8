--------------------------- MODULE PlanningInputs ----------------------------
(***************************************************************************)
(* The two inputs of a plan that come from wall clocks: the busy events of *)
(* an imported calendar (RecurrenceRules) and the working windows of the   *)
(* user (WorkingWindows), around one event whose zone is also the user's.  *)
(***************************************************************************)
EXTENDS RecurrenceRules, WorkingWindows

PlanningRange == [start |-> Start - 30, end |-> Start + 75]

\* The working windows lie in the range and cover exactly the hours that the
\* clocks of the user's zone show as working time and not as a break, whatever
\* its clocks do.  On a day on which one of the times does not exist, or exists
\* twice, the windows may be off by the hour in question.
WindowsAreLocalHours ==
  (phase = "done" /\ Zone # None) =>
    \A saved \in WorkingHours :
      LET hours == [saved EXCEPT !.timezone = Zone]
          windows == BuildWorkingWindows(hours, PlanningRange)
          days == EnumerateLocalDates(Zone, PlanningRange)
          plain == {d \in days : Plain(hours, d)}
          open(t) == \E x \in windows : x.start <= t /\ t < x.end
      IN  /\ \A x \in windows : PlanningRange.start <= x.start /\ x.end <= PlanningRange.end
          /\ \A x, y \in windows : x = y \/ x.end <= y.start \/ y.end <= x.start
          /\ \A t \in PlanningRange.start..PlanningRange.end - 1 :
               IF LocalDayOf(t) \in plain THEN open(t) <=> Working(hours, t)
               ELSE open(t) => \E u \in t - 1..t + 1 : Working(hours, u)
=============================================================================
