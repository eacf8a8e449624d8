----------------------------- MODULE MCScheduler -----------------------------
(* Three tasks with varied constraints, two windows, a few events and locked   *)
(* blocks, over a planning range of 12 units.                                  *)
EXTENDS Scheduler

MCDaypart == {"MORNING", "AFTERNOON"}
MCDaypartFrom == [MORNING |-> 2, AFTERNOON |-> 4]
MCDaypartTo == [MORNING |-> 4, AFTERNOON |-> 6]

I(s, e) == [start |-> s, end |-> e]
E(s, e) == [start |-> s, end |-> e, blocking |-> TRUE, before |-> 0, after |-> 0]
L(task, k, s, e, locked) ==
  [id |-> <<task, k>>, task |-> task, start |-> s, end |-> e, locked |-> locked]

Plain(id) ==
  [id |-> id, priority |-> 1, deadline |-> None, created |-> 0, earliest |-> None,
   remaining |-> 2, estimated |-> 2, splittable |-> FALSE,
   min |-> None, max |-> None, pref |-> None,
   inScope |-> TRUE, eligible |-> TRUE, blocked |-> FALSE, waiting |-> FALSE,
   mode |-> "FLEXIBLE", dayparts |-> {}, dependencies |-> <<>>]

First == LET t == Plain("a") IN
  {t, [t EXCEPT !.deadline = 5, !.remaining = 3, !.mode = "DEADLINE_DRIVEN"],
   [t EXCEPT !.dayparts = {"AFTERNOON"}, !.earliest = 3],
   [t EXCEPT !.blocked = TRUE], [t EXCEPT !.min = 3],
   [t EXCEPT !.mode = "DEADLINE_DRIVEN"]}
Second == LET t == [Plain("b") EXCEPT !.splittable = TRUE, !.remaining = 3] IN
  {[t EXCEPT !.min = 1, !.max = 2], [t EXCEPT !.min = 2, !.max = 2],
   [t EXCEPT !.pref = 1, !.priority = 0], [t EXCEPT !.remaining = 8, !.max = 2],
   [t EXCEPT !.min = 1, !.max = 1, !.deadline = 9, !.dependencies = <<"a", "c">>]}
Third == LET t == Plain("c") IN
  {t, [t EXCEPT !.dependencies = <<"a">>, !.remaining = 1],
   [t EXCEPT !.earliest = 4, !.deadline = 6, !.priority = 2],
   [t EXCEPT !.dayparts = {"MORNING"}, !.remaining = 1, !.dependencies = <<"b">>]}

\* Calendars: working windows, events, and the blocks of an earlier plan.
Calendar(windows, events, existing) ==
  [windows |-> windows, events |-> events, existing |-> existing]
Split == {I(0, 4), I(5, 10)}
Short == {I(1, 7)}
OldPlan == {L("d", 1, 6, 8, TRUE), L("e", 1, 0, 2, FALSE)}
Overlapping == {L("d", 1, 1, 3, TRUE), L("d", 2, 2, 4, TRUE)}
Calendars ==
  {Calendar(Split, {}, {}), Calendar(Split, {E(2, 3)}, OldPlan),
   Calendar(Split, {[E(3, 4) EXCEPT !.before = 1, !.after = 2], E(7, 8)}, {}),
   Calendar(Short, {E(1, 4), E(2, 3)}, {}), Calendar(Short, {}, Overlapping),
   Calendar(Split, {[E(0, 9) EXCEPT !.blocking = FALSE], E(5, 6)}, Overlapping),
   Calendar(Short, {E(2, 3)}, OldPlan)}

\* Batches for the ordering, without a window: every graph that three tasks give
\* with six dependency lists each (cycles, self-dependencies and an id outside the
\* batch included), under four combinations of sort keys.
Lists == {<<>>, <<"a">>, <<"b">>, <<"c">>, <<"gone", "c">>, <<"b", "a">>}
Keyed(id, priority, deadline, created, deps) ==
  [Plain(id) EXCEPT !.priority = priority, !.deadline = deadline, !.created = created,
                    !.dependencies = deps]
OrderRequests ==
  {[tasks |-> <<Keyed("a", x[1], x[2], 3, l[1]), Keyed("b", 1, y, 2, l[2]),
                Keyed("c", 1, None, 1, l[3])>>,
    windows |-> {}, events |-> {}, existing |-> {}, range |-> I(1, 11)] :
     x \in {<<0, 5>>, <<1, None>>}, y \in {None, 5}, l \in Lists \X Lists \X Lists}

MCRequests == OrderRequests \cup
  {[tasks |-> <<x, y, z>>, windows |-> c.windows, events |-> c.events,
    existing |-> c.existing, range |-> I(1, 11)] :
     x \in First, y \in Second, z \in Third, c \in Calendars}

MCBatches == {r.tasks : r \in MCRequests}
=============================================================================
