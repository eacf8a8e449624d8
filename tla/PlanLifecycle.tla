----------------------------- MODULE PlanLifecycle -----------------------------
(***************************************************************************)
(* The life of schedule plans in the API (src/src/api.ts) and its store    *)
(* (src/src/repositories.ts): plans are made, accepted, rejected, replanned *)
(* and written back to a calendar; their blocks are locked, completed,     *)
(* missed and moved; tasks and calendar events change in between.          *)
(*                                                                         *)
(* One user, whose requests each run without interruption.  A plan is made *)
(* by createSchedule, of which only the contract (PlanContract) is used.   *)
(* A plan's id is that of its range, and a block's id is that of its task  *)
(* and piece: plans of overlapping ranges share block ids, and a request   *)
(* on a block id changes the block in every plan.  A request that is       *)
(* refused changes nothing and is no step here.                            *)
(***************************************************************************)
EXTENDS PlanContract

CONSTANTS
  Task,          \* ids of the tasks that may exist
  Pieces,        \* number of blocks of unit length each is booked in
  PlanId,        \* ids of the plans
  PlanRange,         \* the planning range of each, which is working time
  Calendar,      \* calendars that plans are written back to
  EventId(_, _), \* the event a block is written to in a calendar: both ids sanitised,
                 \* so that blocks may share one
  OtherEvents,   \* events the user or an import may put into any calendar
  MoveTargets,   \* times a block may be moved to by hand, both or either of its ends
  NoPlan,        \* no plan has been made for a range yet
  MaxEdits       \* bound on the changes to blocks, tasks and events

ASSUME LifecycleAssumption ==
  /\ Pieces \in [Task -> Nat \ {0}]
  /\ PlanRange \in [PlanId -> Interval]
  /\ \A e \in OtherEvents : /\ {"id", "calendar", "start", "end"} = DOMAIN e
                            /\ e.start < e.end
  /\ MoveTargets \subseteq Interval
  /\ MaxEdits \in Nat

VARIABLES
  tasks,    \* the tasks of the user
  plans,    \* for each id the plan [status, blocks, left], or NoPlan
  events,   \* blocking calendar events: [id, calendar, start, end]
  moved,    \* blocks placed by hand since the plan was made: <<plan, block id>>
  edits     \* number of changes counted against MaxEdits

vars == <<tasks, plans, events, moved, edits>>

-----------------------------------------------------------------------------
BlockId == {id \in Task \X (1..4) : id[2] <= Pieces[id[1]]}
Planned == {p \in PlanId : plans[p] # NoPlan}
HoldsBlock(p, id) == \E b \in plans[p].blocks : b.id = id

\* Where a block of unit length may start, clear of the calendar.
FreeStarts(p) ==
  {s \in PlanRange[p].start..PlanRange[p].end - 1 :
     \A e \in events : ~Overlaps(SlotAt(s, 1), e)}

\* toTimeBlock
NewBlock(id, start) ==
  [id |-> id, task |-> id[1], start |-> start, end |-> start + 1,
   status |-> "PROPOSED", locked |-> FALSE]

\* The CreateScheduleInput for a range, a batch of tasks and blocks to keep.
Asked(p, batch, kept) ==
  [tasks |-> {[id |-> t, length |-> Pieces[t], splittable |-> Pieces[t] > 1, valid |-> TRUE,
               earliest |-> PlanRange[p].start, latest |-> PlanRange[p].end,
               dayparts |-> {}] : t \in batch},
   windows |-> {PlanRange[p]},
   busy |-> {SpanOf(e) : e \in events},
   kept |-> kept]

\* Where the tasks of a set may be booked: each piece at a start of its own, the
\* pieces of a task in order (findSlot takes the earliest slot).
Placements(p, booked) ==
  LET ids == {id \in BlockId : id[1] \in booked}
  IN  {at \in [ids -> FreeStarts(p)] :
         /\ \A x, y \in ids : at[x] = at[y] => x = y
         /\ \A x, y \in ids : (x[1] = y[1] /\ x[2] < y[2]) => at[x] < at[y]}

\* The plans createSchedule may return.
PlansFor(p, batch, kept) ==
  LET asked == Asked(p, batch, kept)
      plan(booked, at) ==
        [status |-> IF booked = batch THEN "PROPOSED" ELSE "FAILED",
         blocks |-> kept \cup {NewBlock(id, at[id]) : id \in DOMAIN at},
         left |-> batch \ booked]
  IN  {result \in UNION {{plan(booked, at) : at \in Placements(p, booked)} :
                           booked \in SUBSET batch} :
         Meets(asked, result)}

-----------------------------------------------------------------------------
Init ==
  /\ tasks = Task
  /\ plans = [p \in PlanId |-> NoPlan]
  /\ events = {} /\ moved = {} /\ edits = 0

\* POST /api/schedule-plans: made from nothing, also where there was a plan.
Create(p) ==
  /\ \E plan \in PlansFor(p, tasks, {}) : plans' = [plans EXCEPT ![p] = plan]
  /\ moved' = {m \in moved : m[1] # p}
  /\ UNCHANGED <<tasks, events, edits>>

WithStatus(plan, status) == [plan EXCEPT !.status = status]
WithBlocks(plan, blocks) == [plan EXCEPT !.blocks = blocks]
Accepted(blocks) == {IF b.locked THEN b ELSE [b EXCEPT !.status = "ACCEPTED"] : b \in blocks}

\* POST .../accept, whatever the status of the plan and of its blocks.
Accept(p) ==
  /\ p \in Planned
  /\ plans' = [plans EXCEPT ![p] = WithBlocks(WithStatus(@, "ACCEPTED"), Accepted(@.blocks))]
  /\ UNCHANGED <<tasks, events, moved, edits>>

\* POST .../reject
Reject(p) ==
  /\ p \in Planned
  /\ plans' = [plans EXCEPT ![p] = WithStatus(@, "REJECTED")]
  /\ UNCHANGED <<tasks, events, moved, edits>>

\* (mutant) A completed block is kept only if it is locked.
PreservedIfLocked(p) == {b \in plans[p].blocks : b.locked}

\* What replanSchedule keeps; a completed block is locked from then on.
Preserved(p) ==
  {IF b.status = "COMPLETED" THEN [b EXCEPT !.locked = TRUE] ELSE b :
     b \in {c \in plans[p].blocks : c.locked \/ c.status \in {"LOCKED", "COMPLETED"}}}

\* The tasks replanSchedule places: those without a kept block.
Batch(p) == tasks \ {b.task : b \in Preserved(p)}

\* POST .../replan
Replan(p) ==
  /\ p \in Planned
  /\ \E plan \in PlansFor(p, Batch(p), Preserved(p)) :
       plans' = [plans EXCEPT ![p] = plan]
  /\ moved' = {m \in moved : m[1] = p => \E b \in Preserved(p) : b.id = m[2]}
  /\ UNCHANGED <<tasks, events, edits>>

-----------------------------------------------------------------------------
Edit == edits < MaxEdits /\ edits' = edits + 1

\* A block request: the block with this id is replaced in every plan.
UpdateBlocks(id, Update(_)) ==
  /\ \E p \in Planned : HoldsBlock(p, id)
  /\ plans' = [p \in PlanId |->
       IF p \notin Planned THEN NoPlan
       ELSE WithBlocks(plans[p], {IF b.id = id THEN Update(b) ELSE b : b \in plans[p].blocks})]

\* applyBlockAction: no state of the block rules an action out.
ApplyBlockAction(b, action) ==
  CASE action = "lock" -> [b EXCEPT !.locked = TRUE, !.status = "LOCKED"]
    [] action = "unlock" -> [b EXCEPT !.locked = FALSE, !.status = "ACCEPTED"]
    [] action = "complete" -> [b EXCEPT !.status = "COMPLETED"]
    [] action = "missed" -> [b EXCEPT !.status = "MISSED"]

\* POST /api/time-blocks/:id/(lock|unlock|complete|missed)
BlockAction(id, action) ==
  /\ UpdateBlocks(id, LAMBDA b : ApplyBlockAction(b, action))
  /\ Edit
  /\ UNCHANGED <<tasks, events, moved>>

Movable(b) == ~b.locked /\ b.status \notin {"LOCKED", "COMPLETED", "MISSED"}

\* applyBlockTimePatch: an end that is not given is kept.
Patched(b, to, ends) ==
  [b EXCEPT !.start = IF "start" \in ends THEN to.start ELSE @,
            !.end = IF "end" \in ends THEN to.end ELSE @]

\* PATCH /api/time-blocks/:id; refused if in any plan the block is settled or would
\* end before it starts.
Move(id, to, ends) ==
  /\ \A p \in Planned : \A b \in plans[p].blocks :
       b.id = id => Movable(b) /\ Patched(b, to, ends).start < Patched(b, to, ends).end
  /\ UpdateBlocks(id, LAMBDA b : Patched(b, to, ends))
  /\ moved' = moved \cup {<<p, id>> : p \in {q \in Planned : HoldsBlock(q, id)}}
  /\ Edit
  /\ UNCHANGED <<tasks, events>>

-----------------------------------------------------------------------------
\* acceptedPlanBlocksToCalendarEvents
WritebackEvents(p, calendar) ==
  {[id |-> EventId(b.id, calendar), calendar |-> calendar, start |-> b.start, end |-> b.end] :
     b \in {c \in plans[p].blocks : c.status \in {"ACCEPTED", "LOCKED"}}}

\* upsertCalendarEvents puts them in one by one, by id.
Replaced(candidates) ==
  {e \in events : \E c \in candidates : c.id = e.id}

\* Of those that share an id the last in the plan's order is left: a plan is made in
\* the order of the starts, which holds until a block of it is moved by hand.
LastOfEachId(p, candidates) ==
  {last \in SUBSET candidates :
     \A c \in candidates : \E e \in last :
       /\ {f \in last : f.id = c.id} = {e}
       /\ (\A m \in moved : m[1] # p) => c.start <= e.start}

\* (mutant) Events written for earlier plans are no conflict.
ConflictsWithOthers(candidates, calendar) ==
  {e \in events : /\ e.calendar = calendar /\ e.id \notin {EventId(id, calendar) : id \in BlockId}
                  /\ \E c \in candidates : Overlaps(c, e)}

\* calendarWritebackConflicts with the blocking events of that calendar which
\* are not about to be replaced.
Conflicts(candidates, calendar) ==
  {e \in events \ Replaced(candidates) : /\ e.calendar = calendar
                                         /\ \E c \in candidates : Overlaps(c, e)}

\* POST .../calendar-writeback of an accepted plan without conflicts.
WriteBack(p, calendar) ==
  LET candidates == WritebackEvents(p, calendar)
  IN  /\ p \in Planned /\ plans[p].status = "ACCEPTED"
      /\ Conflicts(candidates, calendar) = {}
      /\ \E last \in LastOfEachId(p, candidates) :
           events' = (events \ Replaced(candidates)) \cup last
      /\ UNCHANGED <<tasks, plans, moved, edits>>

\* POST or PATCH /api/calendar-events and imports, DELETE of any event.
PutEvent(e) ==
  /\ events' = {f \in events : f.id # e.id} \cup {e}
  /\ Edit
  /\ UNCHANGED <<tasks, plans, moved>>

RemoveEvent(e) ==
  /\ events' = events \ {e}
  /\ Edit
  /\ UNCHANGED <<tasks, plans, moved>>

\* DELETE and POST /api/tasks; the plans are left alone.
RemoveTask(t) ==
  /\ t \in tasks /\ tasks' = tasks \ {t}
  /\ Edit
  /\ UNCHANGED <<plans, events, moved>>

AddTask(t) ==
  /\ t \notin tasks /\ tasks' = tasks \cup {t}
  /\ Edit
  /\ UNCHANGED <<plans, events, moved>>

Next ==
  \/ \E p \in PlanId : Create(p) \/ Accept(p) \/ Reject(p) \/ Replan(p)
  \/ \E p \in PlanId, c \in Calendar : WriteBack(p, c)
  \/ \E id \in BlockId : \/ \E action \in {"lock", "unlock", "complete", "missed"} :
                              BlockAction(id, action)
                         \/ \E to \in MoveTargets : \E ends \in SUBSET {"start", "end"} \ {{}} :
                              Move(id, to, ends)
  \/ \E e \in OtherEvents : PutEvent(e)
  \/ \E e \in events : RemoveEvent(e)
  \/ \E t \in Task : RemoveTask(t) \/ AddTask(t)

Spec == Init /\ [][Next]_vars

-----------------------------------------------------------------------------
Block == [id : BlockId, task : Task, start : Int, end : Int, locked : BOOLEAN,
          status : {"PROPOSED", "ACCEPTED", "LOCKED", "COMPLETED", "MISSED"}]

Plan == [status : {"PROPOSED", "FAILED", "ACCEPTED", "REJECTED"},
         blocks : SUBSET Block, left : SUBSET Task]

TypeOK ==
  /\ tasks \subseteq Task
  /\ plans \in [PlanId -> Plan \cup {NoPlan}]
  /\ \A e \in events : e.start < e.end
  /\ moved \subseteq PlanId \X BlockId
  /\ edits \in 0..MaxEdits

\* NO_USER_DOUBLE_BOOKING over time: two blocks of a plan overlap only if one of them
\* was moved by hand since the plan was made, also after any number of replans around
\* blocks that were locked or completed, and requests that reached the plan because
\* it shares a block id with another.
OverlapOnlyByHand ==
  \A p \in Planned : \A x, y \in plans[p].blocks :
    (x # y /\ Overlaps(x, y)) => <<p, x.id>> \in moved \/ <<p, y.id>> \in moved

\* "Locked blocks never move", "Completed blocks never move": unless the plan is made
\* anew, no request moves or drops a block while it is locked or completed, in any
\* of the plans that hold it.
SettledStays ==
  [][\A p \in Planned :
       \/ \A b \in plans[p].blocks : (b.locked \/ b.status = "COMPLETED") =>
            \E c \in plans'[p].blocks : c.id = b.id /\ SpanOf(c) = SpanOf(b)
       \/ Create(p)]_vars

\* After a write-back every accepted or locked block of the plan has its event at its
\* place, unless another of them shares the event's id, of which there is one; and none
\* of the blocks overlaps another event of the calendar, be it the user's own, one
\* written for another plan, or one left over from a block that is gone.
WrittenIsClear ==
  [][\A p \in PlanId, c \in Calendar : WriteBack(p, c) =>
       LET wanted == WritebackEvents(p, c)
       IN  /\ \A w \in wanted :
                /\ (\A v \in wanted : v.id = w.id => v = w) => w \in events'
                /\ \E e \in wanted : {f \in events' : f.id = w.id} = {e}
           /\ \A e \in events' \ wanted : e.calendar = c =>
                \A w \in wanted : ~Overlaps(e, w)]_vars
=============================================================================
