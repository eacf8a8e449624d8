------------------------------ MODULE Scheduler ------------------------------
(***************************************************************************)
(* createSchedule (src/src/scheduler.ts).  The tasks are put in order      *)
(* (TaskOrder), then each is rejected, placed piece by piece, or given up  *)
(* as unschedulable.  One action is one turn of the loop over the tasks or *)
(* of the loop over the pieces of a splittable task; the answer of findSlot *)
(* is FindSlots (Slots, SlotSearch).  Working windows are given.           *)
(***************************************************************************)
EXTENDS Slots, TaskOrder, FiniteSetsExt

CONSTANTS
  Requests,        \* the inputs createSchedule may be called with
  DefaultMinimum   \* minimum piece of a task that names none (30 minutes)

OptionalTime == Int \cup {None}
OptionalLength == (Nat \ {0}) \cup {None}

Task ==
  [id : STRING, priority : Nat, created : Int, deadline : OptionalTime,
   earliest : OptionalTime, remaining : Nat, estimated : Nat, splittable : BOOLEAN,
   min : OptionalLength, max : OptionalLength, pref : OptionalLength,
   inScope : BOOLEAN, eligible : BOOLEAN, blocked : BOOLEAN, waiting : BOOLEAN,
   mode : STRING, dayparts : SUBSET Daypart, dependencies : Seq(STRING)]

Block == [id : STRING \X Nat, task : STRING, start : Int, end : Int, locked : BOOLEAN]

Event == [start : Int, end : Int, blocking : BOOLEAN, before : Nat, after : Nat]

ASSUME RequestAssumption ==
  /\ None \notin Int
  /\ DefaultMinimum \in Nat \ {0}
  /\ \A r \in Requests :
       /\ r.tasks \in Seq(Task)
       /\ r.range \in Interval /\ r.windows \in SUBSET Interval
       /\ r.events \in SUBSET Event
       /\ r.existing \in SUBSET Block
       /\ \A x \in r.existing : x.id[1] = x.task
       /\ \A x, y \in r.existing : x.id = y.id => x = y

VARIABLES
  request,       \* the input
  next,          \* position in ordered of the task being handled
  remaining,     \* duration left to place of that task, None between tasks
  pieces,        \* its pieces placed so far, given up if one does not fit
  blocks,        \* the blocks of the plan
  unscheduled,   \* the tasks left out: [task, reason]
  warnings,      \* capacity warnings: [code, task, available, required]
  status         \* "PLANNING", then the status of the plan

placeVars == <<next, remaining, pieces, blocks, unscheduled, warnings, status>>
vars == <<orderVars, request, placeVars>>

-----------------------------------------------------------------------------
\* eventToBusyBlock: a blocking event widened by its buffers and travel.
EventBusy ==
  {[start |-> e.start - e.before, end |-> e.end + e.after] :
     e \in {f \in request.events : f.blocking}}

\* Only locked blocks of the existing ones are kept.
LockedBlocks == {b \in request.existing : b.locked}

Span(b) == [start |-> b.start, end |-> b.end]
Spans(S) == {Span(b) : b \in S}

Current == batch[ordered[next]]

\* Minutes of the windows that no busy interval covers (calculateAvailableMinutes).
AvailableMinutes(windows, busy) ==
  LET minutes == UNION {x.start..x.end - 1 : x \in windows}
  IN  Cardinality({m \in minutes : \A y \in busy : ~(y.start <= m /\ m < y.end)})

\* getInvalidReason: the first check that fails names the reason.
Checks(t) ==
  << <<~t.inScope, "WRONG_SCOPE">>,
     <<~t.eligible, "SCHEDULING_INELIGIBLE">>,
     <<t.blocked, "BLOCKED">>,
     <<t.waiting, "WAITING">>,
     <<t.mode = "DO_NOT_SCHEDULE", "DO_NOT_SCHEDULE">>,
     <<t.remaining <= 0 \/ t.estimated <= 0, "INVALID_DURATION">>,
     <<t.deadline = None /\ t.mode = "DEADLINE_DRIVEN", "MISSING_DEADLINE">>,
     <<~t.splittable /\ t.min # None /\ t.remaining < t.min, "INVALID_MINIMUM_BLOCK">> >>

FailedChecks(t) == {k \in 1..8 : Checks(t)[k][1]}
Valid(t) == FailedChecks(t) = {}
InvalidReason(t) == Checks(t)[CHOOSE k \in FailedChecks(t) :
                                 \A l \in FailedChecks(t) : k <= l][2]

EarliestOf(t) == IF t.earliest = None THEN request.range.start
                 ELSE Later(t.earliest, request.range.start)
\* (mutant) The deadline of the task is not looked at.
LatestIgnoringDeadline(t) == request.range.end

LatestOf(t) == IF t.deadline = None THEN request.range.end
               ELSE Earlier(t.deadline, request.range.end)

Default(value, other) == IF value = None THEN other ELSE value

\* The length of the next piece; a task that is not splittable has one.
PieceLength(t, left) ==
  LET minimum == Default(t.min, Earlier(DefaultMinimum, t.remaining))
      maximum == Default(t.max, t.remaining)
      duration == Earlier(Earlier(maximum, Default(t.pref, maximum)), left)
  IN  IF ~t.splittable \/ left <= minimum THEN left ELSE Later(duration, minimum)

\* (mutant) The pieces of the task placed so far are not busy for the next one.
BusyWithoutPieces(t) ==
  EventBusy \cup Spans(LockedBlocks) \cup Spans({b \in blocks : b.task # t.id})

\* What the next piece of t has to keep clear of.
BusyFor(t) ==
  EventBusy \cup Spans(LockedBlocks) \cup Spans({b \in blocks : b.task # t.id})
            \cup Spans(pieces)

SlotsFor(t) ==
  IF EarliestOf(t) >= LatestOf(t) THEN {}
  ELSE FindSlots(request.windows, BusyFor(t), PieceLength(t, remaining),
                 EarliestOf(t), LatestOf(t), t.dayparts)

\* (mutant) The pieces of a task are not numbered.
TimeBlockUnnumbered(t, slot) ==
  [id |-> <<t.id, 1>>, task |-> t.id,
   start |-> slot.start, end |-> slot.end, locked |-> FALSE]

\* toTimeBlock
TimeBlock(t, slot) ==
  [id |-> <<t.id, Cardinality(pieces) + 1>>, task |-> t.id,
   start |-> slot.start, end |-> slot.end, locked |-> FALSE]

\* classifyDeadlineFailure
FailureReason(t, busy) ==
  LET cut == {[x EXCEPT !.end = Earlier(@, t.deadline)] : x \in request.windows}
  IN  IF t.deadline # None /\ AvailableMinutes(cut, busy) < t.remaining
      THEN "DEADLINE_AT_RISK" ELSE "NO_CONTIGUOUS_SLOT"

AllBusy == EventBusy \cup Spans(blocks)

-----------------------------------------------------------------------------
Init ==
  /\ request \in Requests
  /\ batch = request.tasks /\ OrderInit
  /\ next = 1 /\ remaining = None /\ pieces = {}
  /\ blocks = LockedBlocks
  /\ unscheduled = {} /\ warnings = {}
  /\ status = "PLANNING"

Ordering == OrderNext /\ UNCHANGED <<request, placeVars>>

Between == OrderDone /\ next <= Len(ordered) /\ remaining = None
Placing == OrderDone /\ next <= Len(ordered) /\ remaining # None

\* (mutant) continue without the next task.
RejectTaskAgain ==
  /\ Between /\ ~Valid(Current)
  /\ unscheduled' = unscheduled \cup
       {[task |-> Current.id, reason |-> InvalidReason(Current)]}
  /\ UNCHANGED <<orderVars, request, next, remaining, pieces, blocks, warnings, status>>

RejectTask ==
  /\ Between /\ ~Valid(Current)
  /\ unscheduled' = unscheduled \cup
       {[task |-> Current.id, reason |-> InvalidReason(Current)]}
  /\ next' = next + 1
  /\ UNCHANGED <<orderVars, request, remaining, pieces, blocks, warnings, status>>

StartTask ==
  /\ Between /\ Valid(Current)
  /\ remaining' = Current.remaining
  /\ UNCHANGED <<orderVars, request, next, pieces, blocks, unscheduled, warnings, status>>

PlacePiece ==
  /\ Placing /\ remaining > 0
  /\ \E slot \in SlotsFor(Current) : pieces' = pieces \cup {TimeBlock(Current, slot)}
  /\ remaining' = remaining - PieceLength(Current, remaining)
  /\ UNCHANGED <<orderVars, request, next, blocks, unscheduled, warnings, status>>

CommitTask ==
  /\ Placing /\ remaining = 0
  /\ blocks' = blocks \cup pieces
  /\ remaining' = None /\ pieces' = {} /\ next' = next + 1
  /\ UNCHANGED <<orderVars, request, unscheduled, warnings, status>>

\* (mutant) The pieces that did fit are booked although the task is given up.
FailTaskHalfBooked ==
  /\ Placing /\ remaining > 0 /\ SlotsFor(Current) = {}
  /\ unscheduled' = unscheduled \cup
       {[task |-> Current.id, reason |-> FailureReason(Current, AllBusy)]}
  /\ blocks' = blocks \cup pieces
  /\ remaining' = None /\ pieces' = {} /\ next' = next + 1
  /\ UNCHANGED <<orderVars, request, warnings, status>>

\* A piece does not fit: the whole task is left out, with a capacity warning.
FailTask ==
  /\ Placing /\ remaining > 0 /\ SlotsFor(Current) = {}
  /\ LET reason == FailureReason(Current, AllBusy)
     IN  /\ unscheduled' = unscheduled \cup {[task |-> Current.id, reason |-> reason]}
         /\ warnings' = warnings \cup
              {[code |-> reason, task |-> Current.id,
                available |-> AvailableMinutes(request.windows, AllBusy),
                required |-> Current.remaining]}
  /\ remaining' = None /\ pieces' = {} /\ next' = next + 1
  /\ UNCHANGED <<orderVars, request, blocks, status>>

LeftOut(id) == \E u \in unscheduled : u.task = id

\* The plan is returned: FAILED with an OVER_CAPACITY warning when a task was
\* left out; its required minutes are those of the tasks that were not.
Return ==
  /\ OrderDone /\ next > Len(ordered) /\ status = "PLANNING"
  /\ IF unscheduled = {} THEN status' = "PROPOSED" /\ UNCHANGED warnings
     ELSE /\ status' = "FAILED"
          /\ warnings' = warnings \cup
               {[code |-> "OVER_CAPACITY", task |-> None,
                 available |-> AvailableMinutes(request.windows, AllBusy),
                 required |-> MapThenSumSet(LAMBDA i : batch[i].remaining,
                                {i \in Tasks : ~LeftOut(batch[i].id)})]}
  /\ UNCHANGED <<orderVars, request, next, remaining, pieces, blocks, unscheduled>>

Next == Ordering \/ RejectTask \/ StartTask \/ PlacePiece \/ CommitTask \/ FailTask
          \/ Return

\* createSchedule is synchronous: it runs until it returns.
Spec == Init /\ [][Next]_vars /\ WF_vars(Next)

-----------------------------------------------------------------------------
Done == status # "PLANNING"
NewBlocks == (blocks \ LockedBlocks) \cup pieces
TaskNamed(id) == batch[TaskWithId(id)]

TypeOK ==
  /\ OrderTypeOK
  /\ request \in Requests /\ batch = request.tasks
  /\ next \in 1..Len(ordered) + 1
  /\ remaining \in Nat \cup {None}
  /\ pieces \subseteq Block /\ blocks \subseteq Block
  /\ remaining = None => pieces = {}
  /\ \A u \in unscheduled : u.task \in {batch[i].id : i \in Tasks}
  /\ status \in {"PLANNING", "PROPOSED", "FAILED"}

\* NO_FIXED_EVENT_OVERLAP and NO_USER_DOUBLE_BOOKING: a block that createSchedule
\* makes overlaps no blocking event, no locked block and no other block, its own
\* task's other pieces included.  (Locked blocks may overlap each other: the user
\* put them there.)
NoDoubleBooking ==
  \A x \in NewBlocks :
    /\ \A e \in EventBusy : ~Overlaps(x, e)
    /\ \A y \in (blocks \cup pieces) \ {x} : ~Overlaps(x, y)

\* WITHIN_ALLOWED_HOURS, AFTER_EARLIEST_START and BEFORE_HARD_DEADLINE: a new
\* block lies in one working window, in the planning range, not before its
\* task's earliest start and not after its deadline.
WithinLimits ==
  \A x \in NewBlocks :
    LET t == TaskNamed(x.task)
    IN  /\ \E window \in request.windows : Within(x, window)
        /\ Within(x, request.range)
        /\ t.earliest # None => t.earliest <= x.start
        /\ t.deadline # None => x.end <= t.deadline

\* Two blocks of a plan never share an id, which lock, complete and move requests
\* address, when the batch has no task with a locked block (replanSchedule leaves
\* such tasks out; without that, block_<task>_1 is made a second time).
UniqueBlockIds ==
  (\A x \in LockedBlocks, i \in Tasks : x.task # batch[i].id) =>
    \A x, y \in blocks \cup pieces : x.id = y.id => x = y

\* createSchedule keeps the promise of PlanContract.  Beyond NoDoubleBooking and
\* WithinLimits: blocks the user locked are kept; a task is booked whole or
\* reported, never both and never neither (capacity.md: overflow is not hidden);
\* and a task that may not be split is left out only when the finished plan has
\* no free slot of its length, although tasks handled later took further time.
Asked ==
  [tasks |-> {[id |-> batch[i].id, length |-> batch[i].remaining,
               splittable |-> batch[i].splittable, valid |-> Valid(batch[i]),
               earliest |-> EarliestOf(batch[i]), latest |-> LatestOf(batch[i]),
               dayparts |-> batch[i].dayparts] :
                i \in Tasks},
   windows |-> request.windows, busy |-> EventBusy, kept |-> LockedBlocks]
Unplanned == [blocks |-> {}, left |-> {}, status |-> "PLANNING"]
Returned ==
  IF Done THEN [blocks |-> blocks, left |-> {u.task : u \in unscheduled}, status |-> status]
  ELSE Unplanned

Abstract == INSTANCE Planning WITH asked <- Asked, plan <- Returned, NoPlan <- Unplanned

KeepsItsPromise == Abstract!Spec

\* createSchedule returns (piece lengths are positive).
Terminates == <>Done
=============================================================================
