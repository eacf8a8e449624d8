------------------------------ MODULE SlotSearch ------------------------------
(***************************************************************************)
(* The sweep of findSlot (src/src/scheduler.ts): for each working window   *)
(* a cursor moves over the busy blocks, which are sorted by start, and     *)
(* collects candidate slots from the gaps it finds; the best one is the    *)
(* answer.  One action is one turn of one of the two loops.                *)
(***************************************************************************)
EXTENDS Slots

CONSTANTS
  Calls,    \* the calls that may be made
  NoSlot    \* the answer null

ASSUME CallAssumption ==
  \A c \in Calls :
    /\ c.windows \in Seq(Interval) /\ c.busy \in Seq(Interval)
    /\ c.duration \in Nat \ {0}
    /\ c.earliest \in Int /\ c.latest \in Int
    /\ c.dayparts \subseteq Daypart
    /\ \A i \in 1..Len(c.busy) : c.busy[i].start <= c.busy[i].end
    /\ \A i, j \in 1..Len(c.busy) : i <= j => c.busy[i].start <= c.busy[j].start

ASSUME NoSlotAssumption == NoSlot \notin Interval

VARIABLES
  call,         \* the call being answered
  windowAt,     \* index of the current window
  busyAt,       \* index of the next busy block
  cursor,       \* end of the part of the window already swept
  candidates,   \* slots found so far
  result,       \* the answer, NoSlot until there is one
  pc            \* "window", "busy" or "done"

searchVars == <<call, windowAt, busyAt, cursor, candidates, result, pc>>

-----------------------------------------------------------------------------
Window(i) == Clip(call.windows[i], call.earliest, call.latest)
WindowEnd == Window(windowAt).end

Gap(gapStart, gapEnd) ==
  BuildCandidateSlots(gapStart, gapEnd, call.duration, call.dayparts)

SearchInit ==
  /\ call \in Calls
  /\ windowAt = 1 /\ busyAt = 1 /\ cursor = 0
  /\ candidates = {} /\ result = NoSlot
  /\ pc = "window"

\* cursor >= windowEnd: nothing of the window is usable.
SkipWindow ==
  /\ pc = "window" /\ windowAt <= Len(call.windows)
  /\ Window(windowAt).start >= Window(windowAt).end
  /\ windowAt' = windowAt + 1
  /\ UNCHANGED <<call, busyAt, cursor, candidates, result, pc>>

OpenWindow ==
  /\ pc = "window" /\ windowAt <= Len(call.windows)
  /\ Window(windowAt).start < Window(windowAt).end
  /\ cursor' = Window(windowAt).start
  /\ busyAt' = 1
  /\ pc' = "busy"
  /\ UNCHANGED <<call, windowAt, candidates, result>>

\* (mutant) A busy block that began before the cursor is taken for swept.
IrrelevantOnceBegun(busy) == busy.start <= cursor \/ busy.start >= WindowEnd

Irrelevant(busy) == busy.end <= cursor \/ busy.start >= WindowEnd

SkipBusy ==
  /\ pc = "busy" /\ busyAt <= Len(call.busy)
  /\ Irrelevant(call.busy[busyAt])
  /\ busyAt' = busyAt + 1
  /\ UNCHANGED <<call, windowAt, cursor, candidates, result, pc>>

\* The gap before the busy block yields candidates when the duration fits, and
\* the cursor moves past the block; the loop is left at the window's end.
SweepBusy ==
  /\ pc = "busy" /\ busyAt <= Len(call.busy)
  /\ LET busy == call.busy[busyAt]
         moved == Later(busy.end, cursor)
     IN  /\ ~Irrelevant(busy)
         /\ candidates' = candidates \cup
              IF cursor + call.duration <= busy.start
              THEN Gap(cursor, busy.start) ELSE {}
         /\ cursor' = moved
         /\ busyAt' = IF moved >= WindowEnd THEN Len(call.busy) + 1 ELSE busyAt + 1
  /\ UNCHANGED <<call, windowAt, result, pc>>

\* (mutant) A slot that would end exactly with the window is refused.
CloseWindowStrictly ==
  /\ pc = "busy" /\ busyAt > Len(call.busy)
  /\ candidates' = candidates \cup
       IF cursor + call.duration < WindowEnd
       THEN Gap(cursor, WindowEnd) ELSE {}
  /\ windowAt' = windowAt + 1
  /\ pc' = "window"
  /\ UNCHANGED <<call, busyAt, cursor, result>>

CloseWindow ==
  /\ pc = "busy" /\ busyAt > Len(call.busy)
  /\ candidates' = candidates \cup
       IF cursor + call.duration <= WindowEnd
       THEN Gap(cursor, WindowEnd) ELSE {}
  /\ windowAt' = windowAt + 1
  /\ pc' = "window"
  /\ UNCHANGED <<call, busyAt, cursor, result>>

Answer ==
  /\ pc = "window" /\ windowAt > Len(call.windows)
  /\ \/ candidates = {} /\ UNCHANGED result
     \/ result' \in BestSlots(candidates, call.dayparts)
  /\ pc' = "done"
  /\ UNCHANGED <<call, windowAt, busyAt, cursor, candidates>>

SearchNext == SkipWindow \/ OpenWindow \/ SkipBusy \/ SweepBusy \/ CloseWindow \/ Answer

SearchSpec == SearchInit /\ [][SearchNext]_searchVars

-----------------------------------------------------------------------------
WindowsOfCall == {call.windows[i] : i \in 1..Len(call.windows)}
BusyOfCall == {call.busy[i] : i \in 1..Len(call.busy)}

\* The starts from which the whole duration lies in one usable window and
\* clear of every busy block.
StartsIn(i) ==
  {s \in Window(i).start..Window(i).end :
     FreeIn(SlotAt(s, call.duration), Window(i), BusyOfCall)}
FeasibleStarts == UNION {StartsIn(i) : i \in 1..Len(call.windows)}

SearchTypeOK ==
  /\ call \in Calls
  /\ windowAt \in 1..Len(call.windows) + 1
  /\ busyAt \in 1..Len(call.busy) + 1
  /\ cursor \in Int
  /\ candidates \subseteq Interval
  /\ result \in Interval \cup {NoSlot}
  /\ pc \in {"window", "busy", "done"}
  /\ pc = "busy" => windowAt <= Len(call.windows)

\* Every candidate is usable as it stands, also against the busy blocks that
\* the sweep has not reached yet: findSlot looks at one busy block at a time and
\* relies on their order.
CandidatesFree ==
  \A c \in candidates : c.end = c.start + call.duration /\ c.start \in FeasibleStarts

\* No feasible start is passed over: when the sweep ends, each one has a
\* candidate at or before it.
NothingMissed ==
  pc = "done" => \A s \in FeasibleStarts : \E c \in candidates : c.start <= s

\* Without preferred dayparts findSlot answers the earliest feasible slot, and
\* null only when there is none.
EarliestFit ==
  (pc = "done" /\ call.dayparts = {}) =>
    \A s \in FeasibleStarts : result # NoSlot /\ result.start <= s

\* The sweep computes what the set definition of Slots says, which Scheduler uses.
Sweep ==
  FindSlots(WindowsOfCall, BusyOfCall, call.duration, call.earliest, call.latest, call.dayparts)
AgreesWithFindSlots ==
  pc = "done" => IF result = NoSlot THEN Sweep = {} ELSE Sweep = {result}
=============================================================================
