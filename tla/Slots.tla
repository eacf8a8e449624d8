-------------------------------- MODULE Slots --------------------------------
(***************************************************************************)
(* Time intervals and the candidate slots of src/src/scheduler.ts.         *)
(*                                                                         *)
(* Times and durations are integers in one unit; the code counts           *)
(* milliseconds.  An interval is half open: a block that ends when another *)
(* starts does not overlap it.  A daypart (MORNING, AFTERNOON, EVENING) is *)
(* a pair of offsets within the UTC day of the slot it is compared with.   *)
(***************************************************************************)
EXTENDS Integers, Sequences, FiniteSets

CONSTANTS
  Daypart,       \* names of the dayparts
  DayLength,     \* length of a UTC day
  DaypartFrom,   \* offset of a daypart's start within the day
  DaypartTo      \* offset of its end

ASSUME DaypartAssumption ==
  /\ DayLength \in Nat \ {0}
  /\ DaypartFrom \in [Daypart -> 0..DayLength]
  /\ DaypartTo \in [Daypart -> 0..DayLength]

-----------------------------------------------------------------------------
Interval == [start: Int, end: Int]

Later(a, b) == IF a > b THEN a ELSE b       \* maxDate
Earlier(a, b) == IF a < b THEN a ELSE b     \* minDate

SlotAt(start, duration) == [start |-> start, end |-> start + duration]

Overlaps(a, b) == a.start < b.end /\ b.start < a.end

Within(slot, window) == window.start <= slot.start /\ slot.end <= window.end

\* A working window cut to the part a task may use.
Clip(window, earliest, latest) ==
  [start |-> Later(window.start, earliest), end |-> Earlier(window.end, latest)]

-----------------------------------------------------------------------------
DayOf(t) == DayLength * (t \div DayLength)

DaypartStart(t, d) == DayOf(t) + DaypartFrom[d]
DaypartEnd(t, d) == DayOf(t) + DaypartTo[d]

MatchesPreferredDaypart(slot, dayparts) ==
  \E d \in dayparts : /\ DaypartStart(slot.start, d) <= slot.start
                      /\ slot.end <= DaypartEnd(slot.start, d)

\* compareCandidateSlots: a slot in a preferred daypart first, then the earlier.
NotWorse(a, b, dayparts) ==
  LET aPreferred == MatchesPreferredDaypart(a, dayparts)
      bPreferred == MatchesPreferredDaypart(b, dayparts)
  IN  IF aPreferred = bPreferred THEN a.start <= b.start ELSE aPreferred

BestSlots(candidates, dayparts) ==
  {a \in candidates : \A b \in candidates : NotWorse(a, b, dayparts)}

\* The start of a free gap, and the start of each preferred daypart that
\* begins later on the gap's day, when the slot still fits in the gap.
BuildCandidateSlots(gapStart, gapEnd, duration, dayparts) ==
  LET starts == {gapStart} \cup
                  {Later(gapStart, DaypartStart(gapStart, d)) : d \in dayparts}
  IN  {slot \in {SlotAt(s, duration) : s \in starts} : slot.end <= gapEnd}

-----------------------------------------------------------------------------
(***************************************************************************)
(* What findSlot computes, without its sweep.  A call has the working      *)
(* windows, the busy intervals, the duration asked for, the bounds of the  *)
(* task and its preferred dayparts.  SlotSearch models the sweep itself    *)
(* and is checked against these definitions.                               *)
(***************************************************************************)
FreeIn(slot, window, busy) ==
  Within(slot, window) /\ \A b \in busy : ~Overlaps(slot, b)

\* A gap can only start where the window starts or a busy interval ends.
GapStarts(window, busy) == {window.start} \cup {b.end : b \in busy}

CandidatesIn(window, busy, duration, dayparts) ==
  LET slots == UNION {BuildCandidateSlots(g, window.end, duration, dayparts) :
                        g \in GapStarts(window, busy)}
  IN  {slot \in slots : FreeIn(slot, window, busy)}

FindSlots(windows, busy, duration, earliest, latest, dayparts) ==
  LET candidates == UNION {CandidatesIn(Clip(w, earliest, latest), busy,
                                        duration, dayparts) : w \in windows}
  IN  BestSlots(candidates, dayparts)
=============================================================================
