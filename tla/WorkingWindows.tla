--------------------------- MODULE WorkingWindows ----------------------------
(***************************************************************************)
(* The working windows createSchedule plans into (src/src/scheduler.ts):   *)
(* for each local date near the range, if its weekday is a working day,    *)
(* the working hours of that date as instants, cut to the range, without   *)
(* the breaks.  A record of working hours has a zone, the weekdays (Monday *)
(* is 0 here), the first and the last hour, and the breaks in order.       *)
(***************************************************************************)
EXTENDS CivilTime, Sequences

CONSTANT WorkingHours   \* the working hours a user may have saved

ASSUME WorkingHoursAssumption ==
  \A h \in WorkingHours :
    /\ h.daysOfWeek \subseteq 0..6
    /\ {h.startTime, h.endTime} \subseteq 0..23
    /\ \A i \in DOMAIN h.breaks : {h.breaks[i].startTime, h.breaks[i].endTime} \subseteq 0..23

-----------------------------------------------------------------------------
\* A date is met at steps of six hours, from a day and a half before the range.
EnumerateLocalDates(zone, range) ==
  {DayOf(Wall[zone, range.start - 36 + 6 * k]) : k \in 0..(range.end - range.start + 72) \div 6}

\* subtractBusyBlock: what remains of a window before and after a block.
SubtractBusyBlock(window, block) ==
  IF block.end <= window.start \/ block.start >= window.end THEN {window}
  ELSE {x \in {[start |-> window.start, end |-> block.start],
               [start |-> block.end, end |-> window.end]} : x.start < x.end}

LocalInterval(zone, date, hours) ==
  [start |-> LocalTimeToUtc(zone, date * Hours + hours.startTime),
   end |-> LocalTimeToUtc(zone, date * Hours + hours.endTime)]

\* (mutant) Each break is taken out of the whole window: the last one wins.
SubtractBreakWindowsOfTheWhole(window, hours, date) ==
  IF hours.breaks = <<>> THEN {window}
  ELSE SubtractBusyBlock(window, LocalInterval(hours.timezone, date, hours.breaks[Len(hours.breaks)]))

\* subtractBreakWindows: one break after the other.
SubtractBreakWindows(window, hours, date) ==
  LET left[n \in 0..Len(hours.breaks)] ==
        IF n = 0 THEN {window}
        ELSE UNION {SubtractBusyBlock(x, LocalInterval(hours.timezone, date, hours.breaks[n])) :
                      x \in left[n - 1]}
  IN  left[Len(hours.breaks)]

BuildWorkingWindows(hours, range) ==
  LET dates == {d \in EnumerateLocalDates(hours.timezone, range) : Weekday(d) \in hours.daysOfWeek}
      clipped(d) ==
        LET x == LocalInterval(hours.timezone, d, hours)
        IN  [start |-> IF x.start > range.start THEN x.start ELSE range.start,
             end |-> IF x.end < range.end THEN x.end ELSE range.end]
  IN  UNION {SubtractBreakWindows(clipped(d), hours, d) :
               d \in {x \in dates : clipped(x).start < clipped(x).end}}

-----------------------------------------------------------------------------
(* What they promise, hour by hour. *)

Between(hour, x) == x.startTime <= hour /\ hour < x.endTime

\* The clocks of the user's zone show working time.
Working(hours, t) ==
  LET wall == Wall[hours.timezone, t]
  IN  /\ Weekday(DayOf(wall)) \in hours.daysOfWeek
      /\ Between(HourOf(wall), hours)
      /\ \A i \in DOMAIN hours.breaks : ~Between(HourOf(wall), hours.breaks[i])

\* A date on which every time that the working hours name exists once.
Plain(hours, date) ==
  \A h \in {hours.startTime, hours.endTime}
            \cup UNION {{hours.breaks[i].startTime, hours.breaks[i].endTime} : i \in DOMAIN hours.breaks} :
    Cardinality(InstantsOf(hours.timezone, date * Hours + h)) = 1
=============================================================================
