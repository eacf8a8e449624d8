---------------------------- MODULE MCRecurrence ----------------------------
(* Rules of every documented shape, in UTC and in two zones whose clocks change *)
(* on 10 March and 3 November 2024, with starts around those days.              *)
EXTENDS PlanningInputs

\* Clocks of New York, and of a zone east of Greenwich that changes at midnight UTC.
MCBase == [West |-> -5, East |-> 2]
At(year, month, day, hour) == DayNumber[year, month, day] * 24 + hour
MCSaving ==
  [West |-> {[from |-> At(2024, 3, 10, 7), to |-> At(2024, 11, 3, 6)]},
   East |-> {[from |-> At(2024, 3, 31, 0), to |-> At(2024, 10, 27, 0)]}]

Every(freq) ==
  [freq |-> freq, interval |-> 1, count |-> None, until |-> None, byDay |-> {},
   byMonthDay |-> {}, byMonth |-> {}, byYearDay |-> {}, byWeekNo |-> {}, byHour |-> {},
   bySetPos |-> {}, weekStart |-> 0]
On(S) == {[weekday |-> w, ordinal |-> 0] : w \in S}
Nth(n, w) == [weekday |-> w, ordinal |-> n]

Daily == LET r == Every("DAILY") IN
  {r, [r EXCEPT !.interval = 3, !.count = 2], [r EXCEPT !.byDay = On({0, 5})],
   [r EXCEPT !.interval = 7, !.byDay = On({2})],
   [r EXCEPT !.byMonthDay = {2, 31}], [r EXCEPT !.byHour = {2, 3, 9}],
   [r EXCEPT !.byHour = {1, 20}, !.bySetPos = {-1}]}
Weekly == LET r == Every("WEEKLY") IN
  {r, [r EXCEPT !.interval = 2, !.byDay = On({0, 6})],
   [r EXCEPT !.interval = 2, !.byDay = On({0, 6}), !.weekStart = 6],
   [r EXCEPT !.byDay = On({1, 6}), !.byMonth = {3, 11}],
   [r EXCEPT !.byDay = On({6}), !.byHour = {1, 2}],
   [r EXCEPT !.byDay = On({0, 2, 6}), !.bySetPos = {-1, 2}],
   [r EXCEPT !.byDay = On({0, 6}), !.byHour = {2, 22}, !.bySetPos = {1}]}
Monthly == LET r == Every("MONTHLY") IN
  {r, [r EXCEPT !.interval = 5], [r EXCEPT !.byMonthDay = {1, -1}],
   [r EXCEPT !.byMonthDay = {31, -1}, !.count = 2], [r EXCEPT !.byDay = On({6})],
   [r EXCEPT !.byDay = {Nth(1, 0), Nth(-1, 6), Nth(5, 3)}],
   [r EXCEPT !.byDay = On(0..4), !.bySetPos = {-1}],
   [r EXCEPT !.byMonthDay = {3, 10}, !.byHour = {1, 2}],
   [r EXCEPT !.byMonthDay = {10, 31}, !.byHour = {2, 5}, !.bySetPos = {-2}],
   [r EXCEPT !.interval = 12, !.byMonth = {12}]}
Yearly == LET r == Every("YEARLY") IN
  {r, [r EXCEPT !.byMonth = {3, 11}], [r EXCEPT !.byMonth = {3}, !.byDay = On({6})],
   [r EXCEPT !.byMonth = {3, 11}, !.byDay = {Nth(2, 6), Nth(-1, 0)}],
   [r EXCEPT !.byMonth = {2, 3}, !.byMonthDay = {10, 29}],
   [r EXCEPT !.byMonth = {2}, !.byMonthDay = {30}],
   [r EXCEPT !.byMonth = {3}, !.byMonthDay = {10, 11}, !.byHour = {2, 4}],
   [r EXCEPT !.byMonth = {3}, !.byDay = On({6}), !.bySetPos = {-1}],
   [r EXCEPT !.byMonth = {3, 11}, !.byMonthDay = {3, 10}, !.byHour = {1, 2}, !.bySetPos = {-1}],
   [r EXCEPT !.byYearDay = {70, -1, 366}], [r EXCEPT !.byYearDay = {70, 100}, !.byMonth = {4}],
   [r EXCEPT !.byWeekNo = {1, 53}], [r EXCEPT !.byWeekNo = {-1, 10}, !.byDay = On({0, 6})],
   [r EXCEPT !.byWeekNo = {1}, !.byDay = On({5, 6}), !.weekStart = 6]}

Refused == {[Every("DAILY") EXCEPT !.interval = 0], [Every("WEEKLY") EXCEPT !.byYearDay = {1}],
            [Every("MONTHLY") EXCEPT !.byMonthDay = {0}]}

Event(zone, wall, rule) ==
  [zone |-> zone, wall |-> wall, length |-> 2, rule |-> rule, rdates |-> {}, exdates |-> {},
   exdays |-> {}, exceptions |-> {}, range |-> [from |-> At(2024, 1, 1, 0), to |-> At(2024, 4, 15, 0)]]

Rules == Daily \cup Weekly \cup Monthly \cup Yearly \cup Refused
Walls == {At(2024, 3, 8, 2), At(2024, 2, 29, 20), At(2024, 10, 27, 1)}

\* Exceptions to a rule: excluded starts and days, added periods, moved and cancelled
\* occurrences, COUNT and UNTIL, a range that begins within an occurrence, and one that
\* begins after more days than occurrences are generated.
Rich(zone, rule) ==
  LET e == Event(zone, At(2024, 3, 8, 2), rule)
      first == ZonedDateTimeToUtc[zone, e.wall]
  IN  {[e EXCEPT !.exdates = {first}, !.rdates = {[start |-> first + 30, length |-> 5]},
                 !.range.from = first + 32],
       [e EXCEPT !.exdays = {DayOf(first) + 1}, !.rdates = {[start |-> first, length |-> None]}],
       [e EXCEPT !.exceptions = {[key |-> first, moved |-> None, length |-> 0],
                                 [key |-> first + 24, moved |-> first + 9000, length |-> 1]}],
       [e EXCEPT !.range.from = first + 1, !.range.to = first + 48],
       [e EXCEPT !.range.from = first + 190, !.range.to = first + 250],
       [e EXCEPT !.range = None]}

Limited == LET r == Every("DAILY") IN
  {None, r, [r EXCEPT !.count = 2], [r EXCEPT !.until = At(2024, 3, 9, 23)],
   [r EXCEPT !.interval = 2]}

\* A working week with two breaks, one of them at its end, and nights and early
\* mornings in which clocks change.
MCWorkingHours ==
  {[timezone |-> None, daysOfWeek |-> 0..4, startTime |-> 9, endTime |-> 17,
    breaks |-> <<[startTime |-> 12, endTime |-> 13], [startTime |-> 16, endTime |-> 18]>>],
   [timezone |-> None, daysOfWeek |-> {5, 6}, startTime |-> 0, endTime |-> 23,
    breaks |-> <<[startTime |-> 5, endTime |-> 6], [startTime |-> 3, endTime |-> 8]>>],
   [timezone |-> None, daysOfWeek |-> 0..6, startTime |-> 1, endTime |-> 3, breaks |-> <<>>]}

MCEvents == {Event(z, w, r) : z \in {None, "West", "East"}, w \in Walls, r \in Rules}
              \cup UNION {Rich(z, r) : z \in {None, "West"}, r \in Limited}
=============================================================================
