--------------------------- MODULE RecurrenceRules ---------------------------
(***************************************************************************)
(* What the expansion of Recurrence promises.  A recurrence rule is read   *)
(* as a predicate on days and times, independently of the generators: the  *)
(* day lies in a period the interval selects, every BY part names it, and  *)
(* what the rule leaves open is taken from the start of the event.         *)
(***************************************************************************)
EXTENDS Recurrence

-----------------------------------------------------------------------------
(* Which rules the documents say are expanded. *)

Shape(rule) ==
  {part[1] : part \in {x \in
     {<<"BYDAY", PlainDays(rule) # {}>>, <<"BYDAY#", HasOrdinalByDays(rule)>>,
      <<"BYMONTHDAY", rule.byMonthDay # {}>>, <<"BYMONTH", rule.byMonth # {}>>,
      <<"BYYEARDAY", rule.byYearDay # {}>>, <<"BYWEEKNO", rule.byWeekNo # {}>>,
      <<"BYHOUR", rule.byHour # {}>>, <<"BYSETPOS", rule.bySetPos # {}>>} : x[2]}}

\* docs/integrations/calendar-providers.md, "Expand basic RRULE".
ExpandedShapes ==
  [DAILY |-> {{}, {"BYDAY"}, {"BYMONTHDAY"}, {"BYHOUR"}, {"BYHOUR", "BYSETPOS"}},
   WEEKLY |-> {{}, {"BYDAY"}, {"BYDAY", "BYMONTH"}, {"BYDAY", "BYHOUR"},
               {"BYDAY", "BYSETPOS"}, {"BYDAY", "BYHOUR", "BYSETPOS"}},
   MONTHLY |-> {{}, {"BYMONTHDAY"}, {"BYDAY#"}, {"BYDAY", "BYSETPOS"},
                {"BYMONTHDAY", "BYHOUR"}, {"BYMONTHDAY", "BYHOUR", "BYSETPOS"}},
   YEARLY |-> {{}, {"BYMONTH"}, {"BYMONTH", "BYDAY"}, {"BYMONTH", "BYDAY#"},
               {"BYMONTH", "BYMONTHDAY"}, {"BYMONTH", "BYMONTHDAY", "BYHOUR"},
               {"BYMONTH", "BYDAY", "BYSETPOS"}, {"BYMONTH", "BYMONTHDAY", "BYHOUR", "BYSETPOS"},
               {"BYYEARDAY"}, {"BYYEARDAY", "BYMONTH"}, {"BYWEEKNO"}, {"BYWEEKNO", "BYDAY"}}]

\* The same, "Preserve ... recurring IANA TZID wall-clock times": a BYSETPOS keeps
\* to the wall clock only together with BYHOUR, and monthly rules may name weekdays
\* without an ordinal, which events in UTC ignore.
WallClockShapes ==
  [f \in Frequencies |->
     {shape \in ExpandedShapes[f] : "BYSETPOS" \in shape => "BYHOUR" \in shape}
       \cup (IF f = "MONTHLY" THEN {{"BYDAY"}} ELSE {})]

\* What the documents list and the code expands.  A daily rule with BYMONTHDAY in a zone is
\* listed too ("Daily and monthly rules may include BYMONTHDAY day lists"), but the code takes
\* every day for it.  One point the documents leave open: a day that a month lacks moves to its
\* last when the rule names no day; the tests show one such step, not what follows it.
Expanded ==
  /\ Rule # None /\ ~Invalid(Rule)
  /\ Shape(Rule) \in (IF Zone = None THEN ExpandedShapes ELSE WallClockShapes)[Rule.freq]
  /\ Shape(Rule) \subseteq {"BYMONTH"} => DayOfMonth[LocalDay] <= 28
  /\ ~(Zone # None /\ Rule.freq = "DAILY" /\ Rule.byMonthDay # {})

-----------------------------------------------------------------------------
(* The rule as a predicate. *)

WeekStartOf(d) == CHOOSE s \in d - 6..d : Weekday(s) = Rule.weekStart
\* The week belongs to the year that has most of its days.
WeekYear(d) == YearOf[WeekStartOf(d) + 3]
WeekNumber(d) == ((WeekStartOf(d) + 3 - YearStart[WeekYear(d)]) \div 7) + 1
WeeksOf(year) == CHOOSE n \in 52..53 : \E d \in YearStart[year] + 358..YearStart[year] + 368 :
                   /\ WeekYear(d) = year /\ WeekNumber(d) = n
                   /\ WeekYear(d + 7) = year + 1

PeriodOf(d) ==
  CASE Rule.freq = "DAILY" -> d
    [] Rule.freq = "WEEKLY" -> (d - Rule.weekStart) \div 7
    [] Rule.freq = "MONTHLY" -> YearOf[d] * 12 + MonthOf[d]
    [] Rule.freq = "YEARLY" -> IF Rule.byWeekNo = {} THEN YearOf[d] ELSE WeekYear(d)

FirstPeriod == IF Rule.freq = "YEARLY" THEN YearOf[LocalDay] ELSE PeriodOf(LocalDay)

\* The number of a day counted from the front, or from the back as a negative one.
Names(entries, number, size) == number \in entries \/ number - size - 1 \in entries

NamedByDay(d, x) ==
  /\ Weekday(d) = x.weekday
  /\ \/ x.ordinal = 0
     \/ x.ordinal > 0 /\ x.ordinal = ((DayOfMonth[d] - 1) \div 7) + 1
     \/ x.ordinal < 0 /\ -x.ordinal =
          ((DaysInUtcMonth[YearOf[d], MonthOf[d]] - DayOfMonth[d]) \div 7) + 1

NamedByParts(d) ==
  /\ Rule.byMonth # {} => MonthOf[d] \in Rule.byMonth
  /\ Rule.byMonthDay # {} =>
       Names(Rule.byMonthDay, DayOfMonth[d], DaysInUtcMonth[YearOf[d], MonthOf[d]])
  /\ Rule.byYearDay # {} =>
       Names(Rule.byYearDay, d - YearStart[YearOf[d]] + 1, DaysInUtcYear[YearOf[d]])
  /\ Rule.byWeekNo # {} => Names(Rule.byWeekNo, WeekNumber(d), WeeksOf(WeekYear(d)))
  /\ Rule.byDay # {} => \E x \in Rule.byDay : NamedByDay(d, x)

TakenFromTheStart(d) ==
  LET days == Rule.byDay = {} /\ Rule.byMonthDay = {} /\ Rule.byYearDay = {}
      weekday == Weekday(d) = Weekday(LocalDay)
      monthDay == DayOfMonth[d] = DayOfMonth[LocalDay]
      month == MonthOf[d] = MonthOf[LocalDay]
  IN  days => CASE Rule.freq = "DAILY" -> TRUE
                [] Rule.freq = "WEEKLY" -> weekday
                [] Rule.freq = "MONTHLY" -> monthDay
                [] Rule.freq = "YEARLY" -> IF Rule.byWeekNo # {} THEN weekday
                                           ELSE monthDay /\ (Rule.byMonth = {} => month)

Recurs(d) ==
  /\ (PeriodOf(d) - FirstPeriod) % Rule.interval = 0
  /\ NamedByParts(d) /\ TakenFromTheStart(d)

WallHours == Or(Rule.byHour, HourOf(event.wall))
StartsOn(days) ==
  {ZonedDateTimeToUtc[Zone, d * Hours + h] : d \in {x \in days : Recurs(x)}, h \in WallHours}

\* BYSETPOS picks from all starts of one period.
LocalDayOf(t) == DayOf(Wall[Zone, t])
Chosen(S) ==
  IF Rule.bySetPos = {} THEN S
  ELSE UNION {LET same == {t \in S : PeriodOf(LocalDayOf(t)) = p}
              IN  {t \in same : Names(Rule.bySetPos, Cardinality({u \in same : u <= t}),
                                      Cardinality(same))} : p \in {PeriodOf(LocalDayOf(t)) : t \in S}}

\* The starts of the event up to a day, and some after it: BYSETPOS needs whole periods.
PeriodLength == [DAILY |-> 1, WEEKLY |-> 7, MONTHLY |-> 31, YEARLY |-> 366]
Recurrences(last) ==
  LET end == IF Rule.bySetPos = {} THEN last ELSE last + PeriodLength[Rule.freq]
  IN  Chosen({t \in StartsOn(LocalDay..end) : t >= Start})

\* Where BYSETPOS counts in the period of the start itself the generators disagree.
Comparable(S) == {t \in S : Rule.bySetPos # {} => PeriodOf(LocalDayOf(t)) # PeriodOf(LocalDay)}

-----------------------------------------------------------------------------
Optional(S) == S \cup {None}

TypeOK ==
  /\ event \in Events
  /\ phase \in {"parsing", "generating", "merging", "substituting", "done", "rejected"}
  /\ period \in Nat
  /\ \A x \in pending : x.at \in Int
  /\ starts \in Seq(Int)
  /\ Len(starts) <= (IF MaxOccurrences < 1 THEN 1 ELSE MaxOccurrences)
  /\ \A o \in occurrences : o.key \in Optional(Int) /\ o.end >= o.start
  /\ phase \notin {"done"} => cancelled = {}

\* The starts taken are the first that the rule names, in order: none is missing between
\* them and none is too many, whichever of the seventeen generators the rule and the zone
\* select.  One is given twice only where two entries of BYMONTHDAY name its day, by the
\* generators that do not remove duplicates: in a zone, BYMONTHDAY=31,-1 gives the last of
\* March twice, and COUNT counts it twice.
FirstRecurrences ==
  (phase = "done" /\ Expanded /\ Len(starts) > 0) =>
    LET last == starts[Len(starts)]
        compared(S) == Comparable({t \in S : t <= last})
    IN  /\ compared(ToSet(starts)) = compared(Recurrences(DayOf(last) + 1))
        /\ \A i, j \in 1..Len(starts) : i < j =>
             \/ starts[i] < starts[j]
             \/ starts[i] = starts[j] /\ Cardinality(Repeats(starts[i])) > 1

\* "preserve local wall-clock time across daylight saving changes": at each start
\* the clocks of the event's zone show a time the rule gives.  A time that the
\* clocks skip that day is off by the hour they skip.
WallClockKept ==
  (phase = "done" /\ Zone # None /\ Expanded) =>
    \A i \in 1..Len(starts) :
      LET wall == Wall[Zone, starts[i]]
      IN  \/ HourOf(wall) \in WallHours
          \/ \E h \in WallHours : LET meant == DayOf(wall) * Hours + h
                                  IN  InstantsOf(Zone, meant) = {} /\ wall \in {meant - 1, meant + 1}

\* The starts of the rule within UNTIL and COUNT, and the added ones, that overlap the range
\* and are not excluded.
Overlapping ==
  LET all == Recurrences(DayOf(event.range.to) + 1)
      counted == {t \in all : /\ Rule.until # None => t <= Rule.until
                              /\ Rule.count # None => Cardinality({u \in all : u <= t}) <= Rule.count}
  IN  {t \in counted \cup Added :
         ~Excluded(t) /\ t < event.range.to /\ event.range.from < t + LengthAt(t)}

\* COUNT was not used up by a start given twice, nor by what BYSETPOS picks in the first period.
CountsAsNamed ==
  Rule.count # None => Rule.bySetPos = {} /\ \A i \in 1..Len(starts) : Cardinality(Repeats(starts[i])) = 1

\* How far the starts go.  The code counts them from the start of the event and stops at the
\* limit per event, so a series that began long before the range may have none left in it,
\* although "events that overlap the requested range" are to be expanded.
Reached(t) == t \in Added \/ Len(starts) < MaxOccurrences \/ t <= starts[Len(starts)]

\* As far as the limit on occurrences lets the starts go, the answer has every occurrence that
\* overlaps the range and is within COUNT and UNTIL, the added ones, and none that is excluded
\* or outside; moved and cancelled ones are accounted for under their old start.
AnswerIsComplete ==
  (phase = "done" /\ Expanded /\ event.range # None /\ CountsAsNamed) =>
    Comparable({o.key : o \in occurrences} \cup cancelled)
      = Comparable({t \in Overlapping : Reached(t)})

-----------------------------------------------------------------------------
\* A loop that only ends once it has handed out enough starts, with a rule that
\* names no day at all: INTERVAL=7;BYDAY=, BYMONTHDAY=30;BYMONTH=2, ...
Barren == /\ Rule # None /\ ~Invalid(Rule) /\ event.range # None /\ ~Bounded
          /\ starts = <<>> /\ period >= MaxPeriods

\* The expansion ends, except for a barren rule, for which the three loops without
\* a limit on turns never do.
EndsUnlessBarren == <>(phase \in {"done", "rejected"} \/ Barren)
=============================================================================
