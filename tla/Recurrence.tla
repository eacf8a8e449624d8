----------------------------- MODULE Recurrence ------------------------------
(***************************************************************************)
(* The expansion of one recurring calendar event (src/src/ics.ts): its     *)
(* RRULE is parsed, a generator of starts is chosen by the shape of the    *)
(* rule and by whether the event has a local start in a named zone, and    *)
(* the starts are taken one by one until COUNT, UNTIL or the limit on      *)
(* occurrences ends it.  RDATEs are merged in, EXDATEs and everything      *)
(* outside the requested range left out, and RECURRENCE-ID exceptions put  *)
(* in place.                                                               *)
(*                                                                         *)
(* A generator is a loop over days, weeks, months or years; one step of    *)
(* Scan is one turn of it.  BYMINUTE and BYSECOND multiply the times of a  *)
(* day exactly as BYHOUR does; only BYHOUR is modelled.  A BY part that is *)
(* absent is the empty set, an entry of BYDAY without an ordinal has 0.    *)
(***************************************************************************)
EXTENDS CivilTime, Sequences, SequencesExt

CONSTANTS
  Events,          \* the recurring events that may be imported
  MaxOccurrences,  \* maxOccurrencesPerEvent (366)
  MaxPeriods       \* bound: turns after which a loop without an end is left

Frequencies == {"DAILY", "WEEKLY", "MONTHLY", "YEARLY"}

VARIABLES
  event,       \* the event being expanded
  phase,       \* "parsing", "generating", "merging", "done", "rejected"
  period,      \* turns of the generator's loop so far
  cursor,      \* day the plain loops have come to
  pending,     \* starts of this turn that were not taken yet
  starts,      \* starts taken, in order
  occurrences, \* the answer: [key, start, end]
  cancelled    \* keys of occurrences that a cancelled exception removed

vars == <<event, phase, period, cursor, pending, starts, occurrences, cancelled>>

Rule == event.rule
Zone == event.zone
Start == ZonedDateTimeToUtc[Zone, event.wall]
LocalDay == DayOf(event.wall)
StartDay == DayOf(Start)

-----------------------------------------------------------------------------
(* The shape of the rule. *)

\* parseRecurrenceRule refuses the whole import.
Invalid(rule) ==
  \/ rule.interval < 1
  \/ rule.count # None /\ rule.count < 1
  \/ (rule.byYearDay # {} \/ rule.byWeekNo # {}) /\ rule.freq # "YEARLY"
  \/ 0 \in rule.byMonthDay \cup rule.byYearDay \cup rule.byWeekNo \cup rule.bySetPos
  \/ \E h \in rule.byHour : h \notin 0..23

Ordinals(rule) == {x \in rule.byDay : x.ordinal # 0}
PlainDays(rule) == {x.weekday : x \in rule.byDay \ Ordinals(rule)}
HasOrdinalByDays(rule) == Ordinals(rule) # {}

SupportsMonthlyByDayZonedWallTime(rule) ==
  rule.freq = "MONTHLY" /\ rule.byDay # {} /\ rule.byMonthDay = {} /\ rule.bySetPos = {}
SupportsYearlyByDayZonedWallTime(rule) ==
  /\ rule.freq = "YEARLY" /\ rule.byDay # {}
  /\ rule.byMonthDay = {} /\ rule.byYearDay = {} /\ rule.byWeekNo = {} /\ rule.bySetPos = {}
SupportsYearlyByYearDayZonedWallTime(rule) ==
  /\ rule.freq = "YEARLY" /\ rule.byYearDay # {}
  /\ rule.byDay = {} /\ rule.byMonthDay = {} /\ rule.byWeekNo = {} /\ rule.bySetPos = {}
SupportsYearlyByWeekNumberZonedWallTime(rule) ==
  /\ rule.freq = "YEARLY" /\ rule.byWeekNo # {}
  /\ ~HasOrdinalByDays(rule) /\ rule.byMonthDay = {} /\ rule.byYearDay = {} /\ rule.bySetPos = {}
SupportsDailyTimeZonedWallTime(rule) ==
  /\ rule.freq = "DAILY" /\ rule.byHour # {}
  /\ rule.byDay = {} /\ rule.byMonthDay = {} /\ rule.byMonth = {}
SupportsWeeklyTimeZonedWallTime(rule) ==
  /\ rule.freq = "WEEKLY" /\ rule.byHour # {} /\ rule.byDay # {}
  /\ ~HasOrdinalByDays(rule) /\ rule.byMonthDay = {} /\ rule.byMonth = {}
SupportsMonthlyTimeZonedWallTime(rule) ==
  /\ rule.freq = "MONTHLY" /\ rule.byHour # {} /\ rule.byMonthDay # {}
  /\ rule.byDay = {} /\ rule.byMonth = {}
SupportsYearlyTimeZonedWallTime(rule) ==
  /\ rule.freq = "YEARLY" /\ rule.byHour # {} /\ rule.byMonth # {} /\ rule.byMonthDay # {}
  /\ rule.byDay = {} /\ rule.byYearDay = {} /\ rule.byWeekNo = {}

\* The loops of zonedWallTimeRecurrenceStarts.
WallTimeGenerator(rule) ==
  IF rule.freq = "WEEKLY" /\ rule.byDay # {} THEN "weeklyByDayZoned"
  ELSE IF SupportsYearlyByDayZonedWallTime(rule) THEN "yearlyByDayZoned"
  ELSE IF SupportsYearlyByYearDayZonedWallTime(rule) THEN "yearlyByYearDayZoned"
  ELSE IF SupportsYearlyByWeekNumberZonedWallTime(rule) THEN "yearlyByWeekNumberZoned"
  ELSE IF rule.freq = "YEARLY" /\ rule.byMonthDay \cup rule.byMonth # {} THEN "yearlyByMonthDayZoned"
  ELSE IF rule.freq = "MONTHLY" /\ rule.byMonthDay # {} THEN "monthlyByMonthDayZoned"
  ELSE IF SupportsMonthlyByDayZonedWallTime(rule) THEN "monthlyByDayZoned"
  ELSE "plainZoned"

\* Which rules of an event with a local start keep to its wall clock.
KeepsWallTime(rule) ==
  /\ rule.freq = "MONTHLY" /\ rule.byDay # {} => SupportsMonthlyByDayZonedWallTime(rule)
  /\ rule.byHour = {} /\ rule.bySetPos = {}
  /\ rule.byMonth # {} => rule.freq = "YEARLY" \/ (rule.freq = "WEEKLY" /\ rule.byDay # {})
  /\ rule.byYearDay # {} => SupportsYearlyByYearDayZonedWallTime(rule)
  /\ rule.byWeekNo # {} => SupportsYearlyByWeekNumberZonedWallTime(rule)
  /\ HasOrdinalByDays(rule) => \/ SupportsMonthlyByDayZonedWallTime(rule)
                               \/ SupportsYearlyByDayZonedWallTime(rule)

UtcGenerator(rule) ==
  LET filtered == \/ HasOrdinalByDays(rule)
                  \/ rule.byMonthDay \cup rule.byMonth \cup rule.byYearDay
                       \cup rule.byWeekNo \cup rule.bySetPos # {}
  IN  IF rule.freq = "DAILY" /\ rule.byHour # {} THEN "dailyTime"
      ELSE IF rule.freq # "WEEKLY" /\ filtered
      THEN [DAILY |-> "filteredDay", MONTHLY |-> "filteredMonth", YEARLY |-> "filteredYear"][rule.freq]
      ELSE IF rule.freq = "DAILY" /\ rule.byDay # {} THEN "dailyByDay"
      ELSE IF rule.freq # "WEEKLY" \/ rule.byDay = {} THEN "plain"
      ELSE "weekly"

\* recurrenceStarts chooses a generator; localDateTimeStart is the zone.
GeneratorOf(rule, zone) ==
  CASE zone # None /\ SupportsDailyTimeZonedWallTime(rule) -> "dailyTimeZoned"
    [] zone # None /\ SupportsWeeklyTimeZonedWallTime(rule) -> "weeklyTimeZoned"
    [] zone # None /\ SupportsMonthlyTimeZonedWallTime(rule) -> "monthlyTimeZoned"
    [] zone # None /\ SupportsYearlyTimeZonedWallTime(rule) -> "yearlyTimeZoned"
    [] zone # None /\ KeepsWallTime(rule) -> WallTimeGenerator(rule)
    [] OTHER -> UtcGenerator(rule)

Generator == GeneratorOf(Rule, Zone)
ZonedGenerators ==
  {"dailyTimeZoned", "weeklyTimeZoned", "monthlyTimeZoned", "yearlyTimeZoned",
   "weeklyByDayZoned", "yearlyByDayZoned", "yearlyByYearDayZoned", "yearlyByWeekNumberZoned",
   "yearlyByMonthDayZoned", "monthlyByMonthDayZoned", "monthlyByDayZoned", "plainZoned"}
Zoned == Generator \in ZonedGenerators

\* The loops that stop after maxOccurrences * 366 turns; the others go on until
\* they have handed out maxOccurrences starts.
Bounded == Generator \notin {"dailyByDay", "filteredMonth", "filteredYear"}
MaxScanned == IF Bounded THEN MaxOccurrences * 366 ELSE MaxPeriods

-----------------------------------------------------------------------------
(* The days of one turn, k = 0 the first. *)

\* Dates of a month or a year that BYMONTHDAY, BYDAY and BYYEARDAY name.
Resolved(entry, size) == IF entry < 0 THEN size + entry + 1 ELSE entry

UtcDateIfMonthDayExists(year, month, entries) ==
  LET size == DaysInUtcMonth[year, month]
  IN  {DayNumber[year, month, d] : d \in {Resolved(e, size) : e \in entries} \cap 1..size}

UtcDateIfYearDayExists(year, entries) ==
  LET size == DaysInUtcYear[year]
  IN  {YearStart[year] + d - 1 : d \in {Resolved(e, size) : e \in entries} \cap 1..size}

\* (mutant) The distance to the first such weekday of the month is left out.
OrdinalWeekdayFromTheFirst(year, month, x) ==
  DayNumber[year, month, 1] + (x.ordinal - 1) * 7

OrdinalWeekday(year, month, x) ==
  LET first == DayNumber[year, month, 1]
      last == first + DaysInUtcMonth[year, month] - 1
  IN  IF x.ordinal > 0 THEN first + ((x.weekday - Weekday(first)) % 7) + (x.ordinal - 1) * 7
      ELSE last - ((Weekday(last) - x.weekday) % 7) + (x.ordinal + 1) * 7

DaysOfMonth(year, month) ==
  DayNumber[year, month, 1]..DayNumber[year, month, 1] + DaysInUtcMonth[year, month] - 1

UtcDateForOrdinalWeekday(year, month, entries) ==
  {OrdinalWeekday(year, month, x) : x \in entries} \cap DaysOfMonth(year, month)

WeekdaysOfMonth(year, month, weekdays) ==
  {d \in DaysOfMonth(year, month) : Weekday(d) \in weekdays}

\* Week one holds the fourth of January.
WeekOneStart(year, weekStart) == StartOfUtcWeek(YearStart[year] + 3, weekStart)

UtcDateForYearWeekNumber(year, numbers, weekdays, weekStart) ==
  LET weeks == (WeekOneStart(year + 1, weekStart) - WeekOneStart(year, weekStart)) \div 7
  IN  {WeekOneStart(year, weekStart) + (n - 1) * 7 + RelativeWeekdayOffset(w, weekStart) :
         n \in {Resolved(e, weeks) : e \in numbers} \cap 1..weeks, w \in weekdays}

OfMonths(days) == {d \in days : Rule.byMonth # {} => MonthOf[d] \in Rule.byMonth}
OnMonthDays(days) ==
  {d \in days : Rule.byMonthDay # {} =>
     d \in UtcDateIfMonthDayExists(YearOf[d], MonthOf[d], Rule.byMonthDay)}
OnWeekdays(days, weekdays) == {d \in days : weekdays # {} => Weekday(d) \in weekdays}
Or(entries, default) == IF entries = {} THEN {default} ELSE entries

MonthAfter(day, months) == (YearOf[day] * 12 + MonthOf[day] - 1) + months
MonthNumber(m) == (m % 12) + 1
YearNumber(m) == m \div 12

WeekOf(day, k) == StartOfUtcWeek(day, Rule.weekStart) + 7 * k * Rule.interval
MonthOfTurn(day, k) == MonthAfter(day, k * Rule.interval)
YearOfTurn(day, k) == YearOf[day] + k * Rule.interval

WeeklyDays(day, k) ==
  {WeekOf(day, k) + RelativeWeekdayOffset(x.weekday, Rule.weekStart) : x \in Rule.byDay}

MonthlyByMonthDayDays(k) ==
  LET m == MonthOfTurn(LocalDay, k)
  IN  UtcDateIfMonthDayExists(YearNumber(m), MonthNumber(m), Rule.byMonthDay)

ByDayOfMonth(year, month) ==
  UtcDateForOrdinalWeekday(year, month, Ordinals(Rule))
    \cup WeekdaysOfMonth(year, month, PlainDays(Rule))

MonthlyByDayDays(k) ==
  LET m == MonthOfTurn(LocalDay, k) IN ByDayOfMonth(YearNumber(m), MonthNumber(m))

YearlyByDayDays(k) ==
  UNION {ByDayOfMonth(YearOfTurn(LocalDay, k), m) : m \in Or(Rule.byMonth, MonthOf[LocalDay])}

YearlyByYearDayDays(day, k) ==
  OfMonths(UtcDateIfYearDayExists(YearOfTurn(day, k), Rule.byYearDay))

YearlyByWeekNumberDays(day, k) ==
  OfMonths(UtcDateForYearWeekNumber(YearOfTurn(day, k), Rule.byWeekNo,
                                    Or(PlainDays(Rule), Weekday(day)), Rule.weekStart))

YearlyByMonthDayDays(k) ==
  UNION {UtcDateIfMonthDayExists(YearOfTurn(LocalDay, k), m, Or(Rule.byMonthDay, DayOfMonth[LocalDay])) :
           m \in Or(Rule.byMonth, MonthOf[LocalDay])}

\* filteredMonthRecurrenceStarts, YEARLY: what the parts name is united.
FilteredYearDays(k) ==
  LET year == YearOfTurn(StartDay, k)
      named == Rule.byYearDay \cup Rule.byWeekNo # {} \/ Rule.byDay # {}
      monthDays == IF Rule.byMonthDay = {} /\ ~named THEN {DayOfMonth[StartDay]} ELSE Rule.byMonthDay
      inMonth(m) ==
        UtcDateForOrdinalWeekday(year, m, Ordinals(Rule))
          \cup (IF Rule.byWeekNo = {} THEN WeekdaysOfMonth(year, m, PlainDays(Rule)) ELSE {})
          \cup UtcDateIfMonthDayExists(year, m, monthDays)
  IN  {d \in YearlyByYearDayDays(StartDay, k) \cup YearlyByWeekNumberDays(StartDay, k)
                \cup UNION {inMonth(m) : m \in Or(Rule.byMonth, MonthOf[StartDay])} :
         d >= StartDay}

\* monthlyRecurrenceCandidates
FilteredMonthDays(k) ==
  LET m == MonthOfTurn(StartDay, k)
      monthDays == IF Rule.byMonthDay = {} /\ Rule.byDay = {} THEN {DayOfMonth[StartDay]}
                   ELSE Rule.byMonthDay
  IN  OfMonths(ByDayOfMonth(YearNumber(m), MonthNumber(m))
                 \cup UtcDateIfMonthDayExists(YearNumber(m), MonthNumber(m), monthDays))

DailyTimeDays(k) == OnWeekdays(OnMonthDays(OfMonths({StartDay + k * Rule.interval})), PlainDays(Rule))

\* addRecurrenceInterval, advanceLocalRecurrenceDate: a day that the month does
\* not have becomes its last, and stays the day from then on.
AddRecurrenceInterval(day) ==
  LET m == MonthAfter(day, IF Rule.freq = "MONTHLY" THEN Rule.interval ELSE 12 * Rule.interval)
      size == DaysInUtcMonth[YearNumber(m), MonthNumber(m)]
  IN  CASE Rule.freq = "DAILY" -> day + Rule.interval
        [] Rule.freq = "WEEKLY" -> day + 7 * Rule.interval
        [] OTHER -> DayNumber[YearNumber(m), MonthNumber(m),
                              IF DayOfMonth[day] <= size THEN DayOfMonth[day] ELSE size]

AnyWeekdays == {x.weekday : x \in Rule.byDay}

PeriodDays(k) ==
  CASE Generator = "dailyTimeZoned" -> {LocalDay + k * Rule.interval}
    [] Generator \in {"weeklyTimeZoned", "weeklyByDayZoned"} -> OfMonths(WeeklyDays(LocalDay, k))
    [] Generator = "weekly" -> OnMonthDays(OfMonths(WeeklyDays(StartDay, k)))
    [] Generator \in {"monthlyTimeZoned", "monthlyByMonthDayZoned"} -> MonthlyByMonthDayDays(k)
    [] Generator = "monthlyByDayZoned" -> MonthlyByDayDays(k)
    [] Generator = "yearlyByDayZoned" -> YearlyByDayDays(k)
    [] Generator = "yearlyByYearDayZoned" -> YearlyByYearDayDays(LocalDay, k)
    [] Generator = "yearlyByWeekNumberZoned" -> YearlyByWeekNumberDays(LocalDay, k)
    [] Generator \in {"yearlyTimeZoned", "yearlyByMonthDayZoned"} -> YearlyByMonthDayDays(k)
    [] Generator = "dailyTime" -> DailyTimeDays(k)
    [] Generator = "filteredYear" -> FilteredYearDays(k)
    [] Generator = "filteredMonth" -> FilteredMonthDays(k)
    [] Generator = "filteredDay" -> OnWeekdays(OnMonthDays(OfMonths({cursor})), PlainDays(Rule))
    [] Generator \in {"dailyByDay", "plainZoned"} -> OnWeekdays({cursor}, AnyWeekdays)
    [] Generator = "plain" -> {cursor}

-----------------------------------------------------------------------------
(* The starts of one turn. *)

ApplyBySetPositions(S) ==
  LET chosen(i) == i \in Rule.bySetPos \/ i - Cardinality(S) - 1 \in Rule.bySetPos
  IN  {t \in S : Rule.bySetPos # {} => chosen(Cardinality({u \in S : u <= t}))}

\* The loops over single days take no account of BYHOUR and BYSETPOS.
DayLoops == {"plain", "plainZoned", "dailyByDay", "filteredDay"}

\* (mutant) The times of a zoned event are taken as UTC.
InstantOfUtc(day, hour) == day * Hours + hour

InstantOf(day, hour) ==
  ZonedDateTimeToUtc[IF Zoned THEN Zone ELSE None, day * Hours + hour]

\* recurrenceTimeCandidates, and the loops over hours of the other generators.
TimesOf(days) ==
  LET default == HourOf(IF Zoned THEN event.wall ELSE Start)
      hours == IF Generator \in DayLoops THEN {default} ELSE Or(Rule.byHour, default)
  IN  {InstantOf(d, h) : d \in days, h \in hours}

\* Starts before the event's own are dropped, by dailyTime and filteredYear after
\* BYSETPOS has counted them, by all others before.
PeriodTimes(k) ==
  LET times == TimesOf(PeriodDays(k))
      notBefore(S) == {t \in S : t >= Start}
  IN  CASE Generator \in DayLoops -> notBefore(times)
        [] Generator \in {"dailyTime", "filteredYear"} -> notBefore(ApplyBySetPositions(times))
        [] OTHER -> ApplyBySetPositions(notBefore(times))

\* Two entries of BYMONTHDAY that name one day give it twice in the wall-time
\* generators by day of the month, which do not remove duplicates.
Repeats(t) ==
  LET d == DayOf(Wall[Zone, t])
  IN  IF Generator \in {"monthlyByMonthDayZoned", "yearlyByMonthDayZoned"} /\ Rule.byMonthDay # {}
      THEN {e \in Rule.byMonthDay :
              Resolved(e, DaysInUtcMonth[YearOf[d], MonthOf[d]]) = DayOfMonth[d]}
      ELSE {None}

PeriodStarts(k) == UNION {{[at |-> t, entry |-> e] : e \in Repeats(t)} : t \in PeriodTimes(k)}
Earliest(S) == CHOOSE x \in S : \A y \in S : x.at <= y.at

-----------------------------------------------------------------------------
(* The expansion. *)

Init ==
  /\ event \in Events
  /\ phase = "parsing" /\ period = 0 /\ cursor = 0
  /\ pending = {} /\ starts = <<>> /\ occurrences = {} /\ cancelled = {}

\* An event without a rule has its own start; a rule gives all starts itself.
ParseRule ==
  /\ phase = "parsing"
  /\ IF Rule = None THEN phase' = "merging" /\ starts' = <<Start>> /\ UNCHANGED cursor
     ELSE IF Invalid(Rule) THEN phase' = "rejected" /\ UNCHANGED <<starts, cursor>>
     ELSE IF event.range = None THEN phase' = "merging" /\ UNCHANGED <<starts, cursor>>
     ELSE /\ phase' = "generating" /\ UNCHANGED starts
          /\ cursor' = IF Zoned THEN LocalDay ELSE StartDay
  /\ UNCHANGED <<event, period, pending, occurrences, cancelled>>

Scan ==
  /\ phase = "generating" /\ pending = {}
  /\ Len(starts) < MaxOccurrences /\ period < MaxScanned
  /\ pending' = PeriodStarts(period)
  /\ period' = period + 1
  /\ cursor' = AddRecurrenceInterval(cursor)
  /\ UNCHANGED <<event, phase, starts, occurrences, cancelled>>

\* A start is handed out: one too many for COUNT, or later than UNTIL, ends it.
Take ==
  /\ phase = "generating" /\ pending # {} /\ Len(starts) < MaxOccurrences
  /\ IF \/ Rule.count # None /\ Len(starts) >= Rule.count
        \/ Rule.until # None /\ Earliest(pending).at > Rule.until
     THEN phase' = "merging" /\ UNCHANGED <<starts, pending>>
     ELSE /\ starts' = Append(starts, Earliest(pending).at) /\ pending' = pending \ {Earliest(pending)}
          /\ UNCHANGED phase
  /\ UNCHANGED <<event, period, cursor, occurrences, cancelled>>

\* (mutant) Only the limit on turns ends a generator.
ExhaustedByTurns ==
  /\ phase = "generating" /\ pending = {} /\ Bounded /\ period >= MaxScanned
  /\ phase' = "merging"
  /\ UNCHANGED <<event, period, cursor, pending, starts, occurrences, cancelled>>

\* The generator ends of its own.
Exhausted ==
  /\ phase = "generating"
  /\ \/ Len(starts) >= MaxOccurrences
     \/ pending = {} /\ Bounded /\ period >= MaxScanned
  /\ phase' = "merging"
  /\ UNCHANGED <<event, period, cursor, pending, starts, occurrences, cancelled>>

\* excludedOccurrenceMatcher: single starts, and whole days of UTC.
Excluded(t) == t \in event.exdates \/ DayOf(t) \in event.exdays

\* additionalOccurrences, sortUniqueOccurrences: an RDATE replaces a start of the
\* rule at the same time, and may bring a length of its own.
Added == {x.start : x \in event.rdates}
LengthAt(t) ==
  LET given == {x.length : x \in {y \in event.rdates : y.start = t}} \ {None}
  IN  IF given = {} THEN event.length ELSE CHOOSE l \in given : TRUE

Occurrence(t) == [key |-> t, start |-> t, end |-> t + LengthAt(t)]

\* (mutant) An occurrence under way when the range begins is left out.
InRangeFromItsStart(t) == event.range.from <= t /\ t < event.range.to

InRange(t) == t + LengthAt(t) > event.range.from /\ t < event.range.to

\* An event without range, or with neither RRULE nor RDATE, is imported as it is.
Single == [key |-> None, start |-> Start, end |-> Start + event.length]

Merge ==
  /\ phase = "merging"
  /\ phase' = "substituting"
  /\ occurrences' =
       IF event.range = None \/ (Rule = None /\ event.rdates = {}) THEN {Single}
       ELSE {Occurrence(t) : t \in {u \in ToSet(starts) \cup Added : ~Excluded(u) /\ InRange(u)}}
  /\ UNCHANGED <<event, period, cursor, pending, starts, cancelled>>

\* RECURRENCE-ID: by the start that an occurrence had, whether it is moved or
\* cancelled; a moved one is kept wherever it was moved to.
ExceptionAt(key) == {x \in event.exceptions : x.key = key}
Substitute ==
  /\ phase = "substituting"
  /\ phase' = "done"
  /\ cancelled' = {o.key : o \in {x \in occurrences : \E y \in ExceptionAt(x.key) : y.moved = None}}
  /\ occurrences' =
       {o \in occurrences : ExceptionAt(o.key) = {}}
         \cup UNION {{[key |-> o.key, start |-> y.moved, end |-> y.moved + y.length] :
                         y \in {z \in ExceptionAt(o.key) : z.moved # None}} : o \in occurrences}
  /\ UNCHANGED <<event, period, cursor, pending, starts>>

Next == ParseRule \/ Scan \/ Take \/ Exhausted \/ Merge \/ Substitute

\* The expansion is synchronous: it runs until it returns or throws.
Spec == Init /\ [][Next]_vars /\ WF_vars(Next)
=============================================================================
