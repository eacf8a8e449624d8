------------------------------ MODULE CivilTime ------------------------------
(***************************************************************************)
(* Dates and wall clocks, as ics.ts and scheduler.ts use them: the date    *)
(* arithmetic of Date.UTC and the conversion of a wall-clock time of a     *)
(* zone to the instant it names.  Time is counted in hours from the Monday *)
(* 1 January 2024, 00:00 UTC; a day is named by its number from then.      *)
(* Leap years follow the rule of 1901 to 2099.                             *)
(***************************************************************************)
EXTENDS Integers, FiniteSets

CONSTANTS
  None,      \* an absent optional value; as a zone: UTC
  Base,      \* Base[z]: the standard offset of zone z in hours
  Saving     \* Saving[z]: the intervals in which its clocks are an hour ahead

Zones == DOMAIN Base

ASSUME ZoneAssumption ==
  /\ None \notin Zones
  /\ \A z \in Zones : Base[z] \in Int /\ Saving[z] \subseteq [from : Int, to : Int]

-----------------------------------------------------------------------------
Hours == 24
Epoch == 2024

LeapYear[year \in Int] == year % 4 = 0
DaysInUtcYear[year \in Int] == IF LeapYear[year] THEN 366 ELSE 365
DaysInUtcMonth[year \in Int, month \in 1..12] ==
  CASE month = 2 -> IF LeapYear[year] THEN 29 ELSE 28
    [] month \in {4, 6, 9, 11} -> 30
    [] OTHER -> 31

YearStart[year \in Int] == ((year - Epoch) \div 4) * 1461
                     + (IF (year - Epoch) % 4 = 0 THEN 0 ELSE 365 * ((year - Epoch) % 4) + 1)
DaysBefore == <<0, 31, 59, 90, 120, 151, 181, 212, 243, 273, 304, 334>>
MonthStart[year \in Int, month \in 1..12] ==
  YearStart[year] + DaysBefore[month] + (IF month > 2 /\ LeapYear[year] THEN 1 ELSE 0)

\* Date.UTC(year, month - 1, day)
DayNumber[year \in Int, month \in 1..12, day \in Int] == MonthStart[year, month] + day - 1

\* The fields of a date: the year from the cycle of four years, the rest from it.
YearOf[d \in Int] ==
  LET inCycle == d % 1461
  IN  Epoch + 4 * (d \div 1461) + (IF inCycle < 366 THEN 0 ELSE (inCycle - 1) \div 365)
MonthOf[d \in Int] ==
  LET year == YearOf[d]
      inYear == d - YearStart[year]
      guess == inYear \div 31 + 1
  IN  IF guess < 12 /\ d >= MonthStart[year, guess + 1] THEN guess + 1 ELSE guess
DayOfMonth[d \in Int] == d - MonthStart[YearOf[d], MonthOf[d]] + 1

\* weekdayNumberFromDate: Monday is 0.
Weekday(d) == d % 7

DayOf(t) == t \div Hours
HourOf(t) == t % Hours

\* relativeWeekdayOffset, startOfUtcWeek
RelativeWeekdayOffset(weekday, weekStart) == (weekday - weekStart) % 7

StartOfUtcWeek(d, weekStart) == d - RelativeWeekdayOffset(Weekday(d), weekStart)

-----------------------------------------------------------------------------
\* utcDatePartsInTimeZone, getLocalDateTime: what the clocks of a zone show.
Ahead(zone, t) == \E x \in Saving[zone] : x.from <= t /\ t < x.to
Wall[zone \in Zones \cup {None}, t \in Int] ==
  IF zone = None THEN t ELSE t + Base[zone] + (IF Ahead(zone, t) THEN 1 ELSE 0)

\* The search that zonedDateTimeToUtc and localTimeToUtc share: correct the guess
\* by what the clocks are off, at most `attempts` times.  A time that the clocks
\* skip is never hit, and the guess goes to and fro around the change.
Corrected(zone, wall, attempts) ==
  LET guess[n \in 0..attempts] ==
        IF n = 0 THEN wall
        ELSE LET g == guess[n - 1] IN g + (wall - Wall[zone, g])
  IN  guess[attempts]

ZonedDateTimeToUtc[zone \in Zones \cup {None}, wall \in Int] == Corrected(zone, wall, 4)
LocalTimeToUtc(zone, wall) == Corrected(zone, wall, 3)

\* The instants at which the clocks of a zone show a wall-clock time: none when
\* they are put forward over it, two when they are put back over it.
InstantsOf(zone, wall) == {t \in wall - 15..wall + 15 : Wall[zone, t] = wall}
=============================================================================
