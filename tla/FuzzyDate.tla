------------------------------ MODULE FuzzyDate ------------------------------
(***************************************************************************)
(* Reading a tracker's timestamp that leaves something out: the day, the   *)
(* year, or both.  The clock runs in hours; the calendar is a small one of *)
(* the same build, with months, leap years, weeks, and a zone whose offset *)
(* changes twice.                                                          *)
(*                                                                         *)
(* A text is the set of what it holds, each part at most once:             *)
(*   exact   an instant in full, a date with its zone or a Unix time;      *)
(*   word    "now", "ago", "today", "yesterday", "tomorrow", or none;      *)
(*   pairs   the numbers with units that stand in it;                      *)
(*   weekday a weekday's name before an "at";                              *)
(*   month, day  a date without its year;                                  *)
(*   clock   a time of day, none, or one that is no time.                  *)
(***************************************************************************)
EXTENDS Integers, Sequences, FiniteSetsExt

CONSTANTS
  Texts,         \* what trackers print
  Months,        \* how many days each month has, a leap year's further day aside
  LeapMonth,     \* the month that has it
  LeapYears,
  DayHours,      \* the hours of a day
  Week,          \* the days of a week
  Summer,        \* the hours, since the epoch, at which the offset is one more
  Units,         \* timeAgoUnit: the hours of a unit, by its name
  LastYear,      \* bound of the calendar
  DateStart, DateEnd   \* bounds of the clock

ASSUME DateAssumption ==
  /\ Months \in Seq(Nat \ {0}) /\ LeapMonth \in DOMAIN Months \ {Len(Months)}
  /\ DayHours \in Nat \ {0} /\ Week \in Nat \ {0} /\ LastYear \in Nat
  /\ DateStart \in Nat /\ DateEnd \in Nat

\* The zone is one whose clock does not go forward in the last hour of a day; such
\* an hour, which is on no clock, would be read on the day after.
ASSUME ZoneAssumption ==
  /\ Summer \subseteq Int
  /\ \A i \in Summer : i - 1 \notin Summer => i % DayHours # DayHours - 1

ASSUME TextsAssumption ==
  \A t \in Texts :
    /\ t.weekday \in 0 .. Week /\ t.month \in 0 .. Len(Months) /\ t.day \in Int
    /\ \/ t.clock.kind \in {"none", "other"}
       \/ t.clock.kind = "clock" /\ t.clock.hour \in 0 .. DayHours - 1

VARIABLES now, stamp, dated

dateVars == <<now, stamp, dated>>

NoClock   == [kind |-> "none"]
NotAClock == [kind |-> "other"]
Clock(hour) == [kind |-> "clock", hour |-> hour]

Undated == [isDated |-> FALSE, instant |-> 0]
At(instant) == [isDated |-> TRUE, instant |-> instant]

Blank == [exact |-> 0, word |-> "none", pairs |-> <<>>, weekday |-> 0, month |-> 0, day |-> 0, clock |-> NoClock]

DateInit == now = DateStart /\ stamp = Blank /\ dated = Undated

-----------------------------------------------------------------------------
(***************************************************************************)
(* The calendar and the zone.                                              *)
(***************************************************************************)

LengthOf(month, year) == Months[month] + (IF month = LeapMonth /\ year \in LeapYears THEN 1 ELSE 0)

YearsKnown == 0 .. LastYear

\* What the first elements of a sequence of numbers add up to.
Sums(s) == LET sum[n \in 0 .. Len(s)] == IF n = 0 THEN 0 ELSE sum[n - 1] + s[n] IN sum

MonthLengths(year) == [month \in DOMAIN Months |-> LengthOf(month, year)]
YearLength(year)   == Sums(MonthLengths(year))[Len(Months)]
YearLengths        == [i \in 1 .. LastYear + 1 |-> YearLength(i - 1)]

\* The day's number, from those of the years and the months before it.
DayNumber(year, month, day) == Sums(YearLengths)[year] + Sums(MonthLengths(year))[month - 1] + day

\* The clock runs within the years known, the first of them past.
ASSUME ClockAssumption ==
  /\ DayNumber(1, 1, 1) * DayHours <= DateStart
  /\ DateStart <= DateEnd /\ DateEnd + 1 < DayNumber(LastYear + 1, 1, 1) * DayHours

YearOf(number) == CHOOSE y \in YearsKnown : DayNumber(y, 1, 1) <= number /\ number < DayNumber(y + 1, 1, 1)
MonthOf(number) ==
  LET y == YearOf(number)
  IN CHOOSE m \in DOMAIN Months : DayNumber(y, m, 1) <= number
                                  /\ number < DayNumber(y, m, 1) + LengthOf(m, y)
DayOfMonth(number) == number - DayNumber(YearOf(number), MonthOf(number), 1) + 1

WeekdayOf(number) == (number % Week) + 1

Offset(instant) == IF instant \in Summer THEN 1 ELSE 0

WallHours(instant) == instant + Offset(instant)
DayOf(instant)     == WallHours(instant) \div DayHours
HourOf(instant)    == WallHours(instant) % DayHours

\* time.Date: the instant whose wall clock this is; where none is, one an hour off.
Instant(number, hour) ==
  LET wall == number * DayHours + hour
      utc  == wall - Offset(wall)
  IN IF Offset(utc) = Offset(wall) THEN utc ELSE wall - Offset(utc)

\* The wall clock shows this hour on this day.
IsShown(number, hour) ==
  LET wall == number * DayHours + hour IN \E i \in {wall - 1, wall} : WallHours(i) = wall

-----------------------------------------------------------------------------
(***************************************************************************)
(* The shapes.                                                             *)
(***************************************************************************)

\* parseTimeOfDay: nothing is midnight.
IsTimeOfDay(clock) == clock.kind # "other"
HourRead(clock)    == IF clock.kind = "none" THEN 0 ELSE clock.hour

\* Variant: the time since midnight.
ClockAtElapsed(hour, number) == Instant(number, 0) + hour

\* clockTime.at
ClockAt(hour, number) == Instant(number, hour)

\* parseTimeAgoValue: every pair counts, and one unknown unit refuses them all.
TimeAgo(t) ==
  IF t.word = "now" THEN At(now)
  ELSE IF t.pairs = <<>> \/ \E i \in DOMAIN t.pairs : t.pairs[i].unit \notin DOMAIN Units THEN Undated
  ELSE At(now - Sums([i \in DOMAIN t.pairs |-> t.pairs[i].number * Units[t.pairs[i].unit]])[Len(t.pairs)])

DayWords == [today |-> 0, yesterday |-> -1, tomorrow |-> 1]

\* What is left of a text beside its day or its weekday is a time of day.
IsClockOnly(t) == IsTimeOfDay(t.clock) /\ t.pairs = <<>> /\ t.month = 0

\* relativeDay
RelativeDay(t) ==
  IF t.word \in DOMAIN DayWords /\ IsClockOnly(t) /\ t.weekday = 0
  THEN At(ClockAt(HourRead(t.clock), DayOf(now) + DayWords[t.word]))
  ELSE Undated

\* The last day, today included, that is this weekday.
LastDay(weekday) ==
  Max({n \in DayOf(now) - Week + 1 .. DayOf(now) : WeekdayOf(n) = weekday})

\* weekdayBefore
WeekdayBefore(t) ==
  IF t.weekday # 0 /\ IsClockOnly(t) /\ t.word = "none"
  THEN At(ClockAt(HourRead(t.clock), LastDay(t.weekday)))
  ELSE Undated

\* notInTheFuture, whose AddDate carries a day the earlier year lacks over.
NotInTheFuture(instant) ==
  LET n == DayOf(instant)
  IN IF instant <= now THEN instant
     ELSE Instant(DayNumber(YearOf(n) - 1, MonthOf(n), DayOfMonth(n)), HourOf(instant))

\* The general parser, of a date whose year was supplied: none that does not exist.
MissingYear(t) ==
  LET year == YearOf(DayOf(now))
  IN IF t.month = 0 \/ t.word # "none" \/ t.weekday # 0 \/ ~IsTimeOfDay(t.clock)
        \/ t.day \notin 1 .. LengthOf(t.month, year)
     THEN Undated
     ELSE At(NotInTheFuture(Instant(DayNumber(year, t.month, t.day), HourRead(t.clock))))

\* A bare time of day is today's; nothing at all is midnight.
BareClock(t) ==
  IF t.word = "none" /\ t.weekday = 0 /\ IsClockOnly(t)
  THEN At(ClockAt(HourRead(t.clock), DayOf(now)))
  ELSE Undated

\* parseUnknownTimeValue's order; the general parser finds no date in the rest.
Shapes(t) ==
  <<IF t.exact # 0 THEN At(t.exact) ELSE Undated,
    IF t.word = "now" THEN At(now) ELSE Undated,
    IF t.word = "ago" THEN TimeAgo(t) ELSE Undated,
    RelativeDay(t), WeekdayBefore(t), MissingYear(t), BareClock(t)>>

Dated(t) ==
  LET dates == {i \in DOMAIN Shapes(t) : Shapes(t)[i].isDated}
  IN IF dates = {} THEN Undated ELSE Shapes(t)[CHOOSE i \in dates : \A j \in dates : i <= j]

-----------------------------------------------------------------------------
ReadTimestamp ==
  /\ stamp = Blank
  /\ \E t \in Texts : stamp' = t /\ dated' = Dated(t)
  /\ UNCHANGED now

DateTick ==
  /\ stamp = Blank /\ now < DateEnd
  /\ now' = now + 1
  /\ UNCHANGED <<stamp, dated>>

DateNext == ReadTimestamp \/ DateTick

DateSpec == DateInit /\ [][DateNext]_dateVars

-----------------------------------------------------------------------------
(***************************************************************************)
(* Properties.                                                             *)
(***************************************************************************)

\* The wall clock of what was read is the one the tracker printed, where that day
\* has it.  A date without its year is moved back after it was read as this year's,
\* so this year's day must have it too.
ShowsClock ==
  LET hour == HourRead(stamp.clock)
  IN /\ IsShown(DayOf(dated.instant), hour)
     /\ stamp.month # 0 => IsShown(DayNumber(YearOf(DayOf(now)), stamp.month, stamp.day), hour)
     => HourOf(dated.instant) = hour

\* What is read is the day and the time of day the tracker printed, also across a
\* change of the zone's offset: a day's word or a bare clock on that very day, a
\* weekday within the week that ends today, a date without its year on that month
\* and day and never ahead of now nor more than a year back, where a day the
\* earlier year lacks is the day after.
ShownDateKept ==
  stamp # Blank /\ dated.isDated /\ stamp.exact = 0 /\ stamp.word \notin {"now", "ago"} =>
    LET n == DayOf(dated.instant)
    IN /\ ShowsClock
       /\ stamp.word \in DOMAIN DayWords => n = DayOf(now) + DayWords[stamp.word]
       /\ stamp.weekday # 0 => WeekdayOf(n) = stamp.weekday /\ n \in DayOf(now) - Week + 1 .. DayOf(now)
       /\ stamp.month # 0 =>
            /\ dated.instant <= now
            /\ YearOf(n) \in {YearOf(DayOf(now)), YearOf(DayOf(now)) - 1}
            /\ IF stamp.day <= LengthOf(stamp.month, YearOf(n))
               THEN MonthOf(n) = stamp.month /\ DayOfMonth(n) = stamp.day
               ELSE n = DayNumber(YearOf(n), stamp.month, stamp.day)
       /\ stamp.word = "none" /\ stamp.weekday = 0 /\ stamp.month = 0 => n = DayOf(now)

=============================================================================
