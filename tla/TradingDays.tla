----------------------------- MODULE TradingDays -----------------------------
(***************************************************************************)
(* Trading hours as the exchanges publish them, in New York: daylight time *)
(* by the rule of the United States since 2007, the holidays by the rule   *)
(* each one is known by, Easter by the paschal full moon.  The reference   *)
(* that the session filters of Calendar.tla are compared with.             *)
(***************************************************************************)
EXTENDS Calendar

Falls(date, y, m, days, weekday) ==
  Weekday(date) = weekday /\ \E d \in days : date = Date(y, m, d)

\* The fixed day itself on a weekday, the Monday after a Sunday, the Friday
\* before a Saturday.
Kept(date, y, m, d) ==
  \/ date = Date(y, m, d) /\ Weekday(date) < Saturday
  \/ Falls(date, y, m, {d + 1}, Monday)
  \/ d > 1 /\ Falls(date, y, m, {d - 1}, Friday)

\* The ecclesiastical full moon of the years 1900 to 2199.
FullMoon(y) ==
  LET golden == y % 19
      age    == (19 * golden + 24) % 30
  IN  Date(y, 3, 21) +
        (IF age = 29 \/ (age = 28 /\ golden > 10) THEN age - 1 ELSE age)

\* Easter is the first Sunday after the full moon, Good Friday two days before.
IsGoodFriday(date, y) ==
  Weekday(date) = Friday /\ date + 2 - FullMoon(y) \in 1..7

\* A New Year's Day on a Saturday is not kept, as its Friday is in the old year.
\* Juneteenth is kept from 2022.
IsHoliday(date) ==
  LET y == YearOf(date) IN
  \/ Kept(date, y, 1, 1)
  \/ Falls(date, y, 1, 15..21, Monday)
  \/ Falls(date, y, 2, 15..21, Monday)
  \/ IsGoodFriday(date, y)
  \/ Falls(date, y, 5, 25..31, Monday)
  \/ y > 2021 /\ Kept(date, y, 6, 19)
  \/ Kept(date, y, 7, 4)
  \/ Falls(date, y, 9, 1..7, Monday)
  \/ Falls(date, y, 11, 22..28, Thursday)
  \/ Kept(date, y, 12, 25)

\* From two in the morning, standard time, of the second Sunday of March to two in
\* the morning, daylight time, of the first Sunday of November.
IsDaylight(ts) ==
  LET y == YearOf(ts \div Day) IN
  \E march \in Date(y, 3, 8) .. Date(y, 3, 14), november \in Date(y, 11, 1) .. Date(y, 11, 7) :
    /\ Weekday(march) = Sunday /\ Weekday(november) = Sunday
    /\ ts \in march * Day + HoursMinutes(7, 0) .. november * Day + HoursMinutes(6, 0) - 1

\* The clock in New York.
NewYork(ts) == ts - (IF IsDaylight(ts) THEN 4 ELSE 5) * 3600

\* Seconds of the week, from Monday 00:00.
InWeek(clock) == Weekday(clock \div Day) * Day + (clock % Day)

\* calendar.rs:9-15, by the clock: weekdays from 09:30 to 16:00 but for holidays, and
\* Sunday 17:00 to Friday 17:00.
ClockInHours(filter, clock) ==
  CASE filter = "none" -> TRUE
    [] filter = "equity_rth" ->
         \E day \in Monday .. Friday :
           /\ InWeek(clock) - day * Day \in HoursMinutes(9, 30) .. HoursMinutes(16, 0) - 1
           /\ ~IsHoliday(clock \div Day)
    [] filter = "forex_245" ->
         InWeek(clock) \notin Friday * Day + HoursMinutes(17, 0) .. Sunday * Day + HoursMinutes(17, 0) - 1

InTradingHours(filter, ts) == ClockInHours(filter, NewYork(ts))

\* By how much the fixed offset of calendar.rs:43,154 is behind New York.
Behind(ts) == IF IsDaylight(ts) THEN 3600 ELSE 0
=============================================================================
