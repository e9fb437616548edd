------------------------------ MODULE Calendar ------------------------------
(***************************************************************************)
(* calendar: which instants a session filter lets through.  An instant is  *)
(* in seconds since 1970-01-01T00:00Z, a date is a day number since that   *)
(* day.                                                                    *)
(***************************************************************************)
EXTENDS Integers

Filters == {"none", "equity_rth", "forex_245"}

Day == 86400
HoursMinutes(h, m) == h * 3600 + m * 60

\* -- The proleptic Gregorian calendar of the time crate ---------------------

IsLeap(y) == y % 4 = 0 /\ (y % 100 # 0 \/ y % 400 = 0)

DaysInMonth(y, m) ==
  CASE m = 2              -> IF IsLeap(y) THEN 29 ELSE 28
    [] m \in {4, 6, 9, 11} -> 30
    [] OTHER              -> 31

\* Days before the first of the month, in a year that is not a leap year.
BeforeMonth == <<0, 31, 59, 90, 120, 151, 181, 212, 243, 273, 304, 334>>

\* Date::from_calendar_date.
Date(y, m, d) ==
  LET leaps(n) == n \div 4 - n \div 100 + n \div 400 IN
  365 * (y - 1970) + leaps(y - 1) - leaps(1969)
    + BeforeMonth[m] + (IF m > 2 /\ IsLeap(y) THEN 1 ELSE 0) + d - 1

\* 400 years have 146097 days, and no year strays from that mean by a year.
YearOf(date) ==
  LET about == 1970 + (400 * date) \div 146097 IN
  CHOOSE y \in about - 1 .. about + 1 :
    Date(y, 1, 1) <= date /\ date < Date(y + 1, 1, 1)

\* Weekday::number_days_from_monday: 1970-01-01 was a Thursday.
Monday == 0
Thursday == 3
Friday == 4
Saturday == 5
Sunday == 6

Weekday(date) == (date + Thursday) % 7

\* -- Holidays ---------------------------------------------------------------

\* Mutant of observed: a holiday of a weekend is kept on the Monday.
observedLater(date) ==
  CASE Weekday(date) = Saturday -> date + 2
    [] Weekday(date) = Sunday   -> date + 1
    [] OTHER                    -> date

\* A holiday on a Saturday is kept on the Friday before, one on a Sunday on
\* the Monday after.
observed(date) ==
  CASE Weekday(date) = Saturday -> date - 1
    [] Weekday(date) = Sunday   -> date + 1
    [] OTHER                    -> date

nth_weekday(y, m, weekday, n) ==
  LET first == Date(y, m, 1)
  IN  first + ((weekday - Weekday(first)) % 7) + (n - 1) * 7

last_weekday(y, m, weekday) ==
  LET last == Date(y, m, DaysInMonth(y, m))
  IN  last - ((Weekday(last) - weekday) % 7)

\* Two days before Easter Sunday, by the anonymous Gregorian computus.
good_friday(y) ==
  LET a == y % 19
      b == y \div 100
      c == y % 100
      g == (b - (b + 8) \div 25 + 1) \div 3
      h == (19 * a + b - b \div 4 - g + 15) % 30
      l == (32 + 2 * (b % 4) + 2 * (c \div 4) - h - (c % 4)) % 7
      m == (a + 11 * h + 22 * l) \div 451
      n == h + l - 7 * m + 114
  IN  Date(y, n \div 31, (n % 31) + 1) - 2

is_us_market_holiday(date) ==
  LET y == YearOf(date) IN
  \/ date \in {observed(Date(y, 1, 1)), observed(Date(y, 7, 4)), observed(Date(y, 12, 25))}
  \/ y >= 2022 /\ date = observed(Date(y, 6, 19))
  \/ date \in {nth_weekday(y, 1, Monday, 3),
               nth_weekday(y, 2, Monday, 3),
               last_weekday(y, 5, Monday),
               nth_weekday(y, 9, Monday, 1),
               nth_weekday(y, 11, Thursday, 4),
               good_friday(y)}

\* -- Sessions ---------------------------------------------------------------

\* Both filters read the clock at a fixed offset of five hours from UTC.
Local(ts) == ts - 5 * 3600
LocalDate(ts) == Local(ts) \div Day
TimeOfDay(ts) == Local(ts) % Day

equity_rth_open(ts) ==
  /\ Weekday(LocalDate(ts)) \notin {Saturday, Sunday}
  /\ ~is_us_market_holiday(LocalDate(ts))
  /\ TimeOfDay(ts) >= HoursMinutes(9, 30)
  /\ TimeOfDay(ts) < HoursMinutes(16, 0)

\* Sunday 17:00 to Friday 17:00.
forex_245_open(ts) ==
  LET weekday == Weekday(LocalDate(ts)) IN
  CASE weekday = Saturday -> FALSE
    [] weekday = Sunday   -> TimeOfDay(ts) >= HoursMinutes(17, 0)
    [] weekday = Friday   -> TimeOfDay(ts) < HoursMinutes(17, 0)
    [] OTHER              -> TRUE

is_session_open(filter, ts) ==
  CASE filter = "none"       -> TRUE
    [] filter = "equity_rth" -> equity_rth_open(ts)
    [] filter = "forex_245"  -> forex_245_open(ts)
=============================================================================
