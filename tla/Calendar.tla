------------------------------ MODULE Calendar ------------------------------
(***************************************************************************)
(* Days and billing periods.  A day is its number in the Gregorian         *)
(* calendar; the time of day, which no interval changes, is left out.      *)
(* AddDate is time.Time.AddDate of Go's library, which does not stop at    *)
(* the end of a month: January 31st and a month is March 2nd or 3rd.       *)
(***************************************************************************)
EXTENDS Integers

Intervals == {"day", "week", "month", "year"}

Leap(y) == y % 4 = 0 /\ (y % 100 # 0 \/ y % 400 = 0)

MonthLength(y, m) ==
  IF m = 2 THEN IF Leap(y) THEN 29 ELSE 28
  ELSE IF m \in {4, 6, 9, 11} THEN 30 ELSE 31

DaysBeforeYear(y) == 365 * (y - 1) + (y - 1) \div 4 - (y - 1) \div 100 + (y - 1) \div 400

DaysBefore(y, m) ==
  <<0, 31, 59, 90, 120, 151, 181, 212, 243, 273, 304, 334>>[m]
    + IF m > 2 /\ Leap(y) THEN 1 ELSE 0

\* The number of day d of month m; d may lie outside the month.
DayNumber(y, m, d) == DaysBeforeYear(y) + DaysBefore(y, m) + d

\* 400 years have 146097 days, so the year is one of three near its mean place.
YearOf(n) ==
  LET near == (400 * (n - 1)) \div 146097
  IN CHOOSE y \in near..near+2 : DaysBeforeYear(y) < n /\ n <= DaysBeforeYear(y + 1)

MonthOf(n) ==
  LET y == YearOf(n)
  IN CHOOSE m \in 1..12 : LET d == n - DayNumber(y, m, 0) IN 1 <= d /\ d <= MonthLength(y, m)

Date(n) ==
  [year |-> YearOf(n), month |-> MonthOf(n), day |-> n - DayNumber(YearOf(n), MonthOf(n), 0)]

\* The first day of the month that is so many months after that of day n.
MonthAfter(n, months) ==
  LET t == Date(n)
      i == t.month - 1 + months
  IN [year |-> t.year + i \div 12, month |-> (i % 12) + 1]

AddDate(n, years, months, days) ==
  LET t == MonthAfter(n, 12 * years + months)
  IN DayNumber(t.year, t.month, Date(n).day) + days

\* Every month has thirty days.
FlatMonthFault(n, interval, count) ==
  CASE interval = "day" -> n + count
    [] interval = "week" -> n + 7 * count
    [] interval = "month" -> n + 30 * count
    [] interval = "year" -> n + 360 * count

\* calculatePeriodEnd of the service, nextPeriodEnd of the lifecycle.
PeriodEnd(n, interval, count) ==
  CASE interval = "day" -> AddDate(n, 0, 0, count)
    [] interval = "week" -> AddDate(n, 0, 0, 7 * count)
    [] interval = "month" -> AddDate(n, 0, count, 0)
    [] interval = "year" -> AddDate(n, count, 0, 0)

(***************************************************************************)
(* The reference: the day a customer expects, which is the same day of a   *)
(* later month, or its last day if it is shorter.                          *)
(***************************************************************************)
Months(interval, count) == IF interval = "year" THEN 12 * count ELSE count

Anniversary(n, months) ==
  LET t == MonthAfter(n, months)
      d == Date(n).day
      last == MonthLength(t.year, t.month)
  IN DayNumber(t.year, t.month, IF d < last THEN d ELSE last)
=============================================================================
