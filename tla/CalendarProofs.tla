--------------------------- MODULE CalendarProofs ---------------------------
(***************************************************************************)
(* The calendar that periods are computed in, for every day and any number *)
(* of months: that a date names one day, that AddDate moves forward by at  *)
(* least a day, and how far it strays from the anniversary.                *)
(***************************************************************************)
EXTENDS Calendar, TLAPS

(***************************************************************************)
(* Years.                                                                  *)
(***************************************************************************)

\* A year has 365 days, and a leap year one more.
LEMMA YearLength ==
  ASSUME NEW y \in Int
  PROVE  /\ DaysBeforeYear(y) \in Int
         /\ DaysBeforeYear(y + 1) = DaysBeforeYear(y) + IF Leap(y) THEN 366 ELSE 365
BY DEF DaysBeforeYear, Leap

\* Years follow each other, 365 days apart or more.
LEMMA YearsApart ==
  ASSUME NEW x \in Int, NEW y \in Int, x < y
  PROVE  DaysBeforeYear(x) + 365 * (y - x) <= DaysBeforeYear(y)
BY DEF DaysBeforeYear

\* Every day is in the year that YearOf finds among three.
LEMMA YearFound ==
  ASSUME NEW n \in Int
  PROVE  /\ YearOf(n) \in Int
         /\ DaysBeforeYear(YearOf(n)) < n /\ n <= DaysBeforeYear(YearOf(n) + 1)
<1> DEFINE near == (400 * (n - 1)) \div 146097
           Holds(y) == DaysBeforeYear(y) < n /\ n <= DaysBeforeYear(y + 1)
<1>1. near \in Int /\ DaysBeforeYear(near) < n /\ n <= DaysBeforeYear(near + 3)
  BY DEF DaysBeforeYear
<1>2. /\ DaysBeforeYear(near + 1) \in Int /\ DaysBeforeYear(near + 2) \in Int
      /\ near + 1 + 1 = near + 2 /\ near + 2 + 1 = near + 3
  BY <1>1, YearLength
<1> HIDE DEF near
<1>3. near \in near..near+2 /\ near + 1 \in near..near+2 /\ near + 2 \in near..near+2
  BY <1>1
<1>4. \E y \in near..near+2 : Holds(y)
  <2>1. CASE n <= DaysBeforeYear(near + 1)
    BY <1>1, <1>3, <2>1
  <2>2. CASE DaysBeforeYear(near + 1) < n /\ n <= DaysBeforeYear(near + 2)
    BY <1>2, <1>3, <2>2
  <2>3. CASE DaysBeforeYear(near + 2) < n
    BY <1>1, <1>2, <1>3, <2>3
  <2> QED
    BY <1>2, <2>1, <2>2, <2>3
<1>5. YearOf(n) = CHOOSE y \in near..near+2 : Holds(y)
  BY DEF YearOf, near
<1> HIDE DEF Holds
<1>6. YearOf(n) \in near..near+2 /\ Holds(YearOf(n))
  BY <1>4, <1>5
<1> QED
  BY <1>1, <1>6 DEF Holds

(***************************************************************************)
(* Months.                                                                 *)
(***************************************************************************)

\* The table of month lengths and the table of their sums agree.
LEMMA MonthTable ==
  ASSUME NEW y \in Int, NEW m \in 1..12
  PROVE  /\ DaysBefore(y, m) \in Int /\ MonthLength(y, m) \in 28..31
         /\ m = 1 => DaysBefore(y, m) = 0
         /\ m < 12 => DaysBefore(y, m + 1) = DaysBefore(y, m) + MonthLength(y, m)
         /\ m = 12 => DaysBefore(y, m) + MonthLength(y, m) = IF Leap(y) THEN 366 ELSE 365
<1> Leap(y) \in BOOLEAN
  BY DEF Leap
<1>1. CASE m = 1
  BY <1>1 DEF DaysBefore, MonthLength
<1>2. CASE m = 2
  BY <1>2 DEF DaysBefore, MonthLength
<1>3. CASE m = 3
  BY <1>3 DEF DaysBefore, MonthLength
<1>4. CASE m = 4
  BY <1>4 DEF DaysBefore, MonthLength
<1>5. CASE m = 5
  BY <1>5 DEF DaysBefore, MonthLength
<1>6. CASE m = 6
  BY <1>6 DEF DaysBefore, MonthLength
<1>7. CASE m = 7
  BY <1>7 DEF DaysBefore, MonthLength
<1>8. CASE m = 8
  BY <1>8 DEF DaysBefore, MonthLength
<1>9. CASE m = 9
  BY <1>9 DEF DaysBefore, MonthLength
<1>10. CASE m = 10
  BY <1>10 DEF DaysBefore, MonthLength
<1>11. CASE m = 11
  BY <1>11 DEF DaysBefore, MonthLength
<1>12. CASE m = 12
  BY <1>12 DEF DaysBefore, MonthLength
<1> QED
  BY <1>1, <1>2, <1>3, <1>4, <1>5, <1>6, <1>7, <1>8, <1>9, <1>10, <1>11, <1>12

LEMMA TableTypes ==
  ASSUME NEW y \in Int, NEW m \in 1..12
  PROVE  /\ DaysBeforeYear(y) \in Int /\ DaysBefore(y, m) \in Int
         /\ MonthLength(y, m) \in Int /\ MonthLength(y, m) \in 28..31
<1>1. MonthLength(y, m) \in 28..31
  BY MonthTable
<1>2. DaysBefore(y, m) \in Int
  BY MonthTable
<1>3. DaysBeforeYear(y) \in Int
  BY DEF DaysBeforeYear
<1> QED
  BY <1>1, <1>2, <1>3

\* Months are numbered from January of year 0; days before month i.
MonthStart(i) == DayNumber(i \div 12, (i % 12) + 1, 0)
LengthOf(i) == MonthLength(i \div 12, (i % 12) + 1)
IndexOf(y, m) == 12 * y + m - 1

\* A number of a month stands for a year and a month.
LEMMA IndexRange ==
  ASSUME NEW i \in Int
  PROVE  /\ i \div 12 \in Int /\ (i % 12) + 1 \in 1..12
         /\ i = IndexOf(i \div 12, (i % 12) + 1)
BY DEF IndexOf

LEMMA IndexParts ==
  ASSUME NEW y \in Int, NEW m \in 1..12
  PROVE  /\ IndexOf(y, m) \in Int
         /\ IndexOf(y, m) \div 12 = y /\ (IndexOf(y, m) % 12) + 1 = m
BY DEF IndexOf

\* The next month starts when this one has run its length.
LEMMA MonthStep ==
  ASSUME NEW i \in Int
  PROVE  /\ MonthStart(i) \in Int /\ LengthOf(i) \in 28..31
         /\ MonthStart(i + 1) = MonthStart(i) + LengthOf(i)
<1>1. PICK y \in Int, m \in 1..12 : y = i \div 12 /\ m = (i % 12) + 1
  BY IndexRange
<1>2. MonthStart(i) = DaysBeforeYear(y) + DaysBefore(y, m) + 0 /\ LengthOf(i) = MonthLength(y, m)
  BY <1>1 DEF MonthStart, DayNumber, LengthOf
<1>3. /\ DaysBeforeYear(y) \in Int /\ DaysBefore(y, m) \in Int /\ MonthLength(y, m) \in 28..31
      /\ DaysBeforeYear(y + 1) = DaysBeforeYear(y) + IF Leap(y) THEN 366 ELSE 365
  <2>1. DaysBeforeYear(y + 1) = DaysBeforeYear(y) + IF Leap(y) THEN 366 ELSE 365
    BY YearLength
  <2> QED
    BY <2>1, TableTypes
<1>4. MonthStart(i + 1) = MonthStart(i) + LengthOf(i)
  <2>1. CASE m < 12
    <3>1. (i + 1) \div 12 = y /\ ((i + 1) % 12) + 1 = m + 1
      BY <1>1, <2>1
    <3>2. MonthStart(i + 1) = DaysBeforeYear(y) + DaysBefore(y, m + 1) + 0
      BY <3>1 DEF MonthStart, DayNumber
    <3>3. DaysBefore(y, m + 1) = DaysBefore(y, m) + MonthLength(y, m)
      BY <2>1, MonthTable
    <3> QED
      BY <1>2, <1>3, <3>2, <3>3
  <2>2. CASE m = 12
    <3>1. (i + 1) \div 12 = y + 1 /\ ((i + 1) % 12) + 1 = 1
      BY <1>1, <2>2
    <3>2. MonthStart(i + 1) = DaysBeforeYear(y + 1) + DaysBefore(y + 1, 1) + 0
      BY <3>1 DEF MonthStart, DayNumber
    <3>3. /\ DaysBefore(y + 1, 1) = 0
          /\ DaysBefore(y, m) + MonthLength(y, m) = IF Leap(y) THEN 366 ELSE 365
      BY <2>2, MonthTable
    <3> QED
      BY <1>2, <1>3, <3>2, <3>3
  <2> QED
    BY <2>1, <2>2
<1> QED
  BY <1>2, <1>3, <1>4

LEMMA MonthTypes ==
  ASSUME NEW i \in Int
  PROVE  MonthStart(i) \in Int /\ LengthOf(i) \in Int /\ LengthOf(i) \in 28..31
BY MonthStep

\* A later month starts after this one has run its length.
LEMMA MonthsApart ==
  ASSUME NEW i \in Int, NEW j \in Int, i < j
  PROVE  MonthStart(i) + LengthOf(i) <= MonthStart(j)
<1>1. PICK y \in Int, m \in 1..12 : y = i \div 12 /\ m = (i % 12) + 1
  BY IndexRange
<1>2. PICK z \in Int, k \in 1..12 : z = j \div 12 /\ k = (j % 12) + 1
  BY IndexRange
<1>3. y < z \/ (y = z /\ m < k)
  BY <1>1, <1>2
<1>4. /\ MonthStart(i) = DaysBeforeYear(y) + DaysBefore(y, m) + 0 /\ LengthOf(i) = MonthLength(y, m)
      /\ MonthStart(j) = DaysBeforeYear(z) + DaysBefore(z, k) + 0
  BY <1>1, <1>2 DEF MonthStart, DayNumber, LengthOf
<1>5. /\ DaysBeforeYear(y) \in Int /\ DaysBeforeYear(z) \in Int
      /\ DaysBefore(y, m) \in Int /\ DaysBefore(z, k) \in Int /\ MonthLength(y, m) \in 28..31
      /\ DaysBeforeYear(y + 1) = DaysBeforeYear(y) + IF Leap(y) THEN 366 ELSE 365
  <2>1. DaysBeforeYear(y + 1) = DaysBeforeYear(y) + IF Leap(y) THEN 366 ELSE 365
    BY YearLength
  <2>2. /\ DaysBeforeYear(y) \in Int /\ DaysBeforeYear(z) \in Int
        /\ DaysBefore(y, m) \in Int /\ DaysBefore(z, k) \in Int /\ MonthLength(y, m) \in 28..31
    BY TableTypes
  <2> QED
    BY <2>1, <2>2
<1>6. CASE y = z /\ m < k
  <2>1. DaysBefore(y, m) + MonthLength(y, m) <= DaysBefore(y, k)
    BY <1>6 DEF DaysBefore, MonthLength
  <2> QED
    BY <1>4, <1>5, <1>6, <2>1
<1>7. CASE y < z
  <2>1. DaysBefore(y, m) + MonthLength(y, m) <= IF Leap(y) THEN 366 ELSE 365
    BY DEF DaysBefore, MonthLength
  <2>2. DaysBeforeYear(y + 1) <= DaysBeforeYear(z)
    <3>1. CASE y + 1 = z
      BY <1>5, <3>1
    <3>2. CASE y + 1 < z
      <4>1. DaysBeforeYear(y + 1) + 365 * (z - (y + 1)) <= DaysBeforeYear(z)
        BY <3>2, YearsApart
      <4> QED
        BY <1>5, <3>2, <4>1
    <3> QED
      BY <1>7, <3>1, <3>2
  <2>3. DaysBefore(z, k) >= 0
    BY DEF DaysBefore
  <2> QED
    BY <1>4, <1>5, <2>1, <2>2, <2>3
<1> QED
  BY <1>3, <1>6, <1>7

(***************************************************************************)
(* Days.                                                                   *)
(***************************************************************************)

MonthNo(n) == IndexOf(YearOf(n), MonthOf(n))
DayOf(n) == Date(n).day

\* Every day is in a month of its year.
LEMMA MonthFound ==
  ASSUME NEW n \in Int
  PROVE  /\ MonthOf(n) \in 1..12
         /\ n - DayNumber(YearOf(n), MonthOf(n), 0) \in 1..MonthLength(YearOf(n), MonthOf(n))
<1> DEFINE y == YearOf(n)
           Holds(m) == LET d == n - DayNumber(y, m, 0) IN 1 <= d /\ d <= MonthLength(y, m)
<1>1. /\ y \in Int /\ DaysBeforeYear(y) \in Int /\ DaysBeforeYear(y) < n
      /\ n <= DaysBeforeYear(y) + IF Leap(y) THEN 366 ELSE 365
  BY YearFound, YearLength
<1> HIDE DEF y
<1>2. \E m \in 1..12 : Holds(m)
  <2> SUFFICES ASSUME \A m \in 1..12 : ~Holds(m) PROVE FALSE
    OBVIOUS
  <2>1. ASSUME NEW m \in 1..12
        PROVE  ~(/\ 1 <= n - (DaysBeforeYear(y) + DaysBefore(y, m) + 0)
                 /\ n - (DaysBeforeYear(y) + DaysBefore(y, m) + 0) <= MonthLength(y, m))
    BY DEF DayNumber
  <2> HIDE DEF Holds
  <2> QED
    BY <1>1, <2>1, 1 \in 1..12, 2 \in 1..12, 3 \in 1..12, 4 \in 1..12, 5 \in 1..12, 6 \in 1..12,
       7 \in 1..12, 8 \in 1..12, 9 \in 1..12, 10 \in 1..12, 11 \in 1..12, 12 \in 1..12
       DEF DaysBefore, MonthLength
<1>3. MonthOf(n) = CHOOSE m \in 1..12 : Holds(m)
  BY DEF MonthOf, y
<1> HIDE DEF Holds
<1>4. MonthOf(n) \in 1..12 /\ Holds(MonthOf(n))
  BY <1>2, <1>3
<1>5. DaysBefore(y, MonthOf(n)) \in Int /\ MonthLength(y, MonthOf(n)) \in 28..31
  BY <1>1, <1>4, TableTypes
<1>6. DayNumber(y, MonthOf(n), 0) \in Int
  BY <1>1, <1>5 DEF DayNumber
<1> QED
  BY <1>4, <1>5, <1>6 DEF Holds, y

\* A day, by month number and day of the month.
LEMMA Located ==
  ASSUME NEW n \in Int
  PROVE  /\ MonthNo(n) \in Int /\ DayOf(n) \in 1..LengthOf(MonthNo(n)) /\ DayOf(n) \in 1..31
         /\ n = MonthStart(MonthNo(n)) + DayOf(n)
<1>1. YearOf(n) \in Int /\ MonthOf(n) \in 1..12
  BY YearFound, MonthFound
<1>2. /\ MonthStart(MonthNo(n)) = DayNumber(YearOf(n), MonthOf(n), 0)
      /\ LengthOf(MonthNo(n)) = MonthLength(YearOf(n), MonthOf(n))
  BY <1>1, IndexParts DEF MonthNo, MonthStart, LengthOf
<1>3. MonthNo(n) \in Int
  BY <1>1, IndexParts DEF MonthNo
<1> DEFINE d == n - DayNumber(YearOf(n), MonthOf(n), 0)
<1>4. DayOf(n) = d
  BY DEF DayOf, Date
<1>5. d \in 1..LengthOf(MonthNo(n)) /\ n = MonthStart(MonthNo(n)) + d
  BY <1>2, <1>3, MonthFound, MonthTypes
<1> HIDE DEF d
<1>6. d \in 1..31
  BY <1>3, <1>5, MonthTypes
<1> QED
  BY <1>3, <1>4, <1>5, <1>6

\* Month number and day of the month are those of one day only.
LEMMA LocatedOnce ==
  ASSUME NEW i \in Int, NEW d \in 1..LengthOf(i)
  PROVE  MonthNo(MonthStart(i) + d) = i /\ DayOf(MonthStart(i) + d) = d
<1> DEFINE n == MonthStart(i) + d
<1>1. MonthStart(i) \in Int /\ LengthOf(i) \in Int /\ d \in Int /\ n \in Int
  BY MonthStep
<1>2. /\ MonthNo(n) \in Int /\ DayOf(n) \in 1..LengthOf(MonthNo(n))
      /\ n = MonthStart(MonthNo(n)) + DayOf(n)
      /\ MonthStart(MonthNo(n)) \in Int /\ LengthOf(MonthNo(n)) \in Int
  <2> HIDE DEF n
  <2> QED
    BY <1>1, Located, MonthTypes
<1> QED
  BY <1>1, <1>2, MonthsApart

\* Every day has a date of the calendar, and the date is that day's.
THEOREM EveryDayHasADate ==
  ASSUME NEW n \in Int
  PROVE  LET t == Date(n)
         IN /\ t \in [year : Int, month : 1..12, day : 1..31]
            /\ t.day <= MonthLength(t.year, t.month)
            /\ DayNumber(t.year, t.month, t.day) = n
<1>1. YearOf(n) \in Int /\ MonthOf(n) \in 1..12
  BY YearFound, MonthFound
<1>2. MonthLength(YearOf(n), MonthOf(n)) \in 28..31 /\ DaysBefore(YearOf(n), MonthOf(n)) \in Int
      /\ DaysBeforeYear(YearOf(n)) \in Int
  BY <1>1, TableTypes
<1> DEFINE d == n - DayNumber(YearOf(n), MonthOf(n), 0)
<1>3. d \in 1..MonthLength(YearOf(n), MonthOf(n))
  BY MonthFound
<1>4. DayNumber(YearOf(n), MonthOf(n), d) = n
  BY <1>1, <1>2 DEF DayNumber
<1> HIDE DEF d
<1>5. Date(n) = [year |-> YearOf(n), month |-> MonthOf(n), day |-> d]
  BY DEF Date, d
<1> QED
  BY <1>1, <1>2, <1>3, <1>4, <1>5

\* A date of the calendar is the date of its day and of no other.
THEOREM DateOfDayNumber ==
  ASSUME NEW y \in Int, NEW m \in 1..12, NEW d \in 1..MonthLength(y, m)
  PROVE  Date(DayNumber(y, m, d)) = [year |-> y, month |-> m, day |-> d]
<1> DEFINE i == IndexOf(y, m)
           n == DayNumber(y, m, d)
<1>1. i \in Int /\ i \div 12 = y /\ (i % 12) + 1 = m
  BY IndexParts
<1>2. LengthOf(i) = MonthLength(y, m) /\ MonthStart(i) = DayNumber(y, m, 0)
  BY <1>1 DEF LengthOf, MonthStart
<1>3. /\ DaysBeforeYear(y) \in Int /\ DaysBefore(y, m) \in Int /\ MonthLength(y, m) \in 28..31
  BY TableTypes
<1>4. n = MonthStart(i) + d /\ n \in Int
  BY <1>2, <1>3 DEF DayNumber
<1> HIDE DEF i, n
<1>5. MonthNo(n) = i /\ DayOf(n) = d
  BY <1>1, <1>2, <1>4, LocatedOnce
<1>6. YearOf(n) \in Int /\ MonthOf(n) \in 1..12
  BY <1>4, YearFound, MonthFound
<1>7. YearOf(n) = y /\ MonthOf(n) = m
  BY <1>1, <1>5, <1>6, IndexParts DEF MonthNo
<1>8. Date(n) = [year |-> y, month |-> m, day |-> d]
  BY <1>5, <1>7 DEF Date, DayOf
<1> QED
  BY <1>8 DEF n

(***************************************************************************)
(* AddDate.                                                                *)
(***************************************************************************)

\* AddDate moves on by whole months and keeps the day, which may be too many
\* for the month; then it moves on by days.
LEMMA AddDateMoves ==
  ASSUME NEW n \in Int, NEW years \in Int, NEW months \in Int, NEW days \in Int
  PROVE  AddDate(n, years, months, days)
           = MonthStart(MonthNo(n) + 12 * years + months) + DayOf(n) + days
<1>1. PICK y \in Int, m \in 1..12 : y = YearOf(n) /\ m = MonthOf(n)
  BY YearFound, MonthFound
<1>2. Date(n).year = y /\ Date(n).month = m /\ MonthNo(n) = 12 * y + m - 1
  BY <1>1 DEF Date, MonthNo, IndexOf
<1> DEFINE i == MonthNo(n) + 12 * years + months
           j == m - 1 + (12 * years + months)
<1>3. i \div 12 = y + j \div 12 /\ i % 12 = j % 12
  BY <1>2
<1>4. AddDate(n, years, months, days) = DayNumber(y + j \div 12, (j % 12) + 1, DayOf(n)) + days
  BY <1>2 DEF AddDate, MonthAfter, DayOf
<1>5. DayNumber(y + j \div 12, (j % 12) + 1, DayOf(n)) = MonthStart(i) + DayOf(n)
  <2>1. i \in Int /\ y + j \div 12 \in Int /\ (j % 12) + 1 \in 1..12
    BY <1>2
  <2>2. PICK z \in Int, k \in 1..12 : z = y + j \div 12 /\ k = (j % 12) + 1
    BY <2>1
  <2>3. MonthStart(i) = DaysBeforeYear(z) + DaysBefore(z, k) + 0
    BY <1>3, <2>2 DEF MonthStart, DayNumber
  <2>4. DaysBeforeYear(z) \in Int /\ DaysBefore(z, k) \in Int /\ DayOf(n) \in Int
    <3>1. DayOf(n) \in Int
      BY Located
    <3> QED
      BY <3>1, TableTypes
  <2>5. DayNumber(z, k, DayOf(n)) = DaysBeforeYear(z) + DaysBefore(z, k) + DayOf(n)
    BY DEF DayNumber
  <2> QED
    BY <2>2, <2>3, <2>4, <2>5
<1> QED
  BY <1>4, <1>5

\* The anniversary is the same day of its month, or the month's last.
LEMMA AnniversaryIs ==
  ASSUME NEW n \in Int, NEW months \in Int
  PROVE  LET i == MonthNo(n) + months
         IN Anniversary(n, months)
              = MonthStart(i) + IF DayOf(n) < LengthOf(i) THEN DayOf(n) ELSE LengthOf(i)
<1>1. PICK y \in Int, m \in 1..12 : y = YearOf(n) /\ m = MonthOf(n)
  BY YearFound, MonthFound
<1>2. Date(n).year = y /\ Date(n).month = m /\ MonthNo(n) = 12 * y + m - 1
  BY <1>1 DEF Date, MonthNo, IndexOf
<1> DEFINE i == MonthNo(n) + months
           j == m - 1 + months
           day == IF DayOf(n) < LengthOf(i) THEN DayOf(n) ELSE LengthOf(i)
<1>3. i \div 12 = y + j \div 12 /\ i % 12 = j % 12
  BY <1>2
<1>4. Anniversary(n, months) = DayNumber(y + j \div 12, (j % 12) + 1, day)
  BY <1>2, <1>3 DEF Anniversary, MonthAfter, DayOf, LengthOf
<1>5. PICK z \in Int, k \in 1..12 : z = y + j \div 12 /\ k = (j % 12) + 1
  OBVIOUS
<1>6. MonthStart(i) = DaysBeforeYear(z) + DaysBefore(z, k) + 0
  BY <1>3, <1>5 DEF MonthStart, DayNumber
<1>7. DaysBeforeYear(z) \in Int /\ DaysBefore(z, k) \in Int
  BY TableTypes
<1>8. day \in Int
  <2>1. DayOf(n) \in Int /\ i \in Int
    BY <1>2, Located
  <2>2. LengthOf(i) \in Int
    BY <2>1, MonthTypes
  <2> QED
    BY <2>1, <2>2
<1> HIDE DEF i, j, day
<1>9. DayNumber(z, k, day) = MonthStart(i) + day
  BY <1>6, <1>7, <1>8 DEF DayNumber
<1> QED
  BY <1>4, <1>5, <1>9 DEF i, day

(***************************************************************************)
(* Periods.                                                                *)
(***************************************************************************)

\* The months a period takes, if it is counted in months.
Monthly == {"month", "year"}

\* calculatePeriodEnd, by month number and day.
LEMMA PeriodEndIs ==
  ASSUME NEW n \in Int, NEW interval \in Intervals, NEW count \in Int
  PROVE  /\ interval = "day" => PeriodEnd(n, interval, count) = n + count
         /\ interval = "week" => PeriodEnd(n, interval, count) = n + 7 * count
         /\ interval \in Monthly =>
              PeriodEnd(n, interval, count)
                = MonthStart(MonthNo(n) + Months(interval, count)) + DayOf(n)
<1>1. /\ MonthNo(n) \in Int /\ DayOf(n) \in Int /\ MonthStart(MonthNo(n)) \in Int
      /\ n = MonthStart(MonthNo(n)) + DayOf(n)
  BY Located, MonthTypes
<1>2. ASSUME NEW years \in Int, NEW months \in Int, NEW days \in Int
      PROVE  AddDate(n, years, months, days)
               = MonthStart(MonthNo(n) + 12 * years + months) + DayOf(n) + days
  BY AddDateMoves
<1>3. CASE interval = "day"
  <2>1. PeriodEnd(n, interval, count) = AddDate(n, 0, 0, count)
    BY <1>3 DEF PeriodEnd
  <2>2. AddDate(n, 0, 0, count) = MonthStart(MonthNo(n) + 12 * 0 + 0) + DayOf(n) + count
    BY <1>2
  <2>3. MonthNo(n) + 12 * 0 + 0 = MonthNo(n)
    BY <1>1
  <2> QED
    BY <1>1, <1>3, <2>1, <2>2, <2>3 DEF Monthly
<1>4. CASE interval = "week"
  <2>1. PeriodEnd(n, interval, count) = AddDate(n, 0, 0, 7 * count)
    BY <1>4 DEF PeriodEnd
  <2>2. AddDate(n, 0, 0, 7 * count) = MonthStart(MonthNo(n) + 12 * 0 + 0) + DayOf(n) + 7 * count
    BY <1>2
  <2>3. MonthNo(n) + 12 * 0 + 0 = MonthNo(n)
    BY <1>1
  <2> QED
    BY <1>1, <1>4, <2>1, <2>2, <2>3 DEF Monthly
<1>5. CASE interval = "month"
  <2>1. PeriodEnd(n, interval, count) = AddDate(n, 0, count, 0)
    BY <1>5 DEF PeriodEnd
  <2>2. AddDate(n, 0, count, 0) = MonthStart(MonthNo(n) + 12 * 0 + count) + DayOf(n) + 0
    BY <1>2
  <2>3. MonthNo(n) + 12 * 0 + count = MonthNo(n) + Months(interval, count)
    BY <1>1, <1>5 DEF Months
  <2>4. MonthStart(MonthNo(n) + 12 * 0 + count) \in Int
    BY <1>1, MonthTypes
  <2> QED
    BY <1>1, <1>5, <2>1, <2>2, <2>3, <2>4
<1>6. CASE interval = "year"
  <2>1. PeriodEnd(n, interval, count) = AddDate(n, count, 0, 0)
    BY <1>6 DEF PeriodEnd
  <2>2. AddDate(n, count, 0, 0) = MonthStart(MonthNo(n) + 12 * count + 0) + DayOf(n) + 0
    BY <1>2
  <2>3. MonthNo(n) + 12 * count + 0 = MonthNo(n) + Months(interval, count)
    BY <1>1, <1>6 DEF Months
  <2>4. MonthStart(MonthNo(n) + 12 * count + 0) \in Int
    BY <1>1, MonthTypes
  <2> QED
    BY <1>1, <1>6, <2>1, <2>2, <2>3, <2>4
<1> QED
  BY <1>3, <1>4, <1>5, <1>6 DEF Intervals

\* A period with a positive count ends a day or more after it starts, one with
\* a negative count before it starts: a month added is never absorbed by the
\* days of a short one.
THEOREM PeriodMovesForward ==
  ASSUME NEW n \in Int, NEW interval \in Intervals, NEW count \in Int
  PROVE  /\ PeriodEnd(n, interval, count) \in Int
         /\ count > 0 => PeriodEnd(n, interval, count) > n
         /\ count < 0 => PeriodEnd(n, interval, count) < n
<1>1. CASE interval \in {"day", "week"}
  BY <1>1, PeriodEndIs
<1>2. CASE interval \in Monthly
  <2>1. PICK i \in Int, d \in Int, k \in Int :
          /\ i = MonthNo(n) /\ d = DayOf(n) /\ k = Months(interval, count)
          /\ count > 0 => k > 0
          /\ count < 0 => k < 0
    BY Located DEF Months
  <2>2. PeriodEnd(n, interval, count) = MonthStart(i + k) + d /\ n = MonthStart(i) + d
    BY <1>2, <2>1, PeriodEndIs, Located
  <2>3. /\ MonthStart(i) \in Int /\ MonthStart(i + k) \in Int
        /\ LengthOf(i) \in 28..31 /\ LengthOf(i + k) \in 28..31
    BY MonthTypes
  <2>4. /\ k > 0 => MonthStart(i) + LengthOf(i) <= MonthStart(i + k)
        /\ k < 0 => MonthStart(i + k) + LengthOf(i + k) <= MonthStart(i)
    BY MonthsApart
  <2> QED
    BY <2>1, <2>2, <2>3, <2>4
<1> QED
  BY <1>1, <1>2 DEF Intervals, Monthly

(***************************************************************************)
(* Drift.                                                                  *)
(***************************************************************************)

\* Day e is what repeated addition makes of day n, so many months later: the
\* same day of that month, or, once a month was too short, a day at the
\* beginning of the next, and then for ever.
OnCourse(n, months, e) ==
  \/ MonthNo(e) = MonthNo(n) + months /\ DayOf(e) = DayOf(n)
  \/ MonthNo(e) = MonthNo(n) + months + 1 /\ DayOf(e) <= DayOf(n) - 28

\* Adding months to a day on its course keeps it there.
LEMMA CourseKept ==
  ASSUME NEW n \in Int, NEW months \in Int, NEW e \in Int, NEW k \in Int, OnCourse(n, months, e)
  PROVE  OnCourse(n, months + k, MonthStart(MonthNo(e) + k) + DayOf(e))
<1>1. /\ MonthNo(n) \in Int /\ MonthNo(e) \in Int
      /\ DayOf(n) \in 1..31 /\ DayOf(e) \in 1..31
  BY Located
<1>2. PICK i \in Int, d \in 1..31 : i = MonthNo(e) + k /\ d = DayOf(e)
  BY <1>1
<1>3. /\ MonthStart(i) \in Int /\ LengthOf(i) \in 28..31 /\ LengthOf(i + 1) \in 28..31
      /\ MonthStart(i + 1) = MonthStart(i) + LengthOf(i)
  BY MonthStep
<1>4. CASE d <= LengthOf(i)
  <2>1. MonthNo(MonthStart(i) + d) = i /\ DayOf(MonthStart(i) + d) = d
    BY <1>3, <1>4, LocatedOnce
  <2> QED
    BY <1>1, <1>2, <2>1 DEF OnCourse
<1>5. CASE d > LengthOf(i)
  <2>1. MonthNo(e) = MonthNo(n) + months /\ DayOf(e) = DayOf(n)
    BY <1>1, <1>2, <1>3, <1>5 DEF OnCourse
  <2>2. PICK over \in 1..LengthOf(i + 1) : over = d - LengthOf(i)
    BY <1>3, <1>5
  <2>3. MonthNo(MonthStart(i + 1) + over) = i + 1 /\ DayOf(MonthStart(i + 1) + over) = over
    BY LocatedOnce
  <2>4. MonthStart(i + 1) + over = MonthStart(i) + d
    BY <1>3, <2>2
  <2> QED
    BY <1>1, <1>2, <1>3, <2>1, <2>2, <2>3, <2>4 DEF OnCourse
<1> QED
  BY <1>3, <1>4, <1>5

\* A day on its course is the anniversary or at most three days after it.
LEMMA CourseIsNear ==
  ASSUME NEW n \in Int, NEW months \in Int, NEW e \in Int, OnCourse(n, months, e)
  PROVE  Anniversary(n, months) <= e /\ e <= Anniversary(n, months) + 3
<1>1. /\ MonthNo(n) \in Int /\ MonthNo(e) \in Int
      /\ DayOf(n) \in 1..31 /\ DayOf(e) \in 1..31 /\ DayOf(e) \in 1..LengthOf(MonthNo(e))
      /\ e = MonthStart(MonthNo(e)) + DayOf(e)
  BY Located
<1>2. PICK i \in Int : i = MonthNo(n) + months
  BY <1>1
<1>3. /\ MonthStart(i) \in Int /\ LengthOf(i) \in 28..31
      /\ MonthStart(i + 1) = MonthStart(i) + LengthOf(i)
  BY MonthStep
<1>4. Anniversary(n, months)
        = MonthStart(i) + IF DayOf(n) < LengthOf(i) THEN DayOf(n) ELSE LengthOf(i)
  BY <1>2, AnniversaryIs
<1>5. CASE MonthNo(e) = i /\ DayOf(e) = DayOf(n)
  BY <1>1, <1>3, <1>4, <1>5
<1>6. CASE MonthNo(e) = i + 1 /\ DayOf(e) <= DayOf(n) - 28
  BY <1>1, <1>3, <1>4, <1>6
<1> QED
  BY <1>1, <1>2, <1>5, <1>6 DEF OnCourse

\* The end of a period in months is on its course if the start is, and the
\* course begins where the subscription is created.
LEMMA PeriodsOnCourse ==
  ASSUME NEW n \in Int, NEW interval \in Monthly, NEW count \in Int
  PROVE  /\ OnCourse(n, 0, n)
         /\ \A months \in Int, e \in Int :
              OnCourse(n, months, e) =>
                OnCourse(n, months + Months(interval, count), PeriodEnd(e, interval, count))
<1>1. OnCourse(n, 0, n)
  BY Located DEF OnCourse
<1>2. interval \in Intervals /\ Months(interval, count) \in Int
  BY DEF Monthly, Intervals, Months
<1>3. ASSUME NEW months \in Int, NEW e \in Int, OnCourse(n, months, e)
      PROVE  OnCourse(n, months + Months(interval, count), PeriodEnd(e, interval, count))
  <2>1. PeriodEnd(e, interval, count) = MonthStart(MonthNo(e) + Months(interval, count)) + DayOf(e)
    BY <1>2, PeriodEndIs
  <2> QED
    BY <1>2, <1>3, <2>1, CourseKept
<1> QED
  BY <1>1, <1>3
=============================================================================
