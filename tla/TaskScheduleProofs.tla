------------------------- MODULE TaskScheduleProofs -------------------------
(***************************************************************************)
(* Theorems about the calendar and the schedule of a task, for every set   *)
(* of days, intervals and zones and every width of the interval's column.  *)
(***************************************************************************)
EXTENDS TaskSchedule, FiniteSetTheorems, WellFoundedInduction, TLAPS

\* A set of numbers that is not empty has a least one.
LEMMA LeastNumber ==
    ASSUME NEW T, T \subseteq Nat, T # {}
    PROVE  \E k \in T : \A j \in T : k <= j
<1>1. PICK k \in T : \A j \in T : ~ (<<j, k>> \in OpToRel(<, Nat))
    BY NatLessThanWellFounded, WFMin
<1>2. ASSUME NEW j \in T
      PROVE  k <= j
    <2>1. <<j, k>> \in Nat \X Nat /\ <<j, k>>[1] = j /\ <<j, k>>[2] = k
        OBVIOUS
    <2>2. ~ (j < k)
        BY <1>1, <2>1 DEF OpToRel
    <2> QED
        BY <2>2
<1> QED
    BY <1>2

-----------------------------------------------------------------------------
(* The calendar *)

\* A year has 365 days, a leap year 366, and 2024 begins with day 0.
LEMMA YearFacts ==
    /\ YearStart(2024) = 0
    /\ \A y \in Nat : y >= 1 => YearStart(y + 1) = YearStart(y) + (IF IsLeap(y) THEN 366 ELSE 365)
BY DEF YearStart, LeapsBefore, IsLeap

\* Years apart are between 365 and 366 days apart each.
LEMMA YearsApart ==
    ASSUME NEW y \in Nat, y >= 1, NEW k \in Nat
    PROVE  365 * k <= YearStart(y + k) - YearStart(y) /\ YearStart(y + k) - YearStart(y) <= 366 * k
BY DEF YearStart, LeapsBefore

LEMMA YearType == \A y \in Nat : YearStart(y) \in Int
BY DEF YearStart, LeapsBefore

Months == 1..12

\* The table of the days before a month goes with the table of the lengths.
LEMMA MonthTables ==
    /\ DaysBefore[1] = 0
    /\ DaysBefore[12] = 334
    /\ \A m \in Months : DaysBefore[m] \in 0..334 /\ MonthLengths[m] \in 28..31
    /\ \A m \in Months : DaysBefore[m] \in Int /\ MonthLengths[m] \in Int
    /\ \A m \in 1..11 : DaysBefore[m + 1] = DaysBefore[m] + MonthLengths[m]
    /\ MonthLengths[12] = 31
BY DEF DaysBefore, MonthLengths, Months

\* Months follow each other, the last one by the next year.
LEMMA MonthFacts ==
    ASSUME NEW y \in Nat, y >= 1
    PROVE  /\ \A m \in Months : DaysIn(y, m) \in 28..31 /\ MonthStart(y, m) \in Int
           /\ MonthStart(y, 1) = YearStart(y)
           /\ \A m \in 1..11 : MonthStart(y, m + 1) = MonthStart(y, m) + DaysIn(y, m)
           /\ YearStart(y + 1) = MonthStart(y, 12) + DaysIn(y, 12)
           /\ \A m \in Months : /\ YearStart(y) <= MonthStart(y, m)
                                /\ MonthStart(y, m) <= YearStart(y) + 335
<1>1. \A m \in Months : DaysIn(y, m) \in 28..31 /\ MonthStart(y, m) \in Int
    <2> SUFFICES ASSUME NEW m \in Months
                 PROVE  DaysIn(y, m) \in 28..31 /\ MonthStart(y, m) \in Int
        OBVIOUS
    <2>1. DaysIn(y, m) \in 28..31
        <3>1. CASE m = 2
            BY <3>1 DEF DaysIn, MonthLengths
        <3>2. CASE m # 2
            BY <3>2, MonthTables DEF DaysIn
        <3> QED
            BY <3>1, <3>2
    <2>2. MonthStart(y, m) \in Int
        <3>1. DaysBefore[m] \in Int /\ YearStart(y) \in Int
            BY MonthTables, YearType
        <3> QED
            BY <3>1 DEF MonthStart
    <2> QED
        BY <2>1, <2>2
<1>2. MonthStart(y, 1) = YearStart(y)
    BY MonthTables, YearType DEF MonthStart
<1>3. \A m \in 1..11 : MonthStart(y, m + 1) = MonthStart(y, m) + DaysIn(y, m)
    <2> SUFFICES ASSUME NEW m \in 1..11
                 PROVE  MonthStart(y, m + 1) = MonthStart(y, m) + DaysIn(y, m)
        OBVIOUS
    <2>1. /\ DaysBefore[m] \in Int /\ MonthLengths[m] \in Int /\ YearStart(y) \in Int
          /\ DaysBefore[m + 1] = DaysBefore[m] + MonthLengths[m]
        BY MonthTables, YearType DEF Months
    <2>2. CASE m = 2
        BY <2>1, <2>2 DEF MonthStart, DaysIn
    <2>3. CASE m # 2
        BY <2>1, <2>3 DEF MonthStart, DaysIn
    <2> QED
        BY <2>2, <2>3
<1>4. YearStart(y + 1) = MonthStart(y, 12) + DaysIn(y, 12)
    BY MonthTables, YearType, YearFacts DEF MonthStart, DaysIn
<1>5. \A m \in Months : /\ YearStart(y) <= MonthStart(y, m)
                        /\ MonthStart(y, m) <= YearStart(y) + 335
    <2> SUFFICES ASSUME NEW m \in Months
                 PROVE  YearStart(y) <= MonthStart(y, m) /\ MonthStart(y, m) <= YearStart(y) + 335
        OBVIOUS
    <2>1. DaysBefore[m] \in 0..334 /\ YearStart(y) \in Int
        BY MonthTables, YearType
    <2> QED
        BY <2>1 DEF MonthStart
<1> QED
    BY <1>1, <1>2, <1>3, <1>4, <1>5

\* Every day from the first of January 2024 is in a year.
LEMMA YearOfDay ==
    ASSUME NEW day \in Nat
    PROVE  \E y \in 2024..2024 + day \div 365 : YearStart(y) <= day /\ day < YearStart(y + 1)
<1> DEFINE Ends == {k \in Nat : day < YearStart(2024 + k + 1)}
           q == day \div 365
<1>1. q \in Nat /\ day < 365 * (q + 1)
    OBVIOUS
<1> HIDE DEF q
<1>2. YearStart(2024 + (q + 1)) >= 365 * (q + 1)
    <2>1. 365 * (q + 1) <= YearStart(2024 + (q + 1)) - YearStart(2024)
        <3>1. q + 1 \in Nat
            BY <1>1
        <3> QED
            BY <3>1, YearsApart
    <2> QED
        BY <2>1, <1>1, YearFacts, YearType
<1>3. q \in Ends
    BY <1>1, <1>2, YearType
<1> HIDE DEF Ends
<1>4. Ends \subseteq Nat
    BY DEF Ends
<1>5. PICK k \in Ends : \A j \in Ends : k <= j
    BY <1>3, <1>4, LeastNumber
<1>6. CASE k = 0
    BY <1>1, <1>6, YearFacts DEF Ends, q
<1>7. CASE k # 0
    <2>1. k - 1 \in Nat /\ k - 1 \notin Ends /\ 2024 + (k - 1) + 1 = 2024 + k
        BY <1>5, <1>7 DEF Ends
    <2>2. YearStart(2024 + k) <= day
        BY <2>1, YearType DEF Ends
    <2> QED
        BY <1>1, <1>3, <1>5, <2>2 DEF Ends, q
<1> QED
    BY <1>6, <1>7

\* Months of a year and years do not overlap.
LEMMA MonthsApart ==
    ASSUME NEW y \in Nat, y >= 1, NEW m \in Months, NEW n \in Months, m < n
    PROVE  MonthStart(y, m) + DaysIn(y, m) <= MonthStart(y, n)
<1>1. DaysBefore[m] + MonthLengths[m] <= DaysBefore[n]
    BY DEF DaysBefore, MonthLengths, Months
<1>2. /\ DaysBefore[m] \in Int /\ DaysBefore[n] \in Int /\ MonthLengths[m] \in Int
      /\ YearStart(y) \in Int /\ m \in Int /\ n \in Int
    <2>1. DaysBefore[m] \in Int /\ DaysBefore[n] \in Int /\ MonthLengths[m] \in Int
        BY MonthTables
    <2>2. m \in Int /\ n \in Int
        BY DEF Months
    <2> QED
        BY <2>1, <2>2, YearType
<1>3. CASE m = 2
    BY <1>1, <1>2, <1>3 DEF MonthStart, DaysIn
<1>4. CASE m # 2
    BY <1>1, <1>2, <1>4 DEF MonthStart, DaysIn
<1> QED
    BY <1>3, <1>4

LEMMA YearsDisjoint ==
    ASSUME NEW y \in Nat, NEW z \in Nat, 1 <= y, y < z
    PROVE  YearStart(y + 1) <= YearStart(z)
<1> DEFINE next == y + 1
           k    == z - next
<1>1. k \in Nat /\ next + k = z /\ next \in Nat /\ next >= 1
    OBVIOUS
<1> HIDE DEF k, next
<1>2. 365 * k <= YearStart(next + k) - YearStart(next)
    BY <1>1, YearsApart
<1>3. YearStart(next) \in Int /\ YearStart(next + k) \in Int
    BY <1>1, YearType
<1>4. YearStart(next) <= YearStart(next + k)
    BY <1>1, <1>2, <1>3
<1> QED
    BY <1>1, <1>4 DEF next

\* The days of a month are in its year.
LEMMA MonthInYear ==
    ASSUME NEW y \in Nat, y >= 1, NEW m \in Months
    PROVE  YearStart(y) <= MonthStart(y, m) /\ MonthStart(y, m) + DaysIn(y, m) <= YearStart(y + 1)
<1>1. YearStart(y) <= MonthStart(y, m)
    BY MonthFacts
<1>2. CASE m = 12
    BY <1>1, <1>2, MonthFacts, YearType
<1>3. CASE m # 12
    <2>1. 12 \in Months /\ m \in Int /\ m < 12
        BY <1>3 DEF Months
    <2>2. MonthStart(y, m) + DaysIn(y, m) <= MonthStart(y, 12)
        BY <2>1, MonthsApart
    <2>3. /\ MonthStart(y, m) \in Int /\ DaysIn(y, m) \in Int
          /\ MonthStart(y, 12) \in Int /\ DaysIn(y, 12) \in 28..31
          /\ YearStart(y + 1) = MonthStart(y, 12) + DaysIn(y, 12)
        BY <2>1, MonthFacts
    <2> QED
        BY <1>1, <2>2, <2>3
<1> QED
    BY <1>2, <1>3

\* Every day of a year is in one of its months.
LEMMA MonthOfDay ==
    ASSUME NEW y \in Nat, y >= 1, NEW day \in Int,
           YearStart(y) <= day, day < YearStart(y + 1)
    PROVE  \E m \in Months :
              MonthStart(y, m) <= day /\ day < MonthStart(y, m) + DaysIn(y, m)
<1>1. SUFFICES ASSUME \A m \in Months :
                         ~ (MonthStart(y, m) <= day /\ day < MonthStart(y, m) + DaysIn(y, m))
               PROVE  FALSE
    OBVIOUS
<1>2. \A m \in 1..11 : MonthStart(y, m) <= day => MonthStart(y, m + 1) <= day
    <2> SUFFICES ASSUME NEW m \in 1..11, MonthStart(y, m) <= day
                 PROVE  MonthStart(y, m + 1) <= day
        OBVIOUS
    <2>1. m \in Months
        BY DEF Months
    <2>2. /\ MonthStart(y, m) \in Int /\ DaysIn(y, m) \in Int
          /\ MonthStart(y, m + 1) = MonthStart(y, m) + DaysIn(y, m)
        BY <2>1, MonthFacts
    <2> QED
        BY <1>1, <2>1, <2>2
<1>3. MonthStart(y, 1) <= day
    BY MonthFacts
<1>4. MonthStart(y, 12) <= day
    <2>1. MonthStart(y, 2) <= day /\ MonthStart(y, 3) <= day /\ MonthStart(y, 4) <= day
        BY <1>2, <1>3
    <2>2. MonthStart(y, 5) <= day /\ MonthStart(y, 6) <= day /\ MonthStart(y, 7) <= day
        BY <1>2, <2>1
    <2>3. MonthStart(y, 8) <= day /\ MonthStart(y, 9) <= day /\ MonthStart(y, 10) <= day
        BY <1>2, <2>2
    <2> QED
        BY <1>2, <2>3
<1>5. 12 \in Months /\ YearStart(y + 1) = MonthStart(y, 12) + DaysIn(y, 12)
    BY MonthFacts DEF Months
<1> QED
    BY <1>1, <1>4, <1>5

\* Civil turns a day into its date.
LEMMA CivilFacts ==
    ASSUME NEW day \in Nat
    PROVE  LET c == Civil(day)
           IN  /\ c.year \in Nat /\ c.year >= 2024
               /\ c.month \in Months
               /\ c.day \in 1..DaysIn(c.year, c.month)
               /\ MonthStart(c.year, c.month) + c.day - 1 = day
<1> DEFINE Candidates == 2024..2024 + day \div 365
           year  == CHOOSE y \in Candidates : YearStart(y) <= day /\ day < YearStart(y + 1)
           month == CHOOSE m \in Months :
                        MonthStart(year, m) <= day /\ day < MonthStart(year, m) + DaysIn(year, m)
<1>1. Civil(day) = [year |-> year, month |-> month, day |-> day - MonthStart(year, month) + 1]
    BY DEF Civil, Months
<1>2. /\ year \in Candidates
      /\ YearStart(year) <= day /\ day < YearStart(year + 1)
    <2>1. \E y \in Candidates : YearStart(y) <= day /\ day < YearStart(y + 1)
        BY YearOfDay
    <2> HIDE DEF Candidates
    <2> QED
        BY <2>1
<1>3. year \in Nat /\ year >= 2024
    <2>1. day \div 365 \in Nat
        OBVIOUS
    <2> HIDE DEF year
    <2> QED
        BY <1>2, <2>1
<1> HIDE DEF year
<1>4. /\ month \in Months
      /\ MonthStart(year, month) <= day /\ day < MonthStart(year, month) + DaysIn(year, month)
    BY <1>2, <1>3, MonthOfDay
<1> HIDE DEF month
<1>5. MonthStart(year, month) \in Int /\ DaysIn(year, month) \in Int
    BY <1>3, <1>4, MonthFacts
<1> QED
    BY <1>1, <1>3, <1>4, <1>5

\* No other date is that day.
LEMMA CivilUnique ==
    ASSUME NEW y \in Nat, y >= 2024, NEW m \in Months, NEW d \in 1..DaysIn(y, m),
           NEW day \in Nat, day = MonthStart(y, m) + d - 1
    PROVE  Civil(day).year = y /\ Civil(day).month = m /\ Civil(day).day = d
<1> DEFINE c == Civil(day)
<1>1. /\ c.year \in Nat /\ c.year >= 2024
      /\ c.month \in Months
      /\ c.day \in 1..DaysIn(c.year, c.month)
      /\ MonthStart(c.year, c.month) + c.day - 1 = day
    BY CivilFacts
<1> HIDE DEF c
<1>2. /\ MonthStart(y, m) \in Int /\ DaysIn(y, m) \in Int
      /\ MonthStart(c.year, c.month) \in Int /\ DaysIn(c.year, c.month) \in Int
      /\ YearStart(y) \in Int /\ YearStart(y + 1) \in Int
      /\ YearStart(c.year) \in Int /\ YearStart(c.year + 1) \in Int
    <2>1. MonthStart(y, m) \in Int /\ DaysIn(y, m) \in Int
        BY MonthFacts
    <2>2. MonthStart(c.year, c.month) \in Int /\ DaysIn(c.year, c.month) \in Int
        BY <1>1, MonthFacts
    <2>3. y + 1 \in Nat /\ c.year + 1 \in Nat
        BY <1>1
    <2> QED
        BY <1>1, <2>1, <2>2, <2>3, YearType
<1>3. /\ YearStart(y) <= day /\ day < YearStart(y + 1)
      /\ YearStart(c.year) <= day /\ day < YearStart(c.year + 1)
    <2>1. /\ YearStart(y) <= MonthStart(y, m)
          /\ MonthStart(y, m) + DaysIn(y, m) <= YearStart(y + 1)
        BY MonthInYear
    <2>2. /\ YearStart(c.year) <= MonthStart(c.year, c.month)
          /\ MonthStart(c.year, c.month) + DaysIn(c.year, c.month) <= YearStart(c.year + 1)
        BY <1>1, MonthInYear
    <2> QED
        BY <1>1, <1>2, <2>1, <2>2
<1>4. c.year = y
    <2>1. ~ (c.year < y)
        BY <1>1, <1>2, <1>3, YearsDisjoint
    <2>2. ~ (y < c.year)
        BY <1>1, <1>2, <1>3, YearsDisjoint
    <2> QED
        BY <1>1, <2>1, <2>2
<1>5. c.month = m
    <2>1. ~ (c.month < m)
        BY <1>1, <1>2, <1>4, MonthsApart
    <2>2. ~ (m < c.month)
        BY <1>1, <1>2, <1>4, MonthsApart
    <2> QED
        BY <1>1, <2>1, <2>2 DEF Months
<1> QED
    BY <1>1, <1>2, <1>4, <1>5 DEF c

-----------------------------------------------------------------------------
(* The next occurrence *)

\* The same day of a later month is a later day, in that month or, when the month lacks
\* it, as many days into the following one.
LEMMA LaterMonth ==
    ASSUME NEW from \in Nat, NEW y \in Nat, NEW m \in Months, NEW apart \in Nat,
           apart = 12 * (y - Civil(from).year) + m, apart > Civil(from).month
    PROVE  LET c  == Civil(from)
               to == MonthStart(y, m) + c.day - 1
               d  == Civil(to)
               length == DaysIn(y, m)
           IN  /\ to \in Nat /\ from < to
               /\ to <= from + 366 * (y - c.year) + 335
               /\ c.day <= length =>
                     12 * (d.year - c.year) + d.month = apart /\ d.day = c.day
               /\ ~ (c.day <= length) =>
                     /\ 12 * (d.year - c.year) + d.month = apart + 1
                     /\ d.day = c.day - length
<1> DEFINE c  == Civil(from)
           to == MonthStart(y, m) + c.day - 1
           d  == Civil(to)
           length == DaysIn(y, m)
<1>1. /\ c.year \in Nat /\ c.year >= 2024
      /\ c.month \in Months
      /\ c.day \in 1..DaysIn(c.year, c.month)
      /\ MonthStart(c.year, c.month) + c.day - 1 = from
    BY CivilFacts
<1>2. apart = 12 * (y - c.year) + m /\ apart > c.month
    OBVIOUS
<1> HIDE DEF c
<1>3. y >= c.year /\ y >= 2024 /\ (y = c.year => c.month < m)
    BY <1>1, <1>2 DEF Months
<1>4. /\ MonthStart(y, m) \in Int /\ length \in 28..31
      /\ YearStart(y) <= MonthStart(y, m) /\ MonthStart(y, m) <= YearStart(y) + 335
    BY <1>3, MonthFacts
<1>5. /\ MonthStart(c.year, c.month) \in Int /\ DaysIn(c.year, c.month) \in 28..31
      /\ YearStart(c.year) <= MonthStart(c.year, c.month)
      /\ MonthStart(c.year, c.month) <= YearStart(c.year) + 335
    BY <1>1, MonthFacts
<1>6. c.day \in 1..31 /\ YearStart(y) \in Int /\ YearStart(c.year) \in Int
    BY <1>1, <1>5, YearType
<1>7. MonthStart(c.year, c.month) < MonthStart(y, m)
    <2>1. CASE y = c.year
        <3>1. MonthStart(y, c.month) + DaysIn(y, c.month) <= MonthStart(y, m)
            BY <1>1, <1>3, <2>1, MonthsApart
        <3> QED
            BY <1>4, <1>5, <2>1, <3>1
    <2>2. CASE y > c.year
        <3>1. MonthStart(c.year, c.month) + DaysIn(c.year, c.month) <= YearStart(c.year + 1)
            BY <1>1, MonthInYear
        <3>2. YearStart(c.year + 1) <= YearStart(y)
            BY <1>1, <2>2, YearsDisjoint
        <3>3. YearStart(c.year + 1) \in Int
            BY <1>1, YearType
        <3> QED
            BY <1>4, <1>5, <1>6, <3>1, <3>2, <3>3
    <2> QED
        BY <1>1, <1>3, <2>1, <2>2
<1>8. to \in Nat /\ from < to
    BY <1>1, <1>4, <1>5, <1>6, <1>7
<1>9. to <= from + 366 * (y - c.year) + 335
    <2> DEFINE k == y - c.year
    <2>1. k \in Nat /\ c.year + k = y
        BY <1>1, <1>3
    <2> HIDE DEF k
    <2>2. YearStart(c.year + k) - YearStart(c.year) <= 366 * k
        BY <1>1, <2>1, YearsApart
    <2>3. YearStart(y) <= YearStart(c.year) + 366 * k
        BY <1>6, <2>1, <2>2
    <2>4. MonthStart(y, m) <= MonthStart(c.year, c.month) + 366 * k + 335
        BY <1>4, <1>5, <1>6, <2>1, <2>3
    <2> QED
        BY <1>1, <1>4, <1>5, <1>6, <2>1, <2>4 DEF k
<1>10. ASSUME c.day <= length
       PROVE  12 * (d.year - c.year) + d.month = apart /\ d.day = c.day
    <2>1. c.day \in 1..length
        BY <1>4, <1>6, <1>10
    <2>2. d.year = y /\ d.month = m /\ d.day = c.day
        BY <1>3, <1>8, <2>1, CivilUnique
    <2> QED
        BY <1>2, <2>2
<1>11. ASSUME ~ (c.day <= length)
       PROVE  12 * (d.year - c.year) + d.month = apart + 1 /\ d.day = c.day - length
    <2> DEFINE over == c.day - length
    <2>1. over \in 1..3
        BY <1>4, <1>6, <1>11
    <2>2. CASE m # 12
        <3>1. m + 1 \in Months /\ m \in 1..11
            BY <2>2 DEF Months
        <3>2. MonthStart(y, m + 1) = MonthStart(y, m) + length /\ DaysIn(y, m + 1) \in 28..31
            BY <1>3, <3>1, MonthFacts
        <3>3. to = MonthStart(y, m + 1) + over - 1 /\ over \in 1..DaysIn(y, m + 1)
            BY <1>4, <1>6, <2>1, <3>2
        <3> HIDE DEF to, over
        <3>4. d.year = y /\ d.month = m + 1 /\ d.day = over
            BY <1>3, <1>8, <3>1, <3>3, CivilUnique
        <3> QED
            BY <1>1, <1>2, <3>1, <3>4 DEF over
    <2>3. CASE m = 12
        <3>1. 1 \in Months /\ y + 1 \in Nat /\ y + 1 >= 2024
            BY <1>3 DEF Months
        <3>2. /\ YearStart(y + 1) = MonthStart(y, 12) + length
              /\ MonthStart(y + 1, 1) = YearStart(y + 1) /\ DaysIn(y + 1, 1) \in 28..31
            BY <1>3, <2>3, <3>1, MonthFacts
        <3>3. to = MonthStart(y + 1, 1) + over - 1 /\ over \in 1..DaysIn(y + 1, 1)
            BY <1>4, <1>6, <2>1, <2>3, <3>2
        <3> HIDE DEF to, over
        <3>4. d.year = y + 1 /\ d.month = 1 /\ d.day = over
            BY <1>8, <3>1, <3>3, CivilUnique
        <3> QED
            BY <1>1, <1>2, <2>3, <3>4 DEF over
    <2> QED
        BY <2>2, <2>3
<1> QED
    BY <1>8, <1>9, <1>10, <1>11 DEF c

\* Within a week there is a day of the weekend and one that is none.
LEMMA WeekHasBoth ==
    ASSUME NEW day \in Nat
    PROVE  /\ \E c \in day + 1..day + 7 : IsWeekend(c)
           /\ \E c \in day + 1..day + 7 : ~ IsWeekend(c)
<1>1. day % 7 \in 0..6
    OBVIOUS
<1>2. CASE day % 7 <= 4
    <2> DEFINE r == day % 7
               saturday == day + (5 - r)
               monday   == day + (7 - r)
    <2>1. saturday % 7 = 5 /\ saturday \in day + 1..day + 7
        BY <1>1, <1>2
    <2>2. monday % 7 = 0 /\ monday \in day + 1..day + 7
        BY <1>1, <1>2
    <2> HIDE DEF saturday, monday
    <2> QED
        BY <2>1, <2>2 DEF IsWeekend
<1>3. CASE day % 7 = 5
    <2>1. (day + 1) % 7 = 6 /\ (day + 2) % 7 = 0
        BY <1>3
    <2> QED
        BY <2>1 DEF IsWeekend
<1>4. CASE day % 7 = 6
    <2>1. (day + 6) % 7 = 5 /\ (day + 1) % 7 = 0
        BY <1>4
    <2> QED
        BY <2>1 DEF IsWeekend
<1> QED
    BY <1>1, <1>2, <1>3, <1>4

\* The loop stops at the first match within a week.
LEMMA NextMatchFacts ==
    ASSUME NEW day \in Nat, NEW weekend \in BOOLEAN
    PROVE  LET next == NextMatch(day, weekend)
           IN  /\ next \in day + 1..day + 7
               /\ IsWeekend(next) = weekend
               /\ \A passed \in day + 1..next - 1 : IsWeekend(passed) # weekend
<1> DEFINE Week == day + 1..day + 7
           Hits == {c \in Week : IsWeekend(c) = weekend}
           First(c) == /\ IsWeekend(c) = weekend
                       /\ \A passed \in day + 1..c - 1 : IsWeekend(passed) # weekend
<1>1. Week \subseteq Nat
    OBVIOUS
<1>2. \A c : IsWeekend(c) \in BOOLEAN
    BY DEF IsWeekend
<1>3. \E c \in Week : IsWeekend(c) = weekend
    <2>1. CASE weekend
        BY <1>2, <2>1, WeekHasBoth
    <2>2. CASE ~ weekend
        BY <1>2, <2>2, WeekHasBoth
    <2> QED
        BY <2>1, <2>2
<1>4. PICK c \in Hits : \A e \in Hits : c <= e
    <2>1. Hits # {} /\ Hits \subseteq Nat
        BY <1>1, <1>3
    <2> HIDE DEF Hits
    <2> QED
        BY <2>1, LeastNumber
<1>5. c \in Week /\ First(c)
    <2>1. ASSUME NEW passed \in day + 1..c - 1
          PROVE  IsWeekend(passed) # weekend
        <3>1. passed \in Week /\ passed < c
            BY <1>4
        <3> QED
            BY <1>1, <1>4, <3>1
    <2> QED
        BY <1>4, <2>1
<1>6. NextMatch(day, weekend) = CHOOSE e \in Week : First(e)
    BY DEF NextMatch
<1> HIDE DEF Week, First
<1>7. NextMatch(day, weekend) \in Week /\ First(NextMatch(day, weekend))
    BY <1>5, <1>6
<1> QED
    BY <1>7 DEF Week, First

\* The number of days of the weekend after one day and until another.
Weekends(from, to) == Cardinality({i \in from + 1..to : IsWeekend(i)})

LEMMA WeekendsSplit ==
    ASSUME NEW from \in Nat, NEW mid \in Nat, NEW to \in Nat, from <= mid, mid <= to
    PROVE  /\ Weekends(from, mid) \in Nat /\ Weekends(mid, to) \in Nat
           /\ Weekends(from, to) = Weekends(from, mid) + Weekends(mid, to)
<1> DEFINE A == {i \in from + 1..mid : IsWeekend(i)}
           B == {i \in mid + 1..to : IsWeekend(i)}
           C == {i \in from + 1..to : IsWeekend(i)}
<1>1. /\ IsFiniteSet(from + 1..mid) /\ IsFiniteSet(mid + 1..to)
    BY FS_Interval
<1>2. IsFiniteSet(A) /\ IsFiniteSet(B)
    <2>1. A \subseteq from + 1..mid /\ B \subseteq mid + 1..to
        OBVIOUS
    <2> HIDE DEF A, B
    <2> QED
        BY <1>1, <2>1, FS_Subset
<1>3. C = A \cup B /\ A \cap B = {}
    OBVIOUS
<1>4. /\ Weekends(from, mid) = Cardinality(A) /\ Weekends(mid, to) = Cardinality(B)
      /\ Weekends(from, to) = Cardinality(C)
    BY DEF Weekends
<1> HIDE DEF A, B, C
<1>5. Cardinality(A) \in Nat /\ Cardinality(B) \in Nat
    BY <1>2, FS_CardinalityType
<1>6. Cardinality(C) = Cardinality(A) + Cardinality(B) - Cardinality(A \cap B)
    BY <1>2, <1>3, FS_Union
<1>7. Cardinality(A \cap B) = 0
    BY <1>3, FS_EmptySet
<1> QED
    BY <1>4, <1>5, <1>6, <1>7

\* Up to the first match there is one day of the weekend, or all but one.
LEMMA WeekendsToMatch ==
    ASSUME NEW day \in Nat, NEW weekend \in BOOLEAN, NEW next \in Nat,
           next = NextMatch(day, weekend)
    PROVE  Weekends(day, next) = IF weekend THEN 1 ELSE next - day - 1
<1>1. /\ next \in day + 1..day + 7 /\ IsWeekend(next) = weekend
      /\ \A passed \in day + 1..next - 1 : IsWeekend(passed) # weekend
    BY NextMatchFacts
<1>2. CASE weekend
    <2>1. {i \in day + 1..next : IsWeekend(i)} = {next}
        <3>1. \A i : IsWeekend(i) \in BOOLEAN
            BY DEF IsWeekend
        <3>2. ASSUME NEW i \in day + 1..next, IsWeekend(i)
              PROVE  i = next
            <4>1. i \notin day + 1..next - 1
                BY <1>1, <1>2, <3>1, <3>2
            <4> QED
                BY <4>1
        <3>3. next \in day + 1..next /\ IsWeekend(next)
            <4>1. IsWeekend(next) = TRUE
                BY <1>1, <1>2
            <4>2. next \in day + 1..next
                BY <1>1
            <4> QED
                BY <4>1, <4>2, Zenon
        <3> QED
            BY <3>2, <3>3
    <2> QED
        BY <1>2, <2>1, FS_Singleton DEF Weekends
<1>3. CASE ~ weekend
    <2>1. \A c : IsWeekend(c) \in BOOLEAN
        BY DEF IsWeekend
    <2>2. \A passed \in day + 1..next - 1 : IsWeekend(passed)
        BY <1>1, <1>3, <2>1
    <2>3. ~ IsWeekend(next)
        BY <1>1, <1>3
    <2>4. {i \in day + 1..next : IsWeekend(i)} = day + 1..next - 1
        BY <1>1, <2>2, <2>3
    <2> DEFINE lo == day + 1
               hi == next - 1
    <2>5. lo \in Int /\ hi \in Int
        OBVIOUS
    <2> HIDE DEF lo, hi
    <2>6. Cardinality(lo..hi) = IF lo > hi THEN 0 ELSE hi - lo + 1
        BY <2>5, FS_Interval
    <2>7. Weekends(day, next) = Cardinality(lo..hi)
        BY <2>4 DEF Weekends, lo, hi
    <2>8. hi - lo + 1 = next - day - 1 /\ (lo > hi => next - day - 1 = 0)
        BY <1>1 DEF lo, hi
    <2> QED
        BY <1>3, <2>6, <2>7, <2>8
<1> QED
    BY <1>2, <1>3

\* f goes from match to match: what the recursion of NextMatchingDay computes.
FromMatchToMatch(f, start, k, weekend) ==
    f = [n \in 0..k |-> IF n = 0 THEN start ELSE NextMatch(f[n - 1], weekend)]

\* There is such a function for every number of matches.
LEMMA MatchesExist ==
    ASSUME NEW start, NEW weekend
    PROVE  \A k \in Nat : \E f : FromMatchToMatch(f, start, k, weekend)
<1> DEFINE Bad == {k \in Nat : ~ \E f : FromMatchToMatch(f, start, k, weekend)}
<1>1. SUFFICES ASSUME Bad # {}
               PROVE  FALSE
    OBVIOUS
<1>2. Bad \subseteq Nat
    OBVIOUS
<1> HIDE DEF Bad
<1>3. PICK k \in Bad : \A j \in Bad : k <= j
    BY <1>1, <1>2, LeastNumber
<1>4. k \in Nat
    BY <1>2
<1>5. CASE k = 0
    <2> DEFINE f == [n \in 0..0 |-> start]
    <2>1. FromMatchToMatch(f, start, 0, weekend)
        BY DEF FromMatchToMatch
    <2> QED
        BY <1>5, <2>1 DEF Bad
<1>6. CASE k # 0
    <2>1. k - 1 \in Nat /\ k - 1 \notin Bad
        BY <1>3, <1>4, <1>6
    <2>2. PICK g : FromMatchToMatch(g, start, k - 1, weekend)
        BY <2>1 DEF Bad
    <2> DEFINE f == [n \in 0..k |-> IF n = k THEN NextMatch(g[k - 1], weekend) ELSE g[n]]
    <2>3. \A n \in 0..k - 1 : g[n] = IF n = 0 THEN start ELSE NextMatch(g[n - 1], weekend)
        BY <2>2 DEF FromMatchToMatch
    <2>4. \A n \in 0..k : f[n] = IF n = 0 THEN start ELSE NextMatch(f[n - 1], weekend)
        <3> SUFFICES ASSUME NEW n \in 0..k
                     PROVE  f[n] = IF n = 0 THEN start ELSE NextMatch(f[n - 1], weekend)
            OBVIOUS
        <3>1. CASE n = k
            <4>1. k - 1 \in 0..k /\ k - 1 # k
                BY <1>4, <1>6
            <4>2. f[k - 1] = g[k - 1]
                BY <4>1
            <4> QED
                BY <1>4, <1>6, <3>1, <4>2
        <3>2. CASE n # k
            <4>1. n \in 0..k - 1 /\ (n # 0 => n - 1 \in 0..k /\ n - 1 # k)
                BY <1>4, <3>2
            <4>2. f[n] = g[n] /\ (n # 0 => f[n - 1] = g[n - 1])
                BY <3>2, <4>1
            <4> HIDE DEF f
            <4> QED
                BY <2>3, <4>1, <4>2
        <3> QED
            BY <3>1, <3>2
    <2>5. f = [n \in 0..k |-> f[n]]
        OBVIOUS
    <2> HIDE DEF f
    <2>6. FromMatchToMatch(f, start, k, weekend)
        BY <2>4, <2>5 DEF FromMatchToMatch
    <2> QED
        BY <2>6 DEF Bad
<1> QED
    BY <1>5, <1>6

\* The n-th match comes at most a week per match after the start, with n days of the
\* wanted kind up to it.
LEMMA NextMatchingDayFacts ==
    ASSUME NEW start \in Nat, NEW interval \in Nat, interval >= 1, NEW weekend \in BOOLEAN
    PROVE  LET next == NextMatchingDay(start, interval, weekend)
           IN  /\ next \in Nat /\ start < next /\ next <= start + 7 * interval
               /\ IsWeekend(next) = weekend
               /\ Weekends(start, next) =
                     IF weekend THEN interval ELSE next - start - interval
<1> DEFINE match[n \in 0..interval] ==
              IF n = 0 THEN start ELSE NextMatch(match[n - 1], weekend)
<1>1. NextMatchingDay(start, interval, weekend) = match[interval]
    BY DEF NextMatchingDay
<1>2. match = CHOOSE f : FromMatchToMatch(f, start, interval, weekend)
    BY DEF FromMatchToMatch
<1> HIDE DEF match
<1>3. FromMatchToMatch(match, start, interval, weekend)
    BY <1>2, MatchesExist
<1>4. \A n \in 0..interval :
         match[n] = IF n = 0 THEN start ELSE NextMatch(match[n - 1], weekend)
    BY <1>3 DEF FromMatchToMatch
<1> DEFINE Good(n) ==
              /\ match[n] \in Nat /\ start + n <= match[n] /\ match[n] <= start + 7 * n
              /\ n # 0 => IsWeekend(match[n]) = weekend
              /\ Weekends(start, match[n]) = IF weekend THEN n ELSE match[n] - start - n
<1>5. Good(0)
    <2>1. match[0] = start
        BY <1>4
    <2>2. Weekends(start, start) = 0
        <3>1. start + 1 > start /\ {i \in start + 1..start : IsWeekend(i)} = {}
            OBVIOUS
        <3> QED
            BY <3>1, FS_EmptySet DEF Weekends
    <2> QED
        BY <2>1, <2>2
<1>6. ASSUME NEW n \in Nat, n + 1 \in 0..interval, Good(n)
      PROVE  Good(n + 1)
    <2> DEFINE here == match[n]
               next == match[n + 1]
    <2>1. next = NextMatch(here, weekend)
        BY <1>4, <1>6
    <2>2. /\ here \in Nat /\ start + n <= here /\ here <= start + 7 * n
          /\ Weekends(start, here) = IF weekend THEN n ELSE here - start - n
        BY <1>6
    <2> HIDE DEF here, next
    <2>3. next \in here + 1..here + 7 /\ IsWeekend(next) = weekend
        BY <2>1, <2>2, NextMatchFacts
    <2>4. next \in Nat /\ start <= here /\ here <= next
        BY <2>2, <2>3
    <2>5. Weekends(here, next) = IF weekend THEN 1 ELSE next - here - 1
        BY <2>1, <2>2, <2>4, WeekendsToMatch
    <2>6. Weekends(start, next) = Weekends(start, here) + Weekends(here, next)
        BY <2>2, <2>4, WeekendsSplit
    <2>7. start + (n + 1) <= next /\ next <= start + 7 * (n + 1)
        BY <2>2, <2>3
    <2>8. Weekends(start, next) = IF weekend THEN n + 1 ELSE next - start - (n + 1)
        BY <2>2, <2>4, <2>5, <2>6
    <2> QED
        BY <2>3, <2>4, <2>7, <2>8 DEF next
<1> HIDE DEF Good
<1>7. Good(interval)
    <2> DEFINE Bad == {n \in 0..interval : ~ Good(n)}
    <2>1. SUFFICES ASSUME Bad # {}
                   PROVE  FALSE
        OBVIOUS
    <2>2. Bad \subseteq Nat
        OBVIOUS
    <2> HIDE DEF Bad
    <2>3. PICK n \in Bad : \A j \in Bad : n <= j
        BY <2>1, <2>2, LeastNumber
    <2>4. n \in 0..interval /\ n # 0 /\ ~ Good(n)
        BY <1>5, <2>3 DEF Bad
    <2>5. n - 1 \in Nat /\ n - 1 \in 0..interval /\ n - 1 < n /\ (n - 1) + 1 = n
        BY <2>4
    <2>6. Good(n - 1)
        BY <2>3, <2>4, <2>5 DEF Bad
    <2> QED
        BY <1>6, <2>4, <2>5, <2>6
<1> QED
    BY <1>1, <1>7 DEF Good

\* Days are added to a day, and months to its month.
LEMMA AddDays ==
    ASSUME NEW day \in Nat, NEW k \in Nat
    PROVE  AddDate(day, 0, 0, k) = day + k
<1> DEFINE c == Civil(day)
<1>1. /\ c.year \in Nat /\ c.year >= 2024 /\ c.month \in Months
      /\ c.day \in 1..DaysIn(c.year, c.month)
      /\ MonthStart(c.year, c.month) + c.day - 1 = day
    BY CivilFacts
<1>2. AddDate(day, 0, 0, k) =
         MonthStart(c.year + 0 + (((c.month + 0) - 1) \div 12), (((c.month + 0) - 1) % 12) + 1)
            + c.day - 1 + k
    BY DEF AddDate, Date
<1> HIDE DEF c
<1>3. /\ c.year + 0 + (((c.month + 0) - 1) \div 12) = c.year
      /\ (((c.month + 0) - 1) % 12) + 1 = c.month
    BY <1>1 DEF Months
<1> QED
    BY <1>1, <1>2, <1>3

\* The month so many months after the month of a day, and its year.
MonthAfter(day, months) == (((Civil(day).month + months) - 1) % 12) + 1
YearAfter(day, months)  == Civil(day).year + (((Civil(day).month + months) - 1) \div 12)

LEMMA AddMonths ==
    ASSUME NEW day \in Nat, NEW years \in Nat, NEW months \in Nat
    PROVE  LET c     == Civil(day)
               k     == 12 * years + months
               year  == YearAfter(day, k)
               month == MonthAfter(day, k)
           IN  /\ year \in Nat /\ month \in Months
               /\ c.month + k = 12 * (year - c.year) + month
               /\ k >= 1 => year - c.year <= years + months
               /\ AddDate(day, years, months, 0) = MonthStart(year, month) + c.day - 1
<1> DEFINE c      == Civil(day)
           k      == 12 * years + months
           y      == c.year
           m      == c.month
           year   == YearAfter(day, k)
           month  == MonthAfter(day, k)
<1>1. y \in Nat /\ y >= 2024 /\ m \in Months /\ c.day \in 1..DaysIn(y, m)
    BY CivilFacts
<1>2. AddDate(day, years, months, 0) =
         MonthStart(y + years + (((m + months) - 1) \div 12),
                    (((m + months) - 1) % 12) + 1) + c.day - 1 + 0
    BY DEF AddDate, Date
<1>3. /\ year = y + (((m + k) - 1) \div 12)
      /\ month = (((m + k) - 1) % 12) + 1
    BY DEF YearAfter, MonthAfter
<1> HIDE DEF c, y, m, year, month
<1>4. DaysIn(y, m) \in Int /\ c.day \in Int
    BY <1>1, MonthFacts
<1>5. y \in Nat /\ m \in 1..12
    BY <1>1 DEF Months
<1>6. /\ year \in Nat /\ year >= y /\ month \in 1..12
      /\ m + k = 12 * (year - y) + month
      /\ k >= 1 => year - y <= years + months
      /\ y + years + (((m + months) - 1) \div 12) = year
      /\ (((m + months) - 1) % 12) + 1 = month
    BY <1>3, <1>5
<1>7. MonthStart(year, month) \in Int
    BY <1>1, <1>6, MonthFacts DEF Months
<1> HIDE DEF k
<1>8. AddDate(day, years, months, 0) = MonthStart(year, month) + c.day - 1
    BY <1>2, <1>4, <1>6, <1>7
<1> QED
    BY <1>6, <1>8 DEF c, y, m, k, year, month, Months

\* Months after a day of a repetition is where its rule says.
LEMMA MonthsOccur ==
    ASSUME NEW day \in Nat, NEW n \in Nat, n >= 1, NEW years \in Nat, NEW months \in Nat,
           NEW frequency \in {"monthly", "yearly"},
           years = IF frequency = "yearly" THEN n ELSE 0,
           months = IF frequency = "yearly" THEN 0 ELSE n
    PROVE  /\ AddDate(day, years, months, 0) \in day + 1..day + 366 * (n + 1)
           /\ Occurrence(frequency, n, day, AddDate(day, years, months, 0))
<1> DEFINE c      == Civil(day)
           k      == 12 * years + months
           year   == YearAfter(day, k)
           month  == MonthAfter(day, k)
           length == DaysIn(year, month)
           next   == AddDate(day, years, months, 0)
           d      == Civil(next)
<1>1. c.year \in Nat /\ c.month \in Months
    BY CivilFacts
<1>2. years + months = n /\ k >= 1 /\ k = IF frequency = "yearly" THEN 12 * n ELSE n
    OBVIOUS
<1>3. /\ year \in Nat /\ month \in Months
      /\ c.month + k = 12 * (year - c.year) + month
      /\ k >= 1 => year - c.year <= years + months
      /\ next = MonthStart(year, month) + c.day - 1
    BY AddMonths
<1>4. /\ c.year + (((c.month + k) - 1) \div 12) = year
      /\ (((c.month + k) - 1) % 12) + 1 = month
    BY DEF YearAfter, MonthAfter
<1> HIDE DEF k, next, year, month
<1>5. Occurrence(frequency, n, day, next) <=>
         IF c.day <= length
         THEN 12 * (d.year - c.year) + d.month = c.month + k /\ d.day = c.day
         ELSE 12 * (d.year - c.year) + d.month = c.month + k + 1 /\ d.day = c.day - length
    BY <1>2, <1>4 DEF Occurrence
<1>6. c.month + k \in Nat /\ c.month + k > c.month
    <2> HIDE DEF c
    <2>1. k \in Nat /\ c.month \in Nat
        BY <1>1, <1>2 DEF Months
    <2> QED
        BY <1>2, <2>1
<1>7. /\ next \in Nat /\ day < next
      /\ next <= day + 366 * (year - c.year) + 335
      /\ c.day <= length =>
            12 * (d.year - c.year) + d.month = c.month + k /\ d.day = c.day
      /\ ~ (c.day <= length) =>
            12 * (d.year - c.year) + d.month = c.month + k + 1 /\ d.day = c.day - length
    BY <1>3, <1>6, LaterMonth
<1> HIDE DEF c, d, length
<1>8. next <= day + 366 * (n + 1)
    BY <1>1, <1>2, <1>3, <1>7
<1> QED
    BY <1>5, <1>7, <1>8 DEF next

\* The date that a repetition moves a task to is the occurrence of its rule after the
\* interval, later than the date before by no more than so many years of days.
LEMMA NextIsOccurrence ==
    ASSUME NEW day \in Nat, NEW n \in Nat, n >= 1, NEW frequency \in Frequencies,
           frequency # "none"
    PROVE  /\ NextDay(day, frequency, n) \in day + 1..day + 366 * (n + 1)
           /\ Occurrence(frequency, n, day, NextDay(day, frequency, n))
<1> DEFINE next == NextDay(day, frequency, n)
<1>1. CASE frequency = "daily"
    <2>1. next = day + n
        BY <1>1, AddDays DEF NextDay
    <2> HIDE DEF next
    <2>2. next \in day + 1..day + 366 * (n + 1)
        BY <2>1
    <2>3. Occurrence(frequency, n, day, next)
        BY <1>1, <2>1 DEF Occurrence
    <2> QED
        BY <2>2, <2>3 DEF next
<1>2. CASE frequency = "weekly"
    <2>1. next = day + 7 * n
        BY <1>2, AddDays DEF NextDay
    <2> HIDE DEF next
    <2>2. next \in day + 1..day + 366 * (n + 1)
        BY <2>1
    <2>3. Occurrence(frequency, n, day, next)
        BY <1>2, <2>1 DEF Occurrence
    <2> QED
        BY <2>2, <2>3 DEF next
<1>3. CASE frequency = "weekends"
    <2>1. next = NextMatchingDay(day, n, TRUE)
        BY <1>3 DEF NextDay
    <2> HIDE DEF next
    <2>2. /\ next \in Nat /\ day < next /\ next <= day + 7 * n
          /\ IsWeekend(next) = TRUE /\ Weekends(day, next) = n
        BY <2>1, NextMatchingDayFacts
    <2>3. next \in day + 1..day + 366 * (n + 1)
        BY <2>2
    <2>4. Occurrence(frequency, n, day, next)
        BY <1>3, <2>2 DEF Occurrence, Weekends
    <2> QED
        BY <2>3, <2>4 DEF next
<1>4. CASE frequency = "weekdays"
    <2>1. next = NextMatchingDay(day, n, FALSE)
        BY <1>4 DEF NextDay
    <2> HIDE DEF next
    <2>2. /\ next \in Nat /\ day < next /\ next <= day + 7 * n
          /\ IsWeekend(next) = FALSE /\ Weekends(day, next) = next - day - n
        BY <2>1, NextMatchingDayFacts
    <2>3. next \in day + 1..day + 366 * (n + 1)
        BY <2>2
    <2>4. ~ IsWeekend(next) /\ next - day - Weekends(day, next) = n
        BY <2>2
    <2>5. Occurrence(frequency, n, day, next)
        BY <1>4, <2>4 DEF Occurrence, Weekends
    <2> QED
        BY <2>3, <2>5 DEF next
<1>5. CASE frequency = "monthly"
    <2>1. next = AddDate(day, 0, n, 0)
        BY <1>5 DEF NextDay
    <2> HIDE DEF next
    <2>2. next \in day + 1..day + 366 * (n + 1) /\ Occurrence(frequency, n, day, next)
        BY <1>5, <2>1, MonthsOccur
    <2> QED
        BY <2>2 DEF next
<1>6. CASE frequency = "yearly"
    <2>1. next = AddDate(day, n, 0, 0)
        BY <1>6 DEF NextDay
    <2> HIDE DEF next
    <2>2. next \in day + 1..day + 366 * (n + 1) /\ Occurrence(frequency, n, day, next)
        BY <1>6, <2>1, MonthsOccur
    <2> QED
        BY <2>2 DEF next
<1> QED
    BY <1>1, <1>2, <1>3, <1>4, <1>5, <1>6 DEF Frequencies

-----------------------------------------------------------------------------
(* Dates and tasks *)

\* The dates of one update are in UTC or in the zone of the server.
Zones      == {0, offset}
DueDates   == [day : Nat, ahead : Zones]
UntilDates == [day : Days, ahead : Zones]

ScheduleTask ==
    [status : Statuses, completed : BOOLEAN, due : DueDates \cup {NULL}, time : BOOLEAN,
     frequency : Frequencies, interval : Nat \ {0}, until : UntilDates \cup {NULL}]

LEMMA NumberConstants ==
    /\ Days \subseteq Nat /\ MaxInt4 \in Nat /\ MaxInt4 >= 1
    /\ \A o \in Offsets : o \in Int /\ -23 <= o /\ o <= 23
    /\ \A n \in Intervals : n \in Nat /\ n >= 1
<1>1. /\ Days \subseteq Nat /\ Intervals \subseteq Nat \ {0} /\ MaxInt4 \in Nat \ {0}
      /\ Offsets \subseteq -23..23
    BY ScheduleAssumption, Zenon DEF ScheduleAssumption
<1> QED
    BY <1>1

LEMMA NullIsNothing ==
    /\ NULL \notin Nat /\ NULL \notin Int /\ NULL \notin [day : Nat, ahead : Int]
    /\ NULL \notin Creates /\ NULL \notin Patches /\ NULL \notin Row
<1>1. /\ NULL \notin Int /\ NULL \notin [day : Nat, ahead : Int]
      /\ NULL \notin Creates \cup Patches \cup Row
    BY ScheduleAssumption, Zenon DEF ScheduleAssumption
<1>2. NULL \notin Nat /\ NULL \notin Creates /\ NULL \notin Patches /\ NULL \notin Row
    BY <1>1
<1> QED
    BY <1>1, <1>2

LEMMA UnsetIsNothing ==
    /\ Unset \notin Int /\ Unset # NULL /\ Unset \notin BOOLEAN
    /\ Unset \notin Statuses /\ Unset \notin Frequencies
    /\ Unset # "" /\ Unset # "later" /\ Unset # "hourly"
<1>1. /\ Unset \notin Int /\ Unset # NULL /\ Unset \notin BOOLEAN
      /\ Unset \notin Statuses \cup Frequencies \cup {"", "later", "hourly"}
    BY ScheduleAssumption, Zenon DEF ScheduleAssumption
<1> QED
    BY <1>1

\* Zones are less than a day apart: dates that are out of order by the clock may be
\* the same day, and in one zone they are not.
LEMMA BeforeFacts ==
    ASSUME offset \in Offsets, NEW d \in DueDates, NEW e \in DueDates
    PROVE  /\ Before(d, e) => d.day <= e.day
           /\ ~ Before(d, e) => e.day <= d.day
           /\ d.ahead = e.ahead => (Before(d, e) <=> d.day < e.day)
<1>1. offset \in Int /\ -23 <= offset /\ offset <= 23
    BY NumberConstants
<1>2. /\ d.day \in Int /\ e.day \in Int
      /\ d.ahead \in {0, offset} /\ e.ahead \in {0, offset}
    BY DEF DueDates, Zones
<1>3. /\ Before(d, e) <=> 24 * d.day - d.ahead < 24 * e.day - e.ahead
    BY DEF Before, Instant
<1> HIDE DEF DueDates
<1> QED
    BY <1>1, <1>2, <1>3

\* No date is missing, and no task is an error.
LEMMA Distinct ==
    ASSUME offset \in Offsets
    PROVE  /\ NULL \notin DueDates /\ NULL \notin UntilDates /\ UntilDates \subseteq DueDates
           /\ Rejected \notin ScheduleTask
<1>1. offset \in Int /\ Days \subseteq Nat
    BY NumberConstants
<1>2. /\ UntilDates \subseteq DueDates
      /\ DueDates \subseteq [day : Nat, ahead : Int]
    <2>1. Zones \subseteq Int /\ Days \subseteq Nat
        BY <1>1 DEF Zones
    <2> QED
        BY <2>1 DEF DueDates, UntilDates
<1>3. NULL \notin DueDates /\ NULL \notin UntilDates
    BY <1>2, NullIsNothing, Zenon
<1>4. ASSUME Rejected \in ScheduleTask
      PROVE  FALSE
    <2>1. DOMAIN Rejected = {"error"}
        BY DEF Rejected
    <2>2. "status" \in DOMAIN Rejected
        BY <1>4 DEF ScheduleTask
    <2>3. "status" # "error"
        OBVIOUS
    <2> QED
        BY <2>1, <2>2, <2>3
<1> QED
    BY <1>2, <1>3, <1>4

\* What the row and the code make of a date.
LEMMA DatesOfDays ==
    ASSUME offset \in Offsets
    PROVE  /\ \A d \in Nat \cup {NULL} : /\ Stored(d) \in DueDates \cup {NULL}
                                         /\ DayOf(Stored(d)) = d
           /\ \A d \in Days \cup {NULL} : /\ Stored(d) \in UntilDates \cup {NULL}
                                          /\ Local(d) \in UntilDates \cup {NULL}
                                          /\ DayOf(Stored(d)) = d /\ DayOf(Local(d)) = d
           /\ \A d \in DueDates \cup {NULL} : /\ DayOf(d) \in Nat \cup {NULL}
                                              /\ DayOf(d) = NULL <=> d = NULL
           /\ \A d \in UntilDates \cup {NULL} : /\ DayOf(d) \in Days \cup {NULL}
                                                /\ DayOf(d) = NULL <=> d = NULL
<1>1. NULL \notin DueDates /\ NULL \notin UntilDates /\ UntilDates \subseteq DueDates
    BY Distinct
<1>2. NULL \notin Nat /\ Days \subseteq Nat
    BY NumberConstants, NullIsNothing, Zenon
<1>3. \A d \in Nat : Stored(d) \in DueDates /\ DayOf(Stored(d)) = d
    <2> SUFFICES ASSUME NEW d \in Nat
                 PROVE  Stored(d) \in DueDates /\ DayOf(Stored(d)) = d
        OBVIOUS
    <2>1. Stored(d) = [day |-> d, ahead |-> 0] /\ Stored(d) \in DueDates
        BY <1>2 DEF Stored, DueDates, Zones
    <2> QED
        BY <1>1, <2>1 DEF DayOf
<1>4. \A d \in Days : /\ Stored(d) \in UntilDates /\ DayOf(Stored(d)) = d
                      /\ Local(d) \in UntilDates /\ DayOf(Local(d)) = d
    <2> SUFFICES ASSUME NEW d \in Days
                 PROVE  /\ Stored(d) \in UntilDates /\ DayOf(Stored(d)) = d
                        /\ Local(d) \in UntilDates /\ DayOf(Local(d)) = d
        OBVIOUS
    <2>1. Stored(d) = [day |-> d, ahead |-> 0] /\ Local(d) = [day |-> d, ahead |-> offset]
        BY <1>2 DEF Stored, Local
    <2>2. Stored(d) \in UntilDates /\ Local(d) \in UntilDates
        BY <2>1 DEF UntilDates, Zones
    <2> QED
        BY <1>1, <2>1, <2>2 DEF DayOf
<1>5. /\ \A d \in DueDates : DayOf(d) \in Nat
      /\ \A d \in UntilDates : DayOf(d) \in Days
    BY <1>1 DEF DayOf, DueDates, UntilDates
<1>6. Stored(NULL) = NULL /\ Local(NULL) = NULL /\ DayOf(NULL) = NULL
    BY DEF Stored, Local, DayOf
<1> QED
    BY <1>1, <1>2, <1>3, <1>4, <1>5, <1>6

-----------------------------------------------------------------------------
(* What the domain makes of a request *)

\* What the code has checked of a task that it writes.
Sound(t) ==
    /\ t.completed <=> t.status = "done"
    /\ t.time => t.due # NULL
    /\ Active(t.frequency) => t.due # NULL
    /\ Active(t.frequency) /\ t.until # NULL => ~ Before(t.until, t.due)

\* Another status leaves the schedule alone.
LEMMA StatusFacts ==
    ASSUME offset \in Offsets, NEW t \in ScheduleTask, NEW status \in Statuses,
           ValidSchedule(t)
    PROVE  LET s == ApplyStatus(t, status)
           IN  /\ s \in ScheduleTask /\ Sound(s)
               /\ s.status = status /\ s.due = t.due /\ s.until = t.until
               /\ s.frequency = t.frequency /\ s.interval = t.interval
<1> DEFINE s == ApplyStatus(t, status)
<1>1. s = [t EXCEPT !.status = status, !.completed = (status = "done")]
    BY DEF ApplyStatus
<1>2. s \in ScheduleTask
    BY <1>1 DEF ScheduleTask
<1>3. /\ s.status = status /\ s.completed = (status = "done") /\ s.due = t.due
      /\ s.time = t.time /\ s.frequency = t.frequency /\ s.until = t.until
      /\ s.interval = t.interval
    BY <1>1 DEF ScheduleTask
<1> HIDE DEF s
<1>4. Sound(s)
    BY <1>3 DEF Sound, ValidSchedule
<1> QED
    BY <1>2, <1>3, <1>4 DEF s

\* A task that is created is sound; the end of a repetition is what the request names.
LEMMA NewTaskFacts ==
    ASSUME offset \in Offsets, NEW input \in Creates, NewTask(input) # Rejected
    PROVE  LET s == NewTask(input)
           IN  /\ s \in ScheduleTask /\ Sound(s)
               /\ s.frequency = IF input.frequency = "" THEN "none" ELSE input.frequency
               /\ s.interval = IF input.interval = 0 THEN 1 ELSE input.interval
               /\ s.until = Local(input.until)
<1> DEFINE frequency == IF input.frequency = "" THEN "none" ELSE input.frequency
           interval  == IF input.interval = 0 THEN 1 ELSE input.interval
           status    == IF input.status = "" THEN "todo" ELSE input.status
           due       == Local(input.due)
           until     == Local(input.until)
           task == [status |-> "todo", completed |-> FALSE, time |-> input.time,
                    due |-> due, until |-> until,
                    frequency |-> frequency, interval |-> interval]
<1>1. NewTask(input) = IF ~ input.texts \/ ~ ValidSchedule(task) THEN Rejected
                       ELSE ApplyStatus(task, status)
    BY DEF NewTask
<1>2. ValidSchedule(task) /\ NewTask(input) = ApplyStatus(task, status)
    BY <1>1
<1>3. due \in DueDates \cup {NULL} /\ until \in UntilDates \cup {NULL}
    <2>1. input.due \in Days \cup {NULL} /\ input.until \in Days \cup {NULL}
        BY DEF Creates
    <2>2. UntilDates \subseteq DueDates
        BY Distinct
    <2> QED
        BY <2>1, <2>2, DatesOfDays
<1>4. interval \in Int /\ input.time \in BOOLEAN
    <2>1. input.interval \in Intervals \cup {-1, 0} /\ input.time \in BOOLEAN
        BY DEF Creates
    <2> QED
        BY <2>1, NumberConstants
<1> HIDE DEF frequency, interval, due, until, status
<1>5. frequency \in Frequencies /\ interval > 0
    BY <1>2 DEF ValidSchedule
<1>6. task \in ScheduleTask
    BY <1>3, <1>4, <1>5 DEF ScheduleTask, Statuses
<1>7. task.frequency = frequency /\ task.interval = interval /\ task.until = until
    OBVIOUS
<1> HIDE DEF task
<1>8. status \in Statuses
    BY <1>2 DEF ApplyStatus
<1> DEFINE s == ApplyStatus(task, status)
<1>9. /\ s \in ScheduleTask /\ Sound(s)
      /\ s.until = task.until /\ s.frequency = task.frequency /\ s.interval = task.interval
    BY <1>2, <1>6, <1>8, StatusFacts
<1> HIDE DEF s
<1> QED
    BY <1>2, <1>7, <1>9 DEF s, frequency, interval, until

\* What an edit makes of a row before the status: the dates of the request, in the
\* zone of the server, and those of the row, in UTC, with a repetition that is whole.
EditFacts(e, patch) ==
    /\ e \in ScheduleTask
    /\ e.status = row.status /\ e.completed = row.completed
    /\ e.time = Wanted(patch).time
    /\ e.due = IF patch.due = Unset THEN Stored(row.due) ELSE Local(patch.due)
    /\ e.frequency = IF Wanted(patch).frequency = "" THEN "none" ELSE Wanted(patch).frequency
    /\ IF Active(e.frequency)
       THEN /\ e.until = IF patch.until = Unset THEN Stored(row.until) ELSE Local(patch.until)
            /\ e.interval = Wanted(patch).interval
       ELSE e.until = NULL /\ e.interval \in {1, row.interval}

LEMMA PatchType ==
    ASSUME NEW patch \in Patches
    PROVE  /\ patch.op = "update"
           /\ patch.status \in Statuses \cup {"later", Unset}
           /\ patch.due \in Days \cup {NULL, Unset}
           /\ patch.time \in BOOLEAN \cup {Unset}
           /\ patch.frequency \in Frequencies \cup {"", "hourly", Unset}
           /\ patch.interval \in Intervals \cup {-1, Unset}
           /\ patch.until \in Days \cup {NULL, Unset}
BY DEF Patches

LEMMA WantedFacts ==
    ASSUME NEW patch
    PROVE  /\ Wanted(patch).due = IF patch.due = Unset THEN row.due ELSE patch.due
           /\ Wanted(patch).time = IF patch.time = Unset THEN row.time ELSE patch.time
           /\ Wanted(patch).until = IF patch.until = Unset THEN row.until ELSE patch.until
           /\ Wanted(patch).frequency =
                 IF patch.frequency = Unset THEN row.frequency ELSE patch.frequency
           /\ Wanted(patch).interval =
                 IF patch.interval = Unset THEN row.interval ELSE patch.interval
BY DEF Wanted

LEMMA TaskOfFacts ==
    ASSUME offset \in Offsets, row \in Row
    PROVE  LET t == TaskOf(row)
           IN  /\ t \in ScheduleTask
               /\ t.due = Stored(row.due) /\ t.until = Stored(row.until)
               /\ t.status = row.status /\ t.completed = row.completed /\ t.time = row.time
               /\ t.frequency = row.frequency /\ t.interval = row.interval
<1>1. /\ row.status \in Statuses /\ row.completed \in BOOLEAN /\ row.time \in BOOLEAN
      /\ row.frequency \in Frequencies /\ row.interval \in Nat \ {0}
      /\ row.due \in Nat \cup {NULL} /\ row.until \in Days \cup {NULL}
    BY DEF Row
<1>2. Stored(row.due) \in DueDates \cup {NULL} /\ Stored(row.until) \in UntilDates \cup {NULL}
    BY <1>1, DatesOfDays
<1> DEFINE due   == Stored(row.due)
           until == Stored(row.until)
           t     == TaskOf(row)
<1>3. t = [row EXCEPT !.due = due, !.until = until]
    BY DEF TaskOf
<1> HIDE DEF due, until, t
<1>4. /\ t \in ScheduleTask /\ t.due = due /\ t.until = until
      /\ t.status = row.status /\ t.completed = row.completed /\ t.time = row.time
      /\ t.frequency = row.frequency /\ t.interval = row.interval
    BY <1>2, <1>3 DEF Row, ScheduleTask, due, until
<1> QED
    BY <1>4 DEF t, due, until

\* What the code makes of the dates and the repetition of a request: only a word or a
\* number that is not valid is refused here.
LEMMA RepeatEdited ==
    ASSUME offset \in Offsets, row \in Row, Checks(row), NEW patch \in Patches,
           NEW e, e = WithRepeat(WithDates(TaskOf(row), patch), patch)
    PROVE  IF e = Rejected THEN patch.frequency = "hourly" \/ patch.interval = -1
           ELSE EditFacts(e, patch)
<1> DEFINE d == WithDates(TaskOf(row), patch)
           frequency == IF patch.frequency = Unset THEN d.frequency ELSE patch.frequency
           interval  == IF patch.interval = Unset THEN d.interval ELSE patch.interval
           until     == IF patch.until = Unset THEN d.until ELSE Local(patch.until)
           due       == IF patch.due = Unset THEN Stored(row.due) ELSE Local(patch.due)
           time      == IF patch.time = Unset THEN row.time ELSE patch.time
           w         == Wanted(patch)
<1>1. /\ patch.due \in Days \cup {NULL, Unset}
      /\ patch.time \in BOOLEAN \cup {Unset}
      /\ patch.frequency \in Frequencies \cup {"", "hourly", Unset}
      /\ patch.interval \in Intervals \cup {-1, Unset}
      /\ patch.until \in Days \cup {NULL, Unset}
    BY PatchType
<1>2. /\ row.status \in Statuses /\ row.completed \in BOOLEAN /\ row.time \in BOOLEAN
      /\ row.frequency \in Frequencies /\ row.interval \in Nat \ {0}
      /\ row.due \in Nat \cup {NULL} /\ row.until \in Days \cup {NULL}
    BY DEF Row
<1>3. due \in DueDates \cup {NULL} /\ time \in BOOLEAN
    <2>1. Stored(row.due) \in DueDates \cup {NULL}
        BY <1>2, DatesOfDays
    <2>2. patch.due # Unset => Local(patch.due) \in DueDates \cup {NULL}
        BY <1>1, DatesOfDays, Distinct
    <2> QED
        BY <1>1, <1>2, <2>1, <2>2
<1>4. /\ d = [TaskOf(row) EXCEPT !.due = due, !.time = time]
      /\ d \in ScheduleTask
      /\ d.due = due /\ d.time = time /\ d.until = Stored(row.until)
      /\ d.status = row.status /\ d.completed = row.completed
      /\ d.frequency = row.frequency /\ d.interval = row.interval
    <2>1. /\ TaskOf(row) \in ScheduleTask
          /\ TaskOf(row).due = Stored(row.due) /\ TaskOf(row).until = Stored(row.until)
          /\ TaskOf(row).status = row.status /\ TaskOf(row).completed = row.completed
          /\ TaskOf(row).time = row.time
          /\ TaskOf(row).frequency = row.frequency /\ TaskOf(row).interval = row.interval
        BY TaskOfFacts
    <2> DEFINE t == TaskOf(row)
    <2>2. d = [t EXCEPT !.due = due, !.time = time]
        BY <2>1 DEF WithDates
    <2> HIDE DEF t, due, time, d
    <2>3. /\ d.due = due /\ d.time = time /\ d.until = t.until /\ d.status = t.status
          /\ d.completed = t.completed /\ d.frequency = t.frequency /\ d.interval = t.interval
          /\ d \in ScheduleTask
        BY <1>3, <2>1, <2>2 DEF ScheduleTask, t
    <2> QED
        BY <2>1, <2>2, <2>3 DEF t
<1>5. until \in UntilDates \cup {NULL}
    <2>1. Stored(row.until) \in UntilDates \cup {NULL}
        BY <1>2, DatesOfDays
    <2>2. patch.until # Unset => Local(patch.until) \in UntilDates \cup {NULL}
        BY <1>1, DatesOfDays
    <2> QED
        BY <1>4, <2>1, <2>2
<1>6. /\ w.time = time /\ w.frequency = frequency /\ w.interval = interval
    BY <1>4, WantedFacts
<1>7. \/ interval \in Nat \ {0} /\ ~ (interval < 0)
      \/ patch.interval = -1 /\ interval < 0
    <2>1. CASE patch.interval = Unset
        BY <1>2, <1>4, <2>1
    <2>2. CASE patch.interval \in Intervals
        <3>1. interval = patch.interval
            <4>1. patch.interval \in Int
                BY <2>2, NumberConstants
            <4>2. patch.interval # Unset
                BY <4>1, UnsetIsNothing, Zenon
            <4> QED
                BY <4>2
        <3> HIDE DEF interval
        <3> QED
            BY <2>2, <3>1, NumberConstants
    <2>3. CASE patch.interval = -1
        <3>1. interval = -1
            <4>1. -1 \in Int
                OBVIOUS
            <4>2. patch.interval # Unset
                BY <2>3, <4>1, UnsetIsNothing, Zenon
            <4> QED
                BY <2>3, <4>2, Zenon
        <3> HIDE DEF interval
        <3> QED
            BY <2>3, <3>1
    <2> QED
        BY <1>1, <2>1, <2>2, <2>3
<1>8. /\ frequency \in Frequencies \cup {"", "hourly"}
      /\ frequency = "hourly" => patch.frequency = "hourly"
    BY <1>1, <1>2, <1>4 DEF Frequencies
<1> DEFINE Named == \E c \in {"frequency", "interval", "until"} : patch[c] # Unset
<1>9. e = IF Named THEN SetRepeat(d, frequency, interval, until) ELSE d
    BY DEF WithRepeat
<1>10. d # Rejected
    BY <1>4, Distinct
<1>11. until = IF patch.until = Unset THEN Stored(row.until) ELSE Local(patch.until)
    BY <1>4
<1>12. ~ Named => frequency = row.frequency /\ interval = row.interval /\ until = d.until
    BY <1>4
<1>13. row.frequency = "none" => Stored(row.until) = NULL
    BY DEF Checks, Stored
<1>14. \A t : EditFacts(t, patch) <=>
         /\ t \in ScheduleTask
         /\ t.status = row.status /\ t.completed = row.completed
         /\ t.time = time
         /\ t.due = due
         /\ t.frequency = IF frequency = "" THEN "none" ELSE frequency
         /\ IF Active(t.frequency) THEN t.until = until /\ t.interval = interval
            ELSE t.until = NULL /\ t.interval \in {1, row.interval}
    BY <1>6, <1>11 DEF EditFacts
<1> HIDE DEF d, due, time, frequency, interval, until, w, Named
<1>15. CASE ~ Named
    <2>1. e = d
        BY <1>9, <1>15
    <2>2. frequency = row.frequency /\ interval = row.interval /\ until = d.until
        BY <1>12, <1>15
    <2>3. row.frequency # "" /\ (~ Active(row.frequency) => row.frequency = "none")
        BY <1>2 DEF Frequencies, Active
    <2>4. EditFacts(d, patch)
        BY <1>4, <1>13, <1>14, <2>2, <2>3
    <2> QED
        BY <1>10, <2>1, <2>4
<1>16. CASE Named
    <2>1. e = SetRepeat(d, frequency, interval, until)
        BY <1>9, <1>16
    <2>2. CASE frequency \notin Frequencies \cup {""} \/ interval < 0
        <3>1. e = Rejected
            BY <2>1, <2>2 DEF SetRepeat
        <3>2. frequency = "hourly" \/ patch.interval = -1
            BY <1>7, <1>8, <2>2
        <3> QED
            BY <1>8, <3>1, <3>2
    <2>3. CASE frequency \in Frequencies \cup {""} /\ ~ (interval < 0) /\ Active(frequency)
        <3>1. interval \in Nat \ {0} /\ frequency \in Frequencies /\ frequency # ""
            BY <1>7, <2>3 DEF Active
        <3>2. e = [d EXCEPT !.frequency = frequency, !.interval = interval, !.until = until]
            BY <2>1, <2>3, <3>1 DEF SetRepeat
        <3>3. /\ e \in ScheduleTask /\ e.due = d.due /\ e.time = d.time /\ e.status = d.status
              /\ e.completed = d.completed /\ e.frequency = frequency
              /\ e.until = until /\ e.interval = interval
            BY <1>4, <1>5, <3>1, <3>2 DEF ScheduleTask
        <3>4. EditFacts(e, patch)
            BY <1>4, <1>14, <2>3, <3>1, <3>3
        <3> QED
            BY <3>3, <3>4, Distinct
    <2>4. CASE frequency \in Frequencies \cup {""} /\ ~ (interval < 0) /\ ~ Active(frequency)
        <3>1. e = [d EXCEPT !.frequency = "none", !.interval = 1, !.until = NULL]
            BY <2>1, <2>4 DEF SetRepeat
        <3>2. "none" \in Frequencies /\ ~ Active("none") /\ frequency \in {"", "none"}
            BY <2>4 DEF Frequencies, Active
        <3>3. /\ e \in ScheduleTask /\ e.due = d.due /\ e.time = d.time /\ e.status = d.status
              /\ e.completed = d.completed /\ e.frequency = "none"
              /\ e.until = NULL /\ e.interval = 1
            <4> DEFINE f == "none"
                       n == 1
                       u == NULL
            <4>1. e = [d EXCEPT !.frequency = f, !.interval = n, !.until = u]
                BY <3>1
            <4>2. f \in Frequencies /\ n \in Nat \ {0} /\ u \in UntilDates \cup {NULL}
                <5>1. f \in Frequencies
                    BY <3>2
                <5>2. n \in Nat \ {0}
                    OBVIOUS
                <5>3. u \in UntilDates \cup {NULL}
                    OBVIOUS
                <5> QED
                    BY <5>1, <5>2, <5>3
            <4> HIDE DEF f, n, u
            <4>3. /\ e \in ScheduleTask /\ e.due = d.due /\ e.time = d.time
                  /\ e.status = d.status /\ e.completed = d.completed
                  /\ e.frequency = f /\ e.until = u /\ e.interval = n
                BY <1>4, <4>1, <4>2 DEF ScheduleTask
            <4> QED
                BY <4>3 DEF f, n, u
        <3>4. EditFacts(e, patch)
            BY <1>4, <1>14, <3>2, <3>3
        <3> QED
            BY <3>3, <3>4, Distinct
    <2> QED
        BY <2>2, <2>3, <2>4
<1> QED
    BY <1>15, <1>16

\* Done puts a repeating task on the next occurrence of its rule, open, as long as
\* the repetition has not ended before it; every other task it leaves done.
LEMMA DoneFacts ==
    ASSUME offset \in Offsets, NEW t \in ScheduleTask, ValidSchedule(t)
    PROVE  LET s == CompleteOrAdvanceRepeat(t)
           IN  /\ s \in ScheduleTask /\ Sound(s)
               /\ s.until = t.until /\ s.frequency = t.frequency /\ s.interval = t.interval
               /\ \/ /\ s.status = "todo" /\ Active(t.frequency)
                     /\ t.due \in DueDates /\ s.due \in DueDates /\ s.due.ahead = t.due.ahead
                     /\ Occurrence(t.frequency, t.interval, t.due.day, s.due.day)
                     /\ t.until # NULL => ~ Before(t.until, s.due)
                  \/ /\ s.status = "done" /\ s.due = t.due
                     /\ Active(t.frequency) =>
                          \E next \in DueDates :
                             /\ t.due \in DueDates /\ next.ahead = t.due.ahead
                             /\ next.day \in t.due.day + 1..t.due.day + 366 * (t.interval + 1)
                             /\ Occurrence(t.frequency, t.interval, t.due.day, next.day)
                             /\ t.until \in UntilDates /\ Before(t.until, next)
<1> DEFINE s    == CompleteOrAdvanceRepeat(t)
           day  == NextDay(t.due.day, t.frequency, t.interval)
           next == [t.due EXCEPT !.day = day]
           done == ApplyStatus(t, "done")
<1>1. /\ NULL \notin DueDates /\ NULL \notin UntilDates /\ UntilDates \subseteq DueDates
    BY Distinct
<1>2. /\ t.due \in DueDates \cup {NULL} /\ t.until \in UntilDates \cup {NULL}
      /\ t.frequency \in Frequencies /\ t.interval \in Nat /\ t.interval >= 1
      /\ t.time \in BOOLEAN
    BY DEF ScheduleTask
<1>3. /\ done \in ScheduleTask /\ Sound(done) /\ done.status = "done" /\ done.due = t.due
      /\ done.until = t.until /\ done.frequency = t.frequency /\ done.interval = t.interval
    BY StatusFacts DEF Statuses
<1>4. CASE ~ Active(t.frequency)
    <2>1. s = done
        BY <1>4 DEF CompleteOrAdvanceRepeat, NextRepeatDate
    <2> HIDE DEF s, done
    <2> QED
        BY <1>3, <1>4, <2>1 DEF s
<1>5. CASE Active(t.frequency)
    <2>1. t.due \in DueDates /\ (t.until # NULL => ~ Before(t.until, t.due))
        BY <1>2, <1>5 DEF ValidSchedule
    <2>2. t.due.day \in Nat /\ t.due.ahead \in Zones /\ t.due = [day |-> t.due.day, ahead |-> t.due.ahead]
        BY <2>1 DEF DueDates
    <2>3. /\ day \in t.due.day + 1..t.due.day + 366 * (t.interval + 1)
          /\ Occurrence(t.frequency, t.interval, t.due.day, day)
        BY <1>2, <1>5, <2>2, NextIsOccurrence, ZenonT(40) DEF Active
    <2>4. NextRepeatDate(t) = IF t.until # NULL /\ Before(t.until, next) THEN NULL ELSE next
        BY <1>1, <1>5, <2>1 DEF NextRepeatDate
    <2> HIDE DEF day
    <2>5. next \in DueDates /\ next.day = day /\ next.ahead = t.due.ahead
        <3>1. day \in Nat
            BY <1>2, <2>2, <2>3
        <3> QED
            BY <2>1, <3>1 DEF DueDates
    <2> HIDE DEF next
    <2>6. CASE t.until # NULL /\ Before(t.until, next)
        <3>1. s = done
            BY <2>4, <2>6 DEF CompleteOrAdvanceRepeat
        <3>2. t.until \in UntilDates
            BY <1>2, <2>6
        <3> HIDE DEF s, done
        <3> QED
            BY <1>3, <2>1, <2>3, <2>5, <2>6, <3>1, <3>2 DEF s
    <2>7. CASE ~ (t.until # NULL /\ Before(t.until, next))
        <3>1. s = [t EXCEPT !.due = next, !.status = "todo", !.completed = FALSE]
            BY <1>1, <2>4, <2>5, <2>7 DEF CompleteOrAdvanceRepeat
        <3> HIDE DEF s
        <3>2. /\ s.due = next /\ s.status = "todo" /\ s.completed = FALSE
              /\ s.time = t.time /\ s.frequency = t.frequency
              /\ s.interval = t.interval /\ s.until = t.until
            BY <3>1 DEF ScheduleTask
        <3>3. s \in ScheduleTask
            BY <2>5, <3>1 DEF ScheduleTask, Statuses
        <3>4. s.due # NULL
            BY <1>1, <2>5, <3>2
        <3>5. Sound(s)
            BY <2>7, <3>2, <3>4 DEF Sound
        <3> QED
            BY <1>5, <2>1, <2>3, <2>5, <2>7, <3>2, <3>3, <3>5 DEF s
    <2> QED
        BY <2>6, <2>7
<1> QED
    BY <1>4, <1>5

\* An update that the domain refuses has a value that is not valid or a schedule that is
\* not; what it lets through is the edited schedule with the status of the request.
LEMMA EditedFacts ==
    ASSUME offset \in Offsets, row \in Row, Checks(row), NEW patch \in Patches
    PROVE  LET s == Edited(TaskOf(row), patch)
           IN  IF s = Rejected
               THEN \/ patch.texts = FALSE \/ patch.interval = -1
                    \/ patch.frequency = "hourly" \/ patch.status = "later"
                    \/ \E e : EditFacts(e, patch) /\ ~ ValidSchedule(e)
               ELSE \E e : /\ EditFacts(e, patch) /\ ValidSchedule(e)
                           /\ s = WithStatus(e, patch)
                           /\ patch.status \in Statuses \cup {Unset}
<1> DEFINE s == Edited(TaskOf(row), patch)
           e == WithRepeat(WithDates(TaskOf(row), patch), patch)
<1>1. s = IF patch.texts = FALSE \/ patch.interval = -1 \/ e = Rejected THEN Rejected
          ELSE IF ~ ValidSchedule(e) THEN Rejected
          ELSE WithStatus(e, patch)
    BY DEF Edited
<1>2. IF e = Rejected THEN patch.frequency = "hourly" \/ patch.interval = -1
      ELSE EditFacts(e, patch)
    BY RepeatEdited
<1>3. patch.status \in Statuses \cup {"later", Unset}
    BY PatchType
<1> HIDE DEF s, e
<1>4. ASSUME EditFacts(e, patch), ValidSchedule(e), patch.status \in Statuses \cup {Unset}
      PROVE  WithStatus(e, patch) # Rejected
    <2>1. e \in ScheduleTask
        BY <1>4 DEF EditFacts
    <2>2. CASE patch.status = Unset
        <3>1. Unset # "done"
            BY UnsetIsNothing DEF Statuses
        <3> QED
            BY <2>1, <2>2, <3>1, Distinct DEF WithStatus
    <2>3. CASE patch.status = "done"
        <3>1. WithStatus(e, patch) = CompleteOrAdvanceRepeat(e)
            BY <2>3, UnsetIsNothing DEF WithStatus, Statuses
        <3>2. CompleteOrAdvanceRepeat(e) \in ScheduleTask
            BY <1>4, <2>1, DoneFacts
        <3> QED
            BY <3>1, <3>2, Distinct
    <2>4. CASE patch.status \in Statuses /\ patch.status # "done"
        <3>1. WithStatus(e, patch) = ApplyStatus(e, patch.status)
            BY <2>4, UnsetIsNothing DEF WithStatus
        <3>2. ApplyStatus(e, patch.status) \in ScheduleTask
            BY <1>4, <2>1, <2>4, StatusFacts
        <3> QED
            BY <3>1, <3>2, Distinct
    <2> QED
        BY <1>4, <2>2, <2>3, <2>4
<1>5. patch.status = "later" => WithStatus(e, patch) = Rejected
    BY UnsetIsNothing DEF WithStatus, ApplyStatus, Statuses
<1>6. CASE s = Rejected
    BY <1>1, <1>2, <1>3, <1>4, <1>6 DEF s
<1>7. CASE s # Rejected
    <2>1. EditFacts(e, patch) /\ ValidSchedule(e) /\ s = WithStatus(e, patch)
        BY <1>1, <1>2, <1>7
    <2>2. patch.status \in Statuses \cup {Unset}
        BY <1>3, <1>5, <1>7, <2>1
    <2> QED
        BY <1>7, <2>1, <2>2 DEF s
<1> QED
    BY <1>6, <1>7

\* What an update writes is sound, with the repetition that was edited, and nothing
\* that does not repeat keeps the end of a repetition.
LEMMA UpdateFacts ==
    ASSUME offset \in Offsets, row \in Row, Checks(row), NEW patch \in Patches, NEW e,
           EditFacts(e, patch), ValidSchedule(e), patch.status \in Statuses \cup {Unset}
    PROVE  LET s == WithStatus(e, patch)
           IN  /\ s \in ScheduleTask /\ Sound(s)
               /\ s.until = e.until /\ s.frequency = e.frequency /\ s.interval = e.interval
               /\ Active(s.frequency) \/ s.until = NULL
<1> DEFINE s == WithStatus(e, patch)
<1>1. e \in ScheduleTask /\ (Active(e.frequency) \/ e.until = NULL)
    BY DEF EditFacts
<1>2. CASE patch.status = Unset
    <2>1. s = e
        <3>1. Unset # "done"
            BY UnsetIsNothing DEF Statuses
        <3> QED
            BY <1>2, <3>1 DEF WithStatus
    <2>2. Sound(e)
        BY DEF EditFacts, ValidSchedule, Sound, Checks
    <2> HIDE DEF s
    <2> QED
        BY <1>1, <2>1, <2>2 DEF s
<1>3. CASE patch.status = "done"
    <2>1. s = CompleteOrAdvanceRepeat(e)
        BY <1>3, UnsetIsNothing DEF WithStatus, Statuses
    <2> HIDE DEF s
    <2>2. /\ s \in ScheduleTask /\ Sound(s)
          /\ s.until = e.until /\ s.frequency = e.frequency /\ s.interval = e.interval
        BY <1>1, <2>1, DoneFacts
    <2> QED
        BY <1>1, <2>2 DEF s
<1>4. CASE patch.status \in Statuses /\ patch.status # "done"
    <2>1. s = ApplyStatus(e, patch.status)
        BY <1>4, UnsetIsNothing DEF WithStatus
    <2> HIDE DEF s
    <2>2. /\ s \in ScheduleTask /\ Sound(s)
          /\ s.until = e.until /\ s.frequency = e.frequency /\ s.interval = e.interval
        BY <1>1, <1>4, <2>1, StatusFacts
    <2> QED
        BY <1>1, <2>2 DEF s
<1> QED
    BY <1>2, <1>3, <1>4

\* The row of a sound task meets every constraint but the width of its interval.
LEMMA RowOfFacts ==
    ASSUME offset \in Offsets, NEW s \in ScheduleTask, Sound(s)
    PROVE  LET r == RowOf(s)
           IN  /\ r \in Row
               /\ r.due = DayOf(s.due) /\ r.until = DayOf(s.until) /\ r.status = s.status
               /\ r.frequency = s.frequency /\ r.interval = s.interval
               /\ /\ s.interval <= MaxInt4
                  /\ Active(s.frequency) \/ s.until = NULL
                  => Checks(r)
<1> DEFINE r     == RowOf(s)
           due   == DayOf(s.due)
           until == DayOf(s.until)
<1>1. /\ s.due \in DueDates \cup {NULL} /\ s.until \in UntilDates \cup {NULL}
      /\ s.frequency \in Frequencies /\ s.interval \in Nat \ {0} /\ s.status \in Statuses
    BY DEF ScheduleTask
<1>2. /\ due \in Nat \cup {NULL} /\ until \in Days \cup {NULL}
      /\ due = NULL <=> s.due = NULL
      /\ until = NULL <=> s.until = NULL
    BY <1>1, DatesOfDays
<1>3. r = [s EXCEPT !.due = due, !.until = until]
    BY DEF RowOf
<1>4. s.until # NULL /\ s.due # NULL /\ Active(s.frequency) => due <= until
    <2> SUFFICES ASSUME s.until # NULL, s.due # NULL, Active(s.frequency)
                 PROVE  due <= until
        OBVIOUS
    <2>1. s.due \in DueDates /\ s.until \in DueDates
        BY <1>1, Distinct
    <2>2. ~ Before(s.until, s.due)
        BY DEF Sound
    <2>3. s.due.day <= s.until.day
        BY <2>1, <2>2, BeforeFacts
    <2> QED
        BY <2>3 DEF DayOf
<1>5. /\ due # NULL => due \in Nat
      /\ until # NULL => until \in Nat
    BY <1>2, NumberConstants
<1> HIDE DEF due, until, r
<1>6. /\ r \in Row /\ r.due = due /\ r.until = until /\ r.status = s.status
      /\ r.completed = s.completed /\ r.time = s.time
      /\ r.frequency = s.frequency /\ r.interval = s.interval
    BY <1>2, <1>3 DEF ScheduleTask, Row
<1>7. ASSUME s.interval <= MaxInt4, Active(s.frequency) \/ s.until = NULL
      PROVE  Checks(r)
    <2>1. r.completed <=> r.status = "done"
        BY <1>6 DEF Sound
    <2>2. r.interval \in 1..MaxInt4
        BY <1>1, <1>6, <1>7, NumberConstants
    <2>3. r.time => r.due # NULL
        BY <1>2, <1>6 DEF Sound
    <2>4. r.frequency # "none" => r.due # NULL
        BY <1>1, <1>2, <1>6 DEF Sound, Active, Frequencies
    <2>5. r.frequency = "none" => r.until = NULL
        BY <1>2, <1>6, <1>7 DEF Active
    <2>6. r.until = NULL \/ r.due = NULL \/ r.until >= r.due
        BY <1>2, <1>4, <1>5, <1>6, <1>7
    <2> QED
        BY <2>1, <2>2, <2>3, <2>4, <2>5, <2>6 DEF Checks
<1> QED
    BY <1>6, <1>7 DEF r, due, until

-----------------------------------------------------------------------------
(* The specification *)

\* What every state has in common: an update is only asked for when there is a row.
ScheduleInv == ScheduleTypeOK /\ (asked \in Patches => row # NULL)

LEMMA RequestKinds ==
    /\ \A p \in Patches : p.op = "update"
    /\ \A c \in Creates : c.op = "create"
    /\ Creates \cap Patches = {}
<1>1. \A p \in Patches : p.op = "update"
    BY DEF Patches
<1>2. \A c \in Creates : c.op = "create"
    BY DEF Creates
<1> QED
    BY <1>1, <1>2

\* What the handler of an update finds, and what it does with the row.
LEMMA UpdateStep ==
    ASSUME ScheduleInv, UpdateTask
    PROVE  /\ asked \in Patches /\ offset \in Offsets /\ row \in Row /\ Checks(row)
           /\ asked' = NULL /\ offset' = offset
           /\ LET s == Edited(TaskOf(row), asked)
              IN  IF s = Rejected THEN reply' = "validation_error" /\ row' = row
                  ELSE IF Checks(RowOf(s)) THEN reply' = "ok" /\ row' = RowOf(s)
                  ELSE reply' = "internal_error" /\ row' = row
<1>1. asked # NULL /\ asked.op = "update" /\ Settle(Edited(TaskOf(row), asked))
    BY DEF UpdateTask
<1>2. asked \in Creates \cup Patches
    BY <1>1 DEF ScheduleInv, ScheduleTypeOK
<1>3. asked \in Patches
    BY <1>1, <1>2, RequestKinds
<1>4. offset \in Offsets /\ row \in Row /\ Checks(row)
    BY <1>3 DEF ScheduleInv, ScheduleTypeOK
<1> QED
    BY <1>1, <1>3, <1>4 DEF Settle, Write

LEMMA CreateStep ==
    ASSUME ScheduleInv, CreateTask
    PROVE  /\ asked \in Creates /\ offset \in Offsets
           /\ asked' = NULL /\ offset' = offset
           /\ LET s == NewTask(asked)
              IN  IF s = Rejected THEN reply' = "validation_error" /\ row' = row
                  ELSE IF Checks(RowOf(s)) THEN reply' = "ok" /\ row' = RowOf(s)
                  ELSE reply' = "internal_error" /\ row' = row
<1>1. asked # NULL /\ asked.op = "create" /\ Settle(NewTask(asked))
    BY DEF CreateTask
<1>2. asked \in Creates \cup Patches
    BY <1>1 DEF ScheduleInv, ScheduleTypeOK
<1>3. asked \in Creates
    BY <1>1, <1>2, RequestKinds
<1>4. offset \in Offsets
    BY DEF ScheduleInv, ScheduleTypeOK
<1> QED
    BY <1>1, <1>3, <1>4 DEF Settle, Write

\* The row that a step writes, of a creation or of an update.
LEMMA WrittenRow ==
    ASSUME ScheduleInv, CreateTask \/ UpdateTask
    PROVE  row' = row \/ (row' \in Row /\ Checks(row'))
<1>1. CASE CreateTask
    <2> DEFINE s == NewTask(asked)
    <2>1. /\ asked \in Creates /\ offset \in Offsets
          /\ IF s = Rejected THEN reply' = "validation_error" /\ row' = row
             ELSE IF Checks(RowOf(s)) THEN reply' = "ok" /\ row' = RowOf(s)
             ELSE reply' = "internal_error" /\ row' = row
        BY <1>1, CreateStep
    <2>2. s # Rejected => s \in ScheduleTask /\ Sound(s)
        BY <2>1, NewTaskFacts
    <2> HIDE DEF s
    <2>3. s # Rejected => RowOf(s) \in Row
        BY <2>1, <2>2, RowOfFacts
    <2> QED
        BY <2>1, <2>3
<1>2. CASE UpdateTask
    <2> DEFINE s == Edited(TaskOf(row), asked)
    <2>1. /\ asked \in Patches /\ offset \in Offsets /\ row \in Row /\ Checks(row)
          /\ IF s = Rejected THEN reply' = "validation_error" /\ row' = row
             ELSE IF Checks(RowOf(s)) THEN reply' = "ok" /\ row' = RowOf(s)
             ELSE reply' = "internal_error" /\ row' = row
        BY <1>2, UpdateStep
    <2>2. ASSUME s # Rejected
          PROVE  s \in ScheduleTask /\ Sound(s)
        <3>1. PICK e : /\ EditFacts(e, asked) /\ ValidSchedule(e)
                       /\ s = WithStatus(e, asked)
                       /\ asked.status \in Statuses \cup {Unset}
            BY <2>1, <2>2, EditedFacts
        <3> HIDE DEF s
        <3> QED
            BY <2>1, <3>1, UpdateFacts
    <2> HIDE DEF s
    <2>3. s # Rejected => RowOf(s) \in Row
        BY <2>1, <2>2, RowOfFacts
    <2> QED
        BY <2>1, <2>3
<1> QED
    BY <1>1, <1>2

LEMMA ScheduleInvInitially == ScheduleInit => ScheduleInv
<1> SUFFICES ASSUME ScheduleInit
             PROVE  ScheduleInv
    OBVIOUS
<1>1. offset \in Offsets /\ row = NULL /\ asked = NULL /\ reply = "none"
    BY DEF ScheduleInit
<1>2. NULL \notin Patches
    BY NullIsNothing
<1> QED
    BY <1>1, <1>2 DEF ScheduleInv, ScheduleTypeOK

LEMMA ScheduleInvKept == ScheduleInv /\ [ScheduleNext]_scheduleVars => ScheduleInv'
<1> SUFFICES ASSUME ScheduleInv, [ScheduleNext]_scheduleVars
             PROVE  ScheduleInv'
    OBVIOUS
<1>1. /\ offset \in Offsets
      /\ reply \in {"none", "ok", "validation_error", "internal_error"}
      /\ asked = NULL \/ asked \in Creates \cup Patches
      /\ row \in Row \cup {NULL} /\ (row # NULL => Checks(row))
      /\ asked \in Patches => row # NULL
    BY DEF ScheduleInv, ScheduleTypeOK
<1>2. NULL \notin Patches /\ Creates \cap Patches = {} /\ NULL \notin Row
    BY NullIsNothing, RequestKinds
<1>3. SUFFICES /\ offset' \in Offsets
               /\ reply' \in {"none", "ok", "validation_error", "internal_error"}
               /\ asked' = NULL \/ asked' \in Creates \cup Patches
               /\ row' \in Row \cup {NULL} /\ (row' # NULL => Checks(row'))
               /\ asked' \in Patches => row' # NULL
    <2>1. ScheduleInv' <=> /\ ScheduleTypeOK'
                           /\ asked' \in Patches => row' # NULL
        BY DEF ScheduleInv
    <2>2. Checks(row)' <=> Checks(row')
        BY DEF Checks
    <2> QED
        BY <1>3, <2>1, <2>2 DEF ScheduleTypeOK
<1>4. CASE Submit
    BY <1>1, <1>2, <1>4 DEF Submit
<1>5. CASE CreateTask \/ UpdateTask
    <2>1. row' = row \/ (row' \in Row /\ Checks(row'))
        BY <1>5, WrittenRow
    <2>2. /\ offset' = offset /\ asked' = NULL
          /\ reply' \in {"ok", "validation_error", "internal_error"}
        BY <1>5, CreateStep, UpdateStep
    <2> QED
        BY <1>1, <1>2, <2>1, <2>2
<1>6. CASE DeleteTask
    BY <1>1, <1>2, <1>6 DEF DeleteTask
<1>7. CASE UNCHANGED scheduleVars
    BY <1>1, <1>7 DEF scheduleVars
<1> QED
    BY <1>4, <1>5, <1>6, <1>7 DEF ScheduleNext

\* Every row that the two handlers write meets the CHECK constraints of its table, and
\* every request is one of the two kinds.
THEOREM ScheduleTypeCorrect == ScheduleSpec => []ScheduleTypeOK
<1>1. ScheduleInv => ScheduleTypeOK
    BY DEF ScheduleInv
<1> QED
    BY <1>1, ScheduleInvInitially, ScheduleInvKept, PTL DEF ScheduleSpec

LEMMA ScheduleInvariant == ScheduleSpec => []ScheduleInv
BY ScheduleInvInitially, ScheduleInvKept, PTL DEF ScheduleSpec

\* The database never refuses what the domain lets through, of a creation or of an
\* update, but for a number too large for its column and, at a creation, for the end of
\* a repetition that does not repeat.
THEOREM NothingElseRefused == ScheduleSpec => ConstraintsAgree
<1> DEFINE Cause == \/ asked.interval \in Nat /\ asked.interval > MaxInt4
                    \/ /\ asked.op = "create"
                       /\ ~ Active(asked.frequency) /\ asked.until # NULL
<1>1. ASSUME ScheduleInv, ScheduleNext, reply' = "internal_error"
      PROVE  Cause
    <2>1. CASE Submit
        BY <1>1, <2>1 DEF Submit
    <2>2. CASE DeleteTask
        BY <1>1, <2>2 DEF DeleteTask
    <2>3. CASE CreateTask
        <3> DEFINE s == NewTask(asked)
        <3>1. /\ asked \in Creates /\ offset \in Offsets
              /\ s # Rejected /\ ~ Checks(RowOf(s))
            BY <1>1, <2>3, CreateStep
        <3>2. /\ s \in ScheduleTask /\ Sound(s)
              /\ s.frequency = IF asked.frequency = "" THEN "none" ELSE asked.frequency
              /\ s.interval = IF asked.interval = 0 THEN 1 ELSE asked.interval
              /\ s.until = Local(asked.until)
            BY <3>1, NewTaskFacts
        <3> HIDE DEF s
        <3>3. ~ (s.interval <= MaxInt4) \/ ~ (Active(s.frequency) \/ s.until = NULL)
            BY <3>1, <3>2, RowOfFacts
        <3>4. s.interval \in Nat \ {0} /\ MaxInt4 \in Nat /\ MaxInt4 >= 1
            BY <3>2, NumberConstants DEF ScheduleTask
        <3>5. CASE ~ (s.interval <= MaxInt4)
            <4>1. asked.interval # 0
                BY <3>2, <3>4, <3>5
            <4>2. asked.interval = s.interval
                BY <3>2, <4>1
            <4>3. asked.interval \in Nat /\ asked.interval > MaxInt4
                BY <3>4, <3>5, <4>2
            <4> QED
                BY <4>3
        <3>6. CASE ~ (Active(s.frequency) \/ s.until = NULL)
            <4>1. ~ Active(asked.frequency)
                BY <3>2, <3>6 DEF Active
            <4>2. asked.until # NULL
                BY <3>2, <3>6 DEF Local
            <4> QED
                BY <3>1, <4>1, <4>2, RequestKinds
        <3> QED
            BY <3>3, <3>5, <3>6
    <2>4. CASE UpdateTask
        <3> DEFINE s == Edited(TaskOf(row), asked)
        <3>1. /\ asked \in Patches /\ offset \in Offsets /\ row \in Row /\ Checks(row)
              /\ s # Rejected /\ ~ Checks(RowOf(s))
            BY <1>1, <2>4, UpdateStep
        <3>2. PICK e : /\ EditFacts(e, asked) /\ ValidSchedule(e)
                       /\ s = WithStatus(e, asked)
                       /\ asked.status \in Statuses \cup {Unset}
            BY <3>1, EditedFacts
        <3> HIDE DEF s
        <3>3. /\ s \in ScheduleTask /\ Sound(s)
              /\ s.interval = e.interval
              /\ Active(s.frequency) \/ s.until = NULL
            BY <3>1, <3>2, UpdateFacts
        <3>4. ~ (s.interval <= MaxInt4)
            BY <3>1, <3>3, RowOfFacts
        <3>5. s.interval \in Nat \ {0} /\ MaxInt4 \in Nat /\ MaxInt4 >= 1
            BY <3>3, NumberConstants DEF ScheduleTask
        <3>6. row.interval \in 1..MaxInt4
            BY <3>1 DEF Checks
        <3>7. s.interval \in {1, row.interval, Wanted(asked).interval}
            BY <3>2, <3>3 DEF EditFacts
        <3>8. Wanted(asked).interval =
                 IF asked.interval = Unset THEN row.interval ELSE asked.interval
            BY WantedFacts
        <3> QED
            BY <3>4, <3>5, <3>6, <3>7, <3>8
    <2> QED
        BY <1>1, <2>1, <2>2, <2>3, <2>4 DEF ScheduleNext
<1>2. ScheduleInv /\ [ScheduleNext]_scheduleVars => [reply' = "internal_error" => Cause]_scheduleVars
    BY <1>1
<1> QED
    BY <1>2, ScheduleInvariant, PTL DEF ScheduleSpec, ConstraintsAgree

\* The dates of an edit: their days are the ones that the request asks for, and they
\* are in one zone unless the request names one of the two only.
LEMMA EditDates ==
    ASSUME offset \in Offsets, row \in Row, NEW patch \in Patches, NEW e,
           EditFacts(e, patch), Active(e.frequency)
    PROVE  LET w == Wanted(patch)
           IN  /\ w.frequency = e.frequency /\ w.interval = e.interval
               /\ e.due \in DueDates \cup {NULL} /\ e.until \in UntilDates \cup {NULL}
               /\ w.due = DayOf(e.due) /\ w.until = DayOf(e.until)
               /\ e.due # NULL /\ e.until # NULL /\ e.due.ahead # e.until.ahead
                  => MixedZones(patch)
<1> DEFINE w == Wanted(patch)
<1>1. /\ w.due = IF patch.due = Unset THEN row.due ELSE patch.due
      /\ w.until = IF patch.until = Unset THEN row.until ELSE patch.until
    BY WantedFacts
<1>2. /\ e.due = IF patch.due = Unset THEN Stored(row.due) ELSE Local(patch.due)
      /\ e.until = IF patch.until = Unset THEN Stored(row.until) ELSE Local(patch.until)
      /\ e.frequency = IF w.frequency = "" THEN "none" ELSE w.frequency
      /\ e.interval = w.interval
      /\ e \in ScheduleTask
    BY DEF EditFacts
<1>3. /\ row.due \in Nat \cup {NULL} /\ row.until \in Days \cup {NULL}
      /\ patch.due \in Days \cup {NULL, Unset} /\ patch.until \in Days \cup {NULL, Unset}
    BY PatchType DEF Row
<1> HIDE DEF w
<1>4. w.frequency = e.frequency
    BY <1>2 DEF Active
<1>5. e.due \in DueDates \cup {NULL} /\ e.until \in UntilDates \cup {NULL}
    BY <1>2 DEF ScheduleTask
<1>6. w.due = DayOf(e.due)
    <2>1. DayOf(Stored(row.due)) = row.due
        BY <1>3, DatesOfDays
    <2>2. patch.due # Unset => DayOf(Local(patch.due)) = patch.due
        BY <1>3, DatesOfDays
    <2> QED
        BY <1>1, <1>2, <2>1, <2>2
<1>7. w.until = DayOf(e.until)
    <2>1. DayOf(Stored(row.until)) = row.until
        BY <1>3, DatesOfDays
    <2>2. patch.until # Unset => DayOf(Local(patch.until)) = patch.until
        BY <1>3, DatesOfDays
    <2> QED
        BY <1>1, <1>2, <2>1, <2>2
<1>8. ASSUME e.due # NULL, e.until # NULL, e.due.ahead # e.until.ahead
      PROVE  MixedZones(patch)
    <2>1. ASSUME NEW day, Stored(day) # NULL
          PROVE  Stored(day).ahead = 0
        <3>1. Stored(day) = [day |-> day, ahead |-> 0]
            BY <2>1 DEF Stored
        <3> QED
            BY <3>1
    <2>2. ASSUME NEW day, Local(day) # NULL
          PROVE  Local(day).ahead = offset
        <3>1. Local(day) = [day |-> day, ahead |-> offset]
            BY <2>2 DEF Local
        <3> QED
            BY <3>1
    <2>3. e.due.ahead = IF patch.due = Unset THEN 0 ELSE offset
        BY <1>2, <1>8, <2>1, <2>2
    <2>4. e.until.ahead = IF patch.until = Unset THEN 0 ELSE offset
        BY <1>2, <1>8, <2>1, <2>2
    <2> QED
        BY <1>8, <2>3, <2>4 DEF MixedZones
<1> QED
    BY <1>2, <1>4, <1>5, <1>6, <1>7, <1>8 DEF w

\* The code refuses an update of the schedule for a time or a repetition without a date
\* and for an end before the date; it is wrong to only when the two are one day, named
\* in two zones.
THEOREM RefusedForAReason == ScheduleSpec => RefusalsAreRight
<1> DEFINE Refused == /\ Handled("update") /\ reply' = "validation_error"
                      /\ asked.texts # FALSE /\ asked.status # "later"
                      /\ asked.frequency # "hourly" /\ asked.interval # -1
           Reason == LET w == Wanted(asked)
                     IN  \/ w.due = NULL /\ (w.time \/ Active(w.frequency))
                         \/ Active(w.frequency) /\ w.until < w.due
                         \/ MixedZones(asked) /\ w.until = w.due
<1>1. ASSUME ScheduleInv, UpdateTask, Refused
      PROVE  Reason
    <2> DEFINE w == Wanted(asked)
    <2>1. /\ asked \in Patches /\ offset \in Offsets /\ row \in Row /\ Checks(row)
          /\ Edited(TaskOf(row), asked) = Rejected
        BY <1>1, UpdateStep
    <2>2. PICK e : EditFacts(e, asked) /\ ~ ValidSchedule(e)
        BY <1>1, <2>1, EditedFacts
    <2>3. e \in ScheduleTask /\ e.time = w.time
        BY <2>2 DEF EditFacts
    <2>4. /\ e.frequency \in Frequencies /\ e.interval > 0
          /\ e.due \in DueDates \cup {NULL} /\ e.until \in UntilDates \cup {NULL}
          /\ e.time \in BOOLEAN
        BY <2>3 DEF ScheduleTask
    <2>5. CASE e.time /\ e.due = NULL
        <3>1. w.due = NULL
            <4>1. e.due = IF asked.due = Unset THEN Stored(row.due) ELSE Local(asked.due)
                BY <2>2 DEF EditFacts
            <4>2. w.due = IF asked.due = Unset THEN row.due ELSE asked.due
                BY WantedFacts
            <4>3. NULL \notin [day : Nat, ahead : Int] /\ asked.due \in Days \cup {NULL, Unset}
                  /\ row.due \in Nat \cup {NULL}
                BY <2>1, NullIsNothing, PatchType DEF Row
            <4>4. asked.due = Unset => DayOf(Stored(row.due)) = row.due
                BY <2>1, <4>3, DatesOfDays
            <4>5. asked.due # Unset => DayOf(Local(asked.due)) = asked.due
                BY <2>1, <4>3, DatesOfDays
            <4> QED
                BY <2>5, <4>1, <4>2, <4>4, <4>5 DEF DayOf
        <3> QED
            BY <2>3, <2>5, <3>1
    <2>6. CASE /\ Active(e.frequency)
               /\ e.due = NULL \/ (e.until # NULL /\ Before(e.until, e.due))
        <3>1. /\ w.frequency = e.frequency
              /\ w.due = DayOf(e.due) /\ w.until = DayOf(e.until)
              /\ e.due # NULL /\ e.until # NULL /\ e.due.ahead # e.until.ahead
                 => MixedZones(asked)
            BY <2>1, <2>2, <2>6, EditDates
        <3>2. CASE e.due = NULL
            BY <2>6, <3>1, <3>2 DEF DayOf
        <3>3. CASE e.due # NULL /\ e.until # NULL /\ Before(e.until, e.due)
            <4>1. e.due \in DueDates /\ e.until \in DueDates
                BY <2>1, <2>4, <3>3, Distinct
            <4>2. /\ e.until.day <= e.due.day
                  /\ e.until.ahead = e.due.ahead => e.until.day < e.due.day
                BY <2>1, <3>3, <4>1, BeforeFacts
            <4>3. w.due = e.due.day /\ w.until = e.until.day
                BY <3>1, <3>3 DEF DayOf
            <4>4. e.due.day \in Nat /\ e.until.day \in Nat
                BY <4>1 DEF DueDates
            <4> HIDE DEF w
            <4>5. \/ w.until < w.due
                  \/ MixedZones(asked) /\ w.until = w.due
                BY <3>1, <3>3, <4>2, <4>3, <4>4
            <4> QED
                BY <2>6, <3>1, <4>5 DEF w
        <3> QED
            BY <2>6, <3>2, <3>3
    <2> QED
        BY <2>2, <2>4, <2>5, <2>6 DEF ValidSchedule
<1>2. ASSUME ScheduleInv, ScheduleNext, Refused
      PROVE  UpdateTask
    <2>1. CASE Submit
        BY <1>2, <2>1 DEF Submit
    <2>2. CASE DeleteTask
        BY <1>2, <2>2 DEF DeleteTask
    <2>3. CASE CreateTask
        BY <1>2, <2>3 DEF CreateTask, Handled
    <2> QED
        BY <1>2, <2>1, <2>2, <2>3 DEF ScheduleNext
<1>3. ScheduleInv /\ [ScheduleNext]_scheduleVars => [Refused => Reason]_scheduleVars
    BY <1>1, <1>2
<1> QED
    BY <1>3, ScheduleInvariant, PTL DEF ScheduleSpec, RefusalsAreRight

\* Done moves a repeating task to the occurrence of its rule after its interval, open
\* again and never past the end of the repetition; only when that occurrence is past the
\* end, or what is done does not repeat, does it stay done.
THEOREM AdvancesByItsRule == ScheduleSpec => AdvanceKeepsRule
<1> DEFINE Done == Handled("update") /\ reply' = "ok" /\ asked.status = "done"
           Moved == /\ row'.status = "todo" /\ Active(row'.frequency)
                    /\ Occurrence(row'.frequency, row'.interval, Wanted(asked).due, row'.due)
                    /\ row'.until = NULL \/ row'.due <= row'.until
           Stays == /\ row'.status = "done" /\ row'.due = Wanted(asked).due
                    /\ \/ ~ Active(row'.frequency)
                       \/ \E next \in Wanted(asked).due + 1
                                      ..Wanted(asked).due + 366 * (row'.interval + 1) :
                            /\ Occurrence(row'.frequency, row'.interval, Wanted(asked).due,
                                          next)
                            /\ \/ row'.until < next
                               \/ MixedZones(asked) /\ row'.until = next
<1>1. ASSUME ScheduleInv, UpdateTask, Done
      PROVE  Moved \/ Stays
    <2> DEFINE w == Wanted(asked)
               s == Edited(TaskOf(row), asked)
    <2>1. /\ asked \in Patches /\ offset \in Offsets /\ row \in Row /\ Checks(row)
          /\ s # Rejected /\ row' = RowOf(s)
        BY <1>1, UpdateStep
    <2>2. PICK e : /\ EditFacts(e, asked) /\ ValidSchedule(e)
                   /\ s = WithStatus(e, asked)
                   /\ asked.status \in Statuses \cup {Unset}
        BY <2>1, EditedFacts
    <2> HIDE DEF s
    <2>3. s = CompleteOrAdvanceRepeat(e)
        BY <1>1, <2>2, UnsetIsNothing DEF WithStatus, Statuses
    <2>4. e \in ScheduleTask
        BY <2>2 DEF EditFacts
    <2>5. /\ s \in ScheduleTask /\ Sound(s)
          /\ s.until = e.until /\ s.frequency = e.frequency /\ s.interval = e.interval
        BY <2>1, <2>2, <2>3, <2>4, DoneFacts
    <2>6. /\ row'.due = DayOf(s.due) /\ row'.until = DayOf(e.until)
          /\ row'.status = s.status
          /\ row'.frequency = e.frequency /\ row'.interval = e.interval
        BY <2>1, <2>5, RowOfFacts
    <2>7. e.until \in UntilDates \cup {NULL} /\ e.interval \in Nat
        BY <2>4 DEF ScheduleTask
    <2>8. w.due = DayOf(e.due)
        <3>1. e.due = IF asked.due = Unset THEN Stored(row.due) ELSE Local(asked.due)
            BY <2>2 DEF EditFacts
        <3>2. w.due = IF asked.due = Unset THEN row.due ELSE asked.due
            BY WantedFacts
        <3>3. asked.due \in Days \cup {NULL, Unset} /\ row.due \in Nat \cup {NULL}
            BY <2>1, PatchType DEF Row
        <3>4. asked.due = Unset => DayOf(Stored(row.due)) = row.due
            BY <2>1, <3>3, DatesOfDays
        <3>5. asked.due # Unset => DayOf(Local(asked.due)) = asked.due
            BY <2>1, <3>3, DatesOfDays
        <3> QED
            BY <3>1, <3>2, <3>4, <3>5
    <2>9. NULL \notin DueDates /\ UntilDates \subseteq DueDates
        BY <2>1, Distinct
    <2>10. Active(e.frequency) =>
              (e.due # NULL /\ e.until # NULL /\ e.due.ahead # e.until.ahead
               => MixedZones(asked))
        BY <2>1, <2>2, EditDates
    <2> HIDE DEF w
    <2>11. CASE /\ s.status = "todo" /\ Active(e.frequency)
                /\ e.due \in DueDates /\ s.due \in DueDates /\ s.due.ahead = e.due.ahead
                /\ Occurrence(e.frequency, e.interval, e.due.day, s.due.day)
                /\ e.until # NULL => ~ Before(e.until, s.due)
        <3>1. w.due = e.due.day /\ row'.due = s.due.day
            BY <2>6, <2>8, <2>9, <2>11 DEF DayOf
        <3>2. row'.until = NULL \/ row'.due <= row'.until
            <4>1. CASE e.until = NULL
                BY <2>6, <4>1 DEF DayOf
            <4>2. CASE e.until # NULL
                <5>1. e.until \in DueDates
                    BY <2>7, <2>9, <4>2
                <5>2. s.due.day <= e.until.day
                    BY <2>1, <2>11, <4>2, <5>1, BeforeFacts
                <5>3. row'.until = e.until.day
                    BY <2>6, <4>2 DEF DayOf
                <5> QED
                    BY <3>1, <5>2, <5>3
            <4> QED
                BY <4>1, <4>2
        <3> QED
            BY <2>6, <2>11, <3>1, <3>2 DEF w
    <2>12. CASE /\ s.status = "done" /\ s.due = e.due
                /\ ~ Active(e.frequency)
        BY <2>6, <2>8, <2>12 DEF w
    <2>13. CASE /\ s.status = "done" /\ s.due = e.due /\ Active(e.frequency)
                /\ \E next \in DueDates :
                      /\ e.due \in DueDates /\ next.ahead = e.due.ahead
                      /\ next.day \in e.due.day + 1..e.due.day + 366 * (e.interval + 1)
                      /\ Occurrence(e.frequency, e.interval, e.due.day, next.day)
                      /\ e.until \in UntilDates /\ Before(e.until, next)
        <3>1. PICK next \in DueDates :
                 /\ e.due \in DueDates /\ next.ahead = e.due.ahead
                 /\ next.day \in e.due.day + 1..e.due.day + 366 * (e.interval + 1)
                 /\ Occurrence(e.frequency, e.interval, e.due.day, next.day)
                 /\ e.until \in UntilDates /\ Before(e.until, next)
            BY <2>13
        <3>2. e.until \in DueDates /\ e.due # NULL /\ e.until # NULL
            BY <2>9, <3>1
        <3>3. w.due = e.due.day /\ row'.due = w.due /\ row'.until = e.until.day
            BY <2>6, <2>8, <2>13, <3>2 DEF DayOf
        <3>4. /\ e.until.day <= next.day
              /\ e.until.ahead = next.ahead => e.until.day < next.day
            BY <2>1, <3>1, <3>2, BeforeFacts
        <3>5. e.until.day \in Nat /\ next.day \in Nat
            BY <3>1, <3>2 DEF DueDates
        <3>6. e.until.day < next.day \/ (MixedZones(asked) /\ e.until.day = next.day)
            BY <2>10, <2>13, <3>1, <3>2, <3>4, <3>5
        <3> QED
            BY <2>6, <2>13, <3>1, <3>3, <3>6 DEF w
    <2> QED
        BY <2>1, <2>2, <2>3, <2>4, <2>11, <2>12, <2>13, DoneFacts
<1>2. ASSUME ScheduleInv, ScheduleNext, Done
      PROVE  UpdateTask
    <2>1. CASE Submit
        BY <1>2, <2>1 DEF Submit
    <2>2. CASE DeleteTask
        BY <1>2, <2>2 DEF DeleteTask
    <2>3. CASE CreateTask
        BY <1>2, <2>3 DEF CreateTask, Handled
    <2> QED
        BY <1>2, <2>1, <2>2, <2>3 DEF ScheduleNext
<1>3. ScheduleInv /\ [ScheduleNext]_scheduleVars => [Done => Moved \/ Stays]_scheduleVars
    BY <1>1, <1>2
<1> QED
    BY <1>3, ScheduleInvariant, PTL DEF ScheduleSpec, AdvanceKeepsRule

=============================================================================
