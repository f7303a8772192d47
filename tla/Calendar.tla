------------------------------ MODULE Calendar ------------------------------
(***************************************************************************)
(* The calendar of Go's package time, as far as the dates of tasks use it. *)
(* A day is the number of days since Monday 2024-01-01.                    *)
(***************************************************************************)
EXTENDS Naturals

MonthLengths == <<31, 28, 31, 30, 31, 30, 31, 31, 30, 31, 30, 31>>
DaysBefore   == <<0, 31, 59, 90, 120, 151, 181, 212, 243, 273, 304, 334>>

IsLeap(year) == year % 4 = 0 /\ (year % 100 # 0 \/ year % 400 = 0)

DaysIn(year, month) == MonthLengths[month] + (IF month = 2 /\ IsLeap(year) THEN 1 ELSE 0)

\* The days before the first of January, counted from that of the year 2024.
LeapsBefore(year) == (year - 1) \div 4 - (year - 1) \div 100 + (year - 1) \div 400
YearStart(year) == 365 * (year - 2024) + LeapsBefore(year) - LeapsBefore(2024)

MonthStart(year, month) ==
    YearStart(year) + DaysBefore[month] + (IF month > 2 /\ IsLeap(year) THEN 1 ELSE 0)

\* time.Date: a month past December counts on into the next years, a day past the
\* end of the month into the next month.
Date(year, month, day) ==
    MonthStart(year + (month - 1) \div 12, ((month - 1) % 12) + 1) + day - 1

\* The calendar date of a day.
Civil(day) ==
    LET year  == CHOOSE y \in 2024..2024 + day \div 365 :
                     YearStart(y) <= day /\ day < YearStart(y + 1)
        month == CHOOSE m \in 1..12 :
                     MonthStart(year, m) <= day /\ day < MonthStart(year, m) + DaysIn(year, m)
    IN  [year |-> year, month |-> month, day |-> day - MonthStart(year, month) + 1]

AddDate(day, years, months, days) ==
    LET from == Civil(day) IN Date(from.year + years, from.month + months, from.day) + days

IsWeekend(day) == day % 7 \in {5, 6}
=============================================================================
