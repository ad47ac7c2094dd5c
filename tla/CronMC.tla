-------------------------------- MODULE CronMC --------------------------------
(***************************************************************************)
(* The Gregorian calendar from 2096 on, with the year 2100 that is no leap *)
(* year, and expressions to ask.  Day 0 is 1 January 2096, a Sunday.       *)
(***************************************************************************)
EXTENDS Cron

\* Days since 1 March 2000, the first day of a cycle of 400 years: the leap
\* day comes last.
SinceMarch(d) == d + 35004

YearOfEra(e) ==
    (e - (e \div 1460) + (e \div 36524) - (e \div 146096)) \div 365

DayOfYear(e) ==
    LET y == YearOfEra(e) IN e - (365 * y + (y \div 4) - (y \div 100))

\* Months counted from March.
MonthFromMarch(e) == (5 * DayOfYear(e) + 2) \div 153

MonthOf(d) ==
    LET n == MonthFromMarch(SinceMarch(d) % 146097)
    IN IF n < 10 THEN n + 3 ELSE n - 9

DayOf(d) ==
    LET e == SinceMarch(d) % 146097
    IN DayOfYear(e) - ((153 * MonthFromMarch(e) + 2) \div 5) + 1

WeekdayOf(d) == d % 7

\* The calendar's landmarks.
ASSUME Landmarks ==
    /\ MonthOf(0) = 1 /\ DayOf(0) = 1
    /\ MonthOf(59) = 2 /\ DayOf(59) = 29               \* 2096 is a leap year
    /\ MonthOf(1519) = 2 /\ DayOf(1519) = 28           \* 2100 is not
    /\ MonthOf(1520) = 3 /\ DayOf(1520) = 1
    /\ MonthOf(2980) = 2 /\ DayOf(2980) = 29           \* 2104 is again

At(d, h, m) == [day |-> d, time |-> 60 * h + m]

Fields(ms, hs, doms, months, dows) ==
    [minute : ms, hour : hs, dom : doms, month : months, dow : dows]

\* Everyday expressions, asked in the middle and at the end of a year.
DailySpecs ==
    Fields({{Any}, {By(Any, 45)}, {One(0), Span(58, 59)}, {By(One(50), 8)}},
           {{Any}, {By(Any, 11)}, {By(Span(9, 13), 4)}},
           {{Any}, {One(1), One(31)}, {By(Any, 1)}},
           {{Any}, {One(2), One(12)}},
           {{Any}, {Span(5, 7)}, {One(0)}, {By(One(4), 3)}})
DailyFroms == {At(366 + 58, 9, 15), At(364, 23, 57), At(365, 23, 59)}

\* Rare ones: leap days, dates that do not exist, and fields out of range.
RareSpecs ==
    {[minute |-> {By(One(59), 30)}, hour |-> {One(23)}, dom |-> d,
      month |-> {One(2)}, dow |-> w] :
        d \in {{One(29)}, {One(30)}, {Span(29, 31)}, {One(32)}, {Span(3, 2)}},
        w \in {{Any}, {By(One(1), 0)}}}
RareFroms == {At(59, 23, 59), At(60, 0, 0), At(59, 0, 0)}

SomeSpecs == DailySpecs \union RareSpecs
SomeFroms == DailyFroms \union RareFroms

\* What the theorems about AsWritten and NoneIsNever take for granted: of the
\* expressions above, and of this calendar.
ASSUME Plain == NothingByOne
ASSUME Recurs == CalendarRecurs
===============================================================================
