--------------------------------- MODULE Cron ---------------------------------
(***************************************************************************)
(* The crontab expressions of src/cron.rs: an expression is parsed and     *)
(* asked when it fires next after a moment (Cron::next_after), one round   *)
(* of its loop per step.  A moment is a day and a minute of that day: what *)
(* lies below a minute is cut off before the search.                       *)
(*                                                                         *)
(* The calendar is a parameter, the library's (chrono): days are numbered  *)
(* from 0, and the library knows none after LastDay.  Cron::parse asks     *)
(* once, for the time of the start, and refuses an expression without an   *)
(* answer; that refusal is the phase "none".                               *)
(***************************************************************************)
EXTENDS CronField

CONSTANTS Specs,            \* the expressions, five fields each
          Froms,            \* the moments they are asked for
          LastDay,          \* the last day of the calendar
          MaxSearchSteps,   \* MAX_SEARCH_STEPS
          Month(_), Day(_), Weekday(_)    \* of a day; Sunday is 0

Days == 0..LastDay
Minutes == 0..1439
Moments == [day : Days, time : Minutes]

ASSUME CalendarOK ==
    /\ LastDay \in Nat
    /\ \A d \in Days : Month(d) \in 1..12 /\ Day(d) \in 1..31 /\ Weekday(d) \in 0..6

ASSUME InputsOK ==
    /\ MaxSearchSteps \in Nat
    /\ Froms \subseteq Moments
    /\ \A s \in Specs :
          s \in [minute : SUBSET Items, hour : SUBSET Items, dom : SUBSET Items,
                 month : SUBSET Items, dow : SUBSET Items]

VARIABLES spec,     \* the expression as written
          from,     \* the moment asked for
          cron,     \* the parsed expression: a set for each field
          at,       \* the candidate of the search
          steps,    \* the rounds of the loop so far
          phase     \* "given", "searching", "found", "none" or "rejected"

vars == <<spec, from, cron, at, steps, phase>>

Unparsed == [minute |-> {}, hour |-> {}, dom |-> {}, month |-> {}, dow |-> {}]

TypeOK ==
    /\ spec \in Specs
    /\ from \in Froms
    /\ cron \in [minute : SUBSET (0..59), hour : SUBSET (0..23),
                 dom : SUBSET (1..31), month : SUBSET (1..12), dow : SUBSET (0..6)]
    /\ at \in [day : 0..LastDay + 1, time : Minutes]
    /\ steps \in 0..MaxSearchSteps
    /\ phase \in {"given", "searching", "found", "none", "rejected"}

Init ==
    /\ spec \in Specs
    /\ from \in Froms
    /\ cron = Unparsed
    /\ at = from
    /\ steps = 0
    /\ phase = "given"

-----------------------------------------------------------------------------
\* Day 7 is folded onto day 0.
Folded(days) == IF 7 \in days THEN (days \ {7}) \cup {0} ELSE days

LegalSpec(s) ==
    /\ Legal(s.minute, 0, 59)
    /\ Legal(s.hour, 0, 23)
    /\ Legal(s.dom, 1, 31)
    /\ Legal(s.month, 1, 12)
    /\ Legal(s.dow, 0, 7)

Parsed(s) ==
    [minute |-> Mask(s.minute, 0, 59), hour |-> Mask(s.hour, 0, 23),
     dom |-> Mask(s.dom, 1, 31), month |-> Mask(s.month, 1, 12),
     dow |-> Folded(Mask(s.dow, 0, 7))]

\* Mutant of DateMatches: both fields always have to hit.
FaultyDateMatches(d) ==
    /\ Month(d) \in cron.month
    /\ Day(d) \in cron.dom /\ Weekday(d) \in cron.dow

\* Both day fields restricted: one hit is enough. Otherwise one of them is
\* full, and the other decides.
DateMatches(d) ==
    /\ Month(d) \in cron.month
    /\ IF cron.dom # 1..31 /\ cron.dow # 0..6
         THEN Day(d) \in cron.dom \/ Weekday(d) \in cron.dow
         ELSE Day(d) \in cron.dom /\ Weekday(d) \in cron.dow

TimeMatches(m) == m % 60 \in cron.minute /\ m \div 60 \in cron.hour

Later(t) == IF t.time < 1439 THEN [t EXCEPT !.time = @ + 1]
                             ELSE [day |-> t.day + 1, time |-> 0]

NextDay(t) == [day |-> t.day + 1, time |-> 0]

\* The search goes on from t, if the calendar has such a day.
SearchFrom(t) ==
    /\ at' = t
    /\ phase' = IF t.day <= LastDay THEN "searching" ELSE "none"

Parse ==
    /\ phase = "given"
    /\ LegalSpec(spec)
    /\ cron' = Parsed(spec)
    /\ SearchFrom(Later(from))
    /\ UNCHANGED <<spec, from, steps>>

Reject ==
    /\ phase = "given"
    /\ ~LegalSpec(spec)
    /\ phase' = "rejected"
    /\ UNCHANGED <<spec, from, cron, at, steps>>

\* The loop has a round left.
Round == phase = "searching" /\ steps < MaxSearchSteps

\* Mutant of SkipDay: a day without a match is walked through like any other.
FaultySkipDay ==
    /\ Round
    /\ ~DateMatches(at.day)
    /\ SearchFrom(Later(at))
    /\ steps' = steps + 1
    /\ UNCHANGED <<spec, from, cron>>

SkipDay ==
    /\ Round
    /\ ~DateMatches(at.day)
    /\ SearchFrom(NextDay(at))
    /\ steps' = steps + 1
    /\ UNCHANGED <<spec, from, cron>>

Hit ==
    /\ Round
    /\ DateMatches(at.day) /\ TimeMatches(at.time)
    /\ phase' = "found"
    /\ UNCHANGED <<spec, from, cron, at, steps>>

NextMinute ==
    /\ Round
    /\ DateMatches(at.day) /\ ~TimeMatches(at.time)
    /\ SearchFrom(Later(at))
    /\ steps' = steps + 1
    /\ UNCHANGED <<spec, from, cron>>

GiveUp ==
    /\ phase = "searching" /\ steps = MaxSearchSteps
    /\ phase' = "none"
    /\ UNCHANGED <<spec, from, cron, at, steps>>

Next == Parse \/ Reject \/ SkipDay \/ Hit \/ NextMinute \/ GiveUp

Spec == Init /\ [][Next]_vars

-----------------------------------------------------------------------------
(* Properties *)

Before(d, m, t) == d < t.day \/ (d = t.day /\ m < t.time)
After(d, m, t) == d > t.day \/ (d = t.day /\ m > t.time)

\* The answer fires, lies strictly after the moment asked for, and no minute
\* in between fires.
FirstMatch ==
    phase = "found" =>
        /\ After(at.day, at.time, from)
        /\ DateMatches(at.day) /\ TimeMatches(at.time)
        /\ \A d \in from.day..at.day : DateMatches(d) =>
              \A m \in Minutes :
                  After(d, m, from) /\ Before(d, m, at) => ~TimeMatches(m)

\* The expression fires on minute m of day d, as its text is documented.
WrittenTime(m) ==
    Written(spec.minute, m % 60, 0) /\ Written(spec.hour, m \div 60, 0)

WrittenDate(d) ==
    LET dom(x) == Written(spec.dom, x, 1)
        dow(x) == Written(spec.dow, x, 0) \/ (x = 0 /\ Written(spec.dow, 7, 0))
        restricted == (\E x \in 1..31 : ~dom(x)) /\ (\E x \in 0..6 : ~dow(x))
    IN /\ Written(spec.month, Month(d), 1)
       /\ IF restricted THEN dom(Day(d)) \/ dow(Weekday(d))
                        ELSE dom(Day(d)) /\ dow(Weekday(d))

\* The answer is the first moment that the text of the expression names.
AsWritten ==
    phase = "found" =>
        /\ WrittenDate(at.day) /\ WrittenTime(at.time)
        /\ \A d \in from.day..at.day : WrittenDate(d) =>
              \A m \in Minutes :
                  After(d, m, from) /\ Before(d, m, at) => ~WrittenTime(m)

\* The search does not end without an answer while it can afford to look: it
\* reaches all days but the two it may have to walk through by the minute.
SearchReaches ==
    phase = "none" =>
        \A d \in from.day..LastDay :
            d < from.day + MaxSearchSteps - 2880 /\ DateMatches(d) =>
                \A m \in Minutes : After(d, m, from) => ~TimeMatches(m)

\* What the parser reads as it is written: no step of one behind a value.
NothingByOne ==
    \A s \in Specs :
        \A item \in s.minute \union s.hour \union s.dom \union s.month \union s.dow :
            ~ByOne(item)

\* The days that a search is sure to see, and a calendar that has every date
\* and every weekday of a month again within so many.
Reach == MaxSearchSteps - 2880

SameDate(c, d) == Month(c) = Month(d) /\ Day(c) = Day(d)
SameWeekday(c, d) == Month(c) = Month(d) /\ Weekday(c) = Weekday(d)

CalendarRecurs ==
    \A d \in Days : d >= Reach =>
        /\ \E c \in (d - Reach + 1)..(d - 1) : SameDate(c, d)
        /\ \E c \in (d - Reach + 1)..(d - 1) : SameWeekday(c, d)

\* No answer means that the expression never fires, not that it fires late.
NoneIsNever ==
    phase = "none" =>
        \A d \in from.day..LastDay : DateMatches(d) =>
            \A m \in Minutes : After(d, m, from) => ~TimeMatches(m)
===============================================================================
