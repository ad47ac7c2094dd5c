---------------------------- MODULE FunctionsProofs ----------------------------
(***************************************************************************)
(* Proofs about the pure functions.  Cron, for every calendar, expression  *)
(* and moment: an answer is the first firing after the moment asked for,   *)
(* by the text of the expression as well as by its masks, and a search     *)
(* that finds none has looked far enough.  RouteLink, for all links: a     *)
(* core that takes a profile is configured for what its link asks for.     *)
(***************************************************************************)
EXTENDS Cron, RouteLink, SequenceTheorems, WellFoundedInduction, TLAPS

\* What the search has passed does not fire.
Scanned ==
    phase \in {"searching", "found", "none"} =>
        /\ After(at.day, at.time, from)
        /\ \A d \in Days, m \in Minutes :
              /\ After(d, m, from) /\ Before(d, m, at)
              /\ DateMatches(d)
              => ~TimeMatches(m)

\* Every day that fires has a minute that does.
CanFire ==
    phase \in {"searching", "found", "none"} =>
        \E m \in Minutes : TimeMatches(m)

Start == Later(from)

\* The rounds so far: one for every minute of the first day, one for every
\* day after it, and those for the minutes of the last.
Counted ==
    phase \in {"searching", "found", "none"} =>
        /\ at.day >= Start.day
        /\ at.day = Start.day => steps <= at.time
        /\ at.day > Start.day =>
              steps <= 1440 + (at.day - Start.day - 1) + at.time
        /\ at.day > Start.day /\ at.time > 0 => DateMatches(at.day)

\* How a search ends.
Ended ==
    /\ phase = "given" => steps = 0
    /\ phase = "searching" => at.day <= LastDay
    /\ phase = "found" =>
          at.day <= LastDay /\ DateMatches(at.day) /\ TimeMatches(at.time)
    /\ phase = "none" => at.day = LastDay + 1 \/ steps = MaxSearchSteps

IInv == TypeOK /\ Scanned /\ CanFire /\ Counted /\ Ended

-----------------------------------------------------------------------------
(* The fields *)

\* What a field becomes lies within its range.
LEMMA MaskInRange ==
    ASSUME NEW min \in Nat, NEW max \in Nat, NEW field \in SUBSET Items,
           Legal(field, min, max)
    PROVE  Mask(field, min, max) \subseteq min..max
<1>1. SUFFICES ASSUME NEW item \in field, NEW v \in Walk(item, min, max)
               PROVE  v \in min..max
    BY DEF Mask
<1>2. item \in Items /\ Accepts(item, min, max)
    BY DEF Legal
<1>3. v \in First(item, min)..Last(item, max)
    BY DEF Walk
<1>4. CASE item.form = "any"
    BY <1>3, <1>4 DEF First, Last
<1>5. CASE item.form = "span"
    BY <1>2, <1>3, <1>5 DEF First, Last, Accepts
<1>6. CASE item.form = "one"
    BY <1>2, <1>3, <1>6 DEF First, Last, Accepts
<1>7. item.form \in {"any", "one", "span"}
    BY <1>2 DEF Items
<1> QED
    BY <1>4, <1>5, <1>6, <1>7

\* No field is empty.
LEMMA MaskNotEmpty ==
    ASSUME NEW min \in Nat, NEW max \in Nat, min <= max,
           NEW field \in SUBSET Items, Legal(field, min, max)
    PROVE  Mask(field, min, max) # {}
<1>1. PICK item \in field : Accepts(item, min, max)
    BY DEF Legal
<1>2. item \in Items
    OBVIOUS
<1>3. First(item, min) \in First(item, min)..Last(item, max)
  <2>1. CASE item.form = "any"
    BY <2>1 DEF First, Last
  <2>2. CASE item.form = "span"
    BY <1>1, <2>2 DEF First, Last, Accepts
  <2>3. CASE item.form = "one"
    BY <1>1, <2>3 DEF First, Last, Accepts
  <2> QED
    BY <1>2, <2>1, <2>2, <2>3 DEF Items
<1>4. StepOf(item) \in Nat /\ StepOf(item) >= 1
    BY <1>1, <1>2 DEF StepOf, Accepts, Items
<1>5. (First(item, min) - First(item, min)) % StepOf(item) = 0
  <2>1. First(item, min) \in Int
    BY <1>2 DEF First, Items
  <2>2. First(item, min) - First(item, min) = 0
    BY <2>1
  <2>3. \A s \in Nat : s >= 1 => 0 % s = 0
    BY SMTT(30)
  <2> QED
    BY <1>4, <2>2, <2>3
<1>6. First(item, min) \in Walk(item, min, max)
    BY <1>3, <1>5 DEF Walk
<1> QED
    BY <1>6 DEF Mask

\* Every pair of an hour and a minute is a minute of the day.
LEMMA SomeMinute ==
    ASSUME NEW q \in 0..59, NEW h \in 0..23
    PROVE  \E m \in Minutes : m % 60 = q /\ m \div 60 = h
<1> DEFINE m == 60 * h + q
<1>1. m \in Minutes
    BY DEF Minutes
<1>2. m % 60 = q /\ m \div 60 = h
    BY SMTT(30)
<1> QED
    BY <1>1, <1>2

-----------------------------------------------------------------------------
(* The order of moments *)

\* What is below the next whole number is at most the number.
LEMMA AtMost ==
    \A x, y \in Int : /\ x < y + 1 => x < y \/ x = y
                      /\ x < y \/ x = y => x <= y
  OBVIOUS

\* Nothing lies between a moment and the next.
LEMMA LaterIsNext ==
    ASSUME NEW t, t \in [day : Nat, time : Minutes]
    PROVE  /\ Later(t) \in [day : Nat, time : Minutes]
           /\ After(Later(t).day, Later(t).time, t)
           /\ t.time < 1439 => Later(t).day = t.day /\ Later(t).time = t.time + 1
           /\ t.time = 1439 => Later(t).day = t.day + 1 /\ Later(t).time = 0
           /\ \A d \in Nat, m \in Minutes :
                 Before(d, m, Later(t)) =>
                     Before(d, m, t) \/ (d = t.day /\ m = t.time)
<1>0. t.day \in Nat /\ t.time \in 0..1439
    BY DEF Minutes
<1>1. CASE t.time < 1439
  <2>1. Later(t) = [day |-> t.day, time |-> t.time + 1]
    BY <1>1 DEF Later
  <2>2. Later(t).day = t.day /\ Later(t).time = t.time + 1
    BY <2>1
  <2>3. Later(t) \in [day : Nat, time : Minutes]
    BY <1>0, <1>1, <2>1 DEF Minutes
  <2>4. After(Later(t).day, Later(t).time, t)
    BY <1>0, <1>1, <2>2 DEF After
  <2>5. ASSUME NEW d \in Nat, NEW m \in Minutes, Before(d, m, Later(t))
        PROVE  Before(d, m, t) \/ (d = t.day /\ m = t.time)
    <3>1. d < t.day \/ (d = t.day /\ m < t.time + 1)
      BY <2>2, <2>5 DEF Before
    <3>2. m \in Int /\ t.time \in Int
      BY <1>0 DEF Minutes
    <3>3. m < t.time + 1 => m < t.time \/ m = t.time
      BY <3>2, AtMost
    <3> QED
      BY <3>1, <3>3 DEF Before
  <2> QED
    BY <1>0, <1>1, <2>2, <2>3, <2>4, <2>5
<1>2. CASE t.time = 1439
  <2>1. Later(t) = [day |-> t.day + 1, time |-> 0]
    BY <1>2 DEF Later
  <2>2. Later(t).day = t.day + 1 /\ Later(t).time = 0
    BY <2>1
  <2>3. Later(t) \in [day : Nat, time : Minutes]
    BY <1>0, <2>1 DEF Minutes
  <2>4. After(Later(t).day, Later(t).time, t)
    BY <1>0, <1>2, <2>2 DEF After
  <2>5. ASSUME NEW d \in Nat, NEW m \in Minutes, Before(d, m, Later(t))
        PROVE  Before(d, m, t) \/ (d = t.day /\ m = t.time)
    BY <1>0, <1>2, <2>2, <2>5 DEF Before, Minutes
  <2> QED
    BY <1>0, <1>2, <2>2, <2>3, <2>4, <2>5
<1> QED
    BY <1>0, <1>1, <1>2

\* Nothing new lies before the next day than the rest of this one.
LEMMA NextDayIsNext ==
    ASSUME NEW t, t \in [day : Nat, time : Minutes]
    PROVE  /\ NextDay(t) \in [day : Nat, time : Minutes]
           /\ NextDay(t).day = t.day + 1 /\ NextDay(t).time = 0
           /\ \A d \in Nat, m \in Minutes :
                 Before(d, m, NextDay(t)) => Before(d, m, t) \/ d = t.day
<1>0. t.day \in Nat /\ t.time \in 0..1439
    BY DEF Minutes
<1>1. NextDay(t) = [day |-> t.day + 1, time |-> 0]
    BY DEF NextDay
<1>2. NextDay(t).day = t.day + 1 /\ NextDay(t).time = 0
    BY <1>1
<1>3. NextDay(t) \in [day : Nat, time : Minutes]
    BY <1>0, <1>1 DEF Minutes
<1>4. ASSUME NEW d \in Nat, NEW m \in Minutes, Before(d, m, NextDay(t))
      PROVE  Before(d, m, t) \/ d = t.day
  <2>1. d < t.day + 1 \/ (d = t.day + 1 /\ m < 0)
    BY <1>2, <1>4 DEF Before
  <2>2. d \in Nat /\ m \in 0..1439
    BY DEF Minutes
  <2>3. d < t.day \/ d = t.day
    BY <1>0, <2>1, <2>2
  <2> QED
    BY <2>3 DEF Before
<1> QED
    BY <1>2, <1>3, <1>4

-----------------------------------------------------------------------------
(* The invariant *)

LEMMA InitHolds == Init => IInv
<1> SUFFICES ASSUME Init PROVE IInv
    OBVIOUS
<1>1. from \in Moments
    BY InputsOK DEF Init
<1>2. at \in [day : 0..LastDay + 1, time : Minutes]
    BY <1>1, CalendarOK DEF Init, Moments, Days
<1>3. TypeOK
    BY <1>2, InputsOK DEF Init, TypeOK, Unparsed
<1> QED
    BY <1>3 DEF IInv, Scanned, CanFire, Counted, Ended, Init

\* What a search starts from.
LEMMA ParsedType ==
    ASSUME NEW s \in Specs, LegalSpec(s)
    PROVE  /\ Parsed(s) \in [minute : SUBSET (0..59), hour : SUBSET (0..23),
                 dom : SUBSET (1..31), month : SUBSET (1..12), dow : SUBSET (0..6)]
           /\ Parsed(s).minute # {} /\ Parsed(s).hour # {}
<1>1. /\ s.minute \in SUBSET Items /\ s.hour \in SUBSET Items
      /\ s.dom \in SUBSET Items /\ s.month \in SUBSET Items
      /\ s.dow \in SUBSET Items
    BY InputsOK
<1>2. /\ Legal(s.minute, 0, 59) /\ Legal(s.hour, 0, 23) /\ Legal(s.dom, 1, 31)
      /\ Legal(s.month, 1, 12) /\ Legal(s.dow, 0, 7)
    BY DEF LegalSpec
<1>3. Mask(s.minute, 0, 59) \subseteq 0..59 /\ Mask(s.minute, 0, 59) # {}
  <2>1. Mask(s.minute, 0, 59) \subseteq 0..59
    BY <1>1, <1>2, MaskInRange
  <2>2. Mask(s.minute, 0, 59) # {}
    BY <1>1, <1>2, MaskNotEmpty
  <2> QED
    BY <2>1, <2>2
<1>4. Mask(s.hour, 0, 23) \subseteq 0..23 /\ Mask(s.hour, 0, 23) # {}
    BY <1>1, <1>2, MaskInRange, MaskNotEmpty
<1>5. Mask(s.dom, 1, 31) \subseteq 1..31
    BY <1>1, <1>2, MaskInRange
<1>6. Mask(s.month, 1, 12) \subseteq 1..12
    BY <1>1, <1>2, MaskInRange
<1>7. Folded(Mask(s.dow, 0, 7)) \subseteq 0..6
  <2>1. Mask(s.dow, 0, 7) \subseteq 0..7
    BY <1>1, <1>2, MaskInRange
  <2> QED
    BY <2>1 DEF Folded
<1> QED
    BY <1>3, <1>4, <1>5, <1>6, <1>7 DEF Parsed

\* The search goes on from a moment of the calendar or one day past it.
LEMMA SearchFromType ==
    ASSUME TypeOK, NEW t, t \in [day : Nat, time : Minutes],
           t.day <= LastDay + 1, SearchFrom(t)
    PROVE  /\ at' \in [day : 0..LastDay + 1, time : Minutes]
           /\ phase' \in {"searching", "none"}
           /\ phase' = "searching" => at'.day <= LastDay
           /\ phase' = "none" => at'.day = LastDay + 1
<1>1. LastDay \in Nat /\ t.day \in Nat
    BY CalendarOK
<1>2. t.day \in 0..LastDay + 1 /\ t.time \in Minutes
    BY <1>1
<1>3. t = [day |-> t.day, time |-> t.time]
    OBVIOUS
<1>4. at' \in [day : 0..LastDay + 1, time : Minutes]
    BY <1>2, <1>3 DEF SearchFrom
<1>5. phase' = IF t.day <= LastDay THEN "searching" ELSE "none"
    BY DEF SearchFrom
<1>6. at' = t
    BY DEF SearchFrom
<1>7. ~(t.day <= LastDay) => t.day = LastDay + 1
    BY <1>1
<1> QED
    BY <1>4, <1>5, <1>6, <1>7

LEMMA ParseKeeps == IInv /\ Parse => IInv'
<1> SUFFICES ASSUME IInv, Parse PROVE IInv'
    OBVIOUS
<1>1. TypeOK /\ phase = "given" /\ LegalSpec(spec)
    BY DEF IInv, Parse
<1>2. spec \in Specs /\ from \in Moments
    BY <1>1, InputsOK DEF TypeOK
<1>3. from.day \in Days /\ from.time \in Minutes /\ from \in [day : Nat, time : Minutes]
    BY <1>2, CalendarOK DEF Moments, Days
<1>4. from' = from /\ cron' = Parsed(spec) /\ steps' = steps /\ spec' = spec
    BY DEF Parse
<1>5. /\ Start \in [day : Nat, time : Minutes]
      /\ After(Start.day, Start.time, from)
      /\ Start.day <= LastDay + 1
  <2>1. Start \in [day : Nat, time : Minutes] /\ After(Start.day, Start.time, from)
    BY <1>3, LaterIsNext DEF Start
  <2>2. Start.day = from.day \/ Start.day = from.day + 1
    <3>1. from.time < 1439 \/ from.time = 1439
      BY <1>3 DEF Minutes
    <3> QED
      BY <1>3, <3>1, LaterIsNext DEF Start
  <2> QED
    BY <1>3, <2>1, <2>2, CalendarOK DEF Days
<1>6. SearchFrom(Start)
    BY DEF Parse, Start
<1>7. at' = Start /\ Start' = Start
    BY <1>4, <1>6 DEF SearchFrom, Start, Later
<1>8. TypeOK'
    BY <1>1, <1>4, <1>5, <1>6, SearchFromType, ParsedType, <1>2 DEF TypeOK
<1>9. Scanned'
  <2>1. After(at.day, at.time, from)'
    BY <1>4, <1>5, <1>7 DEF After
  <2>2. ASSUME NEW d \in Days, NEW m \in Minutes,
               After(d, m, from)', Before(d, m, at)'
        PROVE  FALSE
    <3>1. d \in Nat /\ m \in 0..1439 /\ from.day \in Nat /\ from.time \in 0..1439
      BY <1>3, CalendarOK DEF Days, Minutes
    <3>2. Before(d, m, Start) /\ After(d, m, from)
      BY <1>4, <1>7, <2>2 DEF Before, After
    <3>3. Before(d, m, from) \/ (d = from.day /\ m = from.time)
      BY <1>3, <3>1, <3>2, LaterIsNext DEF Start
    <3>4. d > from.day \/ (d = from.day /\ m > from.time)
      BY <3>2 DEF After
    <3>5. CASE d < from.day
      BY <3>1, <3>4, <3>5
    <3>6. CASE d = from.day /\ m <= from.time
      <4>1. ~(d > from.day)
        BY <3>1, <3>6
      <4>2. m > from.time
        BY <3>4, <4>1
      <4>3. m \in Int /\ from.time \in Int
        BY <1>3 DEF Minutes
      <4>4. m <= from.time
        BY <3>6
      <4> QED
        BY <4>2, <4>3, <4>4
    <3>7. d < from.day \/ (d = from.day /\ m < from.time)
          \/ (d = from.day /\ m = from.time)
      BY <3>3 DEF Before
    <3>8. m < from.time \/ m = from.time => m <= from.time
      <4>1. m \in Int /\ from.time \in Int
        BY <1>3 DEF Minutes
      <4> QED
        BY <4>1, AtMost
    <3> QED
      BY <3>5, <3>6, <3>7, <3>8
  <2> QED
    BY <2>1, <2>2 DEF Scanned
<1>10. CanFire'
  <2>1. Parsed(spec).minute \in SUBSET (0..59) /\ Parsed(spec).minute # {}
    BY <1>1, <1>2, ParsedType
  <2>2. Parsed(spec).hour \in SUBSET (0..23) /\ Parsed(spec).hour # {}
    BY <1>1, <1>2, ParsedType
  <2>3. PICK q \in 0..59 : q \in Parsed(spec).minute
    BY <2>1
  <2>4. PICK h \in 0..23 : h \in Parsed(spec).hour
    BY <2>2
  <2>5. PICK m \in Minutes : m % 60 = q /\ m \div 60 = h
    BY SomeMinute
  <2>6. TimeMatches(m)'
    BY <1>4, <2>3, <2>4, <2>5 DEF TimeMatches
  <2> QED
    BY <2>6 DEF CanFire
<1>11. Counted'
  <2>1. steps' = 0
    BY <1>1, <1>4 DEF IInv, Ended
  <2>2. at'.day = Start'.day /\ at'.day \in Nat /\ at'.time \in 0..1439
    BY <1>5, <1>7 DEF Minutes
  <2> QED
    BY <2>1, <2>2 DEF Counted
<1>12. Ended'
    BY <1>1, <1>5, <1>6, SearchFromType DEF Ended
<1> QED
    BY <1>8, <1>9, <1>10, <1>11, <1>12 DEF IInv

\* The moments of the invariant, in numbers.
LEMMA Numbers ==
    ASSUME IInv, phase \in {"searching", "found", "none"}
    PROVE  /\ from.day \in Nat /\ from.time \in Nat /\ from.time <= 1439
           /\ Start.day \in Nat
           /\ Start.day = from.day \/ Start.day = from.day + 1
           /\ at \in [day : Nat, time : Minutes]
           /\ at.day \in Nat /\ at.time \in Nat /\ at.time <= 1439
           /\ steps \in Nat /\ MaxSearchSteps \in Nat /\ LastDay \in Nat
           /\ steps <= MaxSearchSteps
<1>1. TypeOK
    BY DEF IInv
<1>2. from \in Moments
    BY <1>1, InputsOK DEF TypeOK
<1>3. /\ from.day \in Nat /\ from.time \in Nat /\ from.time <= 1439
      /\ from \in [day : Nat, time : Minutes]
  <2>1. from.day \in Days /\ from.time \in Minutes
    BY <1>2 DEF Moments
  <2>2. from.day \in Nat
    BY <2>1, CalendarOK DEF Days
  <2>3. from.time \in Nat /\ from.time <= 1439
    <3>1. \A x \in Minutes : x \in Nat /\ x <= 1439
      BY DEF Minutes
    <3> QED
      BY <2>1, <3>1
  <2>4. from = [day |-> from.day, time |-> from.time]
    BY <1>2 DEF Moments
  <2> QED
    BY <2>1, <2>2, <2>3, <2>4
<1>4. Start.day = from.day \/ Start.day = from.day + 1
  <2>1. from.time < 1439 \/ from.time = 1439
    BY <1>3
  <2> QED
    BY <1>3, <2>1, LaterIsNext DEF Start
<1>5. at \in [day : Nat, time : Minutes] /\ at.day \in Nat /\ at.time \in Nat /\ at.time <= 1439
    BY <1>1, CalendarOK DEF TypeOK, Minutes
<1>6. steps \in Nat /\ MaxSearchSteps \in Nat /\ LastDay \in Nat /\ steps <= MaxSearchSteps
    BY <1>1, CalendarOK, InputsOK DEF TypeOK
<1>7. Start.day \in Nat
    BY <1>3, <1>4
<1> QED
    BY <1>3, <1>4, <1>5, <1>6, <1>7

LEMMA SkipDayKeeps == IInv /\ SkipDay => IInv'
<1> SUFFICES ASSUME IInv, SkipDay PROVE IInv'
    OBVIOUS
<1>1. /\ phase = "searching" /\ steps < MaxSearchSteps /\ ~DateMatches(at.day)
      /\ SearchFrom(NextDay(at)) /\ steps' = steps + 1
      /\ from' = from /\ cron' = cron /\ spec' = spec
    BY DEF SkipDay, Round
<1>2. /\ from.day \in Nat /\ from.time \in Nat /\ from.time <= 1439 /\ Start.day \in Nat
      /\ at \in [day : Nat, time : Minutes]
      /\ at.day \in Nat /\ at.time \in Nat /\ at.time <= 1439
      /\ steps \in Nat /\ MaxSearchSteps \in Nat /\ LastDay \in Nat
    BY <1>1, Numbers
<1>3. at.day <= LastDay
    BY <1>1 DEF IInv, Ended
<1>4. /\ NextDay(at) \in [day : Nat, time : Minutes]
      /\ NextDay(at).day = at.day + 1 /\ NextDay(at).time = 0
    BY <1>2, NextDayIsNext
<1>5. at' = NextDay(at) /\ at'.day = at.day + 1 /\ at'.time = 0
    BY <1>1, <1>4 DEF SearchFrom
<1>6. /\ at' \in [day : 0..LastDay + 1, time : Minutes]
      /\ phase' \in {"searching", "none"}
      /\ phase' = "searching" => at'.day <= LastDay
      /\ phase' = "none" => at'.day = LastDay + 1
  <2>1. NextDay(at).day <= LastDay + 1
    BY <1>2, <1>3, <1>4
  <2> QED
    BY <1>1, <1>4, <2>1, SearchFromType DEF IInv
<1>7. TypeOK'
  <2>1. steps' \in 0..MaxSearchSteps
    BY <1>1, <1>2
  <2> QED
    BY <1>1, <1>6, <2>1 DEF IInv, TypeOK
<1>8. Scanned'
  <2>1. After(at.day, at.time, from)'
    <3>1. at.day > from.day \/ (at.day = from.day /\ at.time > from.time)
      BY <1>1 DEF IInv, Scanned, After
    <3>2. at'.day > from.day
      BY <1>2, <1>5, <3>1
    <3> QED
      BY <1>1, <3>2 DEF After
  <2>2. ASSUME NEW d \in Days, NEW m \in Minutes,
               After(d, m, from)', Before(d, m, at)', DateMatches(d)'
        PROVE  ~TimeMatches(m)'
    <3>1. After(d, m, from) /\ Before(d, m, NextDay(at)) /\ DateMatches(d)
      BY <1>1, <1>5, <2>2 DEF After, Before, DateMatches
    <3>2. d \in Nat
      BY CalendarOK DEF Days
    <3>3. Before(d, m, at) \/ d = at.day
      BY <1>2, <3>1, <3>2, NextDayIsNext
    <3>4. Before(d, m, at)
      BY <1>1, <3>1, <3>3
    <3>5. ~TimeMatches(m)
      BY <1>1, <3>1, <3>4 DEF IInv, Scanned
    <3> QED
      BY <1>1, <3>5 DEF TimeMatches
  <2> QED
    BY <2>1, <2>2 DEF Scanned
<1>9. CanFire'
    BY <1>1 DEF IInv, CanFire, TimeMatches
<1>10. Counted'
  <2>1. Start' = Start
    BY <1>1 DEF Start, Later
  <2>2. /\ at.day >= Start.day
        /\ at.day = Start.day => steps <= at.time
        /\ at.day > Start.day =>
              steps <= 1440 + (at.day - Start.day - 1) + at.time
        /\ at.day > Start.day /\ at.time > 0 => DateMatches(at.day)
    BY <1>1 DEF IInv, Counted
  <2>3. at.day > Start.day => at.time = 0
    BY <1>1, <1>2, <2>2
  <2>4. steps + 1 <= 1440 + (at.day + 1 - Start.day - 1)
    <3>1. CASE at.day = Start.day
      <4>1. steps <= at.time
        BY <2>2, <3>1
      <4>2. steps <= 1439
        BY <1>2, <4>1
      <4> QED
        BY <1>2, <3>1, <4>2
    <3>2. CASE at.day > Start.day
      BY <1>2, <2>2, <2>3, <3>2
    <3> QED
      BY <1>2, <2>2, <3>1, <3>2
  <2>5. at'.day > Start.day
    BY <1>2, <1>5, <2>2
  <2>6. steps' <= 1440 + (at'.day - Start.day - 1) + at'.time
    BY <1>1, <1>2, <1>5, <2>4
  <2>7. at'.day >= Start.day /\ ~(at'.day = Start.day) /\ ~(at'.time > 0)
    BY <1>2, <1>5, <2>5
  <2> QED
    BY <2>1, <2>6, <2>7 DEF Counted
<1>11. Ended'
    BY <1>6 DEF Ended
<1> QED
    BY <1>7, <1>8, <1>9, <1>10, <1>11 DEF IInv

LEMMA NextMinuteKeeps == IInv /\ NextMinute => IInv'
<1> SUFFICES ASSUME IInv, NextMinute PROVE IInv'
    OBVIOUS
<1>1. /\ phase = "searching" /\ steps < MaxSearchSteps
      /\ DateMatches(at.day) /\ ~TimeMatches(at.time)
      /\ SearchFrom(Later(at)) /\ steps' = steps + 1
      /\ from' = from /\ cron' = cron /\ spec' = spec
    BY DEF NextMinute, Round
<1>2. /\ from.day \in Nat /\ from.time \in Nat /\ from.time <= 1439 /\ Start.day \in Nat
      /\ at \in [day : Nat, time : Minutes]
      /\ at.day \in Nat /\ at.time \in Nat /\ at.time <= 1439
      /\ steps \in Nat /\ MaxSearchSteps \in Nat /\ LastDay \in Nat
    BY <1>1, Numbers
<1>3. at.day <= LastDay
    BY <1>1 DEF IInv, Ended
<1>4. /\ Later(at) \in [day : Nat, time : Minutes]
      /\ After(Later(at).day, Later(at).time, at)
      /\ at.time < 1439 =>
            Later(at).day = at.day /\ Later(at).time = at.time + 1
      /\ at.time = 1439 => Later(at).day = at.day + 1 /\ Later(at).time = 0
    BY <1>2, LaterIsNext
<1>5. at' = Later(at)
    BY <1>1 DEF SearchFrom
<1>6. /\ at' \in [day : 0..LastDay + 1, time : Minutes]
      /\ phase' \in {"searching", "none"}
      /\ phase' = "searching" => at'.day <= LastDay
      /\ phase' = "none" => at'.day = LastDay + 1
  <2>1. Later(at).day <= LastDay + 1
    BY <1>2, <1>3, <1>4
  <2> QED
    BY <1>1, <1>4, <2>1, SearchFromType DEF IInv
<1>7. TypeOK'
  <2>1. steps' \in 0..MaxSearchSteps
    BY <1>1, <1>2
  <2> QED
    BY <1>1, <1>6, <2>1 DEF IInv, TypeOK
<1>8. Scanned'
  <2>1. After(at.day, at.time, from)'
    <3>1. at.day > from.day \/ (at.day = from.day /\ at.time > from.time)
      BY <1>1 DEF IInv, Scanned, After
    <3>2. CASE at.time < 1439
      <4>1. at'.day = at.day /\ at'.time = at.time + 1
        BY <1>4, <1>5, <3>2
      <4>2. at.time > from.time => at'.time > from.time
        BY <1>2, <4>1
      <4> QED
        BY <1>1, <3>1, <4>1, <4>2 DEF After
    <3>3. CASE at.time = 1439
      <4>1. at'.day = at.day + 1
        BY <1>4, <1>5, <3>3
      <4>2. at'.day > from.day
        BY <1>2, <3>1, <4>1
      <4> QED
        BY <1>1, <4>2 DEF After
    <3> QED
      BY <1>2, <3>2, <3>3
  <2>2. ASSUME NEW d \in Days, NEW m \in Minutes,
               After(d, m, from)', Before(d, m, at)', DateMatches(d)'
        PROVE  ~TimeMatches(m)'
    <3>1. After(d, m, from) /\ Before(d, m, Later(at)) /\ DateMatches(d)
      BY <1>1, <1>5, <2>2 DEF After, Before, DateMatches
    <3>2. d \in Nat
      BY CalendarOK DEF Days
    <3>3. Before(d, m, at) \/ (d = at.day /\ m = at.time)
      BY <1>2, <3>1, <3>2, LaterIsNext
    <3>4. ~TimeMatches(m)
      BY <1>1, <3>1, <3>3 DEF IInv, Scanned
    <3> QED
      BY <1>1, <3>4 DEF TimeMatches
  <2> QED
    BY <2>1, <2>2 DEF Scanned
<1>9. CanFire'
    BY <1>1 DEF IInv, CanFire, TimeMatches
<1>10. Counted'
  <2>1. Start' = Start
    BY <1>1 DEF Start, Later
  <2>2. /\ at.day >= Start.day
        /\ at.day = Start.day => steps <= at.time
        /\ at.day > Start.day =>
              steps <= 1440 + (at.day - Start.day - 1) + at.time
    BY <1>1 DEF IInv, Counted
  <2>3. CASE at.time < 1439
    <3>1. at'.day = at.day /\ at'.time = at.time + 1
      BY <1>4, <1>5, <2>3
    <3>2. DateMatches(at.day)'
      BY <1>1, <3>1 DEF DateMatches
    <3>3. at'.day >= Start.day
      BY <2>2, <3>1
    <3>4. at'.day = Start.day => steps' <= at'.time
      <4>1. steps <= at.time => steps + 1 <= at.time + 1
        BY <1>2
      <4> QED
        BY <1>1, <2>2, <3>1, <4>1
    <3>5. at'.day > Start.day =>
              steps' <= 1440 + (at'.day - Start.day - 1) + at'.time
      BY <1>1, <1>2, <2>2, <3>1
    <3> QED
      BY <2>1, <3>2, <3>3, <3>4, <3>5 DEF Counted
  <2>4. CASE at.time = 1439
    <3>1. at'.day = at.day + 1 /\ at'.time = 0
      BY <1>4, <1>5, <2>4
    <3>2. at.day = Start.day
      \* A whole day that matches would have fired.
      <4>1. SUFFICES ASSUME at.day > Start.day PROVE FALSE
        BY <1>2, <2>2
      <4>2. PICK m \in Minutes : TimeMatches(m)
        BY <1>1 DEF IInv, CanFire
      <4>3. m \in 0..1439
        BY DEF Minutes
      <4>4. m # 1439
        BY <1>1, <2>4, <4>2
      <4>5. Before(at.day, m, at)
        BY <2>4, <4>3, <4>4 DEF Before
      <4>6. at.day > from.day
        BY <1>1, <1>2, <4>1, Numbers
      <4>7. After(at.day, m, from) /\ at.day \in Days
        BY <1>2, <1>3, <4>6 DEF After, Days
      <4> QED
        BY <1>1, <4>2, <4>5, <4>7 DEF IInv, Scanned
    <3>3. steps <= 1439
      <4>1. steps <= at.time
        BY <2>2, <3>2
      <4> QED
        BY <2>4, <4>1
    <3>4. at'.day > Start.day /\ at'.day - Start.day = 1
      BY <1>2, <3>1, <3>2
    <3>5. steps' <= 1440 + (at'.day - Start.day - 1) + at'.time
      BY <1>1, <1>2, <3>1, <3>3, <3>4
    <3>6. at'.day >= Start.day /\ ~(at'.day = Start.day) /\ ~(at'.time > 0)
      BY <1>2, <3>1, <3>4
    <3> QED
      BY <2>1, <3>5, <3>6 DEF Counted
  <2> QED
    BY <1>2, <2>3, <2>4
<1>11. Ended'
    BY <1>6 DEF Ended
<1> QED
    BY <1>7, <1>8, <1>9, <1>10, <1>11 DEF IInv

\* The steps that end a search move nothing else.
LEMMA LastStepKeeps ==
    ASSUME IInv, UNCHANGED <<spec, from, cron, at, steps>>,
           \/ phase = "searching" /\ phase' \in {"found", "none"}
           \/ phase = "given" /\ phase' = "rejected"
           \/ phase' = phase,
           Ended'
    PROVE  IInv'
<1>1. TypeOK'
    BY DEF IInv, TypeOK
<1>2. Scanned'
    BY DEF IInv, Scanned, After, Before, DateMatches, TimeMatches
<1>3. CanFire'
    BY DEF IInv, CanFire, TimeMatches
<1>4. Counted'
    BY DEF IInv, Counted, Start, Later, DateMatches
<1> QED
    BY <1>1, <1>2, <1>3, <1>4 DEF IInv

LEMMA NextKeeps == IInv /\ [Next]_vars => IInv'
<1> SUFFICES ASSUME IInv, [Next]_vars PROVE IInv'
    OBVIOUS
<1>1. CASE Parse
    BY <1>1, ParseKeeps
<1>2. CASE Reject
  <2>1. Ended'
    BY <1>2 DEF Reject, Ended
  <2> QED
    BY <1>2, <2>1, LastStepKeeps DEF Reject
<1>3. CASE SkipDay
    BY <1>3, SkipDayKeeps
<1>4. CASE Hit
  <2>1. Ended'
    BY <1>4 DEF Hit, Round, Ended, IInv, DateMatches, TimeMatches
  <2> QED
    BY <1>4, <2>1, LastStepKeeps DEF Hit, Round
<1>5. CASE NextMinute
    BY <1>5, NextMinuteKeeps
<1>6. CASE GiveUp
  <2>1. Ended'
    BY <1>6 DEF GiveUp, Ended
  <2> QED
    BY <1>6, <2>1, LastStepKeeps DEF GiveUp
<1>7. CASE UNCHANGED vars
  <2>1. Ended'
    BY <1>7 DEF vars, IInv, Ended, DateMatches, TimeMatches
  <2> QED
    BY <1>7, <2>1, LastStepKeeps DEF vars
<1> QED
    BY <1>1, <1>2, <1>3, <1>4, <1>5, <1>6, <1>7 DEF Next

LEMMA Invariant == Spec => []IInv
<1>1. Init => IInv
    BY InitHolds
<1>2. IInv /\ [Next]_vars => IInv'
    BY NextKeeps
<1> QED
    BY <1>1, <1>2, PTL DEF Spec

-----------------------------------------------------------------------------
(* The theorems *)

\* Type correctness: a parsed field lies within its range, and the search
\* takes no more rounds than it may (Cron::parse, Cron::next_after).
THEOREM TypeCorrect == Spec => []TypeOK
<1>1. IInv => TypeOK
    BY DEF IInv
<1> QED
    BY <1>1, Invariant, PTL

\* Cron::next_after answers with the first firing after the moment asked for.
THEOREM FirstFound == Spec => []FirstMatch
<1>1. IInv => FirstMatch
  <2> SUFFICES ASSUME IInv, phase = "found" PROVE
                 /\ After(at.day, at.time, from)
                 /\ DateMatches(at.day) /\ TimeMatches(at.time)
                 /\ \A d \in from.day..at.day : DateMatches(d) =>
                       \A m \in Minutes :
                          After(d, m, from) /\ Before(d, m, at) => ~TimeMatches(m)
    BY DEF FirstMatch
  <2>1. After(at.day, at.time, from)
    BY DEF IInv, Scanned
  <2>2. DateMatches(at.day) /\ TimeMatches(at.time) /\ at.day <= LastDay
    BY DEF IInv, Ended
  <2>3. \A d \in from.day..at.day : d \in Days
    <3>1. from.day \in Nat /\ at.day \in Nat /\ LastDay \in Nat
      BY Numbers
    <3> QED
      BY <2>2, <3>1 DEF Days
  <2> QED
    BY <2>1, <2>2, <2>3 DEF IInv, Scanned
<1> QED
    BY <1>1, Invariant, PTL

\* Cron::next_after gives up only past MAX_SEARCH_STEPS less two days' worth
\* of minutes: what fires within so many days is found.
THEOREM SearchIsWide == Spec => []SearchReaches
<1>1. IInv => SearchReaches
  <2> SUFFICES ASSUME IInv, phase = "none",
                      NEW d \in from.day..LastDay, NEW m \in Minutes,
                      d < from.day + MaxSearchSteps - 2880, DateMatches(d),
                      After(d, m, from)
               PROVE  ~TimeMatches(m)
    BY DEF SearchReaches
  <2>1. /\ from.day \in Nat /\ Start.day \in Nat /\ at.day \in Nat
        /\ at.time \in Nat /\ at.time <= 1439 /\ steps \in Nat /\ MaxSearchSteps \in Nat
        /\ LastDay \in Nat /\ Start.day >= from.day
    BY Numbers
  <2>2. d \in Nat /\ d <= LastDay /\ d \in Days
    BY <2>1 DEF Days
  <2>3. d < at.day
    <3>1. CASE at.day = LastDay + 1
      BY <2>1, <2>2, <3>1
    <3>2. CASE steps = MaxSearchSteps
      <4>1. steps <= 1440 + (at.day - Start.day - 1) + 1439
        <5>1. at.day >= Start.day
          BY DEF IInv, Counted
        <5>2. CASE at.day = Start.day
          <6>1. steps <= at.time
            BY <5>2 DEF IInv, Counted
          <6>2. steps <= 1439
            BY <2>1, <6>1
          <6> QED
            BY <2>1, <5>2, <6>2
        <5>3. CASE at.day > Start.day
          <6>1. steps <= 1440 + (at.day - Start.day - 1) + at.time
            BY <5>3 DEF IInv, Counted
          <6> QED
            BY <2>1, <6>1
        <5> QED
          BY <2>1, <5>1, <5>2, <5>3
      <4> QED
        BY <2>1, <2>2, <3>2, <4>1
    <3> QED
      BY <3>1, <3>2 DEF IInv, Ended
  <2>4. Before(d, m, at)
    BY <2>3 DEF Before
  <2> QED
    BY <2>2, <2>4 DEF IInv, Scanned
<1> QED
    BY <1>1, Invariant, PTL

-----------------------------------------------------------------------------
(* The text of an expression and the masks it becomes *)

\* What the search works with is what the text became.
FromText ==
    phase \in {"searching", "found", "none"} =>
        LegalSpec(spec) /\ cron = Parsed(spec)

LEMMA FromTextHolds == Spec => []FromText
<1>1. Init => FromText
    BY DEF Init, FromText
<1>2. FromText /\ [Next]_vars => FromText'
  <2> SUFFICES ASSUME FromText, [Next]_vars PROVE FromText'
    OBVIOUS
  <2>1. CASE Parse
    BY <2>1 DEF Parse, FromText
  <2>2. CASE Reject
    BY <2>2 DEF Reject, FromText
  <2>3. CASE SkipDay \/ Hit \/ NextMinute \/ GiveUp
    BY <2>3 DEF SkipDay, Hit, NextMinute, GiveUp, Round, FromText
  <2>4. CASE UNCHANGED vars
    BY <2>4 DEF vars, FromText
  <2> QED
    BY <2>1, <2>2, <2>3, <2>4 DEF Next
<1> QED
    BY <1>1, <1>2, PTL DEF Spec

\* An item is walked through exactly where its text names a value.
LEMMA WalkAsNamed ==
    ASSUME NEW min \in Nat, NEW max \in Nat, NEW item \in Items,
           Accepts(item, min, max), ~ByOne(item), NEW v \in min..max
    PROVE  v \in Walk(item, min, max) <=> Names(item, v, min)
<1>1. /\ item.form \in {"any", "one", "span"} /\ item.lo \in Nat /\ item.hi \in Nat
      /\ item.slash \in BOOLEAN /\ item.step \in Nat
    BY DEF Items
<1>2. v \in Walk(item, min, max) <=>
        /\ v \in First(item, min)..Last(item, max)
        /\ (v - First(item, min)) % StepOf(item) = 0
    BY DEF Walk
<1>3. CASE item.form = "any"
  <2>1. First(item, min) = min /\ Last(item, max) = max
    BY <1>3 DEF First, Last
  <2> QED
    BY <1>2, <1>3, <2>1 DEF Names
<1>4. CASE item.form = "span"
  <2>1. First(item, min) = item.lo /\ Last(item, max) = item.hi
    BY <1>4 DEF First, Last
  <2> QED
    BY <1>2, <1>4, <2>1 DEF Names
<1>5. CASE item.form = "one" /\ item.slash
  <2>1. StepOf(item) = item.step /\ item.step >= 1 /\ item.step # 1
    BY <1>1, <1>5 DEF StepOf, Accepts, ByOne
  <2>2. First(item, min) = item.lo /\ Last(item, max) = max
    BY <1>1, <1>5, <2>1 DEF First, Last
  <2>3. v \in item.lo..max <=> v >= item.lo
    BY <1>1
  <2> QED
    BY <1>2, <1>5, <2>1, <2>2, <2>3 DEF Names
<1>6. CASE item.form = "one" /\ ~item.slash
  <2>1. StepOf(item) = 1 /\ First(item, min) = item.lo /\ Last(item, max) = item.lo
    BY <1>6 DEF StepOf, First, Last
  <2>2. v \in item.lo..item.lo <=> v = item.lo
    BY <1>1
  <2>3. v = item.lo => (v - item.lo) % 1 = 0
    BY <1>1
  <2> QED
    BY <1>2, <1>6, <2>1, <2>2, <2>3 DEF Names
<1> QED
    BY <1>1, <1>3, <1>4, <1>5, <1>6

\* A mask has exactly the values that the text of its field names.
LEMMA MaskAsWritten ==
    ASSUME NEW min \in Nat, NEW max \in Nat, NEW field \in SUBSET Items,
           Legal(field, min, max), \A item \in field : ~ByOne(item),
           NEW v \in min..max
    PROVE  v \in Mask(field, min, max) <=> Written(field, v, min)
<1>1. \A item \in field : v \in Walk(item, min, max) <=> Names(item, v, min)
    BY WalkAsNamed DEF Legal
<1> QED
    BY <1>1 DEF Mask, Written

\* Both halves of a moment: the parsed expression fires when the text says so.
LEMMA FiresAsWritten ==
    ASSUME NothingByOne, IInv, FromText, phase \in {"searching", "found", "none"}
    PROVE  /\ \A d \in Days : DateMatches(d) <=> WrittenDate(d)
           /\ \A m \in Minutes : TimeMatches(m) <=> WrittenTime(m)
<1>1. spec \in Specs /\ LegalSpec(spec) /\ cron = Parsed(spec)
    BY DEF IInv, TypeOK, FromText
<1>2. /\ spec.minute \in SUBSET Items /\ spec.hour \in SUBSET Items
      /\ spec.dom \in SUBSET Items /\ spec.month \in SUBSET Items
      /\ spec.dow \in SUBSET Items
    BY <1>1, InputsOK
<1>3. /\ \A item \in spec.minute : ~ByOne(item)
      /\ \A item \in spec.hour : ~ByOne(item)
      /\ \A item \in spec.dom : ~ByOne(item)
      /\ \A item \in spec.month : ~ByOne(item)
      /\ \A item \in spec.dow : ~ByOne(item)
    BY <1>1 DEF NothingByOne
<1>4. /\ Legal(spec.minute, 0, 59) /\ Legal(spec.hour, 0, 23) /\ Legal(spec.dom, 1, 31)
      /\ Legal(spec.month, 1, 12) /\ Legal(spec.dow, 0, 7)
    BY <1>1 DEF LegalSpec
<1>5. /\ \A x \in 0..59 : x \in cron.minute <=> Written(spec.minute, x, 0)
      /\ \A x \in 0..23 : x \in cron.hour <=> Written(spec.hour, x, 0)
      /\ \A x \in 1..31 : x \in cron.dom <=> Written(spec.dom, x, 1)
      /\ \A x \in 1..12 : x \in cron.month <=> Written(spec.month, x, 1)
      /\ \A x \in 0..7 : x \in Mask(spec.dow, 0, 7) <=> Written(spec.dow, x, 0)
  <2>1. /\ cron.minute = Mask(spec.minute, 0, 59) /\ cron.hour = Mask(spec.hour, 0, 23)
        /\ cron.dom = Mask(spec.dom, 1, 31) /\ cron.month = Mask(spec.month, 1, 12)
    BY <1>1 DEF Parsed
  <2>2. \A x \in 0..59 : x \in cron.minute <=> Written(spec.minute, x, 0)
    BY <1>2, <1>3, <1>4, <2>1, MaskAsWritten
  <2>3. \A x \in 0..23 : x \in cron.hour <=> Written(spec.hour, x, 0)
    BY <1>2, <1>3, <1>4, <2>1, MaskAsWritten
  <2>4. \A x \in 1..31 : x \in cron.dom <=> Written(spec.dom, x, 1)
    BY <1>2, <1>3, <1>4, <2>1, MaskAsWritten
  <2>5. \A x \in 1..12 : x \in cron.month <=> Written(spec.month, x, 1)
    BY <1>2, <1>3, <1>4, <2>1, MaskAsWritten
  <2>6. \A x \in 0..7 : x \in Mask(spec.dow, 0, 7) <=> Written(spec.dow, x, 0)
    BY <1>2, <1>3, <1>4, MaskAsWritten
  <2> QED
    BY <2>2, <2>3, <2>4, <2>5, <2>6
<1>6. \A x \in 0..6 : x \in cron.dow <=>
        Written(spec.dow, x, 0) \/ (x = 0 /\ Written(spec.dow, 7, 0))
  <2>1. cron.dow = Folded(Mask(spec.dow, 0, 7))
    BY <1>1 DEF Parsed
  <2>2. \A x \in 0..6 : x \in 0..7 /\ x # 7
    OBVIOUS
  <2>3. \A x \in 0..6 : x \in cron.dow <=>
          x \in Mask(spec.dow, 0, 7) \/ (x = 0 /\ 7 \in Mask(spec.dow, 0, 7))
    BY <2>1, <2>2 DEF Folded
  <2>4. 7 \in 0..7
    OBVIOUS
  <2> QED
    BY <1>5, <2>2, <2>3, <2>4
<1>7. cron.dom \subseteq 1..31 /\ cron.dow \subseteq 0..6
    BY DEF IInv, TypeOK
<1>8. ASSUME NEW d \in Days PROVE DateMatches(d) <=> WrittenDate(d)
  <2>1. Month(d) \in 1..12 /\ Day(d) \in 1..31 /\ Weekday(d) \in 0..6
    BY CalendarOK
  <2>2. cron.dom # 1..31 <=> \E x \in 1..31 : ~Written(spec.dom, x, 1)
    BY <1>5, <1>7
  <2>3. cron.dow # 0..6 <=>
          \E x \in 0..6 : ~(Written(spec.dow, x, 0) \/ (x = 0 /\ Written(spec.dow, 7, 0)))
    BY <1>6, <1>7
  <2>4. Month(d) \in cron.month <=> Written(spec.month, Month(d), 1)
    BY <1>5, <2>1
  <2>5. Day(d) \in cron.dom <=> Written(spec.dom, Day(d), 1)
    BY <1>5, <2>1
  <2>6. Weekday(d) \in cron.dow <=>
          \/ Written(spec.dow, Weekday(d), 0)
          \/ Weekday(d) = 0 /\ Written(spec.dow, 7, 0)
    BY <1>6, <2>1
  <2> QED
    BY <2>2, <2>3, <2>4, <2>5, <2>6 DEF DateMatches, WrittenDate
<1>9. ASSUME NEW m \in Minutes PROVE TimeMatches(m) <=> WrittenTime(m)
  <2>1. m % 60 \in 0..59 /\ m \div 60 \in 0..23
    BY SMTT(30) DEF Minutes
  <2> QED
    BY <1>5, <2>1 DEF TimeMatches, WrittenTime
<1> QED
    BY <1>8, <1>9

\* Cron::parse with Cron::next_after: the answer is the first moment after the
\* one asked for that the text of the expression names, for every expression
\* without a step of one behind a single value.
THEOREM ReadAsWritten == NothingByOne /\ Spec => []AsWritten
<1> SUFFICES ASSUME NothingByOne PROVE Spec => []AsWritten
    OBVIOUS
<1>1. IInv /\ FromText /\ FirstMatch => AsWritten
  <2> SUFFICES ASSUME IInv, FromText, FirstMatch, phase = "found"
               PROVE  /\ WrittenDate(at.day) /\ WrittenTime(at.time)
                      /\ \A d \in from.day..at.day : WrittenDate(d) =>
                            \A m \in Minutes :
                              After(d, m, from) /\ Before(d, m, at) => ~WrittenTime(m)
    BY DEF AsWritten
  <2>1. \A d \in from.day..at.day : d \in Days
    <3>1. from.day \in Nat /\ at.day \in Nat /\ LastDay \in Nat
      BY Numbers
    <3>2. at.day <= LastDay
      BY DEF IInv, Ended
    <3> QED
      BY <3>1, <3>2 DEF Days
  <2>2. at.day \in Days /\ at.time \in Minutes
    BY Numbers DEF IInv, Ended, Days
  <2> QED
    BY <2>1, <2>2, FiresAsWritten DEF FirstMatch
<1> QED
    BY <1>1, Invariant, FromTextHolds, FirstFound, PTL

-----------------------------------------------------------------------------
(* A search that gives up *)

\* Every set of numbers that is not empty has a least one.
LEMMA LeastNumber ==
    ASSUME NEW T, T \subseteq Nat, T # {}
    PROVE  \E x \in T : \A y \in T : x <= y
<1>1. \A m, n \in Nat : m < n => <<m, n>> \in OpToRel(<, Nat)
    BY DEF OpToRel
<1>2. IsWellFoundedOn(OpToRel(<, Nat), Nat)
    BY NatLessThanWellFounded
<1>3. PICK x \in T : \A y \in T : <<y, x>> \notin OpToRel(<, Nat)
    BY <1>2, WFMin
<1>4. \A y \in T : ~(y < x)
    BY <1>1, <1>3
<1>5. \A y \in T : x <= y
    BY <1>4
<1> QED
    BY <1>5

\* Days that come back within n days have one within n days of every other.
LEMMA InReach ==
    ASSUME NEW T, T \subseteq Nat, NEW n \in Int,
           \A x \in T : x >= n => \E y \in T : y > x - n /\ y < x,
           NEW a \in Nat, NEW d \in T, a < d
    PROVE  \E c \in T : a < c /\ c <= d /\ c < a + n
<1> DEFINE Above == {x \in T : a < x}
<1>1. Above \subseteq Nat /\ d \in Above
    OBVIOUS
<1>2. PICK c \in Above : \A y \in Above : c <= y
    BY <1>1, LeastNumber
<1>3. c \in T /\ a < c /\ c <= d
    BY <1>1, <1>2
<1>4. ASSUME ~(c < a + n) PROVE FALSE
  <2>1. c >= n /\ c \in Nat
    BY <1>3, <1>4
  <2>2. PICK y \in T : y > c - n /\ y < c
    BY <1>3, <2>1
  <2>3. y > a
    BY <1>4, <2>1, <2>2
  <2> QED
    BY <1>2, <2>1, <2>2, <2>3
<1> QED
    BY <1>3, <1>4

\* Where the calendar comes round within its reach the search finds whatever
\* fires at all: the answer none, with which Cron::parse refuses an expression,
\* means never.
THEOREM NoneMeansNever == CalendarRecurs /\ Spec => []NoneIsNever
<1> SUFFICES ASSUME CalendarRecurs PROVE Spec => []NoneIsNever
    OBVIOUS
<1>1. IInv /\ SearchReaches => NoneIsNever
  <2> SUFFICES ASSUME IInv, SearchReaches, phase = "none",
                      NEW d \in from.day..LastDay, DateMatches(d),
                      NEW m \in Minutes, After(d, m, from), TimeMatches(m)
               PROVE  FALSE
    BY DEF NoneIsNever
  <2>1. from.day \in Nat /\ LastDay \in Nat /\ MaxSearchSteps \in Nat
    BY Numbers
  <2>2. d \in Days /\ d \in Nat /\ d <= LastDay
    BY <2>1 DEF Days
  <2>3. Reach \in Int /\ ~(d < from.day + Reach)
    BY <2>1 DEF SearchReaches, Reach
  <2>4. ASSUME NEW T, T \subseteq Days, d \in T,
               \A c \in T : DateMatches(c),
               \A x \in T : x >= Reach => \E y \in T : y > x - Reach /\ y < x
        PROVE  FALSE
    <3>1. T \subseteq Nat
      BY <2>1, <2>4 DEF Days
    <3>2. Reach >= 1
      <4>1. d >= Reach
        BY <2>1, <2>2, <2>3
      <4>2. PICK y \in T : y > d - Reach /\ y < d
        BY <2>4, <4>1
      <4> QED
        BY <2>2, <2>3, <3>1, <4>2
    <3>3. from.day < d
      BY <2>1, <2>2, <2>3, <3>2
    <3>4. PICK c \in T : from.day < c /\ c <= d /\ c < from.day + Reach
      BY <2>1, <2>3, <2>4, <3>1, <3>3, InReach
    <3>5. c \in from.day..LastDay /\ c < from.day + MaxSearchSteps - 2880
      BY <2>1, <2>2, <3>1, <3>4 DEF Reach
    <3>6. After(c, m, from)
      BY <3>4 DEF After
    <3> QED
      BY <2>4, <3>4, <3>5, <3>6 DEF SearchReaches
  <2>5. \A x \in Days : Day(x) \in 1..31 /\ Weekday(x) \in 0..6
    BY CalendarOK
  <2>6. ASSUME NEW x \in Days, x >= Reach,
               NEW y \in (x - Reach + 1)..(x - 1)
        PROVE  y \in Int /\ y > x - Reach /\ y < x
    <3>1. x \in Nat
      BY <2>1 DEF Days
    <3> QED
      BY <2>3, <3>1
  <2>7. CASE Day(d) \in cron.dom /\ (cron.dow = 0..6 \/ cron.dom # 1..31)
    <3> DEFINE T == {c \in Days : SameDate(c, d)}
    <3>1. d \in T
      BY <2>2 DEF SameDate
    <3>2. \A c \in T : DateMatches(c)
      BY <2>5, <2>7 DEF DateMatches, SameDate
    <3>3. ASSUME NEW x \in T, x >= Reach PROVE \E y \in T : y > x - Reach /\ y < x
      <4>1. PICK y \in (x - Reach + 1)..(x - 1) : SameDate(y, x)
        BY <3>3 DEF CalendarRecurs
      <4>2. y > x - Reach /\ y < x
        BY <2>6, <3>3
      <4>3. y \in Days
        BY <2>1, <2>3, <3>3 DEF Days
      <4>4. SameDate(y, d)
        BY <4>1 DEF SameDate
      <4> QED
        BY <4>2, <4>3, <4>4
    <3> HIDE DEF T
    <3>4. T \subseteq Days
      BY DEF T
    <3> QED
      BY <2>4, <3>1, <3>2, <3>3, <3>4
  <2>8. CASE Weekday(d) \in cron.dow /\ (cron.dom = 1..31 \/ cron.dow # 0..6)
    <3> DEFINE T == {c \in Days : SameWeekday(c, d)}
    <3>1. d \in T
      BY <2>2 DEF SameWeekday
    <3>2. \A c \in T : DateMatches(c)
      BY <2>5, <2>8 DEF DateMatches, SameWeekday
    <3>3. ASSUME NEW x \in T, x >= Reach PROVE \E y \in T : y > x - Reach /\ y < x
      <4>1. PICK y \in (x - Reach + 1)..(x - 1) : SameWeekday(y, x)
        BY <3>3 DEF CalendarRecurs
      <4>2. y > x - Reach /\ y < x
        BY <2>6, <3>3
      <4>3. y \in Days
        BY <2>1, <2>3, <3>3 DEF Days
      <4>4. SameWeekday(y, d)
        BY <4>1 DEF SameWeekday
      <4> QED
        BY <4>2, <4>3, <4>4
    <3> HIDE DEF T
    <3>4. T \subseteq Days
      BY DEF T
    <3> QED
      BY <2>4, <3>1, <3>2, <3>3, <3>4
  <2>9. \/ Day(d) \in cron.dom /\ (cron.dow = 0..6 \/ cron.dom # 1..31)
        \/ Weekday(d) \in cron.dow /\ (cron.dom = 1..31 \/ cron.dow # 0..6)
    BY DEF DateMatches
  <2> QED
    BY <2>7, <2>8, <2>9
<1> QED
    BY <1>1, Invariant, SearchIsWide, PTL

-----------------------------------------------------------------------------
(* Links *)

\* What a parser makes of a link it takes.
LEMMA VmessProfile ==
    ASSUME NEW l, l.scheme = "vmess", ParseShareUrl(l) # Refused
    PROVE  /\ ParseShareUrl(l) =
             [kind |-> "vmess", security |-> NonEmpty(l.security, "auto"),
              transport |-> NonEmpty(l.type, "tcp"),
              host |-> NonEmpty(l.host, None), path |-> NonEmpty(l.path, None),
              tls |-> l.tls \in {"tls", "1"}, sni |-> NonEmpty(l.sni, None),
              pbk |-> None, sid |-> None]
           /\ NonEmpty(l.type, "tcp") \in Transports
    BY DEF ParseShareUrl, ParseVmess, Profile

LEMMA VlessProfile ==
    ASSUME NEW l, l.scheme = "vless", ParseShareUrl(l) # Refused
    PROVE  /\ ParseShareUrl(l) =
                [kind |-> "vless", security |-> OrElse(l.security, "none"),
                 transport |-> OrElse(l.type, "tcp"), host |-> l.host, path |-> l.path,
                 tls |-> OrElse(l.security, "none") # "none", sni |-> l.sni,
                 pbk |-> l.pbk, sid |-> l.sid]
           /\ OrElse(l.security, "none") \in {"none", "tls", "reality"}
           /\ OrElse(l.type, "tcp") \in Transports
    BY DEF ParseShareUrl, ParseVless, Profile

LEMMA ShadowsocksProfile ==
    ASSUME NEW l, l.scheme = "ss", ParseShareUrl(l) # Refused
    PROVE  ParseShareUrl(l) =
             [kind |-> "shadowsocks", security |-> "", transport |-> "", host |-> None,
              path |-> None, tls |-> FALSE, sni |-> None, pbk |-> None, sid |-> None]
    BY DEF ParseShareUrl, ParseShadowsocks, Profile

LEMMA TrojanProfile ==
    ASSUME NEW l, l.scheme = "trojan", ParseShareUrl(l) # Refused
    PROVE  /\ ParseShareUrl(l) =
                [kind |-> "trojan", security |-> "tls", transport |-> "tcp", host |-> None,
                 path |-> None, tls |-> TRUE, sni |-> l.sni, pbk |-> None, sid |-> None]
           /\ OrElse(l.security, "tls") = "tls"
    BY DEF ParseShareUrl, ParseTrojan, Profile

LEMMA KnownScheme ==
    ASSUME NEW l, ParseShareUrl(l) # Refused
    PROVE  l.scheme \in {"vmess", "vless", "ss", "trojan"}
    BY DEF ParseShareUrl

\* Short sequences, joined.
LEMMA JoinNone == \A x : <<x>> \o <<>> = <<x>>
<1> SUFFICES ASSUME NEW x PROVE <<x>> \o <<>> = <<x>>
    OBVIOUS
<1>1. <<x>> \in Seq({x})
    OBVIOUS
<1> QED
    BY <1>1, ConcatEmptySeq

LEMMA JoinTwo == \A x, y : <<x>> \o <<y>> = <<x, y>>
<1> SUFFICES ASSUME NEW x, NEW y PROVE <<x>> \o <<y>> = <<x, y>>
    OBVIOUS
<1> DEFINE s == <<x>> \o <<y>>
<1>1. <<x>> \in Seq({x, y}) /\ <<y>> \in Seq({x, y}) /\ Len(<<x>>) = 1 /\ Len(<<y>>) = 1
    OBVIOUS
<1>2. s \in Seq({x, y}) /\ Len(s) = 2 /\ s[1] = x /\ s[2] = y
    BY <1>1, ConcatProperties
<1>3. <<x, y>> \in Seq({x, y}) /\ Len(<<x, y>>) = 2
    OBVIOUS
<1> HIDE DEF s
<1>4. \A i \in 1..2 : s[i] = <<x, y>>[i]
    BY <1>2
<1>5. s = <<x, y>>
    BY <1>2, <1>3, <1>4, SeqEqual
<1> QED
    BY <1>5 DEF s

LEMMA JoinThree == \A x, y, z : <<x, y>> \o <<z>> = <<x, y, z>>
<1> SUFFICES ASSUME NEW x, NEW y, NEW z PROVE <<x, y>> \o <<z>> = <<x, y, z>>
    OBVIOUS
<1> DEFINE s == <<x, y>> \o <<z>>
<1>1. /\ <<x, y>> \in Seq({x, y, z}) /\ <<z>> \in Seq({x, y, z})
      /\ Len(<<x, y>>) = 2 /\ Len(<<z>>) = 1
    OBVIOUS
<1>2. s \in Seq({x, y, z}) /\ Len(s) = 3 /\ s[1] = x /\ s[2] = y /\ s[3] = z
    BY <1>1, ConcatProperties
<1>3. <<x, y, z>> \in Seq({x, y, z}) /\ Len(<<x, y, z>>) = 3
    OBVIOUS
<1> HIDE DEF s
<1>4. \A i \in 1..3 : s[i] = <<x, y, z>>[i]
    BY <1>2
<1>5. s = <<x, y, z>>
    BY <1>2, <1>3, <1>4, SeqEqual
<1> QED
    BY <1>5 DEF s

LEMMA JoinTwoNone == \A x, y : <<x, y>> \o <<>> = <<x, y>>
<1> SUFFICES ASSUME NEW x, NEW y PROVE <<x, y>> \o <<>> = <<x, y>>
    OBVIOUS
<1>1. <<x, y>> \in Seq({x, y})
    OBVIOUS
<1> QED
    BY <1>1, ConcatEmptySeq

\* The layers of a configuration for shoes, from the inside out.
Inner(p) == [type |-> p.kind, cipher |-> IF p.kind = "vmess" THEN Cipher(p.security) ELSE ""]
Ws(p)    == Layer("websocket", p.host, p.path, "", "", "", FALSE)
Outer(p) == Secured(p)[1]

LEMMA SecuredIs ==
    ASSUME NEW p
    PROVE  /\ p.security = "reality" =>
                Secured(p) = <<Layer("reality", "", "", p.sni, p.pbk, OrElse(p.sid, ""), Vision(p))>>
           /\ p.security # "reality" /\ p.tls =>
                Secured(p) = <<Layer("tls", "", "", OrElse(p.sni, "the address"), "", "", Vision(p))>>
           /\ p.security # "reality" /\ ~p.tls => Secured(p) = <<>>
    BY DEF Secured

\* Membership is a Boolean value.
LEMMA Decided == \A x, S : \E t \in BOOLEAN : t = (x \in S)
<1> SUFFICES ASSUME NEW x, NEW S PROVE \E t \in BOOLEAN : t = (x \in S)
    OBVIOUS
<1>1. CASE x \in S
  <2>1. TRUE \in BOOLEAN /\ TRUE = (x \in S)
    BY <1>1, Zenon
  <2> QED
    BY <2>1, Zenon
<1>2. CASE x \notin S
  <2>1. (x \in S) = FALSE
    BY <1>2
  <2>2. FALSE \in BOOLEAN
    OBVIOUS
  <2> QED
    BY <2>1, <2>2, Zenon
<1> QED
    BY <1>1, <1>2, Zenon

\* What the layer around a connection says.
LEMMA OuterIs ==
    ASSUME NEW p, NEW type, NEW sni, NEW pbk, NEW sid, NEW vision,
           Secured(p) = <<Layer(type, "", "", sni, pbk, sid, vision)>>
    PROVE  /\ Secured(p) # <<>> /\ Outer(p).type = type /\ Outer(p).sni = sni
           /\ Outer(p).pbk = pbk /\ Outer(p).sid = sid
<1>1. ASSUME NEW x, Secured(p) = <<x>> PROVE Outer(p) = x /\ Secured(p) # <<>>
  <2>1. <<x>>[1] = x /\ <<x>> # <<>>
    OBVIOUS
  <2> QED
    BY <1>1, <2>1, Zenon DEF Outer
<1>2. PICK x : x = Layer(type, "", "", sni, pbk, sid, vision)
    OBVIOUS
<1>3. x.type = type /\ x.sni = sni /\ x.pbk = pbk /\ x.sid = sid
    BY <1>2 DEF Layer
<1> QED
    BY <1>1, <1>2, <1>3

LEMMA SecuredOnce ==
    ASSUME NEW p
    PROVE  Secured(p) = <<>> \/ Secured(p) = <<Outer(p)>>
<1>1. \A x : <<x>>[1] = x
    OBVIOUS
<1>2. ASSUME NEW x, Secured(p) = <<x>> PROVE Secured(p) = <<Outer(p)>>
    BY <1>1, <1>2 DEF Outer
<1> QED
    BY <1>2, SecuredIs

LEMMA Shapes ==
    ASSUME NEW p, ~ShoesRefuses(p)
    PROVE  LET c == GenerateShoesConfig(p) IN
           /\ p.transport # "ws" /\ Secured(p) = <<>> => c = <<Inner(p)>>
           /\ p.transport = "ws" /\ Secured(p) = <<>> => c = <<Inner(p), Ws(p)>>
           /\ p.transport # "ws" /\ Secured(p) # <<>> => c = <<Inner(p), Outer(p)>>
           /\ p.transport = "ws" /\ Secured(p) # <<>> => c = <<Inner(p), Ws(p), Outer(p)>>
<1>1. Base(p) = <<Inner(p)>>
    BY DEF Base, Inner
<1>2. GenerateShoesConfig(p) = Base(p) \o Websocket(p) \o Secured(p)
    BY DEF GenerateShoesConfig
<1>3. ASSUME p.transport # "ws"
      PROVE  /\ Secured(p) = <<>> => GenerateShoesConfig(p) = <<Inner(p)>>
             /\ Secured(p) # <<>> => GenerateShoesConfig(p) = <<Inner(p), Outer(p)>>
  <2>1. Websocket(p) = <<>>
    BY <1>3 DEF Websocket
  <2>2. Base(p) \o Websocket(p) = <<Inner(p)>>
    BY <1>1, <2>1, JoinNone
  <2>3. GenerateShoesConfig(p) = <<Inner(p)>> \o Secured(p)
    BY <1>2, <2>2
  <2> QED
    BY <2>3, SecuredOnce, JoinNone, JoinTwo
<1>4. ASSUME p.transport = "ws"
      PROVE  /\ Secured(p) = <<>> => GenerateShoesConfig(p) = <<Inner(p), Ws(p)>>
             /\ Secured(p) # <<>> => GenerateShoesConfig(p) = <<Inner(p), Ws(p), Outer(p)>>
  <2>1. Websocket(p) = <<Ws(p)>>
    BY <1>4 DEF Websocket, Ws
  <2>2. Base(p) \o Websocket(p) = <<Inner(p), Ws(p)>>
    BY <1>1, <2>1, JoinTwo
  <2>3. GenerateShoesConfig(p) = <<Inner(p), Ws(p)>> \o Secured(p)
    BY <1>2, <2>2
  <2> QED
    BY <2>3, SecuredOnce, JoinTwoNone, JoinThree
<1> QED
    BY <1>3, <1>4

\* What is wanted of shoes, layer by layer: the protocol and what secures it,
FitsSecured(p, w) ==
    /\ p.kind = w.proto /\ p.kind \notin {"websocket", "tls", "reality"}
    /\ w.cipher \notin {"", "auto"} => Inner(p).cipher = w.cipher
    /\ Secured(p) = <<>> <=> w.within = "none"
    /\ Secured(p) # <<>> =>
          /\ Outer(p).type = w.within /\ w.within \in {"tls", "reality"}
          /\ w.sni # "" => Outer(p).sni = w.sni
          /\ w.within = "reality" => Outer(p).pbk = w.pbk /\ Outer(p).sid = w.sid

\* and what carries it.
FitsCarried(p, w) ==
    /\ w.over \in {"tcp", "ws"} /\ (w.over = "ws" <=> p.transport = "ws")
    /\ p.transport = "ws" =>
          NonEmpty(p.host, "") = w.host /\ NonEmpty(p.path, "") = w.path

LEMMA ShoesFits ==
    ASSUME NEW p, NEW w, ~ShoesRefuses(p), FitsSecured(p, w)
    PROVE  LET c == GenerateShoesConfig(p) IN
           /\ ShoesSpeaks(c, w) /\ ShoesSecures(c, w)
           /\ FitsCarried(p, w) => ShoesCarries(c, w)
<1>1. /\ Inner(p).type = w.proto /\ Inner(p).type \notin {"websocket", "tls", "reality"}
      /\ w.cipher \notin {"", "auto"} => Inner(p).cipher = w.cipher
    BY DEF Inner, FitsSecured
<1>2. Ws(p).type = "websocket" /\ Ws(p).host = p.host /\ Ws(p).path = p.path
    BY DEF Ws, Layer
<1>3. PICK c : c = GenerateShoesConfig(p)
    OBVIOUS
<1> DEFINE Serves == ShoesSpeaks(c, w) /\ ShoesSecures(c, w)
<1>4. CASE p.transport # "ws" /\ Secured(p) = <<>>
  <2>1. c = <<Inner(p)>>
    BY <1>3, <1>4, Shapes
  <2>2. DOMAIN c = {1} /\ c[1] = Inner(p)
    BY <2>1
  <2>3. Serves
    BY <1>1, <1>4, <2>2 DEF ShoesSpeaks, ShoesSecures, FitsSecured
  <2>4. FitsCarried(p, w) => ShoesCarries(c, w)
    BY <1>1, <1>4, <2>2 DEF ShoesCarries, FitsCarried
  <2> QED
    BY <1>3, <2>3, <2>4
<1>5. CASE p.transport = "ws" /\ Secured(p) = <<>>
  <2>1. c = <<Inner(p), Ws(p)>>
    BY <1>3, <1>5, Shapes
  <2>2. DOMAIN c = {1, 2} /\ c[1] = Inner(p) /\ c[2] = Ws(p)
    BY <2>1
  <2>3. Serves
    BY <1>1, <1>2, <1>5, <2>2 DEF ShoesSpeaks, ShoesSecures, FitsSecured
  <2>4. FitsCarried(p, w) => ShoesCarries(c, w)
    BY <1>1, <1>2, <1>5, <2>2 DEF ShoesCarries, FitsCarried
  <2> QED
    BY <1>3, <2>3, <2>4
<1>6. CASE p.transport # "ws" /\ Secured(p) # <<>>
  <2>1. c = <<Inner(p), Outer(p)>>
    BY <1>3, <1>6, Shapes
  <2>2. DOMAIN c = {1, 2} /\ c[1] = Inner(p) /\ c[2] = Outer(p) /\ Len(c) = 2
    BY <2>1
  <2>3. Serves
    BY <1>1, <1>6, <2>2 DEF ShoesSpeaks, ShoesSecures, FitsSecured
  <2>4. Outer(p).type # "websocket"
    BY <1>6 DEF FitsSecured
  <2>5. FitsCarried(p, w) => ShoesCarries(c, w)
    BY <1>1, <1>6, <2>2, <2>4 DEF ShoesCarries, FitsCarried
  <2> QED
    BY <1>3, <2>3, <2>5
<1>7. CASE p.transport = "ws" /\ Secured(p) # <<>>
  <2>1. c = <<Inner(p), Ws(p), Outer(p)>>
    BY <1>3, <1>7, Shapes
  <2>2. /\ DOMAIN c = {1, 2, 3} /\ c[1] = Inner(p) /\ c[2] = Ws(p) /\ c[3] = Outer(p)
        /\ Len(c) = 3
    BY <2>1
  <2>3. Outer(p).type \in {"tls", "reality"}
    BY <1>7 DEF FitsSecured
  <2>4. /\ {i \in DOMAIN c : c[i].type = "websocket"} = {2}
        /\ {i \in DOMAIN c : c[i].type \in {"tls", "reality"}} = {3}
    BY <1>1, <1>2, <2>2, <2>3
  <2>5. /\ c[1].type = w.proto /\ (w.cipher \notin {"", "auto"} => c[1].cipher = w.cipher)
        /\ w.within # "none" /\ c[3].type = w.within /\ (w.sni # "" => c[3].sni = w.sni)
        /\ w.within = "reality" => c[3].pbk = w.pbk /\ c[3].sid = w.sid
    BY <1>1, <1>2, <1>7, <2>2 DEF FitsSecured
  <2>6. Serves
    BY <2>2, <2>4, <2>5 DEF ShoesSpeaks, ShoesSecures
  <2>7. ASSUME FitsCarried(p, w) PROVE ShoesCarries(c, w)
    <3>1. w.over = "ws" /\ NonEmpty(p.host, "") = w.host /\ NonEmpty(p.path, "") = w.path
      BY <1>7, <2>7 DEF FitsCarried
    <3>2. NonEmpty(c[2].host, "") = w.host /\ NonEmpty(c[2].path, "") = w.path
      BY <1>2, <2>2, <3>1
    <3> QED
      BY <2>4, <3>1, <3>2 DEF ShoesCarries
  <2> QED
    BY <1>3, <2>6, <2>7
<1> QED
    BY <1>4, <1>5, <1>6, <1>7

LEMMA CipherIs ==
    /\ \A s : s \in {"", "auto"} => Cipher(s) = "chacha20-poly1305"
    /\ \A s : s \notin {"", "auto"} => Cipher(s) = s \/ Cipher(s) = "unsupported"
    BY DEF Cipher

\* An empty value that was left out stays out.
LEMMA Blank == \A v : NonEmpty(NonEmpty(v, None), "") = NonEmpty(v, "")
    BY DEF NonEmpty, None

\* What is wanted of sing-box: the protocol, the transport, and what secures
\* the connection.
FitsSpoken(p, w) ==
    /\ p.tls \in BOOLEAN /\ p.kind = w.proto
    /\ w.cipher = IF p.kind = "vmess" THEN p.security ELSE ""

FitsOver(p, w) ==
    /\ HasTransport(p) => /\ p.transport = w.over /\ p.transport \notin {None, ""}
                          /\ NonEmpty(p.host, "") = w.host /\ NonEmpty(p.path, "") = w.path
    /\ ~HasTransport(p) => w.over = "tcp" /\ w.host = "" /\ w.path = ""

FitsTls(p, w) ==
    /\ p.tls => w.within = "tls" /\ NonEmpty(p.sni, "") = w.sni
    /\ ~p.tls => w.within = "none"

\* The parts of an outbound.
Over(t, u, h) == [type |-> t, path |-> u, host |-> h]
Tls(e, n)     == [enabled |-> e, server_name |-> n]

LEMMA TlsIs == \A e, n : Tls(e, n).enabled = e /\ Tls(e, n).server_name = n
    BY DEF Tls

LEMMA SingFits ==
    ASSUME NEW p, NEW w, FitsSpoken(p, w)
    PROVE  LET c == GenerateConfig(p)[1] IN
           /\ SingSpeaks(c, w)
           /\ FitsOver(p, w) => SingCarries(c, w)
           /\ FitsTls(p, w) => SingSecures(c, w)
<1>1. PICK c : c = GenerateConfig(p)[1]
    OBVIOUS
<1>2. /\ c.type = p.kind /\ c.security = (IF p.kind = "vmess" THEN p.security ELSE "")
      /\ c.transport = IF HasTransport(p) THEN Over(p.transport, p.path, p.host)
                                           ELSE Over(None, None, None)
      /\ c.tls = Tls(p.tls, IF p.tls THEN p.sni ELSE None)
    BY <1>1 DEF GenerateConfig, Over, Tls
<1>3. ASSUME FitsOver(p, w) PROVE SingCarries(c, w)
  <2>1. CASE HasTransport(p)
    <3>1. c.transport = Over(p.transport, p.path, p.host)
      BY <1>2, <2>1
    <3>2. PICK o : o = Over(p.transport, p.path, p.host)
      OBVIOUS
    <3>3. o.type = p.transport /\ o.host = p.host /\ o.path = p.path
      BY <3>2 DEF Over
    <3>4. /\ c.transport.type = p.transport
          /\ c.transport.host = p.host /\ c.transport.path = p.path
      BY <3>1, <3>2, <3>3, Zenon
    <3> QED
      BY <1>3, <2>1, <3>4 DEF FitsOver, SingCarries, NonEmpty
  <2>2. CASE ~HasTransport(p)
    <3>1. c.transport = Over(None, None, None)
      BY <1>2, <2>2
    <3>2. PICK o : o = Over(None, None, None)
      OBVIOUS
    <3>3. o.type = None /\ o.host = None /\ o.path = None
      BY <3>2 DEF Over
    <3>4. c.transport.type = None /\ c.transport.host = None /\ c.transport.path = None
      BY <3>1, <3>2, <3>3, Zenon
    <3> QED
      BY <1>3, <2>2, <3>4 DEF FitsOver, SingCarries, NonEmpty
  <2> QED
    BY <2>1, <2>2
<1>4. ASSUME FitsTls(p, w) PROVE SingSecures(c, w)
  <2>1. c.tls.enabled = p.tls /\ c.tls.server_name = IF p.tls THEN p.sni ELSE None
    <3>1. PICK n : n = IF p.tls THEN p.sni ELSE None
      OBVIOUS
    <3>2. c.tls = Tls(p.tls, n)
      BY <1>2, <3>1
    <3>3. Tls(p.tls, n).enabled = p.tls /\ Tls(p.tls, n).server_name = n
      BY TlsIs
    <3>4. c.tls.enabled = p.tls /\ c.tls.server_name = n
      BY <3>2, <3>3, Zenon
    <3> QED
      BY <3>1, <3>4
  <2>2. CASE p.tls = TRUE
    BY <1>4, <2>1, <2>2 DEF FitsTls, SingSecures, NonEmpty
  <2>3. CASE p.tls = FALSE
    BY <1>4, <2>1, <2>3 DEF FitsTls, SingSecures, NonEmpty
  <2> QED
    BY <2>2, <2>3 DEF FitsSpoken
<1>5. SingSpeaks(c, w)
    BY <1>2 DEF SingSpeaks, FitsSpoken
<1> QED
    BY <1>1, <1>3, <1>4, <1>5

\* What the two cores owe a link of which a parser made the profile p.
Owed(p, l) ==
    LET w == Wanted(l) IN
    /\ FitsSpoken(p, w)
    /\ ~LosesTransport(l) => FitsOver(p, w)
    /\ ~LosesReality(l) => FitsTls(p, w)
    /\ ~ShoesRefuses(p) =>
          FitsSecured(p, w) /\ (~LosesTransport(l) => FitsCarried(p, w))

LEMMA VmessServed ==
    ASSUME NEW l, l.scheme = "vmess", ParseShareUrl(l) # Refused
    PROVE  Owed(ParseShareUrl(l), l)
<1>1. PICK p : p = ParseShareUrl(l)
    OBVIOUS
<1>2. PICK w : w = Wanted(l)
    OBVIOUS
<1>3. PICK t \in BOOLEAN : t = (l.tls \in {"tls", "1"})
    BY Decided, Zenon
<1>4. p = [kind |-> "vmess", security |-> NonEmpty(l.security, "auto"),
           transport |-> NonEmpty(l.type, "tcp"),
           host |-> NonEmpty(l.host, None), path |-> NonEmpty(l.path, None),
           tls |-> t, sni |-> NonEmpty(l.sni, None), pbk |-> None, sid |-> None]
    BY <1>1, <1>3, VmessProfile, Zenon
<1>5. NonEmpty(l.type, "tcp") \in Transports
    BY VmessProfile
<1>6. /\ w.proto = "vmess" /\ w.cipher = NonEmpty(l.security, "auto")
      /\ w.over = NonEmpty(l.type, "tcp")
      /\ w.host = (IF NonEmpty(l.type, "tcp") = "tcp" THEN "" ELSE NonEmpty(l.host, ""))
      /\ w.path = (IF NonEmpty(l.type, "tcp") = "tcp" THEN "" ELSE NonEmpty(l.path, ""))
      /\ w.sni = NonEmpty(l.sni, "")
    BY <1>2 DEF Wanted
<1>7. w.within = IF t THEN "tls" ELSE "none"
    BY <1>2, <1>3 DEF Wanted
<1>8. /\ NonEmpty(p.host, "") = NonEmpty(l.host, "")
      /\ NonEmpty(p.path, "") = NonEmpty(l.path, "")
      /\ NonEmpty(p.sni, "") = NonEmpty(l.sni, "")
    BY <1>4, Blank
<1>9. FitsOver(p, w)
    BY <1>4, <1>5, <1>6, <1>8 DEF FitsOver, HasTransport, Transports, None
<1>10. FitsTls(p, w)
    BY <1>4, <1>6, <1>7, <1>8 DEF FitsTls
<1>11. ASSUME ~ShoesRefuses(p) PROVE FitsSecured(p, w) /\ FitsCarried(p, w)
  <2>1. FitsCarried(p, w)
    BY <1>4, <1>5, <1>6, <1>8, <1>11 DEF ShoesRefuses, Transports, FitsCarried
  <2>2. w.cipher \notin {"", "auto"} => Inner(p).cipher = w.cipher
    BY <1>4, <1>6, <1>11, CipherIs DEF ShoesRefuses, Inner
  <2>3. NonEmpty(l.security, "auto") = "reality" => Cipher(p.security) = "unsupported"
    BY <1>4 DEF Cipher
  <2>4. p.security # "reality"
    BY <1>4, <1>11, <2>3 DEF ShoesRefuses
  <2>5. CASE t
    <3>1. Secured(p) = <<Layer("tls", "", "", OrElse(p.sni, "the address"), "", "", Vision(p))>>
      BY <1>4, <2>4, <2>5, SecuredIs
    <3>2. Secured(p) # <<>> /\ Outer(p).type = "tls" /\ Outer(p).sni = OrElse(p.sni, "the address")
      BY <3>1, OuterIs
    <3>3. w.sni # "" => Outer(p).sni = w.sni
      BY <1>4, <1>6, <3>2 DEF NonEmpty, OrElse, None
    <3> QED
      BY <1>4, <1>6, <1>7, <2>1, <2>2, <2>5, <3>2, <3>3 DEF FitsSecured
  <2>6. CASE ~t
    <3>1. Secured(p) = <<>>
      BY <1>4, <2>4, <2>6, SecuredIs
    <3> QED
      BY <1>4, <1>6, <1>7, <2>1, <2>2, <2>6, <3>1 DEF FitsSecured
  <2> QED
    BY <2>5, <2>6
<1>12. FitsSpoken(p, w)
    BY <1>4, <1>6 DEF FitsSpoken
<1> QED
    BY <1>1, <1>2, <1>9, <1>10, <1>11, <1>12 DEF Owed

LEMMA VlessServed ==
    ASSUME NEW l, l.scheme = "vless", ParseShareUrl(l) # Refused
    PROVE  Owed(ParseShareUrl(l), l)
<1>1. PICK p : p = ParseShareUrl(l)
    OBVIOUS
<1>2. PICK w : w = Wanted(l)
    OBVIOUS
<1>3. PICK t \in BOOLEAN : t = (OrElse(l.security, "none") # "none")
    OBVIOUS
<1>4. p = [kind |-> "vless", security |-> OrElse(l.security, "none"),
           transport |-> OrElse(l.type, "tcp"), host |-> l.host, path |-> l.path,
           tls |-> t, sni |-> l.sni, pbk |-> l.pbk, sid |-> l.sid]
    BY <1>1, <1>3, VlessProfile, Zenon
<1>5. OrElse(l.type, "tcp") \in Transports /\ OrElse(l.security, "none") \in {"none", "tls", "reality"}
    BY VlessProfile
<1>6. /\ NonEmpty(l.type, "tcp") = OrElse(l.type, "tcp")
      /\ NonEmpty(l.security, "none") = OrElse(l.security, "none")
    BY <1>5 DEF NonEmpty, OrElse, Transports
<1>7. /\ w.proto = "vless" /\ w.cipher = "" /\ w.over = OrElse(l.type, "tcp")
      /\ w.host = (IF OrElse(l.type, "tcp") = "tcp" THEN "" ELSE NonEmpty(l.host, ""))
      /\ w.path = (IF OrElse(l.type, "tcp") = "tcp" THEN "" ELSE NonEmpty(l.path, ""))
      /\ w.sni = NonEmpty(l.sni, "")
      /\ w.pbk = NonEmpty(l.pbk, "") /\ w.sid = NonEmpty(l.sid, "")
    BY <1>2, <1>6 DEF Wanted
<1>8. w.within = OrElse(l.security, "none")
    BY <1>2, <1>6 DEF Wanted
<1>9. FitsOver(p, w)
    BY <1>4, <1>5, <1>7 DEF FitsOver, HasTransport, Transports, None
<1>10. ~LosesReality(l) => FitsTls(p, w)
    BY <1>2, <1>3, <1>4, <1>5, <1>7, <1>8 DEF FitsTls, LosesReality
<1>11. ASSUME ~ShoesRefuses(p) PROVE FitsSecured(p, w) /\ FitsCarried(p, w)
  <2>1. FitsCarried(p, w)
    BY <1>4, <1>5, <1>7, <1>11 DEF ShoesRefuses, Transports, FitsCarried
  <2>2. CASE OrElse(l.security, "none") = "reality"
    <3>1. Secured(p) = <<Layer("reality", "", "", p.sni, p.pbk, OrElse(p.sid, ""), Vision(p))>>
      BY <1>4, <2>2, SecuredIs
    <3>2. /\ Secured(p) # <<>> /\ Outer(p).type = "reality" /\ Outer(p).sni = p.sni
          /\ Outer(p).pbk = p.pbk /\ Outer(p).sid = OrElse(p.sid, "")
      BY <3>1, OuterIs
    <3>3. p.pbk # None /\ p.sni # None
      BY <1>4, <1>11, <2>2 DEF ShoesRefuses
    <3>4. /\ w.sni # "" => Outer(p).sni = w.sni
          /\ Outer(p).pbk = w.pbk /\ Outer(p).sid = w.sid
      BY <1>4, <1>7, <3>2, <3>3 DEF NonEmpty, OrElse
    <3> QED
      BY <1>4, <1>7, <1>8, <2>1, <2>2, <3>2, <3>4 DEF FitsSecured
  <2>3. CASE OrElse(l.security, "none") = "tls"
    <3>1. Secured(p) = <<Layer("tls", "", "", OrElse(p.sni, "the address"), "", "", Vision(p))>>
      BY <1>3, <1>4, <2>3, SecuredIs
    <3>2. Secured(p) # <<>> /\ Outer(p).type = "tls" /\ Outer(p).sni = OrElse(p.sni, "the address")
      BY <3>1, OuterIs
    <3>3. w.sni # "" => Outer(p).sni = w.sni
      BY <1>4, <1>7, <3>2 DEF NonEmpty, OrElse
    <3> QED
      BY <1>4, <1>7, <1>8, <2>1, <2>3, <3>2, <3>3 DEF FitsSecured
  <2>4. CASE OrElse(l.security, "none") = "none"
    <3>1. Secured(p) = <<>>
      BY <1>3, <1>4, <2>4, SecuredIs
    <3> QED
      BY <1>4, <1>7, <1>8, <2>1, <2>4, <3>1 DEF FitsSecured
  <2> QED
    BY <1>5, <2>2, <2>3, <2>4
<1>12. FitsSpoken(p, w)
    BY <1>4, <1>7 DEF FitsSpoken
<1> QED
    BY <1>1, <1>2, <1>9, <1>10, <1>11, <1>12 DEF Owed

LEMMA ShadowsocksServed ==
    ASSUME NEW l, l.scheme = "ss", ParseShareUrl(l) # Refused
    PROVE  Owed(ParseShareUrl(l), l)
<1>1. PICK p : p = ParseShareUrl(l)
    OBVIOUS
<1>2. PICK w : w = Wanted(l)
    OBVIOUS
<1>3. p = [kind |-> "shadowsocks", security |-> "", transport |-> "", host |-> None,
           path |-> None, tls |-> FALSE, sni |-> None, pbk |-> None, sid |-> None]
    BY <1>1, ShadowsocksProfile
<1>4. /\ w.proto = "shadowsocks" /\ w.cipher = "" /\ w.within = "none"
      /\ w.over = "tcp" => w.host = "" /\ w.path = ""
    BY <1>2 DEF Wanted
<1>5. ~LosesTransport(l) => w.over = "tcp"
    BY <1>2 DEF LosesTransport
<1>6. ~LosesTransport(l) => FitsOver(p, w) /\ FitsCarried(p, w)
    BY <1>3, <1>4, <1>5 DEF FitsOver, FitsCarried, HasTransport
<1>7. FitsTls(p, w)
    BY <1>3, <1>4 DEF FitsTls
<1>8. Secured(p) = <<>>
    BY <1>3, SecuredIs
<1>9. FitsSecured(p, w)
    BY <1>3, <1>4, <1>8 DEF FitsSecured
<1>10. FitsSpoken(p, w)
    BY <1>3, <1>4 DEF FitsSpoken
<1> QED
    BY <1>1, <1>2, <1>6, <1>7, <1>9, <1>10 DEF Owed

LEMMA TrojanServed ==
    ASSUME NEW l, l.scheme = "trojan", ParseShareUrl(l) # Refused
    PROVE  Owed(ParseShareUrl(l), l)
<1>1. PICK p : p = ParseShareUrl(l)
    OBVIOUS
<1>2. PICK w : w = Wanted(l)
    OBVIOUS
<1>3. p = [kind |-> "trojan", security |-> "tls", transport |-> "tcp", host |-> None,
           path |-> None, tls |-> TRUE, sni |-> l.sni, pbk |-> None, sid |-> None]
    BY <1>1, TrojanProfile
<1>4. NonEmpty(l.security, "tls") = "tls"
    BY TrojanProfile DEF NonEmpty, OrElse
<1>5. /\ w.proto = "trojan" /\ w.cipher = "" /\ w.sni = NonEmpty(l.sni, "")
      /\ w.over = "tcp" => w.host = "" /\ w.path = ""
    BY <1>2 DEF Wanted
<1>6. w.within = "tls"
    BY <1>2, <1>4 DEF Wanted
<1>7. ~LosesTransport(l) => w.over = "tcp"
    BY <1>2 DEF LosesTransport
<1>8. ~LosesTransport(l) => FitsOver(p, w) /\ FitsCarried(p, w)
    BY <1>3, <1>5, <1>7 DEF FitsOver, FitsCarried, HasTransport
<1>9. FitsTls(p, w)
    BY <1>3, <1>5, <1>6 DEF FitsTls
<1>10. Secured(p) = <<Layer("tls", "", "", OrElse(p.sni, "the address"), "", "", Vision(p))>>
    BY <1>3, SecuredIs
<1>11. Secured(p) # <<>> /\ Outer(p).type = "tls" /\ Outer(p).sni = OrElse(p.sni, "the address")
    BY <1>10, OuterIs
<1>12. w.sni # "" => Outer(p).sni = w.sni
    BY <1>3, <1>5, <1>11 DEF NonEmpty, OrElse
<1>13. FitsSecured(p, w)
    BY <1>3, <1>5, <1>6, <1>11, <1>12 DEF FitsSecured
<1>14. FitsSpoken(p, w)
    BY <1>3, <1>5 DEF FitsSpoken
<1> QED
    BY <1>1, <1>2, <1>8, <1>9, <1>13, <1>14 DEF Owed

\* The profile and the configurations are those of the link.
FromLink ==
    \/ profile = Unread
    \/ profile = Refused
    \/ /\ profile = ParseShareUrl(link) /\ profile # Refused
       /\ config = [c \in Cores |-> Generate(c, profile)]

LEMMA FromLinkHolds == LinkSpec => []FromLink
<1>1. LinkInit => FromLink
    BY DEF LinkInit, FromLink
<1>2. FromLink /\ [ImportProfile]_linkVars => FromLink'
    BY DEF FromLink, ImportProfile, linkVars
<1> QED
    BY <1>1, <1>2, PTL DEF LinkSpec

\* parse_share_url, generate_config, generate_shoes_config: a core that is
\* listed as compatible with a profile speaks the protocol the link asks for,
\* over its transport and secured as it says, except for the transport of Trojan
\* and Shadowsocks links, which is lost, and for REALITY with sing-box.
THEOREM LinksServed == LinkSpec => []CoresServe
<1>1. FromLink => CoresServe
  <2> SUFFICES ASSUME FromLink, Taken PROVE CoresServe
    BY DEF CoresServe
  <2>1. /\ profile = ParseShareUrl(link) /\ ParseShareUrl(link) # Refused
        /\ config["shoes"] = GenerateShoesConfig(profile)
        /\ config["sing-box"] = GenerateConfig(profile)
    BY DEF FromLink, Taken, Unread, Refused, Cores, Generate
  <2>2. Owed(profile, link)
    BY <2>1, KnownScheme, VmessServed, VlessServed, ShadowsocksServed, TrojanServed
  <2>3. LET c == config["sing-box"][1]  w == Wanted(link) IN
        /\ SingSpeaks(c, w)
        /\ ~LosesTransport(link) => SingCarries(c, w)
        /\ ~LosesReality(link) => SingSecures(c, w)
    <3>1. PICK w : w = Wanted(link)
      OBVIOUS
    <3>2. /\ FitsSpoken(profile, w)
          /\ ~LosesTransport(link) => FitsOver(profile, w)
          /\ ~LosesReality(link) => FitsTls(profile, w)
      BY <2>2, <3>1 DEF Owed
    <3>3. LET c == GenerateConfig(profile)[1] IN
          /\ SingSpeaks(c, w)
          /\ FitsOver(profile, w) => SingCarries(c, w)
          /\ FitsTls(profile, w) => SingSecures(c, w)
      BY <3>2, SingFits
    <3> QED
      BY <2>1, <3>1, <3>2, <3>3
  <2>4. "shoes" \in CompatibleCores => ~ShoesRefuses(profile)
    BY <2>1 DEF CompatibleCores, GenerateShoesConfig
  <2>5. LET c == config["shoes"]  w == Wanted(link) IN
        "shoes" \in CompatibleCores =>
          /\ ShoesSpeaks(c, w) /\ ShoesSecures(c, w)
          /\ ~LosesTransport(link) => ShoesCarries(c, w)
    BY <2>1, <2>2, <2>4, ShoesFits DEF Owed
  <2> QED
    BY <2>3, <2>5 DEF CoresServe
<1> QED
    BY <1>1, FromLinkHolds, PTL
===============================================================================
