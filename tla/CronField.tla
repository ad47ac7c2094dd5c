------------------------------- MODULE CronField -------------------------------
(***************************************************************************)
(* One field of a crontab expression (parse_field of src/cron.rs): a list  *)
(* of items, each a star, one value or a range, with or without a step.    *)
(* The list is a set, since the mask it becomes is the union of its items. *)
(* Characters and the names of months and days are left out: a name is its *)
(* number.                                                                 *)
(***************************************************************************)
EXTENDS Integers

Items == [form : {"any", "one", "span"}, lo : Nat, hi : Nat,
          slash : BOOLEAN, step : Nat]

Any == [form |-> "any", lo |-> 0, hi |-> 0, slash |-> FALSE, step |-> 1]
One(v) == [Any EXCEPT !.form = "one", !.lo = v]
Span(lo, hi) == [Any EXCEPT !.form = "span", !.lo = lo, !.hi = hi]
By(item, step) == [item EXCEPT !.slash = TRUE, !.step = step]

\* The step the parser works with: 1 when none is written.
StepOf(item) == IF item.slash THEN item.step ELSE 1

Accepts(item, min, max) ==
    /\ StepOf(item) >= 1
    /\ item.form # "any" => item.lo \in min..max
    /\ item.form = "span" => item.hi \in min..max /\ item.lo <= item.hi

First(item, min) == IF item.form = "any" THEN min ELSE item.lo

\* One value runs to the end of the range when its step is above 1.
Last(item, max) ==
    CASE item.form = "any" -> max
      [] item.form = "span" -> item.hi
      [] item.form = "one" -> IF StepOf(item) > 1 THEN max ELSE item.lo

Walk(item, min, max) ==
    {v \in First(item, min)..Last(item, max) :
        (v - First(item, min)) % StepOf(item) = 0}

Legal(field, min, max) ==
    field # {} /\ \A item \in field : Accepts(item, min, max)

Mask(field, min, max) == UNION {Walk(item, min, max) : item \in field}

-----------------------------------------------------------------------------
\* The reading of a field that the head of src/cron.rs and the comments of
\* parse_field describe.

Names(item, v, min) ==
    CASE item.form = "any" -> (v - min) % StepOf(item) = 0
      [] item.form = "span" ->
            v \in item.lo..item.hi /\ (v - item.lo) % StepOf(item) = 0
      [] item.form = "one" ->
            IF item.slash
              THEN v >= item.lo /\ (v - item.lo) % item.step = 0
              ELSE v = item.lo

Written(field, v, min) == \E item \in field : Names(item, v, min)

\* A step of one behind a single value, which the parser takes for no step.
ByOne(item) == item.form = "one" /\ item.slash /\ item.step = 1
===============================================================================
