----------------------------- MODULE CronSchedule -----------------------------
(***************************************************************************)
(* CronSchedule (core/): five fields, each a set of accepted values, and    *)
(* the first minute after a given one that all five accept.  A time is the  *)
(* number of its minute since 1970 in UTC.                                  *)
(***************************************************************************)
EXTENDS Integers

CONSTANT SearchLimit   \* kSearchLimit, in minutes

ASSUME CronAssumption == SearchLimit \in Nat

Fields == 1..5         \* minute, hour, day of month, month, day of week
FieldMinimum == <<0, 0, 1, 1, 0>>
FieldMaximum == <<59, 23, 31, 12, 6>>
FieldRange(i) == FieldMinimum[i]..FieldMaximum[i]

\* What a field of the expression may be once it is read: '*', '*/N', or a
\* number.  Any other text is rejected like a number out of range.
FieldText == [form : {"any"}, n : {0}] \cup [form : {"step", "number"}, n : Nat]

Every == [form |-> "any", n |-> 0]
Step(n) == [form |-> "step", n |-> n]
Number(n) == [form |-> "number", n |-> n]

\* The accepted values; {} stands for std::invalid_argument, since a field that
\* is valid accepts something.  A step counts from the field's minimum.
ParseField(i, text) ==
  CASE text.form = "any" -> FieldRange(i)
    [] text.form = "step" ->
         IF text.n \in 1..(FieldMaximum[i] - FieldMinimum[i] + 1)
         THEN {v \in FieldRange(i) : (v - FieldMinimum[i]) % text.n = 0} ELSE {}
    [] text.form = "number" -> FieldRange(i) \cap {text.n}

Parse(expression) == [i \in Fields |-> ParseField(i, expression[i])]

ValidSchedule(schedule) == \A i \in Fields : schedule[i] # {}

\* gmtime_r: the fields of a minute, by the proleptic Gregorian calendar, with
\* years that begin in March.
UtcParts(t) ==
  LET day == t \div 1440
      z == day + 719468
      doe == z % 146097                      \* day of the 400-year era
      yoe == (doe - doe \div 1460 + doe \div 36524 - doe \div 146096) \div 365
      doy == doe - (365 * yoe + yoe \div 4 - yoe \div 100)
      mp == (5 * doy + 2) \div 153           \* month, March being 0
  IN  <<t % 60, (t \div 60) % 24,
        doy - (153 * mp + 2) \div 5 + 1,
        IF mp < 10 THEN mp + 3 ELSE mp - 9,
        (day + 4) % 7>>

\* All five fields: a day has to be right by month and by week.
Matches(schedule, t) == LET parts == UtcParts(t) IN
  \A i \in Fields : parts[i] \in schedule[i]

NoSlot == -1           \* std::nullopt

\* Mutant: the next minute is passed over.
NextAfterLate(schedule, t) ==
  IF \E u \in (t + 2)..(t + 1 + SearchLimit) : Matches(schedule, u)
  THEN CHOOSE u \in (t + 2)..(t + 1 + SearchLimit) :
         Matches(schedule, u) /\ \A v \in (t + 2)..(u - 1) : ~Matches(schedule, v)
  ELSE NoSlot

\* The first matching minute strictly after t, if it comes within the limit.
NextAfter(schedule, t) ==
  IF \E u \in (t + 1)..(t + 1 + SearchLimit) : Matches(schedule, u)
  THEN CHOOSE u \in (t + 1)..(t + 1 + SearchLimit) :
         Matches(schedule, u) /\ \A v \in (t + 1)..(u - 1) : ~Matches(schedule, v)
  ELSE NoSlot
=============================================================================
