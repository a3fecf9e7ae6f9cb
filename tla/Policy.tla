------------------------------- MODULE Policy -------------------------------
(***************************************************************************)
(* policy.py: the rate limit of one dump kind, TriggerBudget, as operators *)
(* on its three fields.  The class is plain memory: it reads and writes    *)
(* nothing else.                                                           *)
(***************************************************************************)
EXTENDS Integers

CONSTANT DayLen   \* length of a UTC day, in clock units

ASSUME DayLenAssumption == DayLen \in Nat \ {0}

Never == -1       \* no time and no day yet

Day(t) == t \div DayLen

Budget == [last: Nat \union {Never}, day: Nat \union {Never}, count: Nat]

NewBudget == [last |-> Never, day |-> Never, count |-> 0]

TooSoon(b, spacing, t) == b.last # Never /\ t - b.last < spacing

DayFull(b, dailyMax, t) == Day(t) = b.day /\ b.count >= dailyMax

\* check(now) returns a reason to refuse.
Refuses(b, spacing, dailyMax, t) ==
  TooSoon(b, spacing, t) \/ DayFull(b, dailyMax, t)

\* record(now): a new day starts a new count.
Record(b, t) ==
  [last |-> t, day |-> Day(t),
   count |-> IF Day(t) = b.day THEN b.count + 1 ELSE 1]

=============================================================================
