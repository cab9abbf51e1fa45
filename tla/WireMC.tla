------------------------------- MODULE WireMC -------------------------------
(***************************************************************************)
(* A stream of two series and a trace of two spans, times up to nine       *)
(* nanoseconds, two to the millisecond, numbers exact up to four.          *)
(***************************************************************************)
EXTENDS Wire

Is(op, v) == [type |-> "condition", op |-> op, value |-> v]
All(op, children) == [type |-> "group", operator |-> op, children |-> children]
Operators == {"AND", "OR"}
MCQueryTrees ==
  {<<c>> : c \in Condition} \cup {<<All(o, {})>> : o \in Operators}
  \cup {<<c, d, All(o, {1, 2})>> : c, d \in Condition, o \in Operators}
  \cup {<<c, d, e, All(o, {2, 3}), All(p, {1, 4})>> :
           c \in Condition, d, e \in {Is("=", v) : v \in Resources}, o, p \in Operators}
  \cup {<<c, All("AND", {}), All("OR", {2}), All(o, {1, 3})>> : c \in Condition, o \in Operators}

\* Beyond Exact, a power of two here, the gap between doubles is two, and it is
\* twice as wide after each doubling; a tie goes to the even one.
MCNumber(n) ==
  LET gap  == CHOOSE g \in {2 ^ j : j \in 1 .. n} : (g \div 2) * Exact < n /\ n <= g * Exact
      over == n % gap
  IN IF n <= Exact THEN n
     ELSE IF 2 * over < gap \/ (2 * over = gap /\ (n \div gap) % 2 = 0) THEN n - over
     ELSE n - over + gap

MCSeries == {1, 2}
MCSpans == {1, 2}
MCResources == {1, 2}
MCReadingTimes == {2, 3}
MCSpanTimes == {0, 1, 5, 9}
=============================================================================
