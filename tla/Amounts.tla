------------------------------ MODULE Amounts ------------------------------
(* Sums and fractions, for the modules of the analysis engine.              *)
EXTENDS Integers, Functions

CONSTANT None   \* the null of the nullable columns and of the results

Total(f, S) == SumFunctionOnSet(f, S)
Least(S)    == CHOOSE x \in S : \A y \in S : x <= y
Largest(S)  == CHOOSE x \in S : \A y \in S : x >= y
Smaller(x, y) == IF x < y THEN x ELSE y
Positive(x)   == IF x > 0 THEN x ELSE 0

\* Decimal arithmetic, unrounded (formula-spec 2.2): a fraction whose
\* denominator is positive.
Whole(n)     == [num |-> n, den |-> 1]
Plus(f, g)   == [num |-> f.num * g.den + g.num * f.den, den |-> f.den * g.den]
Times(n, f)  == [num |-> n * f.num, den |-> f.den]
Over(f, n)   == IF n > 0 THEN [num |-> f.num, den |-> f.den * n]
                         ELSE [num |-> -f.num, den |-> f.den * (-n)]
AtMost(f, g) == f.num * g.den <= g.num * f.den
=============================================================================
