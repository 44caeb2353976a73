------------------------------ MODULE PassAtK ------------------------------
(***************************************************************************)
(* estimate_pass_at_k in human_eval/evaluation.py: the chance that k of    *)
(* the n completions of a problem, c of which passed, contain one that     *)
(* passed, and its mean over the problems.  The code multiplies the        *)
(* factors 1 - k / i in floating point; here each value is a fraction.     *)
(***************************************************************************)
EXTENDS Integers, FiniteSets, FiniteSetsExt

Fraction(num, den) == [num |-> num, den |-> den]
Plus(a, b)  == Fraction(a.num * b.den + b.num * a.den, a.den * b.den)
Equal(a, b) == a.num * b.den = b.num * a.den

\* Defect: the product starts one factor early.
FromTheLastFailure(n, c) == (n - c) .. n

\* np.arange(n - c + 1, n + 1)
Factors(n, c) == (n - c + 1) .. n

Estimator(n, c, k) ==
    IF n - c < k
    THEN Fraction(1, 1)
    ELSE LET den == ProductSet(Factors(n, c))
         IN  Fraction(den - ProductSet({i - k : i \in Factors(n, c)}), den)

\* .mean() of the estimates of a nonempty set of problems.
Mean(S, estimate) ==
    LET sum == MapThenFoldSet(Plus, Fraction(0, 1), LAMBDA s : estimate[s], LAMBDA T : CHOOSE t \in T : TRUE, S)
    IN  Fraction(sum.num, sum.den * Cardinality(S))

-----------------------------------------------------------------------------
(* What it is meant to be: "1 - comb(n - c, k) / comb(n, k)" *)

\* The share of the draws of k of n completions that contain one of the c correct.
ShareOfDraws(n, c, k) ==
    LET draws == kSubset(k, 1 .. n)
    IN  Fraction(Cardinality({S \in draws : S \intersect (1 .. c) # {}}), Cardinality(draws))
=============================================================================
