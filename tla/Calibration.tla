----------------------------- MODULE Calibration -----------------------------
(***************************************************************************)
(* The calibrator that turns a ranker's score into a probability of help:   *)
(* an isotonic regression fitted to (score, helpful) pairs by pooling       *)
(* adjacent violators, and the interpolation that serves it.                *)
(*                                                                         *)
(* The loop is modelled pass by pass.  Scores are integers and every real   *)
(* is a fraction, so that comparisons are exact.                           *)
(***************************************************************************)
EXTENDS Integers, Sequences

CONSTANTS
    MaxScore,     \* scores are 0 .. MaxScore
    MaxPoints     \* bound: training pairs

ASSUME CalibrationAssumption == MaxScore \in Nat /\ MaxPoints \in Nat

VARIABLES
    points,       \* the training pairs, sorted by score
    pools,        \* the blocks: sums of scores and outcomes, and weight
    pos           \* the index i of the loop, from 1

fitVars == <<points, pools, pos>>

Point == [x : 0 .. MaxScore, y : {0, 1}]

\* Fractions <<n, d>> with d > 0
Leq(a, b) == a[1] * b[2] <= b[1] * a[2]
Plus(a, b) == <<a[1] * b[2] + b[1] * a[2], a[2] * b[2]>>
Minus(a, b) == <<a[1] * b[2] - b[1] * a[2], a[2] * b[2]>>
Times(a, b) == <<a[1] * b[1], a[2] * b[2]>>
Over(a, b) == <<a[1] * b[2], a[2] * b[1]>>

X(pool) == <<pool.sumX, pool.w>>
Y(pool) == <<pool.sumY, pool.w>>

-----------------------------------------------------------------------------
(* fitIsotonic *)

Merged(a, b) == [sumX |-> a.sumX + b.sumX, sumY |-> a.sumY + b.sumY, w |-> a.w + b.w]

Violates(a, b) == ~Leq(Y(a), Y(b))

\* The merged block is compared with its left neighbour again (mutant: it is not)
StayPut(i) == i
StepBack(i) == IF i > 1 THEN i - 1 ELSE i

Fitted == pos >= Len(pools)

Pool ==
    /\ ~Fitted /\ Violates(pools[pos], pools[pos + 1])
    /\ pools' = SubSeq(pools, 1, pos - 1) \o <<Merged(pools[pos], pools[pos + 1])>>
                    \o SubSeq(pools, pos + 2, Len(pools))
    /\ pos' = StepBack(pos)
    /\ UNCHANGED points

Advance ==
    /\ ~Fitted /\ ~Violates(pools[pos], pools[pos + 1])
    /\ pos' = pos + 1
    /\ UNCHANGED <<points, pools>>

FitInit ==
    /\ points \in {s \in UNION {[1 .. n -> Point] : n \in 1 .. MaxPoints} :
                       \A i \in 1 .. Len(s) - 1 : s[i].x <= s[i + 1].x}
    /\ pools = [i \in DOMAIN points |-> [sumX |-> points[i].x, sumY |-> points[i].y, w |-> 1]]
    /\ pos = 1

FitNext == Pool \/ Advance

FitSpec == FitInit /\ [][FitNext]_fitVars

-----------------------------------------------------------------------------
(* predictIsotonic *)

\* The first pair of breakpoints around x
Around(x) == CHOOSE i \in 1 .. Len(pools) - 1 :
    /\ Leq(X(pools[i]), x) /\ Leq(x, X(pools[i + 1]))
    /\ \A j \in 1 .. i - 1 : ~Leq(x, X(pools[j + 1]))

\* (mutant: from the wrong end)
InterpolatedFromB(a, b, x) ==
    Plus(Y(b), Times(Over(Minus(x, X(a)), Minus(X(b), X(a))), Minus(Y(a), Y(b))))
Interpolated(a, b, x) ==
    IF Leq(X(b), X(a)) THEN Y(a)
    ELSE Plus(Y(a), Times(Over(Minus(x, X(a)), Minus(X(b), X(a))), Minus(Y(b), Y(a))))

Predict(x) ==
    IF Leq(x, X(pools[1])) THEN Y(pools[1])
    ELSE IF Leq(X(pools[Len(pools)]), x) THEN Y(pools[Len(pools)])
    ELSE LET i == Around(x) IN Interpolated(pools[i], pools[i + 1], x)

-----------------------------------------------------------------------------
(* Properties *)

FitTypeOK ==
    /\ points \in Seq(Point)
    /\ pools \in Seq([sumX : Nat, sumY : Nat, w : Nat \ {0}])
    /\ pos \in 1 .. Len(pools)

\* The block a training pair has ended up in, and the mean outcome of s .. t
Upto(k) == LET sum[i \in 0 .. k] == IF i = 0 THEN 0 ELSE sum[i - 1] + pools[i].w IN sum[k]
PoolOf(j) == CHOOSE k \in DOMAIN pools : Upto(k - 1) < j /\ j <= Upto(k)
Mean(s, t) == LET sum[i \in (s - 1) .. t] == IF i < s THEN 0 ELSE sum[i - 1] + points[i].y
              IN  <<sum[t], t - s + 1>>

\* The loop ends with the max-min formula of isotonic regression, position by
\* position of the sorted list: the value at each is the largest, over the starts
\* at or before it, of the least mean of a stretch that goes on to it or beyond.
\* Where all scores differ that is the isotonic regression of the pairs.  Among
\* pairs of one score the list keeps the order they were recorded in, and this
\* order counts: descending outcomes are averaged, ascending ones stay blocks of
\* their own, two values for one score (fitIsotonic of lifecycle/isotonic.ts, whose
\* comment at line 51 has all ties merged).
FitFollowsListOrder ==
    Fitted => \A j \in DOMAIN points :
        LET y == Y(pools[PoolOf(j)])
        IN  /\ \E s \in 1 .. j : \A t \in j .. Len(points) : Leq(y, Mean(s, t))
            /\ \A s \in 1 .. j : \E t \in j .. Len(points) : Leq(Mean(s, t), y)

\* A better score is never served a lower probability, ties in the scores of
\* neighbouring blocks included (predictIsotonic).
BetterScoreServesBetter ==
    Fitted => \A a, b \in 0 .. 2 * MaxScore : a <= b => Leq(Predict(<<a, 2>>), Predict(<<b, 2>>))

\* Merging shortens the list by a block and goes back by at most one, advancing
\* goes on by one: the while loop takes fewer than twice as many passes as there
\* are training pairs (fitIsotonic).
PassesLeft == 2 * Len(pools) - pos
PoolingEnds ==
    [][/\ PassesLeft \in Nat /\ PassesLeft' \in Nat
       /\ PassesLeft' < PassesLeft]_fitVars

=============================================================================
