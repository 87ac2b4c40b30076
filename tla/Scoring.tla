-------------------------------- MODULE Scoring --------------------------------
(***************************************************************************)
(* The arithmetic of ml/scoring that needs no session: fluency measures on *)
(* a scale of points, and the weighting of the four signals.               *)
(*                                                                         *)
(* Fractions are counted in thousandths and scores in tenths of a point,   *)
(* both rounded down.                                                      *)
(***************************************************************************)
EXTENDS Integers

CONSTANT Weights    \* SCORE_WEIGHT_*

Full == 1000        \* 100 points
Names == {"resume", "technical", "communication", "behavioral"}

\* applied() raises ScoringConfigError on anything else.
ASSUME WeightsAssumption ==
    Weights \in [Names -> Nat] /\ \E n \in Names : Weights[n] > 0

Lower(a, b) == IF a < b THEN a ELSE b
Positive(n) == IF n > 0 THEN n ELSE 0

\* _triangular_plateau over words per minute.
RateScore(rate) ==
    IF rate >= 240 THEN 0
    ELSE IF rate > 160 THEN (Full * (240 - rate)) \div 80
    ELSE (Full * Lower(rate, 110)) \div 110

\* _inverted_linear
Falling(value, full, zero) == (Full * Lower(Positive(zero - value), zero - full)) \div (zero - full)

\* score_fluency_arm
ArmScore(arm) ==
    (RateScore(arm.rate) + Falling(arm.pause, 400, 850) + Falling(arm.filler, 50, 200)) \div 3

\* The sum of f over the four signals.
Total(f) == f["resume"] + f["technical"] + f["communication"] + f["behavioral"]

\* Mutant of Composite: weights are taken for percentages.
CompositeOfPercents(signals) == Total([n \in Names |-> Weights[n] * signals[n]]) \div 100

\* Weights are normalised by their sum, whatever it is.
Composite(signals) ==
    Total([n \in Names |-> Weights[n] * signals[n]]) \div Total(Weights)
=============================================================================
