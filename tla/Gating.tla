------------------------------- MODULE Gating -------------------------------
(***************************************************************************)
(* The statistical gate of tools/gating.py: what a history of calibration  *)
(* cycles says of one weight version.                                      *)
(*                                                                         *)
(* A metric of a cycle is an estimate with a confidence interval around    *)
(* it, or not estimable (too few resolved trades).  How it is computed is  *)
(* left out; that the estimate lies within its interval is what wilson_ci, *)
(* auc_with_ci and pearson_ci all guarantee.                               *)
(***************************************************************************)
EXTENDS Integers

CONSTANTS
    GATED_METRICS,  \* win rate, confidence AUC, correlation of confidence and R
    Estimates       \* bound: the values an estimate and its interval are made of

ASSUME GatingAssumption == Estimates \subseteq Int

Empty == [estimable |-> FALSE, value |-> 0, ci_low |-> 0, ci_high |-> 0]

Stat == {Empty} \cup
    {s \in [estimable : {TRUE}, value : Estimates, ci_low : Estimates, ci_high : Estimates] :
         s.ci_low <= s.value /\ s.value <= s.ci_high}

IntervalsOverlap(a, b) == a.ci_low <= b.ci_high /\ b.ci_low <= a.ci_high

Direction(a, b) ==
    IF b.value > a.value THEN "up" ELSE IF b.value < a.value THEN "down" ELSE "flat"

\* Mutant: the point estimates are compared, whatever their intervals.
MovedByValue(a, b) == IF ~ (a.estimable /\ b.estimable) THEN "none" ELSE Direction(a, b)

\* Intervals that overlap say that nothing has changed.
Moved(a, b) ==
    IF ~ (a.estimable /\ b.estimable) \/ IntervalsOverlap(a, b) THEN "none" ELSE Direction(a, b)

(***************************************************************************)
(* The last three cycles that have the version, <<oldest, ..., latest>>:   *)
(* MIN_PERSISTENCE (2) pairs.  Each is a function from the gated metrics   *)
(* to their estimates.                                                     *)
(***************************************************************************)

Earlier(h, m) == Moved(h[1][m], h[2][m])
Later(h, m) == Moved(h[2][m], h[3][m])

Contradicts(h, m) ==
    /\ Earlier(h, m) # "none" /\ Later(h, m) # "none"
    /\ Earlier(h, m) # Later(h, m)

Persists(h, m, way) == Earlier(h, m) = way /\ Later(h, m) = way

\* The metrics that moved one way, and only that way, over both pairs.
PersistentMoves(h, way) == {m \in GATED_METRICS : Persists(h, m, way)}

\* decide(), once there are three cycles.
Decide(h) ==
    IF \/ \E m \in GATED_METRICS : Contradicts(h, m)
       \/ /\ PersistentMoves(h, "down") # {}
          /\ PersistentMoves(h, "up") = {} /\ PersistentMoves(h, "flat") = {}
    THEN "ROLLBACK"
    ELSE IF PersistentMoves(h, "up") # {} /\ PersistentMoves(h, "down") = {}
    THEN "PROMOTE"
    ELSE "HOLD"

(***************************************************************************)
(* What a promotion rests on: over the three cycles some metric has risen  *)
(* clear of where it began, and none has fallen twice in a row.            *)
(***************************************************************************)

LiesAbove(a, b) == a.estimable /\ b.estimable /\ a.ci_low > b.ci_high

IsEvidence(h) ==
    /\ \E m \in GATED_METRICS : LiesAbove(h[3][m], h[1][m])
    /\ \A m \in GATED_METRICS : ~ (LiesAbove(h[1][m], h[2][m]) /\ LiesAbove(h[2][m], h[3][m]))
=============================================================================
