------------------------- MODULE ParameterProposal -------------------------
(***************************************************************************)
(* The numeric proposal engine of the library: candidates near the current *)
(* configuration are evaluated and gated, and those that remain wait for   *)
(* an approval.                                                            *)
(*                                                                         *)
(* Values are multiples of their step.  What an evaluation says of a       *)
(* configuration is fixed while the outcome data are: score is a           *)
(* variable that never changes.  R is counted in hundredths, as is the     *)
(* profit factor.  The search budget (250 candidates, 40 survivors) is out *)
(* of reach of the nine parameters that there are, four candidates each.   *)
(***************************************************************************)
EXTENDS Integers

CONSTANTS
    Parameters,   \* the mutable parameters
    ParameterSpec,\* minimum, maximum and the movement limits of each
    Regimes,      \* labels that outcomes are tagged with
    Unseen,       \* the average of a regime without outcomes
    Landscapes    \* bound: what the evaluator may say of the configurations

Specification == [minimum : Int, maximum : Int, max_absolute_change : Nat,
                  max_relative_change : Nat]   \* in percent

Bounds(n) == ParameterSpec[n].minimum .. ParameterSpec[n].maximum
ParameterSet ==
    {c \in [Parameters -> UNION {Bounds(n) : n \in Parameters}] :
         \A n \in Parameters : c[n] \in Bounds(n)}

\* No resolved outcome, or one that is incomplete: evaluate() raises.
Refused == [trades |-> 0]

\* The penalty is what drawdown, expected shortfall and turnover take off the
\* expectancy in the objective.
Evaluation == [trades : Nat \ {0}, expectancy_r : Int, profit_factor : Nat, penalty : Nat,
               by_regime : [Regimes -> Int \cup {Unseen}]]

ASSUME ProposalAssumption ==
    /\ ParameterSpec \in [Parameters -> Specification]
    /\ Landscapes \subseteq [ParameterSet -> {Refused} \cup Evaluation]

VARIABLES
    current,     \* the configuration that is live
    score,       \* what evaluate() returns for each configuration
    proposals,   \* proposals PENDING_APPROVAL: [values, parent]
    left,        \* history: configurations that were live before
    stale        \* history: a proposal was approved that had another parent

proposalVars == <<current, score, proposals, left, stale>>

Proposal == [values : ParameterSet, parent : ParameterSet]

ProposalTypeOK ==
    /\ current \in ParameterSet /\ left \subseteq ParameterSet
    /\ score \in [ParameterSet -> {Refused} \cup Evaluation]
    /\ proposals \subseteq Proposal /\ stale \in BOOLEAN

ProposalInit ==
    /\ score \in Landscapes /\ current \in ParameterSet
    /\ proposals = {} /\ left = {} /\ stale = FALSE

(***************************************************************************)
(* Candidates                                                              *)
(***************************************************************************)

Clamped(n, value) ==
    LET spec == ParameterSpec[n]
    IN  IF value < spec.minimum THEN spec.minimum
        ELSE IF value > spec.maximum THEN spec.maximum ELSE value

\* One parameter, by one step or two, within its bounds.
Candidates(c) ==
    {[c EXCEPT ![n] = Clamped(n, c[n] + d)] : n \in Parameters, d \in -2 .. 2} \ {c}

Distance(a, b) == IF a < b THEN b - a ELSE a - b
Size(a) == Distance(a, 0)

\* Relative to nothing there is no relative limit.
MovementOk(c, candidate) ==
    \A n \in Parameters :
        LET delta == Distance(c[n], candidate[n])
            spec == ParameterSpec[n]
        IN  /\ candidate[n] \in Bounds(n)
            /\ delta <= spec.max_absolute_change
            /\ c[n] # 0 => delta * 100 <= spec.max_relative_change * Size(c[n])

(***************************************************************************)
(* Gates                                                                   *)
(***************************************************************************)

MinimumTrades == 300
MinimumImprovement == 5
MinimumProfitFactor == 105

\* Mutant: the candidate need only be profitable itself.
StatisticalGateAlone(baseline, e) ==
    /\ e.trades >= MinimumTrades
    /\ e.expectancy_r >= MinimumImprovement
    /\ e.profit_factor >= MinimumProfitFactor

StatisticalGate(baseline, e) ==
    /\ e.trades >= MinimumTrades
    /\ e.expectancy_r - baseline.expectancy_r >= MinimumImprovement
    /\ e.profit_factor >= MinimumProfitFactor

\* A regime in which the baseline gains loses no more than a quarter of that.
RegimeGate(baseline, e) ==
    \A r \in Regimes : baseline.by_regime[r] # Unseen =>
        /\ e.by_regime[r] # Unseen
        /\ baseline.by_regime[r] > 0 =>
               4 * (baseline.by_regime[r] - e.by_regime[r]) <= baseline.by_regime[r]

Objective(e) == e.expectancy_r - e.penalty

\* The ratio of the worst neighbour to the candidate is at least 0.85.  Of a
\* negative objective the ratio grows as the neighbours get worse.
Robust(c) ==
    /\ Candidates(c) # {} /\ Objective(score[c]) # 0
    /\ IF Objective(score[c]) > 0
       THEN \A d \in Candidates(c) : 100 * Objective(score[d]) >= 85 * Objective(score[c])
       ELSE \E d \in Candidates(c) : 100 * Objective(score[d]) <= 85 * Objective(score[c])

(***************************************************************************)
(* A search                                                                *)
(***************************************************************************)

WithinReach(c) == {d \in Candidates(c) : MovementOk(c, d)}
Survivors(c) ==
    {d \in WithinReach(c) : StatisticalGate(score[c], score[d]) /\ RegimeGate(score[c], score[d])}

\* propose() raises as soon as one evaluation does.
Raises(c) ==
    \/ \E d \in {c} \cup WithinReach(c) : score[d] = Refused
    \/ \E d \in Survivors(c) : \E e \in Candidates(d) : score[e] = Refused

Propose ==
    /\ ~ Raises(current)
    /\ proposals' = proposals \cup
           {[values |-> d, parent |-> current] : d \in {e \in Survivors(current) : Robust(e)}}
    /\ UNCHANGED <<current, score, left, stale>>

\* A proposal is approved and deployed; nothing withdraws the others.
Adopt(p) ==
    /\ p \in proposals /\ p.values # current
    /\ current' = p.values
    /\ left' = left \cup {current}
    /\ stale' = (stale \/ p.parent # current)
    /\ proposals' = proposals \ {p}
    /\ UNCHANGED score

Withdraw(p) ==
    /\ p \in proposals /\ proposals' = proposals \ {p}
    /\ UNCHANGED <<current, score, left, stale>>

ProposalNext == Propose \/ \E p \in proposals : Adopt(p) \/ Withdraw(p)

ProposalSpec == ProposalInit /\ [][ProposalNext]_proposalVars

(***************************************************************************)
(* What must hold                                                          *)
(***************************************************************************)

\* On the same data the search climbs and never comes back to a configuration it
\* has left, unless a proposal was approved after its parent had been replaced.
ReturnsOnlyByStale == current \in left => stale
=============================================================================
