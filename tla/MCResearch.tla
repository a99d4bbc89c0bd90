----------------------------- MODULE MCResearch -----------------------------
(***************************************************************************)
(* The research services on a small instance: the ledger of executions,    *)
(* recalibration with its promotions, and the proposal of parameters.      *)
(*                                                                         *)
(* The three share no state.  A behaviour follows one of them, the one     *)
(* that "part" names, and leaves the others where they were.               *)
(***************************************************************************)
EXTENDS ExecutionLedger, Learning, ParameterProposal, TLC

CONSTANTS p1, p2, x1, x2, v1

VARIABLE part

\* Cycles that have outcomes of the version, or have none.  The first metric is
\* always estimable, the second is not always.
Point(n) == [estimable |-> TRUE, value |-> n, ci_low |-> n, ci_high |-> n]
Wide(n) == [estimable |-> TRUE, value |-> n, ci_low |-> 0, ci_high |-> 2]
MCMeasured ==
    {<<>>} \cup
    [Versions -> {f \in [GATED_METRICS -> {Empty, Wide(0), Wide(1), Point(0), Point(1), Point(2)}] :
                      f[x1] # Empty /\ f[x2] \in {Empty, Point(0), Point(2)}}]

\* One parameter on which the relative limit bites (from 6 to 4, not from 4 to 6),
\* and one that can be 0.
MCParameterSpec ==
    x1 :> [minimum |-> 4, maximum |-> 6, max_absolute_change |-> 2, max_relative_change |-> 34] @@
    x2 :> [minimum |-> 0, maximum |-> 1, max_absolute_change |-> 1, max_relative_change |-> 25]

Scored(trend, range) ==
    [trades |-> 300, expectancy_r |-> (trend + range) \div 2, profit_factor |-> 105,
     penalty |-> 2, by_regime |-> "trend" :> trend @@ "range" :> range]

\* What configurations score, three grades that each improve on the one before,
\* and what at most one of them does instead.
Usual == {Scored(94, 94), Scored(100, 100), Scored(114, 98)}
Special == {Refused, Scored(160, 60), [Scored(114, 114) EXCEPT !.penalty = 140],
            [Scored(114, 114) EXCEPT !.trades = 299],
            [Scored(114, 114) EXCEPT !.profit_factor = 104],
            [Scored(114, 114) EXCEPT !.by_regime["range"] = Unseen]}
MCLandscapes ==
    LET usual == [ParameterSet -> Usual]
    IN  usual \cup {[f EXCEPT ![c] = e] : f \in usual, c \in ParameterSet, e \in Special}

Flat == [c \in ParameterSet |-> Scored(94, 94)]

MCSymmetry == Permutations({p1, p2})

MCInit ==
    /\ now = 0 /\ part \in {"execution", "learning", "proposal"}
    /\ LedgerInit /\ LearningInit /\ ProposalInit
    /\ part # "proposal" => score = Flat /\ \A n \in Parameters : current[n] = ParameterSpec[n].minimum

MCNext ==
    /\ UNCHANGED part
    /\ \/ part = "execution" /\ LedgerNext /\ UNCHANGED <<learningVars, proposalVars>>
       \/ part = "learning" /\ LearningNext /\ UNCHANGED <<now, ledgerVars, proposalVars>>
       \/ part = "proposal" /\ ProposalNext /\ UNCHANGED <<now, ledgerVars, learningVars>>

MCSpec == MCInit /\ [][MCNext]_<<now, part, ledgerVars, learningVars, proposalVars>>

\* Every variable of the three parts has its type.
TypeOK == LedgerTypeOK /\ LearningTypeOK /\ ProposalTypeOK
=============================================================================
