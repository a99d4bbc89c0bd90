-------------------------- MODULE DecisionOutcome --------------------------
(***************************************************************************)
(* What the execution path promises of every decision, whatever crashes    *)
(* come between: its id is issued once, and at most one order ever goes to *)
(* the market under it, which rests or opens, and is over once.            *)
(* TradeExecution implements this module.                                  *)
(***************************************************************************)
CONSTANT Decisions

VARIABLE stage

Stages == {"unissued", "issued", "resting", "open", "over"}

OutcomeTypeOK == stage \in [Decisions -> Stages]

Move(d, from, to) ==
    /\ stage[d] \in from
    /\ stage' = [stage EXCEPT ![d] = to]

Issue(d)  == Move(d, {"unissued"}, "issued")
Rest(d)   == Move(d, {"issued"}, "resting")
Open(d)   == Move(d, {"issued", "resting"}, "open")
Finish(d) == Move(d, {"resting", "open"}, "over")

OutcomeInit == stage = [d \in Decisions |-> "unissued"]

OutcomeNext == \E d \in Decisions : Issue(d) \/ Rest(d) \/ Open(d) \/ Finish(d)

OutcomeSpec == OutcomeInit /\ [][OutcomeNext]_stage
=============================================================================
