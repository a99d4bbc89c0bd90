------------------------- MODULE PortfolioAdmission -------------------------
(***************************************************************************)
(* What the execution control plane promises of the risk of a portfolio: a *)
(* request is admitted at most once, in one step, at which it fits under   *)
(* the limit it comes with, and leaves for good.  There are no handlers,   *)
(* no transactions and no locks.  ExecutionLedger implements this module.  *)
(***************************************************************************)
EXTENDS Naturals, FiniteSetsExt

CONSTANTS Requests, RiskSizes, HeatLimits

VARIABLE admitted   \* what has become of every request, its risk and its limit

Admission == [status : {"new", "active", "over"}, risk_r : Nat, max_heat_r : Nat]

AdmissionInit ==
    admitted = [r \in Requests |-> [status |-> "new", risk_r |-> 0, max_heat_r |-> 0]]

Running == {r \in Requests : admitted[r].status = "active"}
Heat == MapThenSumSet(LAMBDA r : admitted[r].risk_r, Running)

Admit(r, risk, limit) ==
    /\ admitted[r].status = "new"
    /\ Heat + risk <= limit
    /\ admitted' = [admitted EXCEPT
           ![r] = [status |-> "active", risk_r |-> risk, max_heat_r |-> limit]]

\* Several may leave at once, when recovery finds that their leases ran out.
Leave(leaving) ==
    /\ leaving \subseteq Running
    /\ admitted' = [r \in Requests |-> IF r \in leaving
                                       THEN [admitted[r] EXCEPT !.status = "over"]
                                       ELSE admitted[r]]

AdmissionNext ==
    \/ \E r \in Requests, risk \in RiskSizes, limit \in HeatLimits : Admit(r, risk, limit)
    \/ \E leaving \in SUBSET Requests : Leave(leaving)

AdmissionSpec == AdmissionInit /\ [][AdmissionNext]_admitted
=============================================================================
