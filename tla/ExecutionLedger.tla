-------------------------- MODULE ExecutionLedger --------------------------
(***************************************************************************)
(* The execution control plane of the bridge, POST /research/execution/*:  *)
(* risk is reserved before an order is sent, the state of the order is     *)
(* reported, and requests whose lease has run out are recovered.           *)
(*                                                                         *)
(* A reservation is one transaction of several statements, and others run  *)
(* between them; it holds the portfolio's advisory lock, and the rows of   *)
(* the reservations it has added up, until it ends.  A report and a        *)
(* recovery decide under the locks of the rows that they write, so that    *)
(* each is one step.  Callers are free to report any state in any order.   *)
(***************************************************************************)
EXTENDS Clock, FiniteSetsExt

CONSTANTS
    Requests,      \* request_id
    Reservers,     \* handlers of POST /research/execution/reserve
    RiskSizes,     \* risk_r of a request
    HeatLimits,    \* max_heat_r of a request
    LeaseSeconds,  \* LEASE_SECONDS
    Reported,      \* bound: the states that callers report
    NoRequest      \* a handler that has nothing to do

OpenStates == {"RESERVED", "CHECKED", "SENT", "ACKED", "PARTIAL", "RECOVERING"}
TERMINAL_STATES == {"FILLED", "REJECTED", "CANCELLED", "RECONCILED"}

ASSUME LedgerAssumption ==
    /\ RiskSizes \subseteq Nat \ {0} /\ HeatLimits \subseteq Nat \ {0}
    /\ LeaseSeconds \in Nat \ {0}
    /\ Reported \subseteq OpenStates \cup TERMINAL_STATES
    /\ NoRequest \notin Requests

VARIABLES
    ledger,       \* execution_ledger
    reservation,  \* portfolio_reservations
    reserving,    \* what each handler has inserted and not yet committed
    nextId,       \* the id the next row gets
    heatLimit     \* history: the max_heat_r with which a request was admitted

ledgerVars == <<ledger, reservation, reserving, nextId, heatLimit>>

ExecutionLedgerRow == [state : {"none"} \cup OpenStates \cup TERMINAL_STATES, lease_until : Nat]
PortfolioReservation ==
    [status : {"none", "ACTIVE", "RECOVERED", "RELEASED"}, risk_r : Nat, id : Nat]
ReserveIn == [request : Requests \cup {NoRequest}, risk_r : Nat, max_heat_r : Nat]
NotReserving == [request |-> NoRequest, risk_r |-> 0, max_heat_r |-> 0]

LedgerTypeOK ==
    /\ now \in Instants
    /\ ledger \in [Requests -> ExecutionLedgerRow]
    /\ reservation \in [Requests -> PortfolioReservation]
    /\ reserving \in [Reservers -> ReserveIn]
    /\ nextId \in Nat /\ heatLimit \in [Requests -> Nat]

LedgerInit ==
    /\ ledger = [r \in Requests |-> [state |-> "none", lease_until |-> 0]]
    /\ reservation = [r \in Requests |-> [status |-> "none", risk_r |-> 0, id |-> 0]]
    /\ reserving = [h \in Reservers |-> NotReserving]
    /\ nextId = 1 /\ heatLimit = [r \in Requests |-> 0]

Active == {r \in Requests : reservation[r].status = "ACTIVE"}
HeatOf(requests) == MapThenSumSet(LAMBDA r : reservation[r].risk_r, requests)
Busy(h) == reserving[h].request # NoRequest

\* Mutant: the rows that are added up are locked, the portfolio is not.
PortfolioUnlocked == Active = {} \/ \A h \in Reservers : ~ Busy(h)

\* pg_advisory_xact_lock: one reservation at a time, though the table is empty.
PortfolioLock == \A h \in Reservers : ~ Busy(h)

\* A request that is new and fits under its limit is inserted.  One that is
\* not gets 409 and changes nothing.
ReserveExecution(h, r, risk, limit) ==
    /\ ~ Busy(h) /\ PortfolioLock
    /\ ledger[r].state = "none"
    /\ HeatOf(Active) + risk <= limit
    /\ reserving' = [reserving EXCEPT
           ![h] = [request |-> r, risk_r |-> risk, max_heat_r |-> limit]]
    /\ UNCHANGED <<now, ledger, reservation, nextId, heatLimit>>

\* Both rows become visible at once; the request_id is unique.
CommitReservation(h) ==
    /\ Busy(h)
    /\ LET r == reserving[h].request
       IN  /\ ledger[r].state = "none"
           /\ ledger' = [ledger EXCEPT
                  ![r] = [state |-> "RESERVED", lease_until |-> now + LeaseSeconds]]
           /\ reservation' = [reservation EXCEPT
                  ![r] = [status |-> "ACTIVE", risk_r |-> reserving[h].risk_r, id |-> nextId]]
           /\ heatLimit' = [heatLimit EXCEPT ![r] = reserving[h].max_heat_r]
    /\ nextId' = nextId + 1
    /\ reserving' = [reserving EXCEPT ![h] = NotReserving]
    /\ UNCHANGED now

\* The transaction fails, or the bridge ends with it.
RollBackReservation(h) ==
    /\ Busy(h)
    /\ reserving' = [reserving EXCEPT ![h] = NotReserving]
    /\ UNCHANGED <<now, ledger, reservation, nextId, heatLimit>>

\* A reservation that is being made holds the ACTIVE rows it has added up.
RowIsFree(r) == r \in Active => PortfolioLock

\* Mutant: only a reservation that still counts is released.
ReleasedIfActive(r) ==
    IF r \in Active THEN [reservation EXCEPT ![r].status = "RELEASED"] ELSE reservation

\* The reservation of a request that has come to its end, whatever it was.
Released(r) == [reservation EXCEPT ![r].status = "RELEASED"]

\* A report for a request that is unknown, or at its end, gets 409.
TransitionExecution(r, state) ==
    /\ ledger[r].state \notin TERMINAL_STATES \cup {"none"}
    /\ ledger' = [ledger EXCEPT ![r].state = state]
    /\ IF state \in TERMINAL_STATES
       THEN RowIsFree(r) /\ reservation' = Released(r)
       ELSE UNCHANGED reservation
    /\ UNCHANGED <<now, reserving, nextId, heatLimit>>

\* CHECKED and PARTIAL are not looked for; a lease is never renewed.
Expired == {r \in Requests : /\ ledger[r].lease_until < now
                             /\ ledger[r].state \in {"RESERVED", "SENT", "ACKED"}}

RecoverExpiredLeases ==
    /\ Expired # {} /\ \A r \in Expired : RowIsFree(r)
    /\ ledger' = [r \in Requests |->
           IF r \in Expired THEN [ledger[r] EXCEPT !.state = "RECOVERING"] ELSE ledger[r]]
    /\ reservation' = [r \in Requests |->
           IF r \in Expired THEN [reservation[r] EXCEPT !.status = "RECOVERED"]
                            ELSE reservation[r]]
    /\ UNCHANGED <<now, reserving, nextId, heatLimit>>

LedgerTick == TimePasses /\ UNCHANGED ledgerVars

LedgerNext ==
    \/ \E h \in Reservers :
           \/ \E r \in Requests, risk \in RiskSizes, limit \in HeatLimits :
                  ReserveExecution(h, r, risk, limit)
           \/ CommitReservation(h) \/ RollBackReservation(h)
    \/ \E r \in Requests, s \in Reported : TransitionExecution(r, s)
    \/ RecoverExpiredLeases \/ LedgerTick

LedgerSpec == now = 0 /\ LedgerInit /\ [][LedgerNext]_<<now, ledgerVars>>

(***************************************************************************)
(* What must hold                                                          *)
(***************************************************************************)

\* The risk that was active when a request was admitted, its own included, is
\* within the limit it came with, for as long as it is active: requests that are
\* admitted at once do not both take the room that one of them leaves.
HeatWithinLimit ==
    \A r \in Active :
        HeatOf({q \in Active : reservation[q].id <= reservation[r].id}) <= heatLimit[r]

\* A request has come to its end exactly if its reservation is released, whatever
\* recovery did to it before a late report arrived.
SettledIffReleased ==
    \A r \in Requests : ledger[r].state \in TERMINAL_STATES <=> reservation[r].status = "RELEASED"

\* Whether a request is waiting, counts, or has counted.
AdmissionOf(r) ==
    [status     |-> CASE reservation[r].status = "none"   -> "new"
                      [] reservation[r].status = "ACTIVE" -> "active"
                      [] OTHER                            -> "over",
     risk_r     |-> reservation[r].risk_r,
     max_heat_r |-> heatLimit[r]]

Portfolio == INSTANCE PortfolioAdmission WITH admitted <- [r \in Requests |-> AdmissionOf(r)]

\* The handlers' transactions, in any interleaving, are as good as one step each:
\* a request is admitted when its transaction commits, and fits under its own
\* limit then.
AdmitsInOneStep == Portfolio!AdmissionSpec
=============================================================================
