------------------------------ MODULE Learning ------------------------------
(***************************************************************************)
(* Recalibration in the bridge: a cycle is computed and stored, each       *)
(* weight version of it goes through the gate, and a promotion waits for   *)
(* the administrator's tap on a card.                                      *)
(*                                                                         *)
(* POST /admin/run-cycle and the callbacks of the cards are coroutines;    *)
(* two cycles, or two taps, may be under way at once.  An action is one    *)
(* stretch between two awaits that matter.                                 *)
(*                                                                         *)
(* All cycles in the bridge's table are live ones: only run_cycle() writes *)
(* there.  A rollback is recorded and announced, and changes nothing else. *)
(***************************************************************************)
EXTENDS Gating, Sequences

CONSTANTS
    Versions,    \* weight versions that outcomes are tagged with
    Runners,     \* POST /admin/run-cycle at work at once
    Taps,        \* callbacks at work at once
    Measured,    \* bound: the reports that cycles come to
    MaxCycles    \* bound: cycles that are computed

\* The metrics by version, for the versions that have outcomes in the window.
Reports == UNION {[vs -> [GATED_METRICS -> Stat]] : vs \in SUBSET Versions}

ASSUME LearningAssumption == Measured \subseteq Reports /\ MaxCycles \in Nat

VARIABLES
    cycles,      \* calibration_cycles, ordered by generated_at
    requests,    \* promotion_requests
    approved,    \* approved_weight_versions: the request of each, 0 for no row
    cards,       \* the requests whose card has buttons
    runner,      \* run_cycle()
    tap,         \* handle_promotion_callback()
    overlapped   \* history: requests decided again by a tap that had read "pending"

learningVars == <<cycles, requests, approved, cards, runner, tap, overlapped>>

CalibrationCycle == [stored : BOOLEAN, stats : Reports]
PromotionRequest ==
    [version : Versions, action : {"PROMOTE", "ROLLBACK"},
     status : {"pending", "auto_executed", "approved", "rejected"},
     basis : [1 .. 3 -> Nat]]

\* A run of a cycle: the cycle, the versions to decide on, the request to announce.
Run == [at : {"idle", "computed", "deciding", "sending"}, cycle : Nat,
        todo : SUBSET Versions, request : Nat]
NoRun == [at |-> "idle", cycle |-> 0, todo |-> {}, request |-> 0]

\* A tap: what was pressed, the status that was read, and whether the version
\* was approved already.
Tap == [at : {"idle", "loaded", "flushed"}, request : Nat, verdict : {"approved", "rejected"},
        read : {"pending", "approved", "rejected", "auto_executed"}, existing : BOOLEAN]
NoTap == [at |-> "idle", request |-> 0, verdict |-> "rejected", read |-> "pending",
          existing |-> FALSE]

LearningTypeOK ==
    /\ cycles \in Seq(CalibrationCycle) /\ requests \in Seq(PromotionRequest)
    /\ approved \in [Versions -> Nat] /\ cards \subseteq Nat /\ overlapped \subseteq Nat
    /\ runner \in [Runners -> Run] /\ tap \in [Taps -> Tap]

LearningInit ==
    /\ cycles = <<>> /\ requests = <<>>
    /\ approved = [v \in Versions |-> 0] /\ cards = {} /\ overlapped = {}
    /\ runner = [h \in Runners |-> NoRun] /\ tap = [h \in Taps |-> NoTap]

tapVars == <<approved, tap, overlapped>>

(***************************************************************************)
(* A cycle                                                                 *)
(***************************************************************************)

\* The report gets its generated_at, which orders the history, before it is
\* stored.  No outcomes in the window: no cycle.
Compute(h, report) ==
    /\ runner[h].at = "idle" /\ Len(cycles) < MaxCycles
    /\ cycles' = Append(cycles, [stored |-> FALSE, stats |-> report])
    /\ runner' = [runner EXCEPT ![h] = [NoRun EXCEPT !.at = "computed",
                                            !.cycle = Len(cycles) + 1]]
    /\ UNCHANGED <<requests, cards, tapVars>>

Persist(h) ==
    /\ runner[h].at = "computed"
    /\ cycles' = [cycles EXCEPT ![runner[h].cycle].stored = TRUE]
    /\ runner' = [runner EXCEPT ![h].at = "deciding",
                      ![h].todo = DOMAIN cycles[runner[h].cycle].stats]
    /\ UNCHANGED <<requests, cards, tapVars>>

\* load_cycles_from_db: the stored cycles that have the version.  Those without
\* are skipped, so that its neighbours become consecutive.
History(v) == {i \in DOMAIN cycles : cycles[i].stored /\ v \in DOMAIN cycles[i].stats}

\* The last three cycles of the version, once it has three.
IsBasis(b, v) ==
    /\ {b[1], b[2], b[3]} \subseteq History(v) /\ b[1] < b[2] /\ b[2] < b[3]
    /\ \A i \in History(v) : i > b[1] => i \in {b[2], b[3]}

StatsOf(b, v) == [n \in 1 .. 3 |-> cycles[b[n]].stats[v]]

Requested(v, action, b) ==
    [version |-> v, action |-> action, basis |-> b,
     status |-> IF action = "PROMOTE" THEN "pending" ELSE "auto_executed"]

\* The gate has nothing to say of the version: fewer than three cycles, or HOLD.
Hold(h, v) ==
    /\ runner[h].at = "deciding" /\ v \in runner[h].todo
    /\ \A b \in [1 .. 3 -> DOMAIN cycles] :
           IsBasis(b, v) => Decide(StatsOf(b, v)) = "HOLD"
    /\ runner' = [runner EXCEPT ![h].todo = @ \ {v}]
    /\ UNCHANGED <<cycles, requests, cards, tapVars>>

\* It promotes or rolls back: the request is committed before the card is sent.
Request(h, v) ==
    /\ runner[h].at = "deciding" /\ v \in runner[h].todo
    /\ \E b \in [1 .. 3 -> DOMAIN cycles] :
           /\ IsBasis(b, v)
           /\ Decide(StatsOf(b, v)) # "HOLD"
           /\ requests' = Append(requests, Requested(v, Decide(StatsOf(b, v)), b))
    /\ runner' = [runner EXCEPT ![h].todo = @ \ {v}, ![h].at = "sending",
                      ![h].request = Len(requests) + 1]
    /\ UNCHANGED <<cycles, cards, tapVars>>

\* The card of a promotion has buttons; a card that cannot be sent is given up.
Send(h) ==
    /\ runner[h].at = "sending"
    /\ cards' \in {cards, IF requests[runner[h].request].action = "PROMOTE"
                          THEN cards \cup {runner[h].request} ELSE cards}
    /\ runner' = [runner EXCEPT ![h].at = "deciding", ![h].request = 0]
    /\ UNCHANGED <<cycles, requests, tapVars>>

\* The run is over, or ends before that: it raises, or the bridge is redeployed.
EndRun(h) ==
    /\ runner[h].at # "idle"
    /\ runner' = [runner EXCEPT ![h] = NoRun]
    /\ UNCHANGED <<cycles, requests, cards, tapVars>>

(***************************************************************************)
(* A tap                                                                   *)
(***************************************************************************)

\* Mutant: a request that is decided is decided again.
CanBeDecidedAlways(r) == TRUE

\* Otherwise the tap is answered "Already ..." and changes nothing.
CanBeDecided(r) == requests[r].status = "pending"

LoadRequest(h, r, verdict) ==
    /\ tap[h].at = "idle" /\ r \in cards /\ CanBeDecided(r)
    /\ tap' = [tap EXCEPT ![h] = [NoTap EXCEPT !.at = "loaded", !.request = r,
                   !.verdict = verdict, !.read = requests[r].status]]
    /\ UNCHANGED <<cycles, requests, approved, cards, runner, overlapped>>

\* The row of the request is locked by a tap that has flushed its UPDATE.
RequestIsFree(h) ==
    \A o \in Taps \ {h} : ~ (tap[o].at = "flushed" /\ tap[o].request = tap[h].request)

\* An approval looks for the version: the query flushes the new status first.
LookUp(h) ==
    /\ tap[h].at = "loaded" /\ tap[h].verdict = "approved" /\ RequestIsFree(h)
    /\ tap' = [tap EXCEPT ![h].at = "flushed",
                   ![h].existing = approved[requests[tap[h].request].version] # 0]
    /\ UNCHANGED <<cycles, requests, approved, cards, runner, overlapped>>

\* Mutant: the request gets the action of the button for its status.
DecidedAsPressed(h) ==
    /\ requests' = [requests EXCEPT ![tap[h].request].status =
                        IF tap[h].verdict = "approved" THEN "approve" ELSE "reject"]
    /\ tap' = [tap EXCEPT ![h] = NoTap]
    /\ UNCHANGED overlapped

Decided(h) ==
    /\ requests' = [requests EXCEPT ![tap[h].request].status = tap[h].verdict]
    /\ overlapped' = IF requests[tap[h].request].status # tap[h].read
                     THEN overlapped \cup {tap[h].request} ELSE overlapped
    /\ tap' = [tap EXCEPT ![h] = NoTap]

\* The weight_version is unique: if another approval has inserted it meanwhile,
\* the transaction fails.
Approve(h) ==
    /\ tap[h].at = "flushed"
    /\ LET r == tap[h].request
           v == requests[r].version
       IN  \/ /\ ~ tap[h].existing /\ approved[v] = 0
              /\ approved' = [approved EXCEPT ![v] = r]
           \/ tap[h].existing /\ UNCHANGED approved
    /\ Decided(h)
    /\ UNCHANGED <<cycles, cards, runner>>

Reject(h) ==
    /\ tap[h].at = "loaded" /\ tap[h].verdict = "rejected" /\ RequestIsFree(h)
    /\ Decided(h)
    /\ UNCHANGED <<cycles, approved, cards, runner>>

\* The transaction fails, or the bridge ends with it.
FailTap(h) ==
    /\ tap[h].at # "idle"
    /\ tap' = [tap EXCEPT ![h] = NoTap]
    /\ UNCHANGED <<cycles, requests, approved, cards, runner, overlapped>>

LearningNext ==
    \/ \E h \in Runners : \/ \E report \in Measured : Compute(h, report)
                          \/ \E v \in Versions : Hold(h, v) \/ Request(h, v)
                          \/ Persist(h) \/ Send(h) \/ EndRun(h)
    \/ \E h \in Taps :
           \/ \E r \in cards, verdict \in {"approved", "rejected"} : LoadRequest(h, r, verdict)
           \/ LookUp(h) \/ Approve(h) \/ Reject(h) \/ FailTap(h)

LearningSpec == LearningInit /\ [][LearningNext]_learningVars

(***************************************************************************)
(* What must hold                                                          *)
(***************************************************************************)

\* Every approved version was promoted by the gate, and over three stored cycles
\* one of its metrics has risen clear of where it began while none fell twice:
\* whatever cycles ran at once, and whatever was tapped.
ApprovedOnEvidence ==
    \A v \in Versions : approved[v] # 0 =>
        LET q == requests[approved[v]]
        IN  /\ q.version = v /\ q.action = "PROMOTE"
            /\ {q.basis[n] : n \in 1 .. 3} \subseteq History(v)
            /\ IsEvidence(StatsOf(q.basis, v))

\* A version is approved exactly by requests that say so: the verdict of a
\* request stands, unless two taps on it overlapped.
VerdictStands ==
    /\ \A v \in Versions : approved[v] # 0 =>
           requests[approved[v]].status = "approved" \/ approved[v] \in overlapped
    /\ \A r \in DOMAIN requests :
           requests[r].status = "approved" => approved[requests[r].version] # 0
=============================================================================
