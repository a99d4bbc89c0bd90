-------------------------- MODULE ConfigDeployment --------------------------
(***************************************************************************)
(* How a validated parameter set reaches the EA instances trading one      *)
(* symbol.  The bridge keeps deployment rows and an acknowledgement table  *)
(* (config_routes.py); every EA polls GET /config/{symbol} from OnTimer,   *)
(* applies what it is offered and acknowledges in two phases               *)
(* (ConfigSync.mqh).                                                       *)
(*                                                                         *)
(* A request handler awaits between reading its row and committing, so the *)
(* handlers of different instances interleave there.  An EA that times out *)
(* gives up on a request the bridge may still be working on.               *)
(*                                                                         *)
(* One symbol: no row, acknowledgement or poll of another symbol touches   *)
(* this state.  Rows are kept in creation order, so created_at is the      *)
(* position.  A GET that fails, offers nothing or offers what is already   *)
(* applied leaves the EA as it was, and is not an action.                  *)
(***************************************************************************)
EXTENDS Naturals, Sequences, FiniteSets

CONSTANTS
  Configs,        \* the registered configurations, named by their hash
  Instances,      \* the EA instances (charts) trading the symbol
  Deployable,     \* configurations whose validation_state lets them be served
  Fit,            \* Fit[i]: configurations with i's parent version and legal parameters
  None,           \* no configuration: the compiled defaults
  Readable,       \* what the bridge's JSON parser may say of a body that Ack posts
  Plans,          \* bound: the sequences of rows the operator may create
  MaxEvents       \* bound: failed acknowledgements, EA restarts and withdrawals together

\* Readable is {FALSE} for the code as it stands: Ack posts its array with the
\* NUL that StringToCharArray appends, which is not JSON any more and which the
\* publisher of signals cuts off for that reason.  {TRUE} is what both handlers
\* are written for.  {TRUE, FALSE} leaves it open and so includes either.
ASSUME DeploymentAssumption ==
  /\ Deployable \subseteq Configs
  /\ Fit \in [Instances -> SUBSET Configs]
  /\ None \notin Configs
  /\ Readable \subseteq BOOLEAN
  /\ Plans \subseteq Seq(Configs)
  /\ MaxEvents \in Nat

VARIABLES
  deployments, \* parameter_deployments, oldest first
  acks,        \* parameter_deployment_acks, as <<ea_instance, config_hash, status>>
  poll,        \* poll[i]: where instance i is in Poll, and the offer it holds
  params,      \* params[i]: the configuration in m_runtime
  applied,     \* applied[i]: m_lastAppliedHash
  request,     \* request[<<i, slot>>]: an acknowledgement on its way
  losses, restarts

vars == <<deployments, acks, poll, params, applied, request, losses, restarts>>

-----------------------------------------------------------------------------
(* The lifecycle of a row. *)

\* _ALLOWED, from the states in which a row is ever served.
Allowed == { <<"SCHEDULED", "EA_VALIDATED">>, <<"EA_VALIDATED", "EA_ACKNOWLEDGED">>,
             <<"EA_ACKNOWLEDGED", "ACTIVE">>, <<"ACTIVE", "RETIRED">>,
             <<"ACTIVE", "ROLLED_BACK">> }

Served    == {"SCHEDULED", "EA_VALIDATED", "ACTIVE"}
RowStates == Served \cup {"RETIRED"}
Statuses  == {"VALIDATED", "APPLIED", "REJECTED"}

\* Mutants: the second transition of _advance_ea_applied forgotten; validation
\* alone activates; _advance_ea_validation without its condition.
AdvancedHalfway(status, seen) ==
  CASE status = "VALIDATED" /\ seen = "SCHEDULED"    -> "EA_VALIDATED"
    [] status = "APPLIED"   /\ seen = "EA_VALIDATED" -> "EA_ACKNOWLEDGED"
    [] OTHER                                         -> seen

AdvancedOnReceipt(status, seen) ==
  IF status = "VALIDATED" /\ seen = "SCHEDULED" THEN "ACTIVE" ELSE seen

AdvancedUnguarded(status, seen) ==
  CASE status = "VALIDATED"                          -> "EA_VALIDATED"
    [] status = "APPLIED"   /\ seen = "EA_VALIDATED" -> "ACTIVE"
    [] OTHER                                         -> seen

\* The state an acknowledgement gives a row it read in state seen.  APPLIED
\* passes through EA_ACKNOWLEDGED without storing it.
Advanced(status, seen) ==
  CASE status = "VALIDATED" /\ seen = "SCHEDULED"    -> "EA_VALIDATED"
    [] status = "APPLIED"   /\ seen = "EA_VALIDATED" -> "ACTIVE"
    [] OTHER                                         -> seen

Priority(state) ==
  CASE state = "SCHEDULED" -> 0 [] state = "EA_VALIDATED" -> 1 [] OTHER -> 2

ServedRows == {d \in DOMAIN deployments : deployments[d].state \in Served}

\* d comes before e in the ORDER BY of get_active_config.
Precedes(d, e) ==
  LET p == Priority(deployments[d].state)  q == Priority(deployments[e].state)
  IN  p < q \/ (p = q /\ d >= e)

\* The row GET returns, for the d that satisfies it.
IsOffer(d) == d \in ServedRows /\ \A e \in ServedRows : Precedes(d, e)

\* The row an acknowledgement of configuration c is booked on.
IsNewestOf(d, c) ==
  /\ d \in DOMAIN deployments
  /\ deployments[d].hash = c
  /\ \A e \in DOMAIN deployments : deployments[e].hash = c => e <= d

-----------------------------------------------------------------------------
(* States. *)

Slots == {"current", "late"}  \* late: given up by the EA, still at the bridge
Deployment == [hash : Configs, state : RowStates]

Idle      == [pc |-> "idle", hash |-> None]
NoRequest == [stage |-> "none", status |-> "REJECTED", hash |-> None,
              row |-> 0, seen |-> "SCHEDULED"]
Answered  == [NoRequest EXCEPT !.stage = "done"]
Send(status, c) == [NoRequest EXCEPT !.stage = "sent", !.status = status, !.hash = c]

Init ==
  /\ deployments = <<>>
  /\ acks = {}
  /\ poll = [i \in Instances |-> Idle]
  /\ params = [i \in Instances |-> None]
  /\ applied = [i \in Instances |-> None]
  /\ request = [s \in Instances \X Slots |-> NoRequest]
  /\ losses = 0
  /\ restarts = 0

Withdrawn  == {d \in DOMAIN deployments : deployments[d].state = "RETIRED"}
EventsLeft == losses + restarts + Cardinality(Withdrawn) < MaxEvents

-----------------------------------------------------------------------------
(* The operator, who has no code in the repository: rows are created and   *)
(* withdrawn in the database.  RETIRED stands for ROLLED_BACK too: neither *)
(* is served or left again.                                                *)

Schedule(c) ==
  /\ \E plan \in Plans :
       /\ Len(deployments) < Len(plan)
       /\ plan[Len(deployments) + 1] = c
       /\ \A d \in DOMAIN deployments : deployments[d].hash = plan[d]
  /\ deployments' = Append(deployments, [hash |-> c, state |-> "SCHEDULED"])
  /\ UNCHANGED <<acks, poll, params, applied, request, losses, restarts>>

Withdraw(d) ==
  /\ EventsLeft
  /\ deployments[d].state = "ACTIVE"
  /\ deployments' = [deployments EXCEPT ![d].state = "RETIRED"]
  /\ UNCHANGED <<acks, poll, params, applied, request, losses, restarts>>

-----------------------------------------------------------------------------
(* The bridge's acknowledge_config. *)

\* The body is not JSON: the answer is 422 and acknowledge_config is not called.
\* Ack returns false and Poll returns, whatever it was about to do.
Unreadable(s) ==
  /\ FALSE \in Readable
  /\ request[s].stage = "sent"
  /\ request' = [request EXCEPT ![s] = NoRequest]
  /\ poll' = IF s[2] = "late" THEN poll ELSE [poll EXCEPT ![s[1]] = Idle]
  /\ UNCHANGED <<deployments, acks, params, applied, losses, restarts>>

\* Select the newest row of the configuration; the handler then awaits.
AckRead(s, d) ==
  /\ TRUE \in Readable
  /\ request[s].stage = "sent"
  /\ IsNewestOf(d, request[s].hash)
  /\ request' = [request EXCEPT ![s].stage = "read", ![s].row = d,
                                ![s].seen = deployments[d].state]
  /\ UNCHANGED <<deployments, acks, poll, params, applied, losses, restarts>>

\* Insert the acknowledgement, store the new state if it differs from the one
\* read, commit, and answer if the EA is still waiting.
AckCommit(s) ==
  LET r    == request[s]
      next == Advanced(r.status, r.seen)
  IN /\ r.stage = "read"
     /\ acks' = acks \cup {<<s[1], r.hash, r.status>>}
     /\ deployments' = IF next = r.seen THEN deployments
                       ELSE [deployments EXCEPT ![r.row].state = next]
     /\ request' = [request EXCEPT ![s] = IF s[2] = "late" THEN NoRequest ELSE Answered]
     /\ UNCHANGED <<poll, params, applied, losses, restarts>>

-----------------------------------------------------------------------------
(* The EA's Poll. *)

\* The GET: the bridge serves the first row, unless its configuration may not
\* be served (503), and the EA goes on unless it has applied it already.  What
\* it then does before its next request touches nothing but its own state, so
\* one action carries the poll that far.
Offered(i, d) ==
  /\ poll[i].pc = "idle"
  /\ IsOffer(d)
  /\ deployments[d].hash \in Deployable
  /\ deployments[d].hash # applied[i]

Acknowledge(i, pc, status, c) ==
  /\ poll' = [poll EXCEPT ![i] = [pc |-> pc, hash |-> c]]
  /\ request' = [request EXCEPT ![<<i, "current">>] = Send(status, c)]
  /\ UNCHANGED <<deployments, acks, applied, losses, restarts>>

\* A parent version or a parameter the EA refuses.
Reject(i, d) ==
  /\ Offered(i, d)
  /\ deployments[d].hash \notin Fit[i]
  /\ Acknowledge(i, "rejecting", "REJECTED", deployments[d].hash)
  /\ UNCHANGED params

\* The first phase, for a SCHEDULED row.
Validate(i, d) ==
  /\ Offered(i, d)
  /\ deployments[d].hash \in Fit[i]
  /\ deployments[d].state = "SCHEDULED"
  /\ Acknowledge(i, "validating", "VALIDATED", deployments[d].hash)
  /\ UNCHANGED params

\* ApplyRuntimeParameters and the second phase.
Apply(i, c) ==
  /\ params' = [params EXCEPT ![i] = c]
  /\ Acknowledge(i, "applying", "APPLIED", c)

\* Mutant: a SCHEDULED row applied without its first phase.
ApplyOfferedAtOnce(i, d) ==
  /\ Offered(i, d)
  /\ deployments[d].hash \in Fit[i]
  /\ Apply(i, deployments[d].hash)

\* ... at once for a row past the first phase,
ApplyOffered(i, d) ==
  /\ Offered(i, d)
  /\ deployments[d].hash \in Fit[i]
  /\ deployments[d].state # "SCHEDULED"
  /\ Apply(i, deployments[d].hash)

\* ... and otherwise when the first phase is answered.
ApplyValidated(i) ==
  /\ poll[i].pc = "validating"
  /\ request[<<i, "current">>].stage = "done"
  /\ Apply(i, poll[i].hash)

\* The answer to the last acknowledgement: only APPLIED is remembered.
Finish(i) ==
  /\ poll[i].pc \in {"applying", "rejecting"}
  /\ request[<<i, "current">>].stage = "done"
  /\ applied' = IF poll[i].pc = "applying" THEN [applied EXCEPT ![i] = poll[i].hash]
                ELSE applied
  /\ poll' = [poll EXCEPT ![i] = Idle]
  /\ request' = [request EXCEPT ![<<i, "current">>] = NoRequest]
  /\ UNCHANGED <<deployments, acks, params, losses, restarts>>

\* What becomes of the request the EA stops waiting for: it is lost, or the
\* bridge goes on with it (one at a time for each instance).
Abandon(i) ==
  LET r == request[<<i, "current">>]
  IN \/ request' = [request EXCEPT ![<<i, "current">>] = NoRequest]
     \/ /\ r.stage \in {"sent", "read"}
        /\ request[<<i, "late">>].stage = "none"
        /\ request' = [request EXCEPT ![<<i, "current">>] = NoRequest,
                                      ![<<i, "late">>] = r]

\* Mutant: the hash is remembered whatever Ack returned.
FailRemembering(i) ==
  /\ poll[i].pc \in {"rejecting", "validating", "applying"}
  /\ EventsLeft
  /\ losses' = losses + 1
  /\ Abandon(i)
  /\ poll' = [poll EXCEPT ![i] = Idle]
  /\ applied' = IF poll[i].pc = "applying" THEN [applied EXCEPT ![i] = poll[i].hash]
                ELSE applied
  /\ UNCHANGED <<deployments, acks, params, restarts>>

\* Ack returns false: refused, timed out, or answered too late.  Poll returns.
Fail(i) ==
  /\ poll[i].pc \in {"rejecting", "validating", "applying"}
  /\ EventsLeft
  /\ losses' = losses + 1
  /\ Abandon(i)
  /\ poll' = [poll EXCEPT ![i] = Idle]
  /\ UNCHANGED <<deployments, acks, params, applied, restarts>>

\* m_runtime and m_lastAppliedHash live in memory only.
Restart(i) ==
  /\ EventsLeft
  /\ restarts' = restarts + 1
  /\ Abandon(i)
  /\ poll' = [poll EXCEPT ![i] = Idle]
  /\ params' = [params EXCEPT ![i] = None]
  /\ applied' = [applied EXCEPT ![i] = None]
  /\ UNCHANGED <<deployments, acks, losses>>

-----------------------------------------------------------------------------
EaStep(i) ==
  \/ \E d \in DOMAIN deployments : Reject(i, d) \/ Validate(i, d) \/ ApplyOffered(i, d)
  \/ ApplyValidated(i) \/ Finish(i)

BridgeStep(s) ==
  Unreadable(s) \/ (\E d \in DOMAIN deployments : AckRead(s, d)) \/ AckCommit(s)

Next ==
  \/ \E c \in Configs : Schedule(c)
  \/ \E d \in DOMAIN deployments : Withdraw(d)
  \/ \E s \in Instances \X Slots : BridgeStep(s)
  \/ \E i \in Instances : EaStep(i) \/ Fail(i) \/ Restart(i)

Spec == Init /\ [][Next]_vars

\* OnTimer fires again and again and the event loop runs every handler to its
\* end.  Nothing obliges the operator to act, a request to fail or an EA to
\* restart.
Fairness ==
  /\ \A i \in Instances : WF_vars(EaStep(i))
  /\ \A s \in Instances \X Slots : WF_vars(BridgeStep(s))

FairSpec == Spec /\ Fairness

-----------------------------------------------------------------------------
(* Properties. *)

RequestType ==
  [stage : {"none", "sent", "read", "done"}, status : Statuses,
   hash : Configs \cup {None}, row : Nat, seen : RowStates]

PollType ==
  [pc : {"idle", "rejecting", "validating", "applying"}, hash : Configs \cup {None}]

\* Every variable has its type; in particular EA_ACKNOWLEDGED, which
\* _advance_ea_applied passes through, is never stored in a row.
TypeOK ==
  /\ deployments \in Seq(Deployment)
  /\ acks \subseteq Instances \X Configs \X Statuses
  /\ poll \in [Instances -> PollType]
  /\ params \in [Instances -> Configs \cup {None}]
  /\ applied \in [Instances -> Configs \cup {None}]
  /\ request \in [Instances \X Slots -> RequestType]
  /\ losses \in Nat
  /\ restarts \in Nat

\* A row is ACTIVE, or was, only once some EA has reported that it runs the
\* configuration: receipt and validation alone never activate
\* (ConfigSync.mqh's comment on the two phases).
ActiveIsBackedByAcks ==
  \A d \in DOMAIN deployments :
    deployments[d].state \in {"ACTIVE", "RETIRED"} =>
      \E i \in Instances : <<i, deployments[d].hash, "APPLIED">> \in acks

\* No EA trades on a configuration whose validation has not been recorded,
\* by it or by another instance, whatever requests were lost.
RunsOnlyRecordedConfigs ==
  \A i \in Instances :
    params[i] # None =>
      /\ params[i] \in Deployable \cap Fit[i]
      /\ \E j \in Instances : <<j, params[i], "VALIDATED">> \in acks

\* What an EA remembers as applied, and will not ask for again, the bridge has
\* recorded as applied by that EA: a lost answer never counts as one.
RememberedWasRecorded ==
  \A i \in Instances :
    applied[i] # None => <<i, applied[i], "APPLIED">> \in acks

\* A commit that writes over a state its handler never saw.
StaleCommit ==
  \E s \in Instances \X Slots :
    /\ request[s].stage = "read" /\ request'[s].stage # "read"
    /\ Advanced(request[s].status, request[s].seen) # request[s].seen
    /\ deployments[request[s].row].state # request[s].seen

\* A row moves only along _ALLOWED (APPLIED takes two of its edges in one
\* commit), except where the handlers of two acknowledgements overlapped: that
\* is the only way an ACTIVE row becomes EA_VALIDATED again, or a withdrawn
\* one ACTIVE.
MovesBackOnlyByOverlap ==
  [][ StaleCommit \/
      \A d \in DOMAIN deployments :
        LET old == deployments[d].state  new == deployments'[d].state
        IN  \/ new = old
            \/ <<old, new>> \in Allowed
            \/ {<<old, "EA_ACKNOWLEDGED">>, <<"EA_ACKNOWLEDGED", new>>} \subseteq Allowed ]_vars

\* Nothing lost, nothing withdrawn, nothing refused, nothing scheduled twice.
Undisturbed ==
  /\ losses = 0
  /\ \A i \in Instances : request[<<i, "late">>].stage = "none"
  /\ \A d \in DOMAIN deployments :
       /\ deployments[d].state # "RETIRED"
       /\ deployments[d].hash \in Deployable
       /\ \A i \in Instances : deployments[d].hash \in Fit[i]
       /\ \A e \in DOMAIN deployments :
            deployments[e].hash = deployments[d].hash => e = d

\* Every row is ACTIVE and every instance runs the newest.
Settled ==
  /\ \A d \in DOMAIN deployments : deployments[d].state = "ACTIVE"
  /\ deployments # <<>> =>
       \A i \in Instances : params[i] = deployments[Len(deployments)].hash

\* "SCHEDULE -> EA ACK -> ACTIVE": several instances acknowledging the same rows
\* in any order, some restarting on the way, end with every row ACTIVE and all of
\* them on the newest one, although the bridge keeps older rows ACTIVE and serves
\* waiting rows first.  So it is if the bridge can read what they post.
InstancesConverge == []Undisturbed => <>[]Settled
=============================================================================
