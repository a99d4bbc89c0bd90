----------------------- MODULE ConfigDeploymentProofs -----------------------
(***************************************************************************)
(* ConfigDeployment keeps its types, activates nothing that no EA reported *)
(* as running, lets no EA run what was not recorded as validated, and lets *)
(* no EA remember what was not recorded as applied: for any configurations,*)
(* instances, plans and numbers of failures, restarts and withdrawals.     *)
(* Rows leave the order of their states only where handlers overlapped.    *)
(* As long as the bridge can read no body that Ack posts, nothing happens. *)
(*                                                                         *)
(* The inductive invariant follows an acknowledgement from the poll that   *)
(* sends it, through the row its handler has read, to the table.           *)
(***************************************************************************)
EXTENDS ConfigDeployment, TLAPS

Recorded(table, c, status) == \E j \in Instances : <<j, c, status>> \in table

\* The acknowledgement a poll waits for.
StatusOf(pc) ==
  CASE pc = "validating" -> "VALIDATED" [] pc = "applying" -> "APPLIED" [] OTHER -> "REJECTED"

\* A row past its first state has the acknowledgements that brought it there.
RowsOK ==
  \A d \in DOMAIN deployments :
    /\ deployments[d].state # "SCHEDULED" => Recorded(acks, deployments[d].hash, "VALIDATED")
    /\ deployments[d].state \in {"ACTIVE", "RETIRED"} => Recorded(acks, deployments[d].hash, "APPLIED")

\* What a handler has read was so.
RequestsOK ==
  \A s \in Instances \X Slots :
    /\ request[s].stage \in {"sent", "read"} => request[s].hash \in Configs
    /\ request[s].stage = "read" =>
         /\ request[s].row \in DOMAIN deployments
         /\ deployments[request[s].row].hash = request[s].hash
         /\ request[s].seen # "SCHEDULED" => Recorded(acks, request[s].hash, "VALIDATED")

\* A poll past its GET waits for one acknowledgement, which an answer means
\* is in the table.
PollsOK ==
  \A i \in Instances :
    poll[i].pc # "idle" =>
      LET r == request[<<i, "current">>]
      IN /\ poll[i].hash \in Configs
         /\ poll[i].pc # "rejecting" => poll[i].hash \in Deployable \cap Fit[i]
         /\ r.stage # "none"
         /\ r.stage \in {"sent", "read"} =>
              r.hash = poll[i].hash /\ r.status = StatusOf(poll[i].pc)
         /\ r.stage = "done" => <<i, poll[i].hash, StatusOf(poll[i].pc)>> \in acks

\* An EA that reports a configuration as applied runs it or has run it, so it
\* was recorded as validated; a poll that applies has made that sure.
IInv == TypeOK /\ RowsOK /\ RequestsOK /\ PollsOK /\ RunsOnlyRecordedConfigs /\ RememberedWasRecorded
-----------------------------------------------------------------------------
(* Types *)

LEMMA RequestsTyped ==
  /\ NoRequest \in RequestType /\ Answered \in RequestType
  /\ \A status \in Statuses, c \in Configs : Send(status, c) \in RequestType
  BY DEF NoRequest, Answered, Send, RequestType, Statuses, RowStates, Served

LEMMA AdvancedTyped ==
  ASSUME NEW status \in Statuses, NEW seen \in RowStates
  PROVE  Advanced(status, seen) \in RowStates
  BY DEF Advanced, RowStates, Served

LEMMA RowTyped ==
  ASSUME TypeOK, NEW d \in DOMAIN deployments
  PROVE  /\ deployments[d] \in Deployment
         /\ deployments[d].hash \in Configs /\ deployments[d].state \in RowStates
         /\ d \in Nat
<1>1. deployments \in Seq(Deployment)
  BY DEF TypeOK
<1>2. deployments[d] \in Deployment
  BY <1>1
<1>3. d \in Nat
  BY <1>1
<1> QED BY <1>2, <1>3 DEF Deployment

LEMMA TypesKept == TypeOK /\ RequestsOK /\ PollsOK /\ [Next]_vars => TypeOK'
<1> SUFFICES ASSUME TypeOK, RequestsOK, PollsOK, [Next]_vars PROVE TypeOK'
  OBVIOUS
<1> USE RequestsTyped, DeploymentAssumption
<1>1. ASSUME NEW c \in Configs, Schedule(c) PROVE TypeOK'
  BY <1>1 DEF Schedule, TypeOK, Deployment, RowStates, Served
<1>2. ASSUME NEW d \in DOMAIN deployments, Withdraw(d) PROVE TypeOK'
  <2>1. [deployments[d] EXCEPT !.state = "RETIRED"] \in Deployment
    BY RowTyped DEF Deployment, RowStates
  <2> QED BY <1>2, <2>1 DEF Withdraw, TypeOK
<1>3. ASSUME NEW s \in Instances \X Slots, NEW d \in DOMAIN deployments, AckRead(s, d)
      PROVE  TypeOK'
  <2>1. [request[s] EXCEPT !.stage = "read", !.row = d, !.seen = deployments[d].state]
          \in RequestType
    <3>1. request[s] \in RequestType
      BY DEF TypeOK
    <3> QED BY <3>1, RowTyped DEF RequestType
  <2> QED BY <1>3, <2>1 DEF AckRead, TypeOK
<1>4. ASSUME NEW s \in Instances \X Slots, AckCommit(s) PROVE TypeOK'
  <2> DEFINE r == request[s]
  <2>1. r \in RequestType /\ r.hash \in Configs /\ r.row \in DOMAIN deployments
    BY <1>4 DEF AckCommit, TypeOK, RequestsOK
  <2>2. [deployments[r.row] EXCEPT !.state = Advanced(r.status, r.seen)] \in Deployment
    BY <2>1, RowTyped, AdvancedTyped DEF RequestType, Deployment
  <2>3. deployments' \in Seq(Deployment)
    BY <1>4, <2>1, <2>2 DEF AckCommit, TypeOK
  <2>4. <<s[1], r.hash, r.status>> \in Instances \X Configs \X Statuses
    BY <2>1 DEF RequestType
  <2> QED BY <1>4, <2>3, <2>4 DEF AckCommit, TypeOK
<1>5. ASSUME NEW i \in Instances, NEW d \in DOMAIN deployments, Reject(i, d) PROVE TypeOK'
  BY <1>5, RowTyped DEF Reject, Acknowledge, TypeOK, PollType, Statuses, Slots
<1>6. ASSUME NEW i \in Instances, NEW d \in DOMAIN deployments, Validate(i, d) PROVE TypeOK'
  BY <1>6, RowTyped DEF Validate, Acknowledge, TypeOK, PollType, Statuses, Slots
<1>7. ASSUME NEW i \in Instances, NEW c \in Configs, Apply(i, c) PROVE TypeOK'
  BY <1>7 DEF Apply, Acknowledge, TypeOK, PollType, Statuses, Slots
<1>8. ASSUME NEW i \in Instances, NEW d \in DOMAIN deployments, ApplyOffered(i, d) PROVE TypeOK'
  BY <1>8, <1>7, RowTyped DEF ApplyOffered
<1>9. ASSUME NEW i \in Instances, ApplyValidated(i) PROVE TypeOK'
  BY <1>9, <1>7 DEF ApplyValidated, PollsOK
<1>10. ASSUME NEW i \in Instances, Finish(i) PROVE TypeOK'
  BY <1>10 DEF Finish, TypeOK, PollType, Idle
<1>11. ASSUME NEW i \in Instances, Abandon(i)
       PROVE  request' \in [Instances \X Slots -> RequestType]
  BY <1>11 DEF Abandon, TypeOK, Slots
<1>12. ASSUME NEW i \in Instances, Fail(i) PROVE TypeOK'
  BY <1>12, <1>11 DEF Fail, TypeOK, PollType, Idle
<1>13. ASSUME NEW i \in Instances, Restart(i) PROVE TypeOK'
  BY <1>13, <1>11 DEF Restart, TypeOK, PollType, Idle
<1>14. ASSUME NEW s \in Instances \X Slots, Unreadable(s) PROVE TypeOK'
  BY <1>14 DEF Unreadable, TypeOK, PollType, Idle
<1>15. CASE UNCHANGED vars
  BY <1>15 DEF vars, TypeOK
<1> QED BY <1>1, <1>2, <1>3, <1>4, <1>5, <1>6, <1>8, <1>9, <1>10, <1>12, <1>13, <1>14, <1>15
        DEF Next, EaStep, BridgeStep
-----------------------------------------------------------------------------
(* Rows and requests *)

\* What is recorded stays recorded.
LEMMA AcksGrow ==
  ASSUME [Next]_vars
  PROVE  acks \subseteq acks' /\ \A c, status : Recorded(acks, c, status) => Recorded(acks', c, status)
<1>1. acks \subseteq acks'
  BY DEF Next, vars, EaStep, BridgeStep, Schedule, Withdraw, Unreadable, AckRead, AckCommit, Reject,
         Validate, ApplyOffered, ApplyValidated, Apply, Acknowledge, Finish, Fail, Restart
<1> QED BY <1>1 DEF Recorded

\* Only these steps change the rows or the requests of others.
LEMMA EaLeavesRows ==
  ASSUME NEW i \in Instances, EaStep(i) \/ Fail(i) \/ Restart(i)
  PROVE  UNCHANGED <<deployments, acks>>
  BY DEF EaStep, Reject, Validate, ApplyOffered, ApplyValidated, Apply, Acknowledge, Finish,
         Fail, Restart

\* What a commit does to the row it writes.
LEMMA AdvancedRecorded ==
  ASSUME NEW status, NEW seen, Advanced(status, seen) # seen
  PROVE  \/ status = "VALIDATED" /\ Advanced(status, seen) = "EA_VALIDATED"
         \/ status = "APPLIED" /\ seen = "EA_VALIDATED" /\ Advanced(status, seen) = "ACTIVE"
  BY DEF Advanced

LEMMA RowsKept == IInv /\ [Next]_vars => RowsOK'
<1> SUFFICES ASSUME IInv, [Next]_vars, NEW d \in DOMAIN deployments'
             PROVE  /\ deployments'[d].state # "SCHEDULED" =>
                         Recorded(acks', deployments'[d].hash, "VALIDATED")
                    /\ deployments'[d].state \in {"ACTIVE", "RETIRED"} =>
                         Recorded(acks', deployments'[d].hash, "APPLIED")
  BY DEF RowsOK
<1>1. CASE UNCHANGED <<deployments, acks>>
  BY <1>1 DEF IInv, RowsOK, Recorded
<1>2. CASE \E c \in Configs : Schedule(c)
  <2>1. PICK c \in Configs : Schedule(c)
    BY <1>2
  <2>2. \/ deployments'[d] = [hash |-> c, state |-> "SCHEDULED"]
        \/ d \in DOMAIN deployments /\ deployments'[d] = deployments[d]
    <3>1. deployments \in Seq(Deployment) /\ [hash |-> c, state |-> "SCHEDULED"] \in Deployment
      BY DEF IInv, TypeOK, Deployment, RowStates, Served
    <3>2. deployments' = Append(deployments, [hash |-> c, state |-> "SCHEDULED"])
      BY <2>1 DEF Schedule
    <3> QED BY <3>1, <3>2
  <2> QED BY <2>1, <2>2 DEF Schedule, IInv, RowsOK
<1>3. CASE \E e \in DOMAIN deployments : Withdraw(e)
  <2>1. PICK e \in DOMAIN deployments : Withdraw(e)
    BY <1>3
  <2>2. /\ d \in DOMAIN deployments /\ deployments'[d].hash = deployments[d].hash
        /\ deployments'[d].state # deployments[d].state => deployments[d].state = "ACTIVE"
    BY <2>1, RowTyped DEF Withdraw, IInv, TypeOK, Deployment
  <2> QED BY <2>1, <2>2 DEF Withdraw, IInv, RowsOK
<1>4. ASSUME NEW s \in Instances \X Slots, AckCommit(s)
      PROVE  /\ deployments'[d].state # "SCHEDULED" =>
                  Recorded(acks', deployments'[d].hash, "VALIDATED")
             /\ deployments'[d].state \in {"ACTIVE", "RETIRED"} =>
                  Recorded(acks', deployments'[d].hash, "APPLIED")
  <2> DEFINE r == request[s]
             next == Advanced(r.status, r.seen)
  <2>1. r.row \in DOMAIN deployments /\ deployments[r.row].hash = r.hash
    BY <1>4 DEF AckCommit, IInv, RequestsOK
  <2>2. s[1] \in Instances /\ <<s[1], r.hash, r.status>> \in acks'
    BY <1>4 DEF AckCommit
  <2>3. CASE next = r.seen \/ d # r.row
    <3>1. d \in DOMAIN deployments /\ deployments'[d] = deployments[d]
      BY <1>4, <2>1, <2>3 DEF AckCommit, IInv, TypeOK
    <3> QED BY <3>1, AcksGrow DEF IInv, RowsOK
  <2>4. CASE next # r.seen /\ d = r.row
    <3>1. deployments'[d] = [deployments[d] EXCEPT !.state = next]
      BY <1>4, <2>1, <2>4 DEF AckCommit, IInv, TypeOK
    <3>2. deployments'[d].hash = r.hash /\ deployments'[d].state = next
      <4>1. deployments[d] \in Deployment
        BY <2>1, <2>4, RowTyped DEF IInv
      <4> QED BY <3>1, <4>1, <2>1, <2>4 DEF Deployment
    <3>3. CASE r.status = "VALIDATED" /\ next = "EA_VALIDATED"
      BY <2>2, <3>2, <3>3 DEF Recorded
    <3>4. CASE r.status = "APPLIED" /\ r.seen = "EA_VALIDATED" /\ next = "ACTIVE"
      <4>1. Recorded(acks, r.hash, "VALIDATED")
        BY <1>4, <3>4 DEF AckCommit, IInv, RequestsOK
      <4>2. Recorded(acks', r.hash, "VALIDATED")
        BY <4>1, AcksGrow, <1>4 DEF Recorded, AckCommit
      <4> QED BY <2>2, <3>2, <3>4, <4>2 DEF Recorded
    <3> QED BY <2>4, <3>3, <3>4, AdvancedRecorded
  <2> QED BY <2>3, <2>4
<1>5. CASE \E s \in Instances \X Slots, e \in DOMAIN deployments : AckRead(s, e)
  BY <1>5, <1>1 DEF AckRead
<1>6. CASE \E s \in Instances \X Slots : Unreadable(s)
  BY <1>6, <1>1 DEF Unreadable
<1>7. CASE UNCHANGED vars
  BY <1>7, <1>1 DEF vars
<1> QED BY <1>1, <1>2, <1>3, <1>4, <1>5, <1>6, <1>7, EaLeavesRows DEF Next, BridgeStep

LEMMA RequestsKept == IInv /\ [Next]_vars => RequestsOK'
<1> DEFINE SlotOK(r) ==
             /\ r.stage \in {"sent", "read"} => r.hash \in Configs
             /\ r.stage = "read" =>
                  /\ r.row \in DOMAIN deployments
                  /\ deployments[r.row].hash = r.hash
                  /\ r.seen # "SCHEDULED" => Recorded(acks, r.hash, "VALIDATED")
<1> SUFFICES ASSUME IInv, [Next]_vars, NEW s \in Instances \X Slots
             PROVE  SlotOK(request[s])'
  BY DEF RequestsOK
<1>1. SlotOK(request[s])
  BY DEF IInv, RequestsOK
<1>2. /\ DOMAIN deployments \subseteq DOMAIN deployments'
      /\ \A d \in DOMAIN deployments : deployments'[d].hash = deployments[d].hash
  <2>1. CASE UNCHANGED deployments
    BY <2>1
  <2>2. CASE \E c \in Configs : Schedule(c)
    BY <2>2 DEF Schedule, IInv, TypeOK
  <2>3. ASSUME NEW d \in DOMAIN deployments, NEW state,
               deployments' = [deployments EXCEPT ![d].state = state]
        PROVE  /\ DOMAIN deployments \subseteq DOMAIN deployments'
               /\ \A e \in DOMAIN deployments : deployments'[e].hash = deployments[e].hash
    BY <2>3, RowTyped DEF IInv, TypeOK, Deployment
  <2>4. CASE \E d \in DOMAIN deployments : Withdraw(d)
    BY <2>4, <2>3 DEF Withdraw
  <2>5. CASE \E t \in Instances \X Slots : AckCommit(t)
    BY <2>5, <2>3, <2>1 DEF AckCommit, IInv, RequestsOK
  <2>6. CASE \E t \in Instances \X Slots :
               Unreadable(t) \/ \E d \in DOMAIN deployments : AckRead(t, d)
    BY <2>6, <2>1 DEF AckRead, Unreadable
  <2> QED BY <2>1, <2>2, <2>4, <2>5, <2>6, EaLeavesRows DEF Next, BridgeStep, vars
<1>3. ASSUME NEW r, SlotOK(r), request'[s] = r PROVE SlotOK(request[s])'
  BY <1>2, <1>3, AcksGrow
<1>4. SlotOK(NoRequest) /\ SlotOK(Answered)
  BY DEF NoRequest, Answered
<1>5. ASSUME NEW status, NEW c \in Configs PROVE SlotOK(Send(status, c))
  BY DEF Send, NoRequest
<1> HIDE DEF SlotOK
<1>6. CASE UNCHANGED request
  BY <1>6, <1>1, <1>3
<1>7. ASSUME NEW t \in Instances \X Slots, NEW d \in DOMAIN deployments, AckRead(t, d)
      PROVE  SlotOK(request[s])'
  <2>1. CASE s # t
    BY <1>7, <2>1, <1>1, <1>3 DEF AckRead, IInv, TypeOK
  <2>2. CASE s = t
    <3> DEFINE r == [request[s] EXCEPT !.stage = "read", !.row = d,
                                       !.seen = deployments[d].state]
    <3>1. request[s] \in RequestType /\ request'[s] = r
      BY <1>7, <2>2 DEF AckRead, IInv, TypeOK
    <3>2. /\ r.stage = "read" /\ r.row = d /\ r.seen = deployments[d].state
          /\ r.hash = request[s].hash /\ request[s].hash \in Configs
      BY <3>1, <1>7, <1>1, <2>2 DEF RequestType, AckRead, SlotOK
    <3>3. deployments[d].hash = r.hash
      BY <3>2, <1>7, <2>2 DEF AckRead, IsNewestOf
    <3>4. SlotOK(r)
      BY <3>2, <3>3 DEF SlotOK, IInv, RowsOK
    <3> QED BY <3>1, <3>4, <1>3
  <2> QED BY <2>1, <2>2
<1>8. ASSUME NEW t \in Instances \X Slots, AckCommit(t) PROVE SlotOK(request[s])'
  <2>1. request'[s] \in {request[s], NoRequest, Answered}
    BY <1>8 DEF AckCommit, IInv, TypeOK
  <2> QED BY <2>1, <1>1, <1>3, <1>4
<1>9. ASSUME NEW i \in Instances, NEW pc, NEW status, NEW c \in Configs,
             Acknowledge(i, pc, status, c)
      PROVE  SlotOK(request[s])'
  <2>1. request'[s] \in {request[s], Send(status, c)}
    BY <1>9 DEF Acknowledge, IInv, TypeOK
  <2> QED BY <2>1, <1>1, <1>3, <1>5
<1>10. ASSUME NEW i \in Instances, Abandon(i) PROVE SlotOK(request[s])'
  <2>1. <<i, "current">> \in Instances \X Slots
    BY DEF Slots
  <2>2. request'[s] \in {request[s], NoRequest, request[<<i, "current">>]}
    BY <1>10 DEF Abandon, IInv, TypeOK
  <2>3. SlotOK(request[<<i, "current">>])
    BY <2>1 DEF SlotOK, IInv, RequestsOK
  <2> QED BY <2>2, <2>3, <1>1, <1>3, <1>4
<1>11. ASSUME NEW i \in Instances, EaStep(i) PROVE SlotOK(request[s])'
  <2>1. CASE Finish(i)
    <3>1. request'[s] \in {request[s], NoRequest}
      BY <2>1 DEF Finish, IInv, TypeOK
    <3> QED BY <3>1, <1>1, <1>3, <1>4
  <2>2. CASE ApplyValidated(i)
    BY <2>2, <1>9 DEF ApplyValidated, Apply, IInv, PollsOK
  <2>3. ASSUME NEW d \in DOMAIN deployments,
               Reject(i, d) \/ Validate(i, d) \/ ApplyOffered(i, d)
        PROVE  SlotOK(request[s])'
    BY <2>3, <1>9, RowTyped DEF Reject, Validate, ApplyOffered, Apply, IInv
  <2> QED BY <1>11, <2>1, <2>2, <2>3 DEF EaStep
<1>12. CASE \E i \in Instances : Fail(i) \/ Restart(i)
  BY <1>12, <1>10 DEF Fail, Restart
<1>13. CASE (\E c \in Configs : Schedule(c)) \/ (\E d \in DOMAIN deployments : Withdraw(d))
            \/ UNCHANGED vars
  BY <1>13, <1>6 DEF Schedule, Withdraw, vars
<1>14. ASSUME NEW t \in Instances \X Slots, Unreadable(t) PROVE SlotOK(request[s])'
  <2>1. request'[s] \in {request[s], NoRequest}
    BY <1>14 DEF Unreadable, IInv, TypeOK
  <2> QED BY <2>1, <1>1, <1>3, <1>4
<1> QED BY <1>7, <1>8, <1>11, <1>12, <1>13, <1>14 DEF Next, BridgeStep
-----------------------------------------------------------------------------
(* Polls and what an EA runs *)

LEMMA PollsKept == IInv /\ [Next]_vars => PollsOK'
<1> DEFINE PollOK(i, p, r, table) ==
             p.pc # "idle" =>
               /\ p.hash \in Configs
               /\ p.pc # "rejecting" => p.hash \in Deployable \cap Fit[i]
               /\ r.stage # "none"
               /\ r.stage \in {"sent", "read"} => r.hash = p.hash /\ r.status = StatusOf(p.pc)
               /\ r.stage = "done" => <<i, p.hash, StatusOf(p.pc)>> \in table
           cur(i) == <<i, "current">>
<1> SUFFICES ASSUME IInv, [Next]_vars, NEW i \in Instances
             PROVE  PollOK(i, poll'[i], request'[cur(i)], acks')
  BY DEF PollsOK
<1>1. \A j \in Instances : cur(j) \in Instances \X Slots
  BY DEF Slots
<1>2. PollOK(i, poll[i], request[cur(i)], acks)
  BY DEF IInv, PollsOK
<1>3. ASSUME poll'[i] = poll[i], request'[cur(i)] = request[cur(i)]
      PROVE  PollOK(i, poll'[i], request'[cur(i)], acks')
  BY <1>2, <1>3, AcksGrow
<1>4. ASSUME poll'[i] = Idle PROVE PollOK(i, poll'[i], request'[cur(i)], acks')
  BY <1>4 DEF Idle
<1>5. CASE UNCHANGED <<poll, request>>
  BY <1>5, <1>3
<1>6. ASSUME NEW t \in Instances \X Slots, NEW d \in DOMAIN deployments, AckRead(t, d)
      PROVE  PollOK(i, poll'[i], request'[cur(i)], acks')
  <2>1. CASE t # cur(i)
    <3>1. poll'[i] = poll[i] /\ request'[cur(i)] = request[cur(i)]
      BY <1>6, <1>1, <2>1 DEF AckRead, IInv, TypeOK
    <3> QED BY <3>1, <1>3
  <2>2. CASE t = cur(i)
    <3>1. /\ request[cur(i)] \in RequestType
          /\ request'[cur(i)] = [request[cur(i)] EXCEPT !.stage = "read", !.row = d,
                                                        !.seen = deployments[d].state]
      BY <1>6, <2>2, <1>1 DEF AckRead, IInv, TypeOK
    <3>2. /\ request[cur(i)].stage = "sent" /\ request'[cur(i)].stage = "read"
          /\ request'[cur(i)].hash = request[cur(i)].hash
          /\ request'[cur(i)].status = request[cur(i)].status
      BY <3>1, <1>6, <2>2 DEF AckRead, RequestType
    <3>3. poll' = poll
      BY <1>6 DEF AckRead
    <3> QED BY <3>2, <3>3, <1>2
  <2> QED BY <2>1, <2>2
<1>7. ASSUME NEW t \in Instances \X Slots, AckCommit(t)
      PROVE  PollOK(i, poll'[i], request'[cur(i)], acks')
  <2>1. CASE t # cur(i)
    BY <1>7, <1>3, <2>1 DEF AckCommit, IInv, TypeOK
  <2>2. CASE t = cur(i)
    <3>1. request[cur(i)].stage = "read" /\ request'[cur(i)].stage = "done"
      BY <1>7, <2>2, <1>1 DEF AckCommit, IInv, TypeOK, Answered, NoRequest
    <3>2. <<i, request[cur(i)].hash, request[cur(i)].status>> \in acks' /\ poll' = poll
      BY <1>7, <2>2 DEF AckCommit
    <3> QED BY <3>1, <3>2, <1>2
  <2> QED BY <2>1, <2>2
<1>8. ASSUME NEW j \in Instances, NEW pc, NEW c \in Configs, Acknowledge(j, pc, StatusOf(pc), c),
             pc # "rejecting" => c \in Deployable \cap Fit[j]
      PROVE  PollOK(i, poll'[i], request'[cur(i)], acks')
  <2>1. CASE i # j
    BY <1>8, <1>3, <2>1 DEF Acknowledge, IInv, TypeOK
  <2>2. CASE i = j
    <3>1. poll'[i] = [pc |-> pc, hash |-> c] /\ request'[cur(i)] = Send(StatusOf(pc), c)
      BY <1>8, <2>2, <1>1 DEF Acknowledge, IInv, TypeOK
    <3>2. LET r == Send(StatusOf(pc), c)
          IN  r.stage = "sent" /\ r.hash = c /\ r.status = StatusOf(pc)
      BY DEF Send, NoRequest
    <3> QED BY <3>1, <3>2, <1>8, <2>2
  <2> QED BY <2>1, <2>2
<1> HIDE DEF PollOK
<1>9. ASSUME NEW j \in Instances, NEW d \in DOMAIN deployments,
             Reject(j, d) \/ Validate(j, d) \/ ApplyOffered(j, d)
      PROVE  PollOK(i, poll'[i], request'[cur(i)], acks')
  <2>1. deployments[d].hash \in Configs
    BY RowTyped DEF IInv
  <2>2. /\ StatusOf("rejecting") = "REJECTED" /\ StatusOf("validating") = "VALIDATED"
        /\ StatusOf("applying") = "APPLIED"
    BY DEF StatusOf
  <2>3. CASE Reject(j, d)
    BY <2>3, <2>1, <2>2, <1>8 DEF Reject
  <2>4. CASE Validate(j, d)
    BY <2>4, <2>1, <2>2, <1>8 DEF Validate, Offered
  <2>5. CASE ApplyOffered(j, d)
    BY <2>5, <2>1, <2>2, <1>8 DEF ApplyOffered, Apply, Offered
  <2> QED BY <1>9, <2>3, <2>4, <2>5
<1>10. ASSUME NEW j \in Instances, ApplyValidated(j)
       PROVE  PollOK(i, poll'[i], request'[cur(i)], acks')
  <2>1. poll[j].hash \in Configs /\ poll[j].hash \in Deployable \cap Fit[j]
    BY <1>10 DEF ApplyValidated, IInv, PollsOK
  <2>2. Acknowledge(j, "applying", StatusOf("applying"), poll[j].hash)
    BY <1>10 DEF ApplyValidated, Apply, StatusOf
  <2> QED BY <2>1, <2>2, <1>8
<1>11. ASSUME NEW j \in Instances, Finish(j) \/ Fail(j) \/ Restart(j)
       PROVE  PollOK(i, poll'[i], request'[cur(i)], acks')
  <2>1. CASE i = j
    <3>1. poll'[i] = Idle
      BY <1>11, <2>1 DEF Finish, Fail, Restart, IInv, TypeOK
    <3> QED BY <3>1, <1>4
  <2>2. CASE i # j
    <3>1. poll'[i] = poll[i]
      BY <1>11, <2>2 DEF Finish, Fail, Restart, IInv, TypeOK
    <3>2. request'[cur(i)] = request[cur(i)]
      BY <1>11, <2>2, <1>1 DEF Finish, Fail, Restart, Abandon, IInv, TypeOK
    <3> QED BY <3>1, <3>2, <1>3
  <2> QED BY <2>1, <2>2
<1>12. CASE (\E c \in Configs : Schedule(c)) \/ (\E d \in DOMAIN deployments : Withdraw(d))
            \/ UNCHANGED vars
  BY <1>12, <1>5 DEF Schedule, Withdraw, vars
<1>13. ASSUME NEW t \in Instances \X Slots, Unreadable(t)
       PROVE  PollOK(i, poll'[i], request'[cur(i)], acks')
  <2>1. CASE t = cur(i)
    <3>1. poll'[i] = Idle
      BY <1>13, <2>1 DEF Unreadable, IInv, TypeOK
    <3> QED BY <3>1, <1>4
  <2>2. CASE t # cur(i)
    <3>1. t = <<t[1], t[2]>> /\ t[2] \in {"current", "late"}
      BY DEF Slots
    <3>2. poll'[i] = poll[i]
      BY <1>13, <2>2, <3>1 DEF Unreadable, IInv, TypeOK
    <3>3. request'[cur(i)] = request[cur(i)]
      BY <1>13, <2>2, <1>1 DEF Unreadable, IInv, TypeOK
    <3> QED BY <3>2, <3>3, <1>3
  <2> QED BY <2>1, <2>2
<1> QED BY <1>6, <1>7, <1>9, <1>10, <1>11, <1>12, <1>13 DEF Next, BridgeStep, EaStep

LEMMA RunsKept == IInv /\ [Next]_vars => RunsOnlyRecordedConfigs'
<1> DEFINE FitToRun(i, c, table) ==
             c # None => c \in Deployable \cap Fit[i] /\ Recorded(table, c, "VALIDATED")
<1> SUFFICES ASSUME IInv, [Next]_vars, NEW i \in Instances
             PROVE  FitToRun(i, params'[i], acks')
  BY DEF RunsOnlyRecordedConfigs, Recorded
<1>1. FitToRun(i, params[i], acks)
  BY DEF IInv, RunsOnlyRecordedConfigs, Recorded
<1>2. ASSUME NEW c, FitToRun(i, c, acks), params'[i] = c PROVE FitToRun(i, params'[i], acks')
  BY <1>2, AcksGrow
<1>3. CASE params'[i] = params[i]
  BY <1>1, <1>2, <1>3
<1>4. ASSUME NEW j \in Instances, NEW d \in DOMAIN deployments, ApplyOffered(j, d)
      PROVE  FitToRun(i, params'[i], acks')
  <2>1. CASE i # j
    BY <1>4, <2>1, <1>3 DEF ApplyOffered, Apply, IInv, TypeOK
  <2>2. CASE i = j
    <3>1. params'[i] = deployments[d].hash
      BY <1>4, <2>2 DEF ApplyOffered, Apply, IInv, TypeOK
    <3>2. deployments[d].hash \in Deployable \cap Fit[i] /\ deployments[d].state # "SCHEDULED"
      BY <1>4, <2>2 DEF ApplyOffered, Offered
    <3>3. Recorded(acks, deployments[d].hash, "VALIDATED")
      BY <3>2 DEF IInv, RowsOK
    <3> QED BY <3>1, <3>2, <3>3, <1>2
  <2> QED BY <2>1, <2>2
<1>5. ASSUME NEW j \in Instances, ApplyValidated(j) PROVE FitToRun(i, params'[i], acks')
  <2>1. CASE i # j
    BY <1>5, <2>1, <1>3 DEF ApplyValidated, Apply, IInv, TypeOK
  <2>2. CASE i = j
    <3>1. params'[i] = poll[i].hash
      BY <1>5, <2>2 DEF ApplyValidated, Apply, IInv, TypeOK
    <3>2. /\ poll[i].hash \in Deployable \cap Fit[i]
          /\ <<i, poll[i].hash, "VALIDATED">> \in acks
      BY <1>5, <2>2 DEF ApplyValidated, IInv, PollsOK, StatusOf
    <3> QED BY <3>1, <3>2, <1>2 DEF Recorded
  <2> QED BY <2>1, <2>2
<1>6. ASSUME NEW j \in Instances, Restart(j) PROVE FitToRun(i, params'[i], acks')
  <2>1. params'[i] \in {params[i], None}
    BY <1>6 DEF Restart, IInv, TypeOK
  <2> QED BY <2>1, <1>3
<1>7. CASE UNCHANGED params
  BY <1>7, <1>3
<1> HIDE DEF FitToRun
<1> QED BY <1>4, <1>5, <1>6, <1>7
        DEF Next, BridgeStep, EaStep, Schedule, Withdraw, Unreadable, AckRead, AckCommit, Reject,
            Validate, Finish, Fail, vars

LEMMA RememberedKept == IInv /\ [Next]_vars => RememberedWasRecorded'
<1> SUFFICES ASSUME IInv, [Next]_vars, NEW i \in Instances, applied'[i] # None
             PROVE  <<i, applied'[i], "APPLIED">> \in acks'
  BY DEF RememberedWasRecorded
<1>1. CASE applied'[i] = applied[i]
  BY <1>1, AcksGrow DEF IInv, RememberedWasRecorded
<1>2. ASSUME NEW j \in Instances, Finish(j) PROVE <<i, applied'[i], "APPLIED">> \in acks'
  <2>1. CASE i = j /\ poll[i].pc = "applying"
    <3>1. applied'[i] = poll[i].hash
      BY <1>2, <2>1 DEF Finish, IInv, TypeOK
    <3>2. <<i, poll[i].hash, "APPLIED">> \in acks
      BY <1>2, <2>1 DEF Finish, IInv, PollsOK, StatusOf
    <3> QED BY <3>1, <3>2, AcksGrow
  <2>2. CASE ~ (i = j /\ poll[i].pc = "applying")
    BY <1>2, <2>2, <1>1 DEF Finish, IInv, TypeOK
  <2> QED BY <2>1, <2>2
<1>3. ASSUME NEW j \in Instances, Restart(j) PROVE <<i, applied'[i], "APPLIED">> \in acks'
  BY <1>3, <1>1 DEF Restart, IInv, TypeOK
<1>4. CASE UNCHANGED applied
  BY <1>4, <1>1
<1> QED BY <1>2, <1>3, <1>4
        DEF Next, BridgeStep, EaStep, Schedule, Withdraw, Unreadable, AckRead, AckCommit, Reject,
            Validate, ApplyOffered, ApplyValidated, Apply, Acknowledge, Fail, vars
-----------------------------------------------------------------------------
(* The specification *)

LEMMA InitEstablishes == Init => IInv
<1> SUFFICES ASSUME Init PROVE IInv
  OBVIOUS
<1>1. TypeOK
  BY RequestsTyped DEF Init, TypeOK, PollType, Idle
<1>2. RowsOK
  BY DEF Init, RowsOK
<1>3. RequestsOK
  BY DEF Init, RequestsOK, NoRequest
<1>4. PollsOK /\ RunsOnlyRecordedConfigs /\ RememberedWasRecorded
  BY DEF Init, PollsOK, Idle, RunsOnlyRecordedConfigs, RememberedWasRecorded
<1> QED BY <1>1, <1>2, <1>3, <1>4 DEF IInv

LEMMA StepPreserves == IInv /\ [Next]_vars => IInv'
  BY TypesKept, RowsKept, RequestsKept, PollsKept, RunsKept, RememberedKept DEF IInv

LEMMA Invariance == Spec => []IInv
  BY InitEstablishes, StepPreserves, PTL DEF Spec

\* Rows, acknowledgements, polls and requests keep their types, and no row is
\* ever stored as EA_ACKNOWLEDGED.
THEOREM DeploymentTypeCorrect == Spec => []TypeOK
  BY Invariance, PTL DEF IInv

\* A row becomes ACTIVE only after an EA reported that it runs the configuration.
THEOREM ActivationIsReported == Spec => []ActiveIsBackedByAcks
<1>1. IInv => ActiveIsBackedByAcks
  BY DEF IInv, RowsOK, Recorded, ActiveIsBackedByAcks
<1> QED BY <1>1, Invariance, PTL

\* No EA runs a configuration it refuses, the bridge may not serve, or whose
\* validation no EA has recorded.
THEOREM OnlyRecordedConfigsRun == Spec => []RunsOnlyRecordedConfigs
  BY Invariance, PTL DEF IInv

\* What an EA will not ask for again is recorded as applied by it.
THEOREM RememberedIsRecorded == Spec => []RememberedWasRecorded
  BY Invariance, PTL DEF IInv
-----------------------------------------------------------------------------
(* How rows move *)

\* One edge of _ALLOWED, or the two that APPLIED takes, or none.
MovesAlong(old, new) ==
  \/ new = old
  \/ <<old, new>> \in Allowed
  \/ {<<old, "EA_ACKNOWLEDGED">>, <<"EA_ACKNOWLEDGED", new>>} \subseteq Allowed

\* What a commit makes of the state its handler has read.
LEMMA AdvancedMovesAlong ==
  ASSUME NEW status, NEW seen
  PROVE  MovesAlong(seen, Advanced(status, seen))
<1>1. CASE status = "VALIDATED" /\ seen = "SCHEDULED"
  <2>1. Advanced(status, seen) = "EA_VALIDATED"
    BY <1>1 DEF Advanced
  <2> QED BY <1>1, <2>1 DEF MovesAlong, Allowed
<1>2. CASE status = "APPLIED" /\ seen = "EA_VALIDATED"
  <2>1. Advanced(status, seen) = "ACTIVE"
    BY <1>2 DEF Advanced
  <2> QED BY <1>2, <2>1 DEF MovesAlong, Allowed
<1>3. CASE ~ (status = "VALIDATED" /\ seen = "SCHEDULED")
           /\ ~ (status = "APPLIED" /\ seen = "EA_VALIDATED")
  <2>1. Advanced(status, seen) = seen
    BY <1>3 DEF Advanced
  <2> QED BY <2>1 DEF MovesAlong
<1> QED BY <1>1, <1>2, <1>3

\* A commit ends its handler's work on the row.
LEMMA CommitEndsRead ==
  ASSUME TypeOK, NEW s \in Instances \X Slots, AckCommit(s)
  PROVE  request[s].stage = "read" /\ request'[s].stage # "read"
<1>1. request[s].stage = "read" /\ request'[s] \in {NoRequest, Answered}
  BY DEF AckCommit, TypeOK
<1> QED BY <1>1 DEF NoRequest, Answered

LEMMA CommitMoves ==
  ASSUME IInv, NEW s \in Instances \X Slots, AckCommit(s), ~ StaleCommit,
         NEW d \in DOMAIN deployments
  PROVE  MovesAlong(deployments[d].state, deployments'[d].state)
<1> DEFINE r    == request[s]
           next == Advanced(r.status, r.seen)
<1>1. r.row \in DOMAIN deployments
  BY CommitEndsRead DEF IInv, RequestsOK
<1>2. CASE next = r.seen
  BY <1>2 DEF AckCommit, MovesAlong
<1>3. CASE next # r.seen
  <2>1. deployments[r.row].state = r.seen
    BY <1>3, CommitEndsRead DEF IInv, StaleCommit
  <2>2. deployments' = [deployments EXCEPT ![r.row].state = next]
    BY <1>3 DEF AckCommit
  <2>3. CASE d = r.row
    <3>1. deployments[d] \in Deployment
      BY RowTyped DEF IInv
    <3>2. deployments'[d].state = next
      BY <2>2, <2>3, <3>1 DEF Deployment
    <3> QED BY <2>1, <2>3, <3>2, AdvancedMovesAlong
  <2>4. CASE d # r.row
    BY <2>2, <2>4 DEF MovesAlong
  <2> QED BY <2>3, <2>4
<1> QED BY <1>2, <1>3

LEMMA StepMoves ==
  ASSUME IInv, [Next]_vars, ~ StaleCommit, NEW d \in DOMAIN deployments
  PROVE  MovesAlong(deployments[d].state, deployments'[d].state)
<1>1. ASSUME NEW c \in Configs, Schedule(c) PROVE deployments'[d] = deployments[d]
  BY <1>1 DEF Schedule, IInv, TypeOK
<1>2. ASSUME NEW e \in DOMAIN deployments, Withdraw(e)
      PROVE  MovesAlong(deployments[d].state, deployments'[d].state)
  <2>1. CASE d = e
    <3>1. deployments[d] \in Deployment
      BY RowTyped DEF IInv
    <3>2. deployments[d].state = "ACTIVE" /\ deployments'[d].state = "RETIRED"
      BY <1>2, <2>1, <3>1 DEF Withdraw, Deployment
    <3> QED BY <3>2 DEF MovesAlong, Allowed
  <2>2. CASE d # e
    BY <1>2, <2>2 DEF Withdraw, MovesAlong
  <2> QED BY <2>1, <2>2
<1>3. ASSUME NEW s \in Instances \X Slots, NEW e \in DOMAIN deployments, AckRead(s, e)
      PROVE  deployments' = deployments
  BY <1>3 DEF AckRead
<1>4. ASSUME NEW s \in Instances \X Slots, AckCommit(s)
      PROVE  MovesAlong(deployments[d].state, deployments'[d].state)
  BY <1>4, CommitMoves
<1>5. ASSUME NEW i \in Instances, EaStep(i) \/ Fail(i) \/ Restart(i)
      PROVE  deployments' = deployments
  BY <1>5, EaLeavesRows
<1>6. ASSUME NEW s \in Instances \X Slots, Unreadable(s) PROVE deployments' = deployments
  BY <1>6 DEF Unreadable
<1>7. CASE UNCHANGED vars
  BY <1>7 DEF vars, MovesAlong
<1> QED BY <1>1, <1>2, <1>3, <1>4, <1>5, <1>6, <1>7 DEF Next, BridgeStep, MovesAlong

\* A row leaves the order of _ALLOWED only by a commit that writes over a state
\* its handler has not seen: without overlapping handlers nothing ACTIVE is
\* validated again, and nothing withdrawn comes back.
THEOREM BackwardOnlyByOverlap == Spec => MovesBackOnlyByOverlap
<1>1. IInv /\ [Next]_vars =>
        [ StaleCommit \/
          \A d \in DOMAIN deployments :
            LET old == deployments[d].state  new == deployments'[d].state
            IN  \/ new = old
                \/ <<old, new>> \in Allowed
                \/ {<<old, "EA_ACKNOWLEDGED">>, <<"EA_ACKNOWLEDGED", new>>}
                     \subseteq Allowed ]_vars
  BY StepMoves DEF MovesAlong
<1> QED BY <1>1, Invariance, PTL DEF Spec, MovesBackOnlyByOverlap
-----------------------------------------------------------------------------
(* What the unreadable body means *)

\* No acknowledgement is in the table, no row has left SCHEDULED, and every EA
\* trades on its compiled defaults.
NothingTakesEffect ==
  /\ acks = {}
  /\ \A d \in DOMAIN deployments : deployments[d].state = "SCHEDULED"
  /\ \A i \in Instances : params[i] = None /\ applied[i] = None

\* It stays so because no handler ever reads a row and no poll gets an answer
\* it could go on with.
NothingRead ==
  /\ NothingTakesEffect
  /\ \A s \in Instances \X Slots : request[s].stage \in {"none", "sent"}
  /\ \A i \in Instances : poll[i].pc \in {"idle", "rejecting", "validating"}

LEMMA NothingReadStep ==
  ASSUME TRUE \notin Readable, IInv, NothingRead, [Next]_vars
  PROVE  NothingRead'
<1> USE DEF IInv, TypeOK
<1>1. /\ \A i \in Instances : <<i, "current">> \in Instances \X Slots
      /\ NoRequest.stage = "none" /\ Idle.pc = "idle"
      /\ \A status, c : Send(status, c).stage = "sent"
  BY DEF Slots, NoRequest, Idle, Send
<1>2. ASSUME NEW c \in Configs, Schedule(c) PROVE NothingRead'
  <2>1. deployments' = Append(deployments, [hash |-> c, state |-> "SCHEDULED"])
    BY <1>2 DEF Schedule
  <2>2. \A d \in DOMAIN deployments' : deployments'[d].state = "SCHEDULED"
    BY <2>1 DEF NothingRead, NothingTakesEffect
  <2> QED BY <1>2, <2>2 DEF Schedule, NothingRead, NothingTakesEffect
<1>3. ASSUME NEW d \in DOMAIN deployments, Withdraw(d) PROVE FALSE
  BY <1>3 DEF Withdraw, NothingRead, NothingTakesEffect
<1>4. ASSUME NEW s \in Instances \X Slots, BridgeStep(s) PROVE NothingRead'
  <2>1. Unreadable(s)
    BY <1>4 DEF BridgeStep, AckRead, AckCommit, NothingRead
  <2>2. \A t \in Instances \X Slots : request'[t] \in {request[t], NoRequest}
    BY <2>1 DEF Unreadable
  <2>3. \A i \in Instances : poll'[i] \in {poll[i], Idle}
    BY <2>1 DEF Unreadable
  <2>4. UNCHANGED <<deployments, acks, params, applied>>
    BY <2>1 DEF Unreadable
  <2>5. NothingTakesEffect'
    BY <2>4 DEF NothingRead, NothingTakesEffect
  <2>6. \A t \in Instances \X Slots : request'[t].stage \in {"none", "sent"}
    BY <1>1, <2>2 DEF NothingRead
  <2>7. \A i \in Instances : poll'[i].pc \in {"idle", "rejecting", "validating"}
    BY <1>1, <2>3 DEF NothingRead
  <2> QED BY <2>5, <2>6, <2>7 DEF NothingRead
<1>5. ASSUME NEW i \in Instances, NEW pc \in {"rejecting", "validating"}, NEW status, NEW c,
             Acknowledge(i, pc, status, c), UNCHANGED params
      PROVE  NothingRead'
  <2>1. \A t \in Instances \X Slots : request'[t] \in {request[t], Send(status, c)}
    BY <1>5 DEF Acknowledge
  <2>2. \A j \in Instances : poll'[j] \in {poll[j], [pc |-> pc, hash |-> c]}
    BY <1>5 DEF Acknowledge
  <2>3. UNCHANGED <<deployments, acks, params, applied>>
    BY <1>5 DEF Acknowledge
  <2> QED BY <1>1, <2>1, <2>2, <2>3 DEF NothingRead, NothingTakesEffect
<1>6. ASSUME NEW i \in Instances, EaStep(i) PROVE NothingRead'
  <2>1. ~ ApplyValidated(i) /\ ~ Finish(i)
    BY <1>1 DEF ApplyValidated, Finish, NothingRead
  <2>2. PICK d \in DOMAIN deployments : Reject(i, d) \/ Validate(i, d) \/ ApplyOffered(i, d)
    BY <1>6, <2>1 DEF EaStep
  <2>3. ~ ApplyOffered(i, d)
    BY DEF ApplyOffered, NothingRead, NothingTakesEffect
  <2> QED BY <1>5, <2>2, <2>3 DEF Reject, Validate
<1>7. ASSUME NEW i \in Instances, Fail(i) \/ Restart(i) PROVE NothingRead'
  <2>1. \A t \in Instances \X Slots :
           request'[t] \in {request[t], NoRequest, request[<<i, "current">>]}
    BY <1>7 DEF Fail, Restart, Abandon
  <2>2. \A j \in Instances : poll'[j] \in {poll[j], Idle}
    BY <1>7 DEF Fail, Restart
  <2>3. /\ UNCHANGED <<deployments, acks>>
        /\ \A j \in Instances : params'[j] \in {params[j], None}
                                /\ applied'[j] \in {applied[j], None}
    BY <1>7 DEF Fail, Restart
  <2> QED BY <1>1, <2>1, <2>2, <2>3 DEF NothingRead, NothingTakesEffect, Idle
<1>8. CASE UNCHANGED vars
  BY <1>8 DEF vars, NothingRead, NothingTakesEffect
<1> QED BY <1>2, <1>3, <1>4, <1>6, <1>7, <1>8 DEF Next

\* CConfigSync::Ack posts the NUL that ends its array, and the bridge reads no
\* such body: whatever is scheduled, by however many instances it is polled and
\* however long, no acknowledgement is recorded and no row or EA ever changes.
THEOREM UnreadableTakesNoEffect ==
  TRUE \notin Readable => (Spec => []NothingTakesEffect)
<1> SUFFICES ASSUME TRUE \notin Readable PROVE Spec => []NothingTakesEffect
  OBVIOUS
<1>1. Init => NothingRead
  BY DEF Init, NothingRead, NothingTakesEffect, Idle, NoRequest
<1>2. IInv /\ NothingRead /\ [Next]_vars => NothingRead'
  BY NothingReadStep
<1>3. NothingRead => NothingTakesEffect
  BY DEF NothingRead
<1> QED BY <1>1, <1>2, <1>3, Invariance, PTL DEF Spec
=============================================================================
