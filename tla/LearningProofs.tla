--------------------------- MODULE LearningProofs ---------------------------
(***************************************************************************)
(* A weight version is approved on evidence, and the verdict on a request  *)
(* stands unless two taps on it overlapped: for any versions, metrics,     *)
(* estimates, cycles and handlers.                                         *)
(*                                                                         *)
(* The inductive invariant follows a request from its cycles to the table: *)
(* it was founded on three stored cycles, only promotions get a card with  *)
(* buttons, a tap works on a request that has such a card, and a row of    *)
(* approved_weight_versions names a request for its own version.           *)
(***************************************************************************)
EXTENDS Learning, SequenceTheorems, TLAPS

RunsKnow ==
    \A h \in Runners :
        /\ runner[h].at = "computed" => runner[h].cycle \in DOMAIN cycles
        /\ runner[h].at = "sending" => runner[h].request \in DOMAIN requests

CardsPromote == \A r \in cards : r \in DOMAIN requests /\ requests[r].action = "PROMOTE"

TapsKnow ==
    \A h \in Taps : tap[h].at # "idle" =>
        /\ tap[h].request \in cards /\ tap[h].read = "pending"
        /\ tap[h].at = "flushed" =>
               /\ tap[h].verdict = "approved"
               /\ tap[h].existing => approved[requests[tap[h].request].version] # 0

\* A request rests on three stored cycles that have its version, and if it asks
\* for a promotion they are evidence for it.
Rests(q) ==
    /\ \A n \in 1 .. 3 : q.basis[n] \in History(q.version)
    /\ q.action = "PROMOTE" => IsEvidence(StatsOf(q.basis, q.version))
Founded == \A r \in DOMAIN requests : Rests(requests[r])

ApprovedKnown ==
    \A v \in Versions : approved[v] # 0 =>
        approved[v] \in cards /\ requests[approved[v]].version = v

LearningInv == /\ LearningTypeOK /\ RunsKnow /\ CardsPromote /\ TapsKnow
               /\ Founded /\ ApprovedKnown /\ VerdictStands
-----------------------------------------------------------------------------
(***************************************************************************)
(* The gate                                                                *)
(***************************************************************************)

\* An estimate lies within its interval.
LEMMA EstimableOrdered ==
  ASSUME NEW a \in Stat, a.estimable
  PROVE  /\ a.ci_low \in Int /\ a.value \in Int /\ a.ci_high \in Int
         /\ a.ci_low <= a.value /\ a.value <= a.ci_high
  <1>1. Empty.estimable = FALSE BY DEF Empty
  <1>2. a # Empty BY <1>1
  <1>3. /\ a \in [estimable : {TRUE}, value : Estimates, ci_low : Estimates, ci_high : Estimates]
        /\ a.ci_low <= a.value /\ a.value <= a.ci_high
    BY <1>2 DEF Stat
  <1> QED BY <1>3, GatingAssumption

\* A rise that is not within the intervals' overlap is clear of them, and so is
\* a fall; a clear fall counts as one.
LEMMA ClearMoves ==
  ASSUME NEW a \in Stat, NEW b \in Stat
  PROVE  /\ Moved(a, b) = "up" => LiesAbove(b, a)
         /\ LiesAbove(a, b) => Moved(a, b) = "down"
  <1>1. ASSUME a.estimable, b.estimable
        PROVE  /\ a.ci_low \in Int /\ a.value \in Int /\ a.ci_high \in Int
               /\ b.ci_low \in Int /\ b.value \in Int /\ b.ci_high \in Int
               /\ a.ci_low <= a.value /\ a.value <= a.ci_high
               /\ b.ci_low <= b.value /\ b.value <= b.ci_high
    BY <1>1, EstimableOrdered
  <1>2. Moved(a, b) = "up" => LiesAbove(b, a)
    BY <1>1 DEF Moved, Direction, IntervalsOverlap, LiesAbove
  <1>3. LiesAbove(a, b) => Moved(a, b) = "down"
    BY <1>1 DEF Moved, Direction, IntervalsOverlap, LiesAbove
  <1> QED BY <1>2, <1>3

\* Clear rises add up.
LEMMA AboveTransitive ==
  ASSUME NEW a \in Stat, NEW b \in Stat, NEW c \in Stat, LiesAbove(a, b), LiesAbove(b, c)
  PROVE  LiesAbove(a, c)
  <1>1. /\ a.ci_low \in Int /\ c.ci_high \in Int /\ b.ci_low \in Int /\ b.ci_high \in Int
        /\ b.ci_low <= b.ci_high
    BY EstimableOrdered DEF LiesAbove
  <1> QED BY <1>1 DEF LiesAbove

\* decide() promotes on evidence only.
LEMMA PromotedOnEvidence ==
  ASSUME NEW h \in [1 .. 3 -> [GATED_METRICS -> Stat]], Decide(h) = "PROMOTE"
  PROVE  IsEvidence(h)
  <1>1. PersistentMoves(h, "up") # {} /\ PersistentMoves(h, "down") = {}
    BY DEF Decide
  <1>2. \A m \in GATED_METRICS : h[1][m] \in Stat /\ h[2][m] \in Stat /\ h[3][m] \in Stat
    OBVIOUS
  <1>3. PICK m \in GATED_METRICS : Persists(h, m, "up") BY <1>1 DEF PersistentMoves
  <1>4. LiesAbove(h[3][m], h[1][m])
    BY <1>2, <1>3, ClearMoves, AboveTransitive DEF Persists, Earlier, Later
  <1>5. ASSUME NEW n \in GATED_METRICS,
               LiesAbove(h[1][n], h[2][n]), LiesAbove(h[2][n], h[3][n])
        PROVE  FALSE
    <2>1. Persists(h, n, "down")
      BY <1>2, <1>5, ClearMoves DEF Persists, Earlier, Later
    <2> QED BY <1>1, <2>1 DEF PersistentMoves
  <1> QED BY <1>4, <1>5 DEF IsEvidence
-----------------------------------------------------------------------------
(***************************************************************************)
(* Types                                                                   *)
(***************************************************************************)

LEMMA NoRunTyped == NoRun \in Run /\ NoRun.at = "idle"
  BY DEF NoRun, Run

LEMMA NoTapTyped == NoTap \in Tap /\ NoTap.at = "idle"
  BY DEF NoTap, Tap

LEMMA InitLearning == LearningInit => LearningInv
  <1> SUFFICES ASSUME LearningInit PROVE LearningInv OBVIOUS
  <1> USE DEF LearningInit
  <1>1. LearningTypeOK BY NoRunTyped, NoTapTyped DEF LearningTypeOK
  <1>2. RunsKnow /\ CardsPromote /\ TapsKnow
    BY NoRunTyped, NoTapTyped DEF RunsKnow, CardsPromote, TapsKnow
  <1>3. DOMAIN requests = {} OBVIOUS
  <1>4. Founded /\ ApprovedKnown /\ VerdictStands
    BY <1>3 DEF Founded, ApprovedKnown, VerdictStands
  <1> QED BY <1>1, <1>2, <1>4 DEF LearningInv

\* Cycles are added and marked as stored; nothing else happens to one.
CyclesGrow ==
    \A i \in DOMAIN cycles :
        /\ i \in DOMAIN cycles'
        /\ cycles'[i].stats = cycles[i].stats
        /\ cycles[i].stored => cycles'[i].stored

\* What a request rests on stays.
LEMMA RestsStay ==
  ASSUME LearningTypeOK, CyclesGrow, NEW q \in PromotionRequest, Rests(q)
  PROVE  Rests(q)'
  <1>1. \A n \in 1 .. 3 : /\ q.basis[n] \in DOMAIN cycles
                          /\ cycles'[q.basis[n]].stats = cycles[q.basis[n]].stats
    BY DEF Rests, History, CyclesGrow
  <1>2. \A n \in 1 .. 3 : q.basis[n] \in History(q.version)'
    BY DEF Rests, History, CyclesGrow
  <1>3. StatsOf(q.basis, q.version)' = StatsOf(q.basis, q.version)
    BY <1>1 DEF StatsOf
  <1> QED BY <1>2, <1>3 DEF Rests
-----------------------------------------------------------------------------
(***************************************************************************)
(* The steps of a cycle                                                    *)
(***************************************************************************)

\* A step that leaves requests and taps alone, and takes no card away.
LEMMA StepAside ==
  ASSUME LearningInv, CyclesGrow, LearningTypeOK', RunsKnow', CardsPromote',
         UNCHANGED <<requests, approved, tap, overlapped>>, cards \subseteq cards'
  PROVE  LearningInv'
  <1> USE DEF LearningInv
  <1>1. TapsKnow' BY DEF TapsKnow
  <1>2. ApprovedKnown' BY DEF ApprovedKnown
  <1>3. VerdictStands' BY DEF VerdictStands
  <1>4. Founded'
    <2> SUFFICES ASSUME NEW r \in DOMAIN requests PROVE Rests(requests[r])'
      BY DEF Founded
    <2>1. requests[r] \in PromotionRequest BY DEF LearningTypeOK
    <2>2. Rests(requests[r]) BY DEF Founded
    <2> DEFINE q == requests[r]
    <2>3. requests'[r] = q OBVIOUS
    <2> HIDE DEF q
    <2> QED BY <2>1, <2>2, <2>3, RestsStay DEF q, Rests, History, StatsOf
  <1> QED BY <1>1, <1>2, <1>3, <1>4

LEMMA StepCompute ==
  ASSUME LearningInv, NEW h \in Runners, NEW report \in Measured, Compute(h, report)
  PROVE  LearningInv'
  <1> USE DEF LearningInv, LearningTypeOK
  <1> DEFINE cycle == [stored |-> FALSE, stats |-> report]
             run == [NoRun EXCEPT !.at = "computed", !.cycle = Len(cycles) + 1]
  <1>1. cycle \in CalibrationCycle BY LearningAssumption DEF CalibrationCycle
  <1>2. cycles' = Append(cycles, cycle) /\ runner' = [runner EXCEPT ![h] = run]
    BY DEF Compute
  <1>3. run \in Run /\ run.at = "computed" /\ run.cycle = Len(cycles) + 1
    <2>1. Len(cycles) + 1 \in Nat BY LenProperties
    <2> DEFINE n == Len(cycles) + 1
    <2> HIDE DEF n
    <2>2. n \in Nat BY <2>1 DEF n
    <2>3. [NoRun EXCEPT !.at = "computed", !.cycle = n] \in Run BY <2>2 DEF NoRun, Run
    <2>4. run.at = "computed" /\ run.cycle = Len(cycles) + 1 BY DEF NoRun
    <2> QED BY <2>3, <2>4 DEF n
  <1> HIDE DEF cycle, run
  <1>4. /\ cycles' \in Seq(CalibrationCycle) /\ Len(cycles') = Len(cycles) + 1
        /\ DOMAIN cycles' = 1 .. Len(cycles) + 1 /\ DOMAIN cycles = 1 .. Len(cycles)
        /\ \A i \in DOMAIN cycles : cycles'[i] = cycles[i]
    BY <1>1, <1>2, AppendProperties
  <1>5. CyclesGrow BY <1>4 DEF CyclesGrow
  <1>6. UNCHANGED <<requests, cards, approved, tap, overlapped>>
    BY DEF Compute, tapVars
  <1>7. LearningTypeOK' BY <1>2, <1>3, <1>4, <1>6
  <1>8. Len(cycles) + 1 \in DOMAIN cycles' BY <1>4
  <1>9. RunsKnow' BY <1>2, <1>3, <1>4, <1>6, <1>8 DEF RunsKnow
  <1>10. CardsPromote' BY <1>6 DEF CardsPromote
  <1> QED BY <1>5, <1>6, <1>7, <1>9, <1>10, StepAside

\* A report has metrics for versions.
LEMMA ReportTyped ==
  ASSUME NEW report \in Reports
  PROVE  /\ DOMAIN report \subseteq Versions
         /\ \A v \in DOMAIN report : report[v] \in [GATED_METRICS -> Stat]
  BY DEF Reports

LEMMA StepPersist ==
  ASSUME LearningInv, NEW h \in Runners, Persist(h)
  PROVE  LearningInv'
  <1> USE DEF LearningInv, LearningTypeOK
  <1> DEFINE c == runner[h].cycle
             cycle == [cycles[c] EXCEPT !.stored = TRUE]
             run == [runner[h] EXCEPT !.at = "deciding", !.todo = DOMAIN cycles[c].stats]
  <1>1. c \in DOMAIN cycles /\ c \in 1 .. Len(cycles) BY DEF Persist, RunsKnow
  <1>2. cycles[c] \in CalibrationCycle BY <1>1
  <1>3. cycle \in CalibrationCycle /\ cycle.stored /\ cycle.stats = cycles[c].stats
    BY <1>2 DEF CalibrationCycle
  <1>4. DOMAIN cycles[c].stats \subseteq Versions
    BY <1>2, ReportTyped DEF CalibrationCycle
  <1>5. run \in Run /\ run.at = "deciding" BY <1>4 DEF Run
  <1>6. cycles' = [cycles EXCEPT ![c] = cycle] /\ runner' = [runner EXCEPT ![h] = run]
    BY <1>5 DEF Persist
  <1> HIDE DEF c, cycle, run
  <1>7. /\ cycles' \in Seq(CalibrationCycle) /\ DOMAIN cycles' = DOMAIN cycles
        /\ \A i \in DOMAIN cycles : cycles'[i] = IF i = c THEN cycle ELSE cycles[i]
    BY <1>1, <1>3, <1>6, ExceptSeq
  <1>8. CyclesGrow BY <1>3, <1>7 DEF CyclesGrow
  <1>9. UNCHANGED <<requests, cards, approved, tap, overlapped>>
    BY DEF Persist, tapVars
  <1>10. LearningTypeOK' BY <1>5, <1>6, <1>7, <1>9
  <1>11. RunsKnow' BY <1>5, <1>6, <1>7, <1>9 DEF RunsKnow
  <1>12. CardsPromote' BY <1>9 DEF CardsPromote
  <1> QED BY <1>8, <1>9, <1>10, <1>11, <1>12, StepAside

LEMMA StepHoldSendEnd ==
  ASSUME LearningInv, NEW h \in Runners,
         Send(h) \/ EndRun(h) \/ \E v \in Versions : Hold(h, v)
  PROVE  LearningInv'
  <1> USE DEF LearningInv, LearningTypeOK
  <1>1. UNCHANGED <<cycles, requests, approved, tap, overlapped>>
    BY DEF Send, EndRun, Hold, tapVars
  <1>2. CyclesGrow BY <1>1 DEF CyclesGrow
  <1>3. CASE Send(h)
    <2>1. runner[h].request \in DOMAIN requests BY <1>3 DEF Send, RunsKnow
    <2>2. runner' \in [Runners -> Run] BY <1>3 DEF Send, Run
    <2>3. /\ cards \subseteq cards' /\ cards' \subseteq cards \cup {runner[h].request}
          /\ \A r \in cards' \ cards : requests[r].action = "PROMOTE"
      BY <1>3 DEF Send
    <2>4. CardsPromote' BY <1>1, <2>1, <2>3 DEF CardsPromote
    <2>5. cards' \subseteq Nat BY <2>3 DEF Run
    <2>6. RunsKnow' BY <1>1, <1>3 DEF RunsKnow, Send, Run
    <2> QED BY <1>1, <1>2, <2>2, <2>3, <2>4, <2>5, <2>6, StepAside
  <1>4. CASE EndRun(h)
    <2>1. cards' = cards BY <1>4 DEF EndRun
    <2>2. runner' \in [Runners -> Run] /\ RunsKnow'
      BY <1>1, <1>4, NoRunTyped DEF EndRun, RunsKnow
    <2> QED BY <1>1, <1>2, <2>1, <2>2, StepAside DEF CardsPromote
  <1>5. ASSUME NEW v \in Versions, Hold(h, v) PROVE LearningInv'
    <2>1. cards' = cards BY <1>5 DEF Hold
    <2>2. runner' \in [Runners -> Run] /\ RunsKnow'
      BY <1>1, <1>5 DEF Hold, RunsKnow, Run
    <2> QED BY <1>1, <1>2, <2>1, <2>2, StepAside DEF CardsPromote
  <1> QED BY <1>3, <1>4, <1>5

\* A promotion is requested on evidence.
LEMMA StepRequest ==
  ASSUME LearningInv, NEW h \in Runners, NEW v \in Versions, Request(h, v)
  PROVE  LearningInv'
  <1> USE DEF LearningInv, LearningTypeOK
  <1>1. PICK b \in [1 .. 3 -> DOMAIN cycles] :
            /\ IsBasis(b, v) /\ Decide(StatsOf(b, v)) # "HOLD"
            /\ requests' = Append(requests, Requested(v, Decide(StatsOf(b, v)), b))
    BY DEF Request
  <1> DEFINE q == Requested(v, Decide(StatsOf(b, v)), b)
             last == Len(requests) + 1
             run == [runner[h] EXCEPT !.todo = @ \ {v}, !.at = "sending", !.request = last]
  <1>2. DOMAIN cycles \subseteq Nat BY LenProperties
  <1>3. q \in PromotionRequest /\ q.version = v /\ q.basis = b
        /\ q.action = Decide(StatsOf(b, v)) /\ q.status \in {"pending", "auto_executed"}
    <2>1. Decide(StatsOf(b, v)) \in {"PROMOTE", "ROLLBACK"} BY <1>1 DEF Decide
    <2>2. b \in [1 .. 3 -> Nat] BY <1>1, <1>2
    <2> QED BY <2>1, <2>2 DEF Requested, PromotionRequest
  <1>4. Rests(q)
    <2>1. \A n \in 1 .. 3 : b[n] \in History(v)
      BY <1>1 DEF IsBasis
    <2>2. \A n \in 1 .. 3 : cycles[b[n]].stats[v] \in [GATED_METRICS -> Stat]
      <3> SUFFICES ASSUME NEW n \in 1 .. 3
                   PROVE  cycles[b[n]].stats[v] \in [GATED_METRICS -> Stat]
        OBVIOUS
      <3>1. b[n] \in DOMAIN cycles /\ v \in DOMAIN cycles[b[n]].stats BY <2>1 DEF History
      <3>2. cycles[b[n]] \in CalibrationCycle BY <3>1
      <3>3. cycles[b[n]].stats \in Reports BY <3>2 DEF CalibrationCycle
      <3> QED BY <3>1, <3>3, ReportTyped
    <2>3. StatsOf(b, v) \in [1 .. 3 -> [GATED_METRICS -> Stat]] BY <2>2 DEF StatsOf
    <2> QED BY <1>3, <2>1, <2>3, PromotedOnEvidence DEF Rests
  <1>5. last \in Nat /\ runner' = [runner EXCEPT ![h] = run]
    <2>1. last \in Nat BY LenProperties
    <2>2. runner' = [runner EXCEPT ![h] = run] BY DEF Request
    <2> QED BY <2>1, <2>2
  <1>6. run \in Run /\ run.at = "sending" /\ run.request = last
    <2> HIDE DEF last
    <2> QED BY <1>5 DEF Run
  <1>7. requests' = Append(requests, q) BY <1>1
  <1> HIDE DEF q, run
  <1>8. /\ requests' \in Seq(PromotionRequest) /\ requests'[last] = q
        /\ DOMAIN requests = 1 .. Len(requests) /\ DOMAIN requests' = 1 .. last
        /\ \A r \in DOMAIN requests : requests'[r] = requests[r]
    BY <1>3, <1>7, AppendProperties
  <1>9. /\ last \in DOMAIN requests' /\ DOMAIN requests \subseteq DOMAIN requests'
        /\ DOMAIN requests' \subseteq DOMAIN requests \cup {last}
    BY <1>5, <1>8, LenProperties
  <1> HIDE DEF last
  <1>10. UNCHANGED <<cycles, cards, approved, tap, overlapped>>
    BY DEF Request, tapVars
  <1>11. LearningTypeOK' BY <1>5, <1>6, <1>8, <1>10
  <1>12. RunsKnow' BY <1>5, <1>6, <1>9, <1>10 DEF RunsKnow
  <1>13. CardsPromote' /\ TapsKnow' /\ ApprovedKnown'
    BY <1>8, <1>9, <1>10 DEF CardsPromote, TapsKnow, ApprovedKnown
  <1>14. Founded'
    BY <1>4, <1>8, <1>9, <1>10 DEF Founded, Rests, History, StatsOf
  <1>15. VerdictStands'
    BY <1>3, <1>8, <1>9, <1>10 DEF VerdictStands, ApprovedKnown, CardsPromote
  <1> QED BY <1>11, <1>12, <1>13, <1>14, <1>15
-----------------------------------------------------------------------------
(***************************************************************************)
(* The steps of a tap                                                      *)
(***************************************************************************)

LEMMA StepTapReads ==
  ASSUME LearningInv, NEW h \in Taps,
         \/ \E r \in cards, verdict \in {"approved", "rejected"} : LoadRequest(h, r, verdict)
         \/ LookUp(h) \/ FailTap(h)
  PROVE  LearningInv'
  <1> USE DEF LearningInv, LearningTypeOK
  <1>1. UNCHANGED <<cycles, requests, approved, cards, runner, overlapped>>
    BY DEF LoadRequest, LookUp, FailTap
  <1>2. tap' \in [Taps -> Tap] /\ TapsKnow'
    <2>1. ASSUME NEW r \in cards, NEW verdict \in {"approved", "rejected"},
                 LoadRequest(h, r, verdict)
          PROVE  tap' \in [Taps -> Tap] /\ TapsKnow'
      <3> DEFINE read == [NoTap EXCEPT !.at = "loaded", !.request = r,
                              !.verdict = verdict, !.read = requests[r].status]
      <3>1. tap' = [tap EXCEPT ![h] = read] /\ requests[r].status = "pending"
        BY <2>1 DEF LoadRequest, CanBeDecided
      <3>2. read \in Tap /\ read.at = "loaded" /\ read.request = r /\ read.read = "pending"
        BY <3>1 DEF NoTap, Tap
      <3> QED BY <1>1, <3>1, <3>2 DEF TapsKnow
    <2>2. CASE LookUp(h)
      <3> DEFINE taken == approved[requests[tap[h].request].version] # 0
      <3>1. tap' = [tap EXCEPT ![h] = [tap[h] EXCEPT !.at = "flushed", !.existing = taken]]
        BY <2>2 DEF LookUp
      <3>2. tap[h].at # "idle" /\ tap[h].verdict = "approved" BY <2>2 DEF LookUp
      <3>3. [tap[h] EXCEPT !.at = "flushed", !.existing = taken] \in Tap BY DEF Tap
      <3> QED BY <1>1, <3>1, <3>2, <3>3 DEF TapsKnow, Tap
    <2>3. CASE FailTap(h)
      BY <1>1, <2>3, NoTapTyped DEF FailTap, TapsKnow
    <2> QED BY <2>1, <2>2, <2>3
  <1>3. RunsKnow' /\ CardsPromote' /\ ApprovedKnown' /\ VerdictStands'
    BY <1>1 DEF RunsKnow, CardsPromote, ApprovedKnown, VerdictStands
  <1>4. Founded' BY <1>1 DEF Founded, Rests, History, StatsOf
  <1> QED BY <1>1, <1>2, <1>3, <1>4

\* What a decision does to the requests: one of them gets its verdict.
LEMMA DecidedChanges ==
  ASSUME LearningInv, NEW h \in Taps, tap[h].at # "idle", Decided(h)
  PROVE  /\ requests' \in Seq(PromotionRequest) /\ DOMAIN requests' = DOMAIN requests
         /\ \A r \in DOMAIN requests :
                /\ requests'[r].version = requests[r].version
                /\ requests'[r].action = requests[r].action
                /\ requests'[r].basis = requests[r].basis
                /\ requests'[r].status = IF r = tap[h].request THEN tap[h].verdict
                                         ELSE requests[r].status
  <1> USE DEF LearningInv, LearningTypeOK
  <1> DEFINE r == tap[h].request
             q == [requests[r] EXCEPT !.status = tap[h].verdict]
  <1>1. r \in DOMAIN requests /\ r \in 1 .. Len(requests)
    BY LenProperties DEF TapsKnow, CardsPromote
  <1>2. requests[r] \in PromotionRequest /\ tap[h].verdict \in {"approved", "rejected"}
    BY <1>1 DEF Tap
  <1>3. /\ q \in PromotionRequest /\ q.status = tap[h].verdict
        /\ q.version = requests[r].version /\ q.action = requests[r].action
        /\ q.basis = requests[r].basis
    BY <1>2 DEF PromotionRequest
  <1>4. requests' = [requests EXCEPT ![r] = q] BY DEF Decided
  <1> HIDE DEF q
  <1>5. /\ requests' \in Seq(PromotionRequest) /\ DOMAIN requests' = DOMAIN requests
        /\ \A s \in DOMAIN requests : requests'[s] = IF s = r THEN q ELSE requests[s]
    BY <1>1, <1>3, <1>4, ExceptSeq
  <1> QED BY <1>3, <1>5

LEMMA StepDecide ==
  ASSUME LearningInv, NEW h \in Taps, Approve(h) \/ Reject(h)
  PROVE  LearningInv'
  <1> USE DEF LearningInv, LearningTypeOK
  <1> DEFINE r == tap[h].request
             v == requests[r].version
  <1>1. /\ Decided(h) /\ tap[h].at # "idle" /\ UNCHANGED <<cycles, cards, runner>>
    BY DEF Approve, Reject
  <1>2. /\ r \in cards /\ r \in DOMAIN requests /\ v \in Versions /\ r \in Nat \ {0}
        /\ tap[h].read = "pending"
    <2>1. /\ r \in cards /\ r \in DOMAIN requests /\ tap[h].read = "pending"
      BY <1>1 DEF TapsKnow, CardsPromote
    <2>2. requests[r] \in PromotionRequest BY <2>1
    <2>3. r \in Nat \ {0} BY <2>1, LenProperties
    <2> QED BY <2>1, <2>2, <2>3 DEF PromotionRequest
  <1>3. /\ requests' \in Seq(PromotionRequest) /\ DOMAIN requests' = DOMAIN requests
        /\ \A s \in DOMAIN requests :
               /\ requests'[s].version = requests[s].version
               /\ requests'[s].action = requests[s].action
               /\ requests'[s].basis = requests[s].basis
               /\ requests'[s].status = IF s = r THEN tap[h].verdict ELSE requests[s].status
    BY <1>1, DecidedChanges
  <1>4. /\ tap' = [tap EXCEPT ![h] = NoTap]
        /\ overlapped' = IF requests[r].status # "pending" THEN overlapped \cup {r} ELSE overlapped
    BY <1>1, <1>2 DEF Decided
  <1>5. \/ /\ tap[h].verdict = "approved" /\ approved[v] = 0
           /\ approved' = [approved EXCEPT ![v] = r]
        \/ tap[h].verdict = "approved" /\ approved[v] # 0 /\ approved' = approved
        \/ tap[h].verdict = "rejected" /\ approved' = approved
    BY DEF Approve, Reject, TapsKnow
  <1> HIDE DEF r, v
  <1>6. /\ approved' \in [Versions -> Nat]
        /\ \A w \in Versions : approved[w] # 0 => approved'[w] = approved[w]
    BY <1>2, <1>5
  <1>7. LearningTypeOK'
    BY <1>1, <1>2, <1>3, <1>4, <1>6, NoTapTyped
  <1>8. RunsKnow' /\ CardsPromote' BY <1>1, <1>3 DEF RunsKnow, CardsPromote
  <1>9. TapsKnow'
    <2> SUFFICES ASSUME NEW o \in Taps, tap'[o].at # "idle"
                 PROVE  /\ tap'[o].request \in cards' /\ tap'[o].read = "pending"
                        /\ tap'[o].at = "flushed" =>
                               /\ tap'[o].verdict = "approved"
                               /\ tap'[o].existing =>
                                      approved'[requests'[tap'[o].request].version] # 0
      BY DEF TapsKnow
    <2>1. tap'[o] = tap[o] BY <1>4, NoTapTyped
    <2>2. tap[o].request \in DOMAIN requests BY <2>1 DEF TapsKnow, CardsPromote
    <2>3. requests[tap[o].request] \in PromotionRequest BY <2>2
    <2>4. requests[tap[o].request].version \in Versions BY <2>3 DEF PromotionRequest
    <2> QED BY <1>1, <1>3, <1>6, <2>1, <2>2, <2>4 DEF TapsKnow
  <1>10. Founded'
    BY <1>1, <1>3 DEF Founded, Rests, History, StatsOf
  <1>11. ApprovedKnown'
    <2> SUFFICES ASSUME NEW w \in Versions, approved'[w] # 0
                 PROVE  approved'[w] \in cards' /\ requests'[approved'[w]].version = w
      BY DEF ApprovedKnown
    <2>1. CASE approved[w] # 0
      BY <1>1, <1>3, <1>6, <2>1 DEF ApprovedKnown, CardsPromote
    <2>2. CASE approved[w] = 0
      BY <1>1, <1>2, <1>3, <1>5, <2>2 DEF v
    <2> QED BY <2>1, <2>2
  <1>12. ASSUME NEW w \in Versions, approved'[w] # 0
         PROVE  requests'[approved'[w]].status = "approved" \/ approved'[w] \in overlapped'
    <2>1. CASE approved[w] = 0 BY <1>2, <1>3, <1>5, <1>12, <2>1
    <2>2. CASE approved[w] # 0
      <3>1. approved'[w] = approved[w] /\ approved[w] \in DOMAIN requests
        BY <1>6, <2>2 DEF ApprovedKnown, CardsPromote
      <3> QED BY <1>3, <1>4, <2>2, <3>1 DEF VerdictStands
    <2> QED BY <2>1, <2>2
  <1>13. ASSUME NEW s \in DOMAIN requests, requests'[s].status = "approved"
         PROVE  approved'[requests'[s].version] # 0
    <2>0. requests[s] \in PromotionRequest OBVIOUS
    <2>1. requests[s].version \in Versions BY <2>0 DEF PromotionRequest
    <2>2. CASE s = r BY <1>2, <1>3, <1>5, <1>6, <1>13, <2>2 DEF v
    <2>3. CASE s # r BY <1>3, <1>6, <1>13, <2>1, <2>3 DEF VerdictStands
    <2> QED BY <2>2, <2>3
  <1>14. VerdictStands' BY <1>3, <1>12, <1>13 DEF VerdictStands
  <1> QED BY <1>7, <1>8, <1>9, <1>10, <1>11, <1>14
-----------------------------------------------------------------------------
LEMMA LearningInvariant == LearningSpec => []LearningInv
  <1>1. LearningInit => LearningInv BY InitLearning
  <1>2. LearningInv /\ [LearningNext]_learningVars => LearningInv'
    <2> SUFFICES ASSUME LearningInv, [LearningNext]_learningVars PROVE LearningInv'
      OBVIOUS
    <2>1. CASE LearningNext
      BY <2>1, StepCompute, StepPersist, StepHoldSendEnd, StepRequest, StepTapReads, StepDecide
         DEF LearningNext
    <2>2. CASE UNCHANGED learningVars
      BY <2>2 DEF learningVars, LearningInv, LearningTypeOK, RunsKnow, CardsPromote, TapsKnow,
                  Founded, Rests, History, StatsOf, ApprovedKnown, VerdictStands
    <2> QED BY <2>1, <2>2
  <1> QED BY <1>1, <1>2, PTL DEF LearningSpec

\* Cycles, requests, cards, runs and taps keep their types.
THEOREM LearningTypeCorrect == LearningSpec => []LearningTypeOK
  <1>1. LearningInv => LearningTypeOK BY DEF LearningInv
  <1> QED BY <1>1, LearningInvariant, PTL

\* calibration.run_cycle() and handle_promotion_callback(): an approved version
\* was promoted by the gate, on three stored cycles that are evidence for it.
THEOREM NothingApprovedWithoutEvidence == LearningSpec => []ApprovedOnEvidence
  <1>1. LearningInv => ApprovedOnEvidence
    BY DEF LearningInv, ApprovedOnEvidence, ApprovedKnown, CardsPromote, Founded, Rests
  <1> QED BY <1>1, LearningInvariant, PTL

\* handle_promotion_callback() (bot_promotions.py): only two taps on one request
\* at once can leave a version approved by a request that says "rejected".
THEOREM VerdictStandsUnlessTapsOverlap == LearningSpec => []VerdictStands
  <1>1. LearningInv => VerdictStands BY DEF LearningInv
  <1> QED BY <1>1, LearningInvariant, PTL
=============================================================================
