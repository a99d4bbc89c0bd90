---------------------------- MODULE AccessProofs ----------------------------
(***************************************************************************)
(* Paid access, for any charges, handlers, sweeps, workers and periods.    *)
(* The bridge's subscription gives no time away, loses no period but where *)
(* payments are recorded at once, and shuts a paying user out only when a  *)
(* payment and a sweep overlapped.  The library's copies are claimed only  *)
(* when they are authorized and decided once, unknown metadata is refused, *)
(* and signals only go forward.  What holds of a part holds of all three.  *)
(***************************************************************************)
EXTENDS MCCopyTrading, BotSettingsProofs, FiniteSetTheorems, TLAPS

(***************************************************************************)
(* The subscription                                                        *)
(*                                                                         *)
(* Paid time is an invariant once it is also asked of what each handler    *)
(* has read: it will write a period more than that.  The charge of a       *)
(* payment that is flushed is new, and no other handler's.                 *)
(***************************************************************************)

Covered(date) == used + Left(date) <= Period * Cardinality(payments)

ReadsCovered == \A h \in Updates : update[h].at # "idle" => Covered(update[h].end)
ChargesKnown == \A h \in Updates : update[h].at # "idle" => update[h].charge \in Charges
InsertedIsNew ==
    \A h \in Updates : update[h].at = "inserted" =>
        /\ update[h].charge \notin payments
        /\ \A o \in Updates \ {h} :
               update[o].at = "inserted" => update[o].charge # update[h].charge

\* While nothing has overlapped, what a sweep is about to do is due.
SweepsAreDue ==
    \A s \in Sweeps : sweep[s].at # "idle" =>
        /\ sweep[s].time <= now
        /\ sweep[s].expire \/ sweep[s].remove => member.end <= now \/ overlapped

MemberInv == /\ MemberTypeOK /\ ServesOnlyPaidTime /\ ReadsCovered /\ ChargesKnown
             /\ InsertedIsNew /\ SweepsAreDue /\ ShutOutOnlyByOverlap

LEMMA IdleTyped ==
  /\ Idle \in Session /\ Idle.at = "idle"
  /\ NotSweeping \in Selection /\ NotSweeping.at = "idle"
  BY DEF Idle, Session, MemberStatus, NotSweeping, Selection

LEMMA PaymentsFinite ==
  ASSUME payments \subseteq Charges
  PROVE  IsFiniteSet(payments) /\ Cardinality(payments) \in Nat
  BY MembershipAssumption, FS_Subset, FS_CardinalityType

LEMMA LeftTyped ==
  ASSUME now \in Nat, NEW date \in Nat
  PROVE  Left(date) \in Nat
  BY DEF Left

LEMMA InitMember == now = 0 /\ MemberInit => MemberInv
  <1> SUFFICES ASSUME now = 0, MemberInit PROVE MemberInv OBVIOUS
  <1> USE ClockAssumption, MembershipAssumption DEF MemberInit
  <1>1. MemberTypeOK
    <2>1. member \in Subscriber BY DEF Subscriber, MemberStatus
    <2>2. update \in [Updates -> Session] /\ sweep \in [Sweeps -> Selection]
      BY IdleTyped
    <2>3. now \in Instants BY DEF Instants
    <2>4. payments \subseteq Charges /\ due \subseteq Charges OBVIOUS
    <2>5. copying \in BOOLEAN /\ used \in Nat /\ overlapped \in BOOLEAN OBVIOUS
    <2> HIDE DEF MemberInit
    <2> QED BY <2>1, <2>2, <2>3, <2>4, <2>5 DEF MemberTypeOK
  <1>2. ServesOnlyPaidTime
    <2>1. Cardinality(payments) = 0 BY FS_EmptySet
    <2>2. Left(member.end) = 0 BY DEF Left
    <2> QED BY <2>1, <2>2 DEF ServesOnlyPaidTime
  <1>3. ReadsCovered /\ ChargesKnown /\ InsertedIsNew /\ SweepsAreDue
    BY IdleTyped DEF ReadsCovered, ChargesKnown, InsertedIsNew, SweepsAreDue
  <1>4. ShutOutOnlyByOverlap BY DEF ShutOutOnlyByOverlap
  <1> QED BY <1>1, <1>2, <1>3, <1>4 DEF MemberInv

\* A payment adds a period to what was paid, and no more than that to the end.
LEMMA StepCommit ==
  ASSUME MemberInv, NEW h \in Updates, Commit(h)
  PROVE  MemberInv'
  <1> USE ClockAssumption, MembershipAssumption DEF MemberInv, MemberTypeOK, Instants
  <1> DEFINE u == update[h]
             renewed == Renewed(u)
  <1>1. /\ u \in Session /\ u.at = "inserted" /\ u.end \in Nat /\ u.charge \in Charges
        /\ u.charge \notin payments /\ now \in Nat
    BY DEF Commit, ChargesKnown, InsertedIsNew, Session
  <1>2. /\ member' = renewed /\ payments' = payments \cup {u.charge}
        /\ update' = [update EXCEPT ![h] = Idle]
        /\ due' \subseteq due /\ UNCHANGED <<now, sweep, copying, used>>
        /\ overlapped' = \/ overlapped
                         \/ u.status = "active" /\ member.status # "active"
                         \/ \E s \in Sweeps : sweep[s].at # "idle"
    BY DEF Commit, Acknowledge
  <1>3. renewed \in Subscriber /\ renewed.end = Extended(u)
    BY <1>1 DEF Renewed, Extended, Subscriber, Session, MemberStatus
  <1>4. Left(Extended(u)) = Left(u.end) + Period BY <1>1 DEF Extended, Left
  <1>5. MemberTypeOK'
    <2>1. overlapped' \in BOOLEAN BY <1>2
    <2>2. update' \in [Updates -> Session] BY <1>2, IdleTyped
    <2> QED BY <1>1, <1>2, <1>3, <2>1, <2>2
  <1>6. Period * Cardinality(payments') = Period * Cardinality(payments) + Period
    <2> DEFINE n == Cardinality(payments)
    <2>1. IsFiniteSet(payments) /\ n \in Nat BY PaymentsFinite
    <2>2. Cardinality(payments') = n + 1 BY <1>1, <1>2, <2>1, FS_AddElement
    <2> HIDE DEF n
    <2>3. Period * (n + 1) = Period * n + Period BY <2>1
    <2> QED BY <2>2, <2>3 DEF n
  <1>7. Period * Cardinality(payments) \in Nat BY PaymentsFinite
  <1> HIDE DEF u, renewed
  <1>8. ServesOnlyPaidTime'
    <2>1. used + Left(u.end) <= Period * Cardinality(payments)
      BY <1>1 DEF u, ReadsCovered, Covered
    <2>2. Left(u.end) \in Nat BY <1>1, LeftTyped
    <2>3. used' + Left(Extended(u)) <= Period * Cardinality(payments')
      BY <1>2, <1>4, <1>6, <1>7, <2>1, <2>2
    <2> QED BY <1>2, <1>3, <2>3 DEF ServesOnlyPaidTime, Left
  <1>9. ReadsCovered'
    <2> SUFFICES ASSUME NEW o \in Updates, update'[o].at # "idle"
                 PROVE  Covered(update[o].end)' /\ update'[o] = update[o]
      BY DEF ReadsCovered, Covered, Left
    <2>1. update'[o] = update[o] BY <1>2, IdleTyped
    <2>2. used + Left(update[o].end) <= Period * Cardinality(payments)
      BY <2>1 DEF ReadsCovered, Covered
    <2>3. Left(update[o].end) \in Nat BY <1>1, LeftTyped DEF Session
    <2>4. used' + Left(update[o].end) <= Period * Cardinality(payments')
      BY <1>2, <1>6, <1>7, <2>2, <2>3
    <2> QED BY <1>2, <2>1, <2>4 DEF Covered, Left
  <1>10. ChargesKnown' BY <1>2, IdleTyped DEF ChargesKnown
  <1>11. InsertedIsNew' BY <1>1, <1>2, IdleTyped DEF InsertedIsNew, u
  <1>12. SweepsAreDue' BY <1>2 DEF SweepsAreDue
  <1>13. ShutOutOnlyByOverlap'
    <2> SUFFICES ASSUME ~ overlapped' PROVE renewed.status = "active"
      BY <1>2 DEF ShutOutOnlyByOverlap
    <2>1. u.status # "active" \/ member.status = "active" BY <1>2
    <2> QED BY <2>1 DEF renewed, Renewed
  <1> QED BY <1>5, <1>8, <1>9, <1>10, <1>11, <1>12, <1>13

LEMMA StepUpdate ==
  ASSUME MemberInv, NEW h \in Updates,
         Insert(h) \/ Fail(h) \/ \E c \in Charges : Load(h, c)
  PROVE  MemberInv'
  <1> USE ClockAssumption, MembershipAssumption DEF MemberInv, MemberTypeOK, Instants
  <1>1. UNCHANGED <<now, member, payments, sweep, copying, used, overlapped>>
    BY DEF Insert, Fail, Load
  <1>2. due' \subseteq due BY DEF Insert, Fail, Load, Acknowledge
  <1>3. PICK u \in Session :
            /\ update' = [update EXCEPT ![h] = u]
            /\ u.at # "idle" => u.charge \in Charges /\ Covered(u.end)
            /\ u.at = "inserted" =>
                   /\ u.charge \notin payments
                   /\ \A o \in Updates \ {h} :
                          update[o].at = "inserted" => update[o].charge # u.charge
    <2>1. CASE Insert(h) /\ update[h].charge \in payments
      BY <2>1, IdleTyped DEF Insert
    <2>2. CASE Insert(h) /\ update[h].charge \notin payments
      <3> DEFINE u == [update[h] EXCEPT !.at = "inserted"]
      <3>1. /\ u \in Session /\ u.end = update[h].end /\ u.charge = update[h].charge
            /\ u.at = "inserted"
        BY DEF Session
      <3>2. update' = [update EXCEPT ![h] = u] /\ update[h].at = "loaded" BY <2>2 DEF Insert
      <3>3. \A o \in Updates \ {h} :
                update[o].at = "inserted" => update[o].charge # u.charge
        BY <2>2, <3>1 DEF Insert
      <3> HIDE DEF u
      <3>4. u.charge \in Charges /\ Covered(u.end)
        BY <3>1, <3>2 DEF ChargesKnown, ReadsCovered
      <3> QED BY <2>2, <3>1, <3>2, <3>3, <3>4
    <2>3. CASE Fail(h) BY <2>3, IdleTyped DEF Fail
    <2>4. ASSUME NEW c \in Charges, Load(h, c)
          PROVE  \E u \in Session :
                     /\ update' = [update EXCEPT ![h] = u]
                     /\ u.at = "loaded" /\ u.charge = c /\ u.end = member.end
      <3> DEFINE u == [at |-> "loaded", charge |-> c, status |-> member.status,
                       end |-> member.end]
      <3>1. u \in Session BY DEF Session, Subscriber
      <3>2. update' = [update EXCEPT ![h] = u] BY <2>4 DEF Load
      <3> QED BY <3>1, <3>2
    <2>5. Covered(member.end) BY DEF ServesOnlyPaidTime, Covered
    <2> QED BY <2>1, <2>2, <2>3, <2>4, <2>5
  <1>4. MemberTypeOK' BY <1>1, <1>2, <1>3
  <1>5. ServesOnlyPaidTime' /\ SweepsAreDue' /\ ShutOutOnlyByOverlap'
    BY <1>1 DEF ServesOnlyPaidTime, Left, SweepsAreDue, ShutOutOnlyByOverlap
  <1>6. ReadsCovered' BY <1>1, <1>3 DEF ReadsCovered, Covered, Left
  <1>7. ChargesKnown' BY <1>3 DEF ChargesKnown
  <1>8. InsertedIsNew' BY <1>1, <1>3 DEF InsertedIsNew
  <1> QED BY <1>4, <1>5, <1>6, <1>7, <1>8

\* A unit of time is used only while there is one left.
LEMMA StepMemberTick ==
  ASSUME MemberInv, MemberTick
  PROVE  MemberInv'
  <1> USE ClockAssumption, MembershipAssumption DEF MemberInv, MemberTypeOK, Instants
  <1>1. /\ now \in Nat /\ now' = now + 1 /\ now' \in Instants
        /\ UNCHANGED <<member, payments, due, update, sweep, copying, overlapped>>
        /\ used' = used \/ (used' = used + 1 /\ member.end > now)
    BY DEF MemberTick, TimePasses, FeedServes, MayCopy, IsEntitled
  <1>2. MemberTypeOK' BY <1>1
  <1>3. Period * Cardinality(payments) \in Nat BY PaymentsFinite
  <1>4. member.end \in Nat BY DEF Subscriber
  <1>5. used + Left(member.end) <= Period * Cardinality(payments) BY DEF ServesOnlyPaidTime
  <1>6. ASSUME NEW date \in Nat, used + Left(date) <= Period * Cardinality(payments)
        PROVE  used' + (IF date > now' THEN date - now' ELSE 0) <= Period * Cardinality(payments')
    <2> DEFINE paid == Period * Cardinality(payments)
    <2>1. used + (IF date > now THEN date - now ELSE 0) <= paid BY <1>6 DEF Left
    <2>2. used + (IF member.end > now THEN member.end - now ELSE 0) <= paid BY <1>5 DEF Left
    <2>3. paid \in Nat BY <1>3
    <2> HIDE DEF paid
    <2>4. used' + (IF date > now' THEN date - now' ELSE 0) <= paid
      BY <1>1, <1>4, <2>1, <2>2, <2>3
    <2> QED BY <1>1, <2>4 DEF paid
  <1>7. ServesOnlyPaidTime'
    BY <1>1, <1>4, <1>5, <1>6 DEF ServesOnlyPaidTime, Left
  <1>8. ReadsCovered'
    <2> SUFFICES ASSUME NEW h \in Updates, update[h].at # "idle"
                 PROVE  Covered(update[h].end)'
      BY <1>1 DEF ReadsCovered, Covered, Left
    <2>1. used + Left(update[h].end) <= Period * Cardinality(payments)
      BY DEF ReadsCovered, Covered
    <2>2. update[h].end \in Nat BY DEF Session
    <2> QED BY <1>1, <1>6, <2>1, <2>2 DEF Covered, Left
  <1>9. ChargesKnown' /\ InsertedIsNew' BY <1>1 DEF ChargesKnown, InsertedIsNew
  <1>10. SweepsAreDue' BY <1>1, <1>4 DEF SweepsAreDue, Selection
  <1>11. ShutOutOnlyByOverlap' BY <1>1, <1>4 DEF ShutOutOnlyByOverlap
  <1> QED BY <1>2, <1>7, <1>8, <1>9, <1>10, <1>11

\* Steps that neither record a payment nor let time pass: what remains to show is
\* about the row and the sweeps.
LEMMA StepOther ==
  ASSUME MemberInv, MemberTypeOK', SweepsAreDue', ShutOutOnlyByOverlap',
         UNCHANGED <<now, payments, used>>, member'.end = member.end,
         \A h \in Updates : update'[h] = update[h] \/ update'[h].at = "idle"
  PROVE  MemberInv'
  <1>1. ServesOnlyPaidTime' BY DEF MemberInv, ServesOnlyPaidTime, Left
  <1>2. ReadsCovered' BY DEF MemberInv, ReadsCovered, Covered, Left
  <1>3. ChargesKnown' /\ InsertedIsNew' BY DEF MemberInv, ChargesKnown, InsertedIsNew
  <1> QED BY <1>1, <1>2, <1>3 DEF MemberInv

LEMMA StepSweep ==
  ASSUME MemberInv, NEW s \in Sweeps,
         SelectToExpire(s) \/ SelectToRemove(s) \/ CommitSweep(s)
  PROVE  MemberInv'
  <1> USE ClockAssumption, MembershipAssumption DEF MemberInv, MemberTypeOK, Instants
  <1>1. /\ UNCHANGED <<now, payments, due, update, copying, used, overlapped>>
        /\ member.end \in Nat /\ now \in Nat
    BY DEF SelectToExpire, SelectToRemove, CommitSweep, Subscriber
  <1>2. CASE SelectToExpire(s)
    <2> DEFINE r == [at |-> "expired", time |-> now, remove |-> FALSE,
                     expire |-> member.status = "active" /\ member.end <= now]
    <2>1. r \in Selection /\ sweep' = [sweep EXCEPT ![s] = r] /\ member' = member
      BY <1>1, <1>2 DEF SelectToExpire, Selection
    <2>2. MemberTypeOK' BY <1>1, <2>1
    <2>3. SweepsAreDue' BY <1>1, <2>1 DEF SweepsAreDue
    <2>4. ShutOutOnlyByOverlap' BY <1>1, <2>1 DEF ShutOutOnlyByOverlap
    <2> QED BY <1>1, <2>1, <2>2, <2>3, <2>4, StepOther
  <1>3. CASE SelectToRemove(s)
    <2> DEFINE gone == /\ sweep[s].expire \/ member.status = "expired"
                       /\ member.end + Grace <= sweep[s].time
               r == [sweep[s] EXCEPT !.at = "removed", !.remove = gone]
    <2>1. sweep' = [sweep EXCEPT ![s] = r] /\ member' = member /\ sweep[s].at # "idle"
      BY <1>3 DEF SelectToRemove
    <2>2. /\ r \in Selection /\ r.time = sweep[s].time /\ r.expire = sweep[s].expire
          /\ r.remove = gone /\ sweep[s].time \in Nat
      BY DEF Selection
    <2>3. gone => member.end <= now
      BY <1>1, <2>1, <2>2 DEF SweepsAreDue
    <2> HIDE DEF r, gone
    <2>4. MemberTypeOK' BY <1>1, <2>1, <2>2
    <2>5. SweepsAreDue' BY <1>1, <2>1, <2>2, <2>3 DEF SweepsAreDue
    <2>6. ShutOutOnlyByOverlap' BY <1>1, <2>1 DEF ShutOutOnlyByOverlap
    <2> QED BY <1>1, <2>1, <2>4, <2>5, <2>6, StepOther
  <1>4. CASE CommitSweep(s)
    <2>1. /\ sweep' = [sweep EXCEPT ![s] = NotSweeping] /\ sweep[s].at # "idle"
          /\ member' = Swept(sweep[s])
      BY <1>4 DEF CommitSweep
    <2>2. member' \in Subscriber /\ member'.end = member.end
      BY <2>1 DEF Swept, Subscriber, MemberStatus
    <2>3. \/ sweep[s].expire \/ sweep[s].remove
          \/ member'.status = member.status
      BY <2>1 DEF Swept, Subscriber
    <2>4. MemberTypeOK' BY <1>1, <2>1, <2>2, IdleTyped
    <2>5. SweepsAreDue' BY <1>1, <2>1, <2>2, IdleTyped DEF SweepsAreDue
    <2>6. ShutOutOnlyByOverlap'
      BY <1>1, <2>1, <2>2, <2>3 DEF ShutOutOnlyByOverlap, SweepsAreDue
    <2> QED BY <1>1, <2>2, <2>4, <2>5, <2>6, StepOther
  <1> QED BY <1>2, <1>3, <1>4

LEMMA StepSubscriber ==
  ASSUME MemberInv, Subscribe \/ SwitchCopying \/ MemberCrash \/ \E c \in Charges : Charge(c)
  PROVE  MemberInv'
  <1> USE ClockAssumption, MembershipAssumption DEF MemberInv, MemberTypeOK, Instants
  <1>1. CASE Subscribe
    <2>1. /\ UNCHANGED <<now, payments, due, update, sweep, copying, used, overlapped>>
          /\ member' = [member EXCEPT !.status = "pending"] /\ member.status = "none"
      BY <1>1 DEF Subscribe, Created
    <2>2. member' \in Subscriber /\ member'.end = member.end
      BY <2>1 DEF Subscriber, MemberStatus
    <2>3. SweepsAreDue' /\ ShutOutOnlyByOverlap'
      BY <2>1, <2>2 DEF SweepsAreDue, ShutOutOnlyByOverlap
    <2> QED BY <2>1, <2>2, <2>3, StepOther
  <1>2. CASE SwitchCopying \/ \E c \in Charges : Charge(c)
    <2>1. /\ UNCHANGED <<now, member, payments, update, sweep, used, overlapped>>
          /\ due' \subseteq Charges /\ copying' \in BOOLEAN
      BY <1>2 DEF SwitchCopying, Charge
    <2>2. SweepsAreDue' /\ ShutOutOnlyByOverlap'
      BY <2>1 DEF SweepsAreDue, ShutOutOnlyByOverlap
    <2> QED BY <2>1, <2>2, StepOther
  <1>3. CASE MemberCrash
    <2>1. /\ UNCHANGED <<now, member, payments, copying, used, overlapped>>
          /\ update' = [h \in Updates |-> Idle] /\ sweep' = [s \in Sweeps |-> NotSweeping]
          /\ due' \subseteq Charges
      BY <1>3 DEF MemberCrash
    <2>2. SweepsAreDue' /\ ShutOutOnlyByOverlap'
      BY <2>1, IdleTyped DEF SweepsAreDue, ShutOutOnlyByOverlap
    <2>3. MemberTypeOK' BY <2>1, IdleTyped
    <2>4. \A h \in Updates : update'[h].at = "idle" BY <2>1, IdleTyped
    <2> QED BY <2>1, <2>2, <2>3, <2>4, StepOther
  <1> QED BY <1>1, <1>2, <1>3

LEMMA MemberInvariant == MemberSpec => []MemberInv
  <1>1. now = 0 /\ MemberInit => MemberInv BY InitMember
  <1>2. MemberInv /\ [MemberNext]_<<now, memberVars>> => MemberInv'
    <2> SUFFICES ASSUME MemberInv, [MemberNext]_<<now, memberVars>> PROVE MemberInv'
      OBVIOUS
    <2>1. CASE MemberNext
      BY <2>1, StepCommit, StepUpdate, StepMemberTick, StepSweep, StepSubscriber
         DEF MemberNext
    <2>2. CASE UNCHANGED <<now, memberVars>>
      BY <2>2 DEF memberVars, MemberInv, MemberTypeOK, ServesOnlyPaidTime, Left, ReadsCovered,
                  Covered, ChargesKnown, InsertedIsNew, SweepsAreDue, ShutOutOnlyByOverlap
    <2> QED BY <2>1, <2>2
  <1> QED BY <1>1, <1>2, PTL DEF MemberSpec

\* The subscriber's row, the payments and what the handlers hold keep their types.
THEOREM MemberTypeCorrect == MemberSpec => []MemberTypeOK
  <1>1. MemberInv => MemberTypeOK BY DEF MemberInv
  <1> QED BY <1>1, MemberInvariant, PTL

\* record_payment() (subscriptions.py) and GET /copy/feed: however
\* often an update is delivered and whatever it races, the feed is open for no
\* longer than the periods that were paid.
THEOREM OnlyPaidTimeIsServed == MemberSpec => []ServesOnlyPaidTime
  <1>1. MemberInv => ServesOnlyPaidTime BY DEF MemberInv
  <1> QED BY <1>1, MemberInvariant, PTL

\* sweep_subscriber_statuses() (group_enforcement.py): a user with time left is shut
\* out only if a payment was recorded while a sweep ran.
THEOREM ShutOutNeedsOverlap == MemberSpec => []ShutOutOnlyByOverlap
  <1>1. MemberInv => ShutOutOnlyByOverlap BY DEF MemberInv
  <1> QED BY <1>1, MemberInvariant, PTL
(***************************************************************************)
(* The other direction: what is paid is given.  Alone at work, a handler   *)
(* holds the end as it is in the row, whatever sweeps and restarts do.     *)
(***************************************************************************)

ReadsCurrentEnd == \A h \in Updates : update[h].at # "idle" => update[h].end = member.end

GivenInv == NoPeriodLost /\ ReadsCurrentEnd

LEMMA StepGiven ==
  ASSUME MemberInv, GivenInv, AloneAtWork, AloneAtWork', [MemberNext]_<<now, memberVars>>
  PROVE  GivenInv'
  <1> USE MembershipAssumption DEF GivenInv
  <1>1. ASSUME NEW h \in Updates, Commit(h)
        PROVE  GivenInv'
    <2> DEFINE n == Cardinality(payments)
    <2>1. /\ update[h].at = "inserted" /\ update[h].end = member.end
          /\ member.end \in Nat /\ now \in Nat /\ update[h].charge \notin payments
      BY <1>1, ClockAssumption
         DEF Commit, ReadsCurrentEnd, MemberInv, MemberTypeOK, Subscriber, Instants, InsertedIsNew
    <2>2. /\ member'.end = Extended(update[h])
          /\ payments' = payments \cup {update[h].charge}
          /\ update' = [update EXCEPT ![h] = Idle]
      BY <1>1 DEF Commit, Renewed
    <2>3. member.end + Period <= member'.end
      BY <2>1, <2>2 DEF Extended
    <2>4. n \in Nat /\ Cardinality(payments') = n + 1
      BY <2>1, <2>2, PaymentsFinite, FS_AddElement DEF MemberInv, MemberTypeOK
    <2>5. member'.end \in Nat
      BY <2>1, <2>2 DEF Extended
    <2>6. Period * n <= member.end
      BY DEF NoPeriodLost
    <2> HIDE DEF n
    <2>7. Period * (n + 1) = Period * n + Period /\ Period * n \in Nat
      BY <2>4
    <2>8. NoPeriodLost'
      BY <2>1, <2>3, <2>4, <2>5, <2>6, <2>7 DEF NoPeriodLost
    <2>9. \A o \in Updates : update'[o].at = "idle"
      BY <2>1, <2>2, IdleTyped DEF AloneAtWork, MemberInv, MemberTypeOK
    <2> QED BY <2>8, <2>9 DEF ReadsCurrentEnd
  <1>2. ASSUME UNCHANGED payments, member'.end = member.end,
               \A h \in Updates : \/ update'[h].at = "idle"
                                  \/ update'[h].end = member.end
                                  \/ (update[h].at # "idle" /\ update'[h].end = update[h].end)
        PROVE  GivenInv'
    BY <1>2 DEF NoPeriodLost, ReadsCurrentEnd
  <1>3. ASSUME NEW h \in Updates, NEW c \in Charges, Load(h, c)
        PROVE  GivenInv'
    <2>1. UNCHANGED <<payments, member>> /\ update'[h].end = member.end
      BY <1>3 DEF Load, MemberInv, MemberTypeOK
    <2>2. \A o \in Updates \ {h} : update'[o] = update[o]
      BY <1>3 DEF Load, MemberInv, MemberTypeOK
    <2> QED BY <2>1, <2>2 DEF ReadsCurrentEnd, NoPeriodLost
  <1>4. ASSUME NEW h \in Updates, Insert(h) \/ Fail(h)
        PROVE  GivenInv'
    <2>1. /\ UNCHANGED <<payments, member>> /\ update[h].at # "idle"
          /\ update'[h] = Idle \/ update'[h].end = update[h].end
      BY <1>4 DEF Insert, Fail, MemberInv, MemberTypeOK, Session
    <2>2. \A o \in Updates \ {h} : update'[o] = update[o]
      BY <1>4 DEF Insert, Fail, MemberInv, MemberTypeOK
    <2> QED BY <2>1, <2>2, IdleTyped DEF ReadsCurrentEnd, NoPeriodLost
  <1>5. ASSUME NEW s \in Sweeps, SelectToExpire(s) \/ SelectToRemove(s) \/ CommitSweep(s)
        PROVE  GivenInv'
    <2>1. member'.end = member.end /\ UNCHANGED <<payments, update>>
      BY <1>5 DEF SelectToExpire, SelectToRemove, CommitSweep, Swept, MemberInv, MemberTypeOK,
                  Subscriber
    <2> QED BY <1>2, <2>1 DEF ReadsCurrentEnd
  <1>6. CASE Subscribe
    BY <1>2, <1>6 DEF Subscribe, Created, ReadsCurrentEnd, MemberInv, MemberTypeOK, Subscriber
  <1>7. CASE SwitchCopying \/ MemberTick \/ UNCHANGED <<now, memberVars>>
             \/ \E c \in Charges : Charge(c)
    BY <1>2, <1>7 DEF SwitchCopying, MemberTick, memberVars, Charge, ReadsCurrentEnd
  <1>8. CASE MemberCrash
    <2>1. UNCHANGED <<payments, member>> /\ \A h \in Updates : update'[h] = Idle
      BY <1>8 DEF MemberCrash
    <2> QED BY <2>1, IdleTyped DEF ReadsCurrentEnd, NoPeriodLost
  <1> QED BY <1>1, <1>3, <1>4, <1>5, <1>6, <1>7, <1>8 DEF MemberNext

\* record_payment() (subscriptions.py) adds every period that is paid, over any
\* renewals, sweeps, repeated updates and restarts, as long as no two handlers of
\* successful_payment are at work at once.  The hypothesis is about the behaviour,
\* not the constants: nothing in the bridge orders the handlers.
THEOREM EveryPeriodIsGiven == MemberSpec /\ []AloneAtWork => []NoPeriodLost
  <1>1. now = 0 /\ MemberInit => GivenInv
    <2> SUFFICES ASSUME MemberInit PROVE GivenInv OBVIOUS
    <2>1. Period * Cardinality(payments) = 0
      BY FS_EmptySet, MembershipAssumption DEF MemberInit
    <2>2. NoPeriodLost BY <2>1 DEF NoPeriodLost, MemberInit
    <2> QED BY <2>2, IdleTyped DEF GivenInv, ReadsCurrentEnd, MemberInit
  <1>2. /\ MemberInv /\ GivenInv /\ AloneAtWork /\ AloneAtWork'
        /\ [MemberNext]_<<now, memberVars>>
        => GivenInv'
    BY StepGiven
  <1>3. GivenInv => NoPeriodLost BY DEF GivenInv
  <1> QED BY <1>1, <1>2, <1>3, MemberInvariant, PTL DEF MemberSpec
-----------------------------------------------------------------------------
(***************************************************************************)
(* Copying                                                                 *)
(*                                                                         *)
(* A claim was authorized while the signal was open and the period paid,   *)
(* and no later step takes that back: stamps, rows and settled payments    *)
(* stay.  That a live signal has no stamps of what is to come, and that an *)
(* expiry comes from a payment that was settled, makes the invariant       *)
(* inductive.                                                              *)
(***************************************************************************)

\* A signal carries no stamp of what it has not reached.
Orderly(g) ==
    /\ g.status = "ACTIVE" => g.tp1At = None
    /\ g.status \in {"ACTIVE", "TP1_REACHED"} => g.tp2At = None
    /\ g.status \in Actionable => g.completedAt = None /\ g.invalidatedAt = None

\* What a price may make of a signal.
Stamped(old, new, time) == new = old \/ (old = None /\ new = time)
GoesOn(g, e, time) ==
    /\ Stamped(g.invalidatedAt, e.invalidatedAt, time) /\ Stamped(g.tp1At, e.tp1At, time)
    /\ Stamped(g.tp2At, e.tp2At, time) /\ Stamped(g.completedAt, e.completedAt, time)
    /\ g.status \notin Actionable => e = g
    /\ {g.status, e.status} \subseteq DOMAIN Reached => Reached[g.status] <= Reached[e.status]

LEMMA ReachedOrder ==
  /\ DOMAIN Reached = {"ACTIVE", "TP1_REACHED", "TP2_REACHED", "COMPLETED"}
  /\ Reached["ACTIVE"] = 0 /\ Reached["TP1_REACHED"] = 1
  /\ Reached["TP2_REACHED"] = 2 /\ Reached["COMPLETED"] = 3
  BY DEF Reached

LEMMA TargetsGoOn ==
  ASSUME NEW s, NEW g \in Signal, NEW price, NEW time \in Nat,
         Orderly(g), g.status \in Actionable
  PROVE  /\ TargetProgress(s, g, price, time) \in Signal
         /\ Orderly(TargetProgress(s, g, price, time))
         /\ GoesOn(g, TargetProgress(s, g, price, time), time)
  <1> DEFINE one   == IF g.status = "ACTIVE" /\ Hit(s, s.tp1, price)
                      THEN [g EXCEPT !.status = "TP1_REACHED", !.tp1At = time] ELSE g
             two   == IF one.status = "TP1_REACHED" /\ Hit(s, s.tp2, price)
                      THEN [one EXCEPT !.status = "TP2_REACHED", !.tp2At = time] ELSE one
             three == IF two.status = "TP2_REACHED" /\ Hit(s, s.final, price)
                      THEN [two EXCEPT !.status = "COMPLETED", !.completedAt = time] ELSE two
             Fine(e) == /\ e \in Signal /\ Orderly(e) /\ e.invalidatedAt = g.invalidatedAt
                        /\ Stamped(g.tp1At, e.tp1At, time) /\ Stamped(g.tp2At, e.tp2At, time)
                        /\ Stamped(g.completedAt, e.completedAt, time)
                        /\ e.status \in DOMAIN Reached
                        /\ Reached[g.status] <= Reached[e.status]
  <1> USE ReachedOrder DEF Orderly, Stamped, Actionable, Signal, SignalStatus, Stamp
  <1>1. Fine(one) /\ one.status \in Actionable
    <2>1. CASE g.status = "ACTIVE" /\ Hit(s, s.tp1, price)
      <3>1. one = [g EXCEPT !.status = "TP1_REACHED", !.tp1At = time] BY <2>1
      <3>2. g.tp1At = None /\ g.tp2At = None /\ g.completedAt = None /\ g.invalidatedAt = None
        BY <2>1
      <3>3. one \in Signal BY <3>1
      <3>4. /\ one.status = "TP1_REACHED" /\ one.tp1At = time /\ one.tp2At = g.tp2At
            /\ one.completedAt = g.completedAt /\ one.invalidatedAt = g.invalidatedAt
        BY <3>1
      <3> HIDE DEF one
      <3> QED BY <2>1, <3>2, <3>3, <3>4
    <2>2. CASE ~ (g.status = "ACTIVE" /\ Hit(s, s.tp1, price)) BY <2>2
    <2> QED BY <2>1, <2>2
  <1> HIDE DEF one
  <1>2. Fine(two) /\ two.status \in Actionable
    <2>1. CASE one.status = "TP1_REACHED" /\ Hit(s, s.tp2, price)
      <3>1. two = [one EXCEPT !.status = "TP2_REACHED", !.tp2At = time] BY <2>1
      <3>2. one.tp2At = None /\ one.completedAt = None /\ g.tp2At = None BY <1>1, <2>1
      <3>3. two \in Signal BY <1>1, <3>1
      <3>4. /\ two.status = "TP2_REACHED" /\ two.tp1At = one.tp1At /\ two.tp2At = time
            /\ two.completedAt = one.completedAt /\ two.invalidatedAt = one.invalidatedAt
        BY <1>1, <3>1
      <3> HIDE DEF two
      <3> QED BY <1>1, <2>1, <3>2, <3>3, <3>4
    <2>2. CASE ~ (one.status = "TP1_REACHED" /\ Hit(s, s.tp2, price)) BY <1>1, <2>2
    <2> QED BY <2>1, <2>2
  <1> HIDE DEF two
  <1>3. Fine(three)
    <2>1. CASE two.status = "TP2_REACHED" /\ Hit(s, s.final, price)
      <3>1. three = [two EXCEPT !.status = "COMPLETED", !.completedAt = time] BY <2>1
      <3>2. two.completedAt = None /\ g.completedAt = None BY <1>2, <2>1
      <3>3. three \in Signal BY <1>2, <3>1
      <3>4. /\ three.status = "COMPLETED" /\ three.tp1At = two.tp1At /\ three.tp2At = two.tp2At
            /\ three.completedAt = time /\ three.invalidatedAt = two.invalidatedAt
        BY <1>2, <3>1
      <3> HIDE DEF three
      <3> QED BY <1>2, <2>1, <3>2, <3>3, <3>4
    <2>2. CASE ~ (two.status = "TP2_REACHED" /\ Hit(s, s.final, price)) BY <1>2, <2>2
    <2> QED BY <2>1, <2>2
  <1>4. TargetProgress(s, g, price, time) = three BY DEF TargetProgress, one, two
  <1> HIDE DEF three
  <1> QED BY <1>3, <1>4 DEF GoesOn

LEMMA EvaluatedGoesOn ==
  ASSUME NEW s, NEW g \in Signal, NEW price, NEW time \in Nat, Orderly(g)
  PROVE  /\ Evaluated(s, g, price, time) \in Signal
         /\ Orderly(Evaluated(s, g, price, time))
         /\ GoesOn(g, Evaluated(s, g, price, time), time)
  <1> DEFINE e == Evaluated(s, g, price, time)
  <1> USE ReachedOrder DEF Orderly, GoesOn, Stamped, Actionable, Signal, SignalStatus, Stamp
  <1>1. CASE g.status \notin Actionable BY <1>1 DEF Evaluated
  <1>2. CASE g.status \in Actionable /\ e = TargetProgress(s, g, price, time)
    BY <1>2, TargetsGoOn
  <1>3. CASE g.status \in Actionable
             /\ e \in {[g EXCEPT !.status = "EXPIRED"], [g EXCEPT !.status = "STALE"],
                       [g EXCEPT !.status = "INVALIDATED", !.invalidatedAt = time]}
    BY <1>3
  <1> QED BY <1>1, <1>2, <1>3 DEF Evaluated

ProviderOf(r) == IF r = "ammer_payment" THEN "ammer_pay" ELSE "smart_glocal"
Taken == {"settled", "refunded"}

\* A provider that has taken the money keeps saying so, until it gives it back.
LEMMA FlowGoesOn ==
  ASSUME NEW s \in FlowStage, NEW t \in FlowNext[s]
  PROVE  t \in FlowStage /\ (s \in Taken => t \in Taken)
  BY DEF FlowStage, FlowNext, Taken

\* "succeeded" is what a webhook comes to only once the money has been taken.
LEMMA SmartSucceedsWhenTaken ==
  ASSUME NEW stage \in FlowStage, NEW e \in SmartEvents(stage)
  PROVE  /\ e.ref \in {"smart_session", "smart_payment"}
         /\ NormalizeSmart(e) \in PaymentStatus
         /\ NormalizeSmart(e) = "succeeded" => stage \in Taken
  <1>1. CASE e \in [type : {"ready_to_confirm", "action_required"},
                    status : {"processing", "succeeded"}, ref : {"smart_session", "smart_payment"}]
    BY <1>1 DEF NormalizeSmart, PaymentStatus
  <1>2. CASE /\ stage \in Taken
             /\ e = [type |-> "payment_finished", status |-> "succeeded", ref |-> "smart_payment"]
    BY <1>2 DEF NormalizeSmart, TerminalStatus, PaymentStatus
  <1>3. CASE e = [type |-> "payment_finished", status |-> "declined", ref |-> "smart_payment"]
    BY <1>3 DEF NormalizeSmart, TerminalStatus, PaymentStatus
  <1>4. CASE e = [type |-> "payment_refunded", status |-> "refunded", ref |-> "smart_payment"]
    BY <1>4 DEF NormalizeSmart, TerminalStatus, PaymentStatus
  <1> QED BY <1>1, <1>2, <1>3, <1>4 DEF SmartEvents, Taken

LEMMA AmmerSucceedsWhenTaken ==
  ASSUME NEW stage \in FlowStage, NEW e \in AmmerEvents(stage)
  PROVE  /\ e.ref = "ammer_payment" /\ e.status \in PaymentStatus
         /\ e.status = "succeeded" => stage \in Taken
  <1>1. e.ref = "ammer_payment" /\ e.status \in AmmerStatus[stage] BY DEF AmmerEvents
  <1>2. /\ AmmerStatus[stage] \subseteq PaymentStatus
        /\ "succeeded" \in AmmerStatus[stage] => stage \in Taken
    BY DEF AmmerStatus, PaymentStatus, FlowStage, Taken
  <1> QED BY <1>1, <1>2

LEMMA SucceedsWhenTaken ==
  ASSUME CopyTypeOK, NEW e \in Normalized
  PROVE  /\ e.ref \in References /\ e.status \in PaymentStatus
         /\ e.status = "succeeded" => flow[ProviderOf(e.ref)] \in Taken
  <1>1. flow["smart_glocal"] \in FlowStage /\ flow["ammer_pay"] \in FlowStage
    BY DEF CopyTypeOK, Providers
  <1>2. CASE e \in AmmerEvents(flow["ammer_pay"])
    BY <1>1, <1>2, AmmerSucceedsWhenTaken DEF ProviderOf, References
  <1>3. CASE e \notin AmmerEvents(flow["ammer_pay"])
    <2>1. PICK f \in SmartEvents(flow["smart_glocal"]) :
              e = [ref |-> f.ref, status |-> NormalizeSmart(f)]
      BY <1>3 DEF Normalized
    <2> QED BY <1>1, <2>1, SmartSucceedsWhenTaken DEF ProviderOf, References
  <1> QED BY <1>2, <1>3

\* The row of a reference has granted a period, and its provider has the money.
PaidRow(r) ==
    rows[r].granted \in Nat /\ rows[r].granted <= now /\ flow[ProviderOf(r)] \in Taken

SubscriptionPaid ==
    subscription.expires # None =>
        \E r \in References : PaidRow(r) /\ subscription.expires = rows[r].granted + Lifetime

\* The instants at which an authorization was right.
AuthorizedTimes == {time \in Nat : time <= now /\ OpenAt(time) /\ PaidAt(time)}
WorkersAuthorized ==
    \A w \in Workers :
        worker[w].at = "loaded" => worker[w].authorizedAt \in AuthorizedTimes \cup {None}

\* An event that a worker has taken was authorized; ERROR follows a claim.
WasClaimed == event.status \in {"CLAIMED", "EXECUTED", "ERROR"}
ClaimStands == WasClaimed => event.claimedAt \in AuthorizedTimes
HoldersClaimed == \A w \in Workers : worker[w].at = "claimed" => WasClaimed

CopyInv == /\ CopyTypeOK /\ Orderly(signal) /\ SubscriptionPaid /\ WorkersAuthorized
           /\ ClaimStands /\ HoldersClaimed /\ RefusesUnknown

\* What every step leaves as it is, as far as an authorization rests on it.
Onward ==
    /\ now' \in Nat /\ now <= now' /\ setup' = setup
    /\ Stamped(signal.tp1At, signal'.tp1At, now)
    /\ Stamped(signal.invalidatedAt, signal'.invalidatedAt, now)
    /\ \A r \in References : rows[r].granted # None => rows'[r] = rows[r]
    /\ \A p \in Providers : flow[p] \in Taken => flow'[p] \in Taken

LEMMA StepOnward ==
  ASSUME CopyTypeOK, Orderly(signal), CopyNext
  PROVE  Onward
  <1> USE ClockAssumption DEF CopyTypeOK, Instants
  <1>1. now \in Nat OBVIOUS
  <1>2. CASE \E p \in Providers : ProviderMoves(p)
    BY <1>1, <1>2, FlowGoesOn DEF ProviderMoves, Onward, Stamped
  <1>3. CASE ProcessPaymentWebhook
    <2>1. PICK e \in Normalized :
              /\ rows[e.ref] = NoRow /\ UNCHANGED <<now, setup, signal, flow>>
              /\ \A r \in References \ {e.ref} : rows'[r] = rows[r]
      BY <1>3 DEF ProcessPaymentWebhook
    <2>2. NoRow.granted = None BY DEF NoRow
    <2> QED BY <1>1, <2>1, <2>2 DEF Onward, Stamped
  <1>4. CASE EvaluateSignal
    <2>1. PICK price \in Prices : signal' = Evaluated(setup, signal, price, now)
      BY <1>4 DEF EvaluateSignal
    <2>2. GoesOn(signal, signal', now) BY <1>1, <2>1, EvaluatedGoesOn
    <2> QED BY <1>1, <1>4, <2>2 DEF EvaluateSignal, Onward, GoesOn
  <1>5. CASE RevokeExpired \/ EditMessage \/ PressCopy \/ ToggleAccount
    <2>1. UNCHANGED <<now, setup, signal, rows, flow>>
      BY <1>5 DEF RevokeExpired, EditMessage, PressCopy, ToggleAccount
    <2> QED BY <1>1, <2>1 DEF Onward, Stamped
  <1>6. CASE \E w \in Workers : Poll(w) \/ Authorize(w) \/ Claim(w) \/ Execute(w) \/ WorkerDies(w)
    <2>1. UNCHANGED <<now, setup, signal, rows, flow>>
      BY <1>6 DEF Poll, Authorize, Claim, Execute, WorkerDies
    <2> QED BY <1>1, <2>1 DEF Onward, Stamped
  <1>7. CASE CopyTick
    BY <1>1, <1>7 DEF CopyTick, TimePasses, copyVars, Onward, Stamped
  <1> QED BY <1>2, <1>3, <1>4, <1>5, <1>6, <1>7 DEF CopyNext

\* An authorization, once given, was right for good.
LEMMA AuthorizedStays ==
  ASSUME CopyTypeOK, Onward
  PROVE  AuthorizedTimes \subseteq AuthorizedTimes'
  <1> USE ClockAssumption, NoneAssumption DEF CopyTypeOK, Instants
  <1> SUFFICES ASSUME NEW time \in Nat, time <= now, OpenAt(time), PaidAt(time)
               PROVE  time <= now' /\ OpenAt(time)' /\ PaidAt(time)'
    BY DEF AuthorizedTimes
  <1>1. now \in Nat /\ time <= now' BY DEF Onward
  <1>2. OpenAt(time)'
    <2>1. signal'.tp1At = None \/ time <= signal'.tp1At
      BY <1>1 DEF OpenAt, Onward, Stamped
    <2>2. signal'.invalidatedAt = None \/ time <= signal'.invalidatedAt
      BY <1>1 DEF OpenAt, Onward, Stamped
    <2> QED BY <2>1, <2>2 DEF OpenAt, Onward
  <1>3. PaidAt(time)'
    <2>1. PICK r \in References :
              /\ rows[r].granted # None /\ rows[r].granted <= time
              /\ time < rows[r].granted + Lifetime
              /\ flow[IF r = "ammer_payment" THEN "ammer_pay" ELSE "smart_glocal"] \in Taken
      BY DEF PaidAt, Taken
    <2>2. rows'[r] = rows[r] BY <2>1 DEF Onward
    <2>3. flow'[IF r = "ammer_payment" THEN "ammer_pay" ELSE "smart_glocal"] \in Taken
      BY <2>1 DEF Onward, Providers
    <2> QED BY <2>1, <2>2, <2>3 DEF PaidAt, Taken
  <1> QED BY <1>1, <1>2, <1>3

LEMMA WorkerTyped ==
  /\ IdleWorker \in WorkerState /\ IdleWorker.at = "idle"
  BY DEF IdleWorker, WorkerState, Stamp

LEMMA InitCopy == now = 0 /\ CopyInit => CopyInv
  <1> SUFFICES ASSUME now = 0, CopyInit PROVE CopyInv OBVIOUS
  <1> USE ClockAssumption DEF CopyInit
  <1>1. signal \in Signal /\ Orderly(signal)
    BY DEF NewSignal, Signal, SignalStatus, Stamp, Orderly, Actionable
  <1>2. message \in [label : SignalStatus, copy : BOOLEAN]
    BY <1>1 DEF MessageUpdate, HasCopyButton, Signal
  <1>3. flow \in [Providers -> FlowStage] BY DEF FlowStage
  <1>4. rows \in [References -> [status : PaymentStatus \cup {None}, granted : Stamp]]
    BY DEF NoRow, Stamp
  <1>5. /\ subscription \in [status : {"ACTIVE", "EXPIRED"}, expires : Stamp]
        /\ entitlement \in [status : {"ACTIVE", "INACTIVE"}, copy : BOOLEAN]
    BY DEF Stamp
  <1>6. event \in [status : CopyEventStatus, claimedAt : Stamp, meta : Metas \cup {None}]
    BY DEF NoEvent, CopyEventStatus, Stamp
  <1>7. worker \in [Workers -> WorkerState] BY WorkerTyped
  <1>8. setup \in Setups /\ account \in BOOLEAN /\ now \in Instants BY DEF Instants
  <1>9. SubscriptionPaid /\ WorkersAuthorized /\ HoldersClaimed
    BY WorkerTyped DEF SubscriptionPaid, WorkersAuthorized, HoldersClaimed
  <1>10. ClaimStands /\ RefusesUnknown
    BY DEF ClaimStands, RefusesUnknown, WasClaimed, NoEvent
  <1> HIDE DEF CopyInit
  <1> QED BY <1>1, <1>2, <1>3, <1>4, <1>5, <1>6, <1>7, <1>8, <1>9, <1>10 DEF CopyInv, CopyTypeOK

LEMMA StepCopyType ==
  ASSUME CopyTypeOK, Orderly(signal), CopyNext
  PROVE  CopyTypeOK' /\ Orderly(signal')
  <1> USE ClockAssumption DEF CopyTypeOK, Instants
  <1>1. now \in Nat OBVIOUS
  <1>2. CASE \E p \in Providers : ProviderMoves(p)
    BY <1>2, FlowGoesOn DEF ProviderMoves
  <1>3. CASE ProcessPaymentWebhook
    <2>1. PICK e \in Normalized :
              /\ UNCHANGED <<now, setup, signal, message, account, flow, event, worker>>
              /\ rows' = [rows EXCEPT ![e.ref] =
                     [status |-> e.status, granted |-> IF e.status = "succeeded" THEN now ELSE None]]
              /\ \/ subscription' = Granted /\ entitlement' = [status |-> "ACTIVE", copy |-> TRUE]
                 \/ UNCHANGED <<subscription, entitlement>>
      BY <1>3 DEF ProcessPaymentWebhook
    <2>2. e.ref \in References /\ e.status \in PaymentStatus BY SucceedsWhenTaken
    <2>3. rows' \in [References -> [status : PaymentStatus \cup {None}, granted : Stamp]]
      BY <1>1, <2>1, <2>2 DEF Stamp
    <2>4. Granted \in [status : {"ACTIVE", "EXPIRED"}, expires : Stamp]
      BY <1>1, CopyAssumption DEF Granted, Stamp
    <2>5. /\ subscription' \in [status : {"ACTIVE", "EXPIRED"}, expires : Stamp]
          /\ entitlement' \in [status : {"ACTIVE", "INACTIVE"}, copy : BOOLEAN]
      <3>1. [status |-> "ACTIVE", copy |-> TRUE] \in [status : {"ACTIVE", "INACTIVE"}, copy : BOOLEAN]
        OBVIOUS
      <3>2. CASE subscription' = Granted /\ entitlement' = [status |-> "ACTIVE", copy |-> TRUE]
        BY <2>4, <3>1, <3>2
      <3>3. CASE UNCHANGED <<subscription, entitlement>> BY <3>3
      <3> QED BY <2>1, <3>2, <3>3
    <2> QED BY <2>1, <2>3, <2>5
  <1>4. CASE RevokeExpired
    <2>1. UNCHANGED <<now, setup, signal, message, account, flow, rows, event, worker>>
      BY <1>4 DEF RevokeExpired
    <2>2. subscription' \in [status : {"ACTIVE", "EXPIRED"}, expires : Stamp]
      <3>1. PICK status \in {"EXPIRED", subscription.status} :
                subscription' = [subscription EXCEPT !.status = status]
        BY <1>4 DEF RevokeExpired
      <3>2. subscription \in [status : {"ACTIVE", "EXPIRED"}, expires : Stamp] OBVIOUS
      <3>3. status \in {"ACTIVE", "EXPIRED"} BY <3>2
      <3> QED BY <3>1, <3>2, <3>3
    <2>3. entitlement' \in [status : {"ACTIVE", "INACTIVE"}, copy : BOOLEAN]
      <3>1. entitlement' \in {entitlement, [status |-> "INACTIVE", copy |-> FALSE]}
        BY <1>4 DEF RevokeExpired
      <3>2. [status |-> "INACTIVE", copy |-> FALSE] \in [status : {"ACTIVE", "INACTIVE"}, copy : BOOLEAN]
        OBVIOUS
      <3> QED BY <3>1, <3>2
    <2> QED BY <2>1, <2>2, <2>3
  <1>5. CASE EvaluateSignal
    <2>1. PICK price \in Prices : signal' = Evaluated(setup, signal, price, now)
      BY <1>5 DEF EvaluateSignal
    <2>2. signal' \in Signal /\ Orderly(signal') BY <1>1, <2>1, EvaluatedGoesOn
    <2> QED BY <1>5, <2>2 DEF EvaluateSignal
  <1>6. CASE EditMessage \/ ToggleAccount
    <2>1. /\ UNCHANGED <<now, setup, signal, flow, rows, subscription, entitlement, event, worker>>
          /\ message' = message \/ message' = MessageUpdate(signal)
          /\ account' \in BOOLEAN
      BY <1>6 DEF EditMessage, ToggleAccount
    <2>2. MessageUpdate(signal) \in [label : SignalStatus, copy : BOOLEAN]
      BY DEF MessageUpdate, HasCopyButton, Signal
    <2> QED BY <2>1, <2>2
  <1>7. CASE PressCopy
    BY <1>7 DEF PressCopy, CopyEventStatus
  <1>8. ASSUME NEW w \in Workers,
               Poll(w) \/ Authorize(w) \/ Claim(w) \/ Execute(w) \/ WorkerDies(w)
        PROVE  CopyTypeOK' /\ Orderly(signal')
    <2>1. UNCHANGED <<now, setup, signal, message, account, flow, rows, subscription, entitlement>>
      BY <1>8 DEF Poll, Authorize, Claim, Execute, WorkerDies
    <2>2. worker[w] \in WorkerState OBVIOUS
    <2>3. worker' \in [Workers -> WorkerState]
      <3>1. CASE Poll(w) BY <3>1, <2>2 DEF Poll, WorkerState
      <3>2. CASE Authorize(w) BY <1>1, <3>2 DEF Authorize, WorkerState, Stamp
      <3>3. CASE Claim(w) BY <3>3, WorkerTyped DEF Claim, WorkerState, IdleWorker
      <3>4. CASE Execute(w) \/ WorkerDies(w)
        BY <3>4, WorkerTyped DEF Execute, WorkerDies
      <3> QED BY <1>8, <3>1, <3>2, <3>3, <3>4
    <2>4. event' \in [status : CopyEventStatus, claimedAt : Stamp, meta : Metas \cup {None}]
      <3>1. CASE Poll(w) \/ Authorize(w) \/ WorkerDies(w)
        BY <3>1 DEF Poll, Authorize, WorkerDies
      <3>2. CASE Claim(w) BY <2>2, <3>2 DEF Claim, CopyEventStatus, WorkerState
      <3>3. CASE Execute(w) BY <3>3 DEF Execute, CopyEventStatus
      <3> QED BY <1>8, <3>1, <3>2, <3>3
    <2> QED BY <2>1, <2>3, <2>4
  <1>9. CASE CopyTick
    BY <1>9 DEF CopyTick, TimePasses, copyVars
  <1> QED BY <1>2, <1>3, <1>4, <1>5, <1>6, <1>7, <1>8, <1>9 DEF CopyNext

\* The expiry a subscription has was granted for money that had been taken.
LEMMA StepSubscriptionPaid ==
  ASSUME CopyTypeOK, SubscriptionPaid, CopyNext, Onward
  PROVE  SubscriptionPaid'
  <1>1. CASE \E e \in Normalized :
                 /\ rows' = [rows EXCEPT ![e.ref] = [status |-> e.status, granted |-> now]]
                 /\ e.status = "succeeded" /\ subscription' = Granted
                 /\ now' = now /\ flow' = flow
    <2>1. PICK e \in Normalized :
              /\ rows' = [rows EXCEPT ![e.ref] = [status |-> e.status, granted |-> now]]
              /\ e.status = "succeeded" /\ subscription' = Granted
              /\ now' = now /\ flow' = flow
      BY <1>1
    <2>2. e.ref \in References /\ flow[ProviderOf(e.ref)] \in Taken
      BY <2>1, SucceedsWhenTaken
    <2>3. now \in Nat BY ClockAssumption DEF CopyTypeOK, Instants
    <2>4. rows'[e.ref].granted = now BY <2>1, <2>2 DEF CopyTypeOK
    <2>5. PaidRow(e.ref)' BY <2>1, <2>2, <2>3, <2>4 DEF PaidRow
    <2>6. subscription'.expires = rows'[e.ref].granted + Lifetime
      BY <2>1, <2>4 DEF Granted
    <2> QED BY <2>2, <2>5, <2>6 DEF SubscriptionPaid, PaidRow
  <1>2. CASE subscription'.expires = subscription.expires
    <2> SUFFICES ASSUME subscription.expires # None
                 PROVE  \E r \in References :
                            PaidRow(r)' /\ subscription'.expires = rows'[r].granted + Lifetime
      BY <1>2 DEF SubscriptionPaid, PaidRow
    <2>1. PICK r \in References :
              PaidRow(r) /\ subscription.expires = rows[r].granted + Lifetime
      BY DEF SubscriptionPaid
    <2>2. rows[r].granted # None BY <2>1, NoneAssumption DEF PaidRow
    <2>3. rows'[r] = rows[r] BY <2>2 DEF Onward
    <2>4. now \in Nat /\ now' \in Nat /\ now <= now'
      BY ClockAssumption DEF CopyTypeOK, Instants, Onward
    <2>5. flow'[ProviderOf(r)] \in Taken
      BY <2>1 DEF PaidRow, Onward, ProviderOf, Providers
    <2>6. PaidRow(r)' BY <2>1, <2>3, <2>4, <2>5 DEF PaidRow
    <2> QED BY <1>2, <2>1, <2>3, <2>6
  <1>3. CASE ProcessPaymentWebhook
    <2>1. PICK e \in Normalized :
              /\ rows' = [rows EXCEPT ![e.ref] =
                     [status |-> e.status, granted |-> IF e.status = "succeeded" THEN now ELSE None]]
              /\ IF e.status = "succeeded" THEN subscription' = Granted
                 ELSE UNCHANGED subscription
              /\ now' = now /\ flow' = flow
      BY <1>3 DEF ProcessPaymentWebhook
    <2> QED BY <1>1, <1>2, <2>1
  <1>4. CASE RevokeExpired
    <2>1. PICK status : subscription' = [subscription EXCEPT !.status = status]
      BY <1>4 DEF RevokeExpired
    <2>2. subscription'.expires = subscription.expires BY <2>1 DEF CopyTypeOK
    <2> QED BY <1>2, <2>2
  <1>5. CASE ~ ProcessPaymentWebhook /\ ~ RevokeExpired
    <2>1. UNCHANGED subscription
      BY <1>5 DEF CopyNext, ProviderMoves, EvaluateSignal, EditMessage, PressCopy, ToggleAccount,
                  Poll, Authorize, Claim, Execute, WorkerDies, CopyTick, copyVars
    <2> QED BY <1>2, <2>1
  <1> QED BY <1>3, <1>4, <1>5

\* What the gate lets through is open and paid at this instant.
LEMMA GateAuthorizes ==
  ASSUME CopyTypeOK, Orderly(signal), SubscriptionPaid, CanCopy
  PROVE  now \in AuthorizedTimes
  <1>1. now \in Nat BY ClockAssumption DEF CopyTypeOK, Instants
  <1>2. OpenAt(now)
    <2>1. signal.tp1At = None /\ signal.invalidatedAt = None
      BY DEF CanCopy, Orderly, Actionable
    <2>2. setup.expiry = None \/ now < setup.expiry
      <3>1. setup.expiry \in Nat \cup {None}
        BY CopyAssumption DEF CopyTypeOK, TradeSetup
      <3> QED BY <1>1, <3>1 DEF CanCopy
    <2> QED BY <2>1, <2>2 DEF OpenAt
  <1>3. PaidAt(now)
    <2>1. PICK r \in References :
              PaidRow(r) /\ subscription.expires = rows[r].granted + Lifetime
      BY DEF CanCopy, SubscriptionPaid
    <2>2. now < rows[r].granted + Lifetime
      BY <1>1, <2>1, CopyAssumption DEF CanCopy, PaidRow
    <2>3. rows[r].granted # None BY <2>1, NoneAssumption DEF PaidRow
    <2> QED BY <2>1, <2>2, <2>3 DEF PaidAt, PaidRow, ProviderOf, Taken
  <1> QED BY <1>1, <1>2, <1>3 DEF AuthorizedTimes

\* Authorizations travel from the gate to the worker and into the event.
LEMMA StepClaims ==
  ASSUME CopyInv, CopyNext, Onward
  PROVE  WorkersAuthorized' /\ ClaimStands' /\ HoldersClaimed'
  <1>1. /\ CopyTypeOK /\ Orderly(signal) /\ SubscriptionPaid /\ WorkersAuthorized
        /\ ClaimStands /\ HoldersClaimed
    BY DEF CopyInv
  <1>2. AuthorizedTimes \subseteq AuthorizedTimes' BY <1>1, AuthorizedStays
  <1>3. worker \in [Workers -> WorkerState] BY <1>1 DEF CopyTypeOK
  <1>4. CASE ~ \E w \in Workers : Authorize(w) \/ Claim(w) \/ Execute(w)
    <2>1. \A w \in Workers :
              \/ worker'[w] = worker[w]
              \/ worker'[w].at = "polled" \/ worker'[w].at = "idle"
      <3>1. CASE \E w \in Workers : Poll(w) \/ WorkerDies(w)
        BY <1>3, <3>1, WorkerTyped DEF Poll, WorkerDies, WorkerState
      <3>2. CASE ~ \E w \in Workers : Poll(w) \/ WorkerDies(w)
        BY <1>4, <3>2 DEF CopyNext, ProviderMoves, ProcessPaymentWebhook, RevokeExpired,
           EvaluateSignal, EditMessage, PressCopy, ToggleAccount, CopyTick, copyVars
      <3> QED BY <3>1, <3>2
    <2>2. event' = event \/ (~ WasClaimed /\ ~ WasClaimed')
      <3>1. CASE PressCopy BY <1>1, <3>1 DEF PressCopy, CopyTypeOK, WasClaimed
      <3>2. CASE ~ PressCopy
        BY <1>4, <3>2 DEF CopyNext, ProviderMoves, ProcessPaymentWebhook, RevokeExpired,
           EvaluateSignal, EditMessage, ToggleAccount, Poll, WorkerDies, CopyTick, copyVars
      <3> QED BY <3>1, <3>2
    <2>3. WorkersAuthorized' BY <1>1, <1>2, <2>1 DEF WorkersAuthorized
    <2>4. ClaimStands' BY <1>1, <1>2, <2>2 DEF ClaimStands, WasClaimed
    <2>5. HoldersClaimed' BY <1>1, <2>1, <2>2 DEF HoldersClaimed, WasClaimed
    <2> QED BY <2>3, <2>4, <2>5
  <1>5. ASSUME NEW w \in Workers, Authorize(w)
        PROVE  WorkersAuthorized' /\ ClaimStands' /\ HoldersClaimed'
    <2> DEFINE time == IF CanCopy THEN now ELSE None
               loaded == [at |-> "loaded", authorizedAt |-> time]
    <2>1. worker' = [worker EXCEPT ![w] = loaded] /\ event' = event
      BY <1>5 DEF Authorize
    <2>2. time \in AuthorizedTimes \cup {None} BY <1>1, GateAuthorizes
    <2>3. loaded.at = "loaded" /\ loaded.authorizedAt = time OBVIOUS
    <2> HIDE DEF time, loaded
    <2>4. WorkersAuthorized' BY <1>1, <1>2, <1>3, <2>1, <2>2, <2>3 DEF WorkersAuthorized
    <2>5. ClaimStands' BY <1>1, <1>2, <2>1 DEF ClaimStands, WasClaimed
    <2>6. HoldersClaimed' BY <1>1, <1>3, <2>1, <2>3 DEF HoldersClaimed, WasClaimed
    <2> QED BY <2>4, <2>5, <2>6
  <1>6. ASSUME NEW w \in Workers, Claim(w)
        PROVE  WorkersAuthorized' /\ ClaimStands' /\ HoldersClaimed'
    <2>1. worker[w].at = "loaded" BY <1>6 DEF Claim
    <2>2. CASE event.status # "PENDING"
      <3>1. worker' = [worker EXCEPT ![w] = IdleWorker] /\ event' = event
        BY <1>6, <2>2 DEF Claim
      <3> QED BY <1>1, <1>2, <1>3, <3>1, WorkerTyped
              DEF WorkersAuthorized, ClaimStands, HoldersClaimed, WasClaimed
    <2>3. CASE event.status = "PENDING" /\ worker[w].authorizedAt # None
      <3> DEFINE holding == [IdleWorker EXCEPT !.at = "claimed"]
      <3>1. worker' = [worker EXCEPT ![w] = holding] BY <1>6, <2>3 DEF Claim
      <3>2. event' = [event EXCEPT !.status = "CLAIMED", !.claimedAt = worker[w].authorizedAt]
        BY <1>6, <2>3 DEF Claim
      <3>3. event'.status = "CLAIMED" /\ event'.claimedAt = worker[w].authorizedAt
        BY <1>1, <3>2 DEF CopyTypeOK
      <3>4. holding.at = "claimed" BY DEF IdleWorker
      <3> HIDE DEF holding
      <3>5. worker[w].authorizedAt \in AuthorizedTimes BY <1>1, <2>1, <2>3 DEF WorkersAuthorized
      <3> QED BY <1>1, <1>2, <1>3, <3>1, <3>3, <3>4, <3>5
              DEF WorkersAuthorized, ClaimStands, HoldersClaimed, WasClaimed
    <2>4. CASE event.status = "PENDING" /\ worker[w].authorizedAt = None
      <3>1. worker' = [worker EXCEPT ![w] = IdleWorker] BY <1>6, <2>4 DEF Claim
      <3>2. event' = [event EXCEPT !.status = "REJECTED"] BY <1>6, <2>4 DEF Claim
      <3>3. ~ WasClaimed /\ ~ WasClaimed' BY <1>1, <2>4, <3>2 DEF CopyTypeOK, WasClaimed
      <3> QED BY <1>1, <1>2, <1>3, <3>1, <3>3, WorkerTyped
              DEF WorkersAuthorized, ClaimStands, HoldersClaimed
    <2> QED BY <2>2, <2>3, <2>4
  <1>7. ASSUME NEW w \in Workers, Execute(w)
        PROVE  WorkersAuthorized' /\ ClaimStands' /\ HoldersClaimed'
    <2>1. WasClaimed BY <1>1, <1>7 DEF Execute, HoldersClaimed
    <2>2. worker' = [worker EXCEPT ![w] = IdleWorker] BY <1>7 DEF Execute
    <2>3. event'.claimedAt = event.claimedAt /\ event'.status \in {"EXECUTED", "ERROR"}
      BY <1>1, <1>7 DEF Execute, CopyTypeOK
    <2> QED BY <1>1, <1>2, <1>3, <2>1, <2>2, <2>3, WorkerTyped
            DEF WorkersAuthorized, ClaimStands, HoldersClaimed, WasClaimed
  <1> QED BY <1>4, <1>5, <1>6, <1>7

\* Of metadata that pass every check, no field is missing.
LEMMA ValidatedIsKnown ==
  ASSUME NEW meta \in Metas, ValidateExecution(meta)
  PROVE  \A f \in DOMAIN meta : meta[f] # None
  <1>1. meta \in SymbolMetadata BY CopyAssumption
  <1>2. DOMAIN meta = {"point", "tick", "stops", "freeze", "min", "max", "step", "permitted",
                       "open", "digits", "free"}
    BY <1>1 DEF SymbolMetadata
  <1>3. /\ meta["point"] # None /\ meta["tick"] # None /\ meta["stops"] # None
        /\ meta["freeze"] # None /\ meta["min"] # None /\ meta["max"] # None
        /\ meta["step"] # None /\ meta["digits"] # None /\ meta["free"] # None
    BY DEF ValidateExecution, ValidateStopDistance, ValidateFreezeLevel, Far, ValidateTickSize,
           ValidateNormalization, ValidateVolume, ValidateMargin
  <1>4. meta["permitted"] # None /\ meta["open"] # None
    BY NoneAssumption DEF ValidateExecution, ValidatePermissions
  <1> QED BY <1>2, <1>3, <1>4

LEMMA StepRefuses ==
  ASSUME CopyTypeOK, RefusesUnknown, CopyNext
  PROVE  RefusesUnknown'
  <1>1. CASE \E w \in Workers : Execute(w)
    <2>1. PICK meta \in Metas :
              event' = IF ValidateExecution(meta)
                       THEN [event EXCEPT !.status = "EXECUTED", !.meta = meta]
                       ELSE [event EXCEPT !.status = "ERROR"]
      BY <1>1 DEF Execute
    <2>2. CASE ValidateExecution(meta)
      <3>1. event'.meta = meta BY <2>1, <2>2 DEF CopyTypeOK
      <3> QED BY <2>2, <3>1, ValidatedIsKnown DEF RefusesUnknown
    <2>3. CASE ~ ValidateExecution(meta)
      <3>1. event'.status = "ERROR" BY <2>1, <2>3 DEF CopyTypeOK
      <3> QED BY <3>1 DEF RefusesUnknown
    <2> QED BY <2>2, <2>3
  <1>2. CASE PressCopy \/ \E w \in Workers : Claim(w)
    <2>1. event' = event \/ event'.status # "EXECUTED"
      BY <1>2 DEF PressCopy, Claim, CopyTypeOK
    <2> QED BY <2>1 DEF RefusesUnknown
  <1>3. CASE ~ PressCopy /\ ~ \E w \in Workers : Claim(w) \/ Execute(w)
    <2>1. event' = event
      BY <1>3 DEF CopyNext, ProviderMoves, ProcessPaymentWebhook, RevokeExpired, EvaluateSignal,
         EditMessage, ToggleAccount, Poll, Authorize, WorkerDies, CopyTick, copyVars
    <2> QED BY <2>1 DEF RefusesUnknown
  <1> QED BY <1>1, <1>2, <1>3

LEMMA CopyInductive == CopyInv /\ [CopyNext]_<<now, copyVars>> => CopyInv'
  <1> SUFFICES ASSUME CopyInv, [CopyNext]_<<now, copyVars>> PROVE CopyInv' OBVIOUS
  <1>1. CASE CopyNext
    <2>1. CopyTypeOK /\ Orderly(signal) /\ SubscriptionPaid /\ RefusesUnknown
      BY DEF CopyInv
    <2>2. Onward BY <1>1, <2>1, StepOnward
    <2>3. CopyTypeOK' /\ Orderly(signal') BY <1>1, <2>1, StepCopyType
    <2>4. SubscriptionPaid' BY <1>1, <2>1, <2>2, StepSubscriptionPaid
    <2>5. WorkersAuthorized' /\ ClaimStands' /\ HoldersClaimed' BY <1>1, <2>2, StepClaims
    <2>6. RefusesUnknown' BY <1>1, <2>1, StepRefuses
    <2> QED BY <2>3, <2>4, <2>5, <2>6 DEF CopyInv, Orderly
  <1>2. CASE UNCHANGED <<now, copyVars>>
    BY <1>2 DEF copyVars, CopyInv, CopyTypeOK, Orderly, SubscriptionPaid, PaidRow,
                WorkersAuthorized, AuthorizedTimes, OpenAt, PaidAt, ClaimStands, WasClaimed,
                HoldersClaimed, RefusesUnknown
  <1> QED BY <1>1, <1>2

LEMMA CopyInvariant == CopySpec => []CopyInv
  <1>1. now = 0 /\ CopyInit => CopyInv BY InitCopy
  <1>2. CopyInv /\ [CopyNext]_<<now, copyVars>> => CopyInv' BY CopyInductive
  <1> QED BY <1>1, <1>2, PTL DEF CopySpec

\* Signal, message, rows, entitlement, event and workers keep their types.
THEOREM CopyTypeCorrect == CopySpec => []CopyTypeOK
  <1>1. CopyInv => CopyTypeOK BY DEF CopyInv
  <1> QED BY <1>1, CopyInvariant, PTL

\* authorize_and_claim() (copy_trading.py): whatever webhooks, prices, polls and
\* deaths come between, a copy is claimed only for a signal that was open and a
\* period that was paid when its worker asked.
THEOREM EveryClaimWasAuthorized == CopySpec => []ClaimsAuthorized
  <1>1. CopyInv => ClaimsAuthorized
    BY DEF CopyInv, ClaimStands, WasClaimed, AuthorizedTimes, ClaimsAuthorized
  <1> QED BY <1>1, CopyInvariant, PTL

\* validate_execution() (execution_validation.py): whatever the broker leaves
\* unknown, nothing is executed with it.
THEOREM UnknownIsRefused == CopySpec => []RefusesUnknown
  <1>1. CopyInv => RefusesUnknown BY DEF CopyInv
  <1> QED BY <1>1, CopyInvariant, PTL

\* The worker that has claimed an event is the only one, and the event is CLAIMED
\* until it executes or dies.
ClaimedByOne ==
    /\ \A w \in Workers : worker[w].at = "claimed" => event.status = "CLAIMED"
    /\ \A v, w \in Workers : worker[v].at = "claimed" /\ worker[w].at = "claimed" => v = w

\* What a step may do to the event.
DecidesOnce ==
    /\ event.status \in {"EXECUTED", "REJECTED", "ERROR"} => event' = event
    /\ event.status # "EXECUTED" /\ event'.status = "EXECUTED" => event.status = "CLAIMED"
    /\ event.status = "CLAIMED" => event'.claimedAt = event.claimedAt

LEMMA StepClaimed ==
  ASSUME CopyTypeOK, ClaimedByOne, CopyNext
  PROVE  ClaimedByOne' /\ DecidesOnce
  <1> USE DEF ClaimedByOne
  <1>1. /\ worker \in [Workers -> WorkerState]
        /\ event \in [status : CopyEventStatus, claimedAt : Stamp, meta : Metas \cup {None}]
    BY DEF CopyTypeOK
  <1>2. ASSUME NEW w \in Workers, Claim(w)
        PROVE  ClaimedByOne' /\ DecidesOnce
    <2>1. \A v \in Workers : v # w => worker'[v] = worker[v]
      BY <1>1, <1>2 DEF Claim
    <2>2. CASE event.status # "PENDING"
      <3>1. event' = event /\ worker'[w].at = "idle"
        BY <1>1, <1>2, <2>2, WorkerTyped DEF Claim
      <3> QED BY <2>1, <3>1 DEF DecidesOnce
    <2>3. CASE event.status = "PENDING" /\ worker[w].authorizedAt # None
      <3>1. event'.status = "CLAIMED"
        BY <1>1, <1>2, <2>3 DEF Claim
      <3>2. \A v \in Workers : worker[v].at # "claimed"
        BY <2>3
      <3> QED BY <2>1, <2>3, <3>1, <3>2 DEF DecidesOnce
    <2>4. CASE event.status = "PENDING" /\ worker[w].authorizedAt = None
      <3>1. event'.status = "REJECTED" /\ worker'[w].at = "idle"
        BY <1>1, <1>2, <2>4, WorkerTyped DEF Claim
      <3> QED BY <2>1, <2>4, <3>1 DEF DecidesOnce
    <2> QED BY <2>2, <2>3, <2>4
  <1>3. ASSUME NEW w \in Workers, Execute(w)
        PROVE  ClaimedByOne' /\ DecidesOnce
    <2>1. /\ worker[w].at = "claimed" /\ worker'[w].at = "idle"
          /\ \A v \in Workers : v # w => worker'[v] = worker[v]
      BY <1>1, <1>3, WorkerTyped DEF Execute
    <2>2. event.status = "CLAIMED" /\ event'.claimedAt = event.claimedAt
      BY <1>1, <1>3, <2>1 DEF Execute
    <2>3. \A v \in Workers : worker'[v].at # "claimed"
      BY <2>1
    <2> QED BY <2>2, <2>3 DEF DecidesOnce
  <1>4. CASE PressCopy
    <2>1. event.status = "none" /\ event'.status = "PENDING" /\ worker' = worker
      BY <1>1, <1>4 DEF PressCopy
    <2> QED BY <2>1 DEF DecidesOnce
  <1>5. ASSUME NEW w \in Workers, Poll(w) \/ Authorize(w) \/ WorkerDies(w)
        PROVE  ClaimedByOne' /\ DecidesOnce
    <2>1. /\ event' = event /\ worker'[w].at # "claimed"
          /\ \A v \in Workers : v # w => worker'[v] = worker[v]
      BY <1>1, <1>5, WorkerTyped DEF Poll, Authorize, WorkerDies, WorkerState
    <2> QED BY <2>1 DEF DecidesOnce
  <1>6. CASE UNCHANGED <<event, worker>>
    BY <1>6 DEF DecidesOnce
  <1> QED BY <1>2, <1>3, <1>4, <1>5, <1>6 DEF CopyNext, ProviderMoves, ProcessPaymentWebhook,
      RevokeExpired, EvaluateSignal, EditMessage, ToggleAccount, CopyTick, copyVars

\* authorize_and_claim() (copy_trading.py), whose caller has one of two workers
\* win: no event is executed by two workers, nor after it was rejected, whatever
\* deaths, retries and old polls come between.
THEOREM EventsDecidedOnce == CopySpec => CopiedOnce
  <1>1. now = 0 /\ CopyInit => ClaimedByOne
    BY WorkerTyped DEF CopyInit, ClaimedByOne
  <1>2. CopyInv /\ ClaimedByOne /\ [CopyNext]_<<now, copyVars>> => ClaimedByOne' /\ DecidesOnce
    <2>1. UNCHANGED copyVars /\ ClaimedByOne => ClaimedByOne' /\ DecidesOnce
      BY DEF copyVars, ClaimedByOne, DecidesOnce
    <2> QED BY <2>1, StepClaimed DEF CopyInv
  <1>3. CopyInv /\ ClaimedByOne /\ [CopyNext]_<<now, copyVars>> =>
          [/\ event.status \in {"EXECUTED", "REJECTED", "ERROR"} => event' = event
           /\ event.status # "EXECUTED" /\ event'.status = "EXECUTED"
                => event.status = "CLAIMED"
           /\ event.status = "CLAIMED" => event'.claimedAt = event.claimedAt]_event
    BY <1>2 DEF DecidesOnce
  <1> QED BY <1>1, <1>2, <1>3, CopyInvariant, PTL DEF CopySpec, CopiedOnce

\* COPY_POLLING_WHERE_CLAUSE and can_copy() (copy_trading.py) are kept alike by
\* hand: a poll selects a pending event exactly when the gate would let it pass,
\* unset dates included.
THEOREM PollAndGateAgree == CopyTypeOK => (PollSelects <=> CanCopy)
  BY DEF PollSelects, CanCopy, CopyTypeOK

\* evaluate_signal() (models.py), for any setup, signal, price and instant: one
\* call goes as far as the price takes the signal, so that a price that is
\* delivered again at the same instant changes nothing.
THEOREM EvaluationSettles ==
  ASSUME NEW s, NEW g \in Signal, NEW price, NEW time \in Nat
  PROVE  Evaluated(s, Evaluated(s, g, price, time), price, time) = Evaluated(s, g, price, time)
  <1> DEFINE e == Evaluated(s, g, price, time)
             one   == IF g.status = "ACTIVE" /\ Hit(s, s.tp1, price)
                      THEN [g EXCEPT !.status = "TP1_REACHED", !.tp1At = time] ELSE g
             two   == IF one.status = "TP1_REACHED" /\ Hit(s, s.tp2, price)
                      THEN [one EXCEPT !.status = "TP2_REACHED", !.tp2At = time] ELSE one
             three == IF two.status = "TP2_REACHED" /\ Hit(s, s.final, price)
                      THEN [two EXCEPT !.status = "COMPLETED", !.completedAt = time] ELSE two
  <1>1. CASE e.status \notin Actionable
    BY <1>1 DEF Evaluated
  <1>2. CASE e.status \in Actionable
    <2>1. /\ g.status \in Actionable /\ ~ (s.expiry # None /\ time >= s.expiry)
          /\ ~ Crosses(s, price) /\ e = TargetProgress(s, g, price, time)
      BY <1>2 DEF Evaluated, Actionable, Signal
    <2>2. ~ EntryIsStale(s, price)
      BY DEF EntryIsStale, MaxDriftBp
    <2>3. Evaluated(s, e, price, time) = TargetProgress(s, e, price, time)
      BY <1>2, <2>1, <2>2 DEF Evaluated
    <2>4. e = three
      BY <2>1 DEF TargetProgress
    <2>5. g.status = "ACTIVE" /\ Hit(s, s.tp1, price) => one.status = "TP1_REACHED"
      BY DEF Signal
    <2>6. ~ (one.status = "ACTIVE" /\ Hit(s, s.tp1, price))
      BY <2>5
    <2> HIDE DEF one
    <2>7. one.status = "TP1_REACHED" /\ Hit(s, s.tp2, price) => two.status = "TP2_REACHED"
      BY DEF one, Signal
    <2>8. /\ two.status = "ACTIVE" => two = one
          /\ two.status = "TP1_REACHED" => two = one /\ ~ Hit(s, s.tp2, price)
      BY <2>7
    <2> HIDE DEF two
    <2>9. three = two /\ ~ (two.status = "TP2_REACHED" /\ Hit(s, s.final, price))
      <3>1. two.status = "TP2_REACHED" /\ Hit(s, s.final, price) => three.status = "COMPLETED"
        BY DEF one, two, Signal
      <3> QED BY <1>2, <2>4, <3>1 DEF Actionable
    <2>10. TargetProgress(s, e, price, time) = e
      BY <2>4, <2>6, <2>8, <2>9 DEF TargetProgress
    <2> QED BY <2>3, <2>10
  <1> QED BY <1>1, <1>2

\* evaluate_signal() (models.py): for any setup and any prices, in any order.
THEOREM SignalsGoForward == CopySpec => ProgressIsForward
  <1>1. ASSUME CopyInv, [CopyNext]_<<now, copyVars>>
        PROVE  signal' = signal \/ GoesOn(signal, signal', now)
    <2>1. CASE EvaluateSignal
      <3>1. now \in Nat BY <1>1, ClockAssumption DEF CopyInv, CopyTypeOK, Instants
      <3> QED BY <1>1, <2>1, <3>1, EvaluatedGoesOn DEF EvaluateSignal, CopyInv, CopyTypeOK
    <2>2. CASE ~ EvaluateSignal
      BY <1>1, <2>2 DEF CopyNext, ProviderMoves, ProcessPaymentWebhook, RevokeExpired,
         EditMessage, PressCopy, ToggleAccount, Poll, Authorize, Claim, Execute, WorkerDies,
         CopyTick, copyVars
    <2> QED BY <2>1, <2>2
  <1>2. ASSUME CopyInv, [CopyNext]_<<now, copyVars>>
        PROVE  [/\ signal.status \notin Actionable => signal' = signal
                /\ {signal.status, signal'.status} \subseteq DOMAIN Reached =>
                       Reached[signal.status] <= Reached[signal'.status]
                /\ \A f \in {"invalidatedAt", "tp1At", "tp2At", "completedAt"} :
                       signal[f] # None => signal'[f] = signal[f]]_signal
    BY <1>1, <1>2 DEF GoesOn, Stamped
  <1> QED BY <1>2, CopyInvariant, PTL DEF CopySpec, ProgressIsForward

(***************************************************************************)
(* The parts together: MCCopyTrading composes them, they share the clock   *)
(***************************************************************************)

\* The clock moves by its tick alone, and a tick changes nothing else.
LEMMA CopyingAndTime ==
  ASSUME CopyNext
  PROVE  now' = now \/ (TimePasses /\ UNCHANGED copyVars)
  BY DEF CopyNext, CopyTick, ProviderMoves, ProcessPaymentWebhook, RevokeExpired, EvaluateSignal,
     EditMessage, PressCopy, ToggleAccount, Poll, Authorize, Claim, Execute, WorkerDies

LEMMA SettingsAndTime ==
  ASSUME SettingsNext
  PROVE  now' = now \/ (TimePasses /\ UNCHANGED settingsVars)
  BY DEF SettingsNext, SettingsTick, ReadList, WriteList, ReadSwitch, RequestOn, ReadRequest, TurnOn,
     ClearRequest, SetPaused, TurnOff, Abandon

LEMMA MemberAndTime ==
  ASSUME MemberNext
  PROVE  now' = now \/ TimePasses
  BY DEF MemberNext, MemberTick, Subscribe, Charge, Load, Insert, Commit, Fail, SelectToExpire,
     SelectToRemove, CommitSweep, SwitchCopying, MemberCrash

\* Where the run follows another part, the feed has no subscriber.
Unsubscribed == part # "membership" => MemberInit

\* Time that passes for another part passes for the subscription, whose feed
\* serves nobody then, and likewise the other way round.
LEMMA PartsStep ==
  ASSUME Unsubscribed, MCNext
  PROVE  /\ Unsubscribed'
         /\ [MemberNext]_<<now, memberVars>>
         /\ [CopyNext]_<<now, copyVars>>
         /\ [SettingsNext]_<<now, settingsVars>>
  <1>1. TimePasses /\ UNCHANGED copyVars => CopyNext
    BY DEF CopyNext, CopyTick
  <1>2. TimePasses /\ UNCHANGED settingsVars => SettingsNext
    BY DEF SettingsNext, SettingsTick
  <1>3. ASSUME MemberInit, TimePasses, UNCHANGED memberVars
        PROVE  MemberNext
    <2>1. \A c \in Charges : ~ FeedServes(c)
      BY <1>3 DEF MemberInit, FeedServes, MayCopy
    <2>2. used' = used + 0
      BY <1>3 DEF MemberInit, memberVars
    <2> QED BY <1>3, <2>1, <2>2 DEF MemberNext, MemberTick, memberVars
  <1>4. MemberInit /\ UNCHANGED memberVars => MemberInit'
    BY DEF MemberInit, memberVars
  <1>5. CASE part = "membership" /\ MemberNext /\ UNCHANGED <<copyVars, settingsVars>>
    BY <1>1, <1>2, <1>5, MemberAndTime DEF MCNext, Unsubscribed
  <1>6. CASE part = "copying" /\ CopyNext /\ UNCHANGED <<memberVars, settingsVars>>
    BY <1>2, <1>3, <1>4, <1>6, CopyingAndTime DEF MCNext, Unsubscribed
  <1>7. CASE part = "settings" /\ SettingsNext /\ UNCHANGED <<memberVars, copyVars>>
    BY <1>1, <1>3, <1>4, <1>7, SettingsAndTime DEF MCNext, Unsubscribed
  <1> QED BY <1>5, <1>6, <1>7 DEF MCNext

\* A run that follows one of the three shows of it what a run of it alone would.
THEOREM AccessPartsAlone == MCSpec => MemberSpec /\ CopySpec /\ SettingsSpec
  <1>1. MCInit => Unsubscribed /\ now = 0 /\ MemberInit /\ CopyInit /\ SettingsInit
    BY DEF MCInit, Unsubscribed
  <1>2. Unsubscribed /\ [MCNext]_<<now, part, memberVars, copyVars, settingsVars>>
          => /\ Unsubscribed'
             /\ [MemberNext]_<<now, memberVars>>
             /\ [CopyNext]_<<now, copyVars>>
             /\ [SettingsNext]_<<now, settingsVars>>
    <2>1. Unsubscribed /\ UNCHANGED <<part, memberVars>> => Unsubscribed'
      BY DEF Unsubscribed, MemberInit, memberVars
    <2> QED BY <2>1, PartsStep
  <1> QED BY <1>1, <1>2, PTL DEF MCSpec, MemberSpec, CopySpec, SettingsSpec

\* Whichever part goes on, every variable of the three keeps its type.
THEOREM AccessTypeCorrect == MCSpec => []TypeOK
  <1>1. MemberTypeOK /\ CopyTypeOK /\ SettingsTypeOK => TypeOK
    BY DEF TypeOK
  <1> QED BY <1>1, AccessPartsAlone, MemberTypeCorrect, CopyTypeCorrect, SettingsTypeCorrect, PTL
=============================================================================
