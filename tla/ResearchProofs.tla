--------------------------- MODULE ResearchProofs ---------------------------
(***************************************************************************)
(* The research services, for any requests, handlers, versions, parameters *)
(* and outcome data: the ledger releases a reservation exactly when its    *)
(* request has come to its end, and admits none beyond its heat limit; the *)
(* search for parameters never comes back to a configuration it has left   *)
(* unless an approval was stale.                                           *)
(*                                                                         *)
(* The ledger's invariant adds that a request without a row has no         *)
(* reservation, and, for the heat, that the room a reservation in progress *)
(* has found is still there.  Heat is a fold over a set; that the fold     *)
(* adds up is shown first.  The search's invariant says that a proposal    *)
(* scores better than the configuration it was made for and, while no      *)
(* approval was stale, that the live configuration scores better than all  *)
(* that were live before.                                                  *)
(***************************************************************************)
EXTENDS MCResearch, LearningProofs, FiniteSetTheorems, TLAPS

(***************************************************************************)
(* Sums over a set of requests                                             *)
(***************************************************************************)

\* The risk of a set of requests, in reservations given as a function.
TotalRisk(res, R) == MapThenSumSet(LAMBDA r : res[r].risk_r, R)

\* The same as a set: the units of risk that each request takes, and the
\* requests together.
UnitsOf(res, r) == {r} \X (1 .. res[r].risk_r)
Units(res, R) == UNION {UnitsOf(res, r) : r \in R}

\* R can be added up.
Risky(res, R) == IsFiniteSet(R) /\ \A r \in R : res[r].risk_r \in Nat

\* Requests share no unit, so that the number of units adds up.
LEMMA UnitsOfOne ==
  ASSUME NEW res, NEW r, res[r].risk_r \in Nat
  PROVE  /\ IsFiniteSet(UnitsOf(res, r))
         /\ Cardinality(UnitsOf(res, r)) = res[r].risk_r
  <1> DEFINE A == {r}
             B == 1 .. res[r].risk_r
  <1>1. IsFiniteSet(A) /\ Cardinality(A) = 1
    BY FS_Singleton
  <1>2. IsFiniteSet(B) /\ Cardinality(B) = res[r].risk_r
    <2>1. ASSUME NEW k \in Nat PROVE IsFiniteSet(1 .. k) /\ Cardinality(1 .. k) = k
      BY FS_Interval
    <2> QED BY <2>1
  <1> HIDE DEF A, B
  <1>3. IsFiniteSet(A \X B) /\ Cardinality(A \X B) = Cardinality(A) * Cardinality(B)
    BY <1>1, <1>2, FS_Product
  <1>4. Cardinality(A \X B) = res[r].risk_r
    BY <1>1, <1>2, <1>3
  <1> QED BY <1>3, <1>4 DEF UnitsOf, A, B

LEMMA UnitsFinite ==
  ASSUME NEW res, NEW R, Risky(res, R)
  PROVE  IsFiniteSet(Units(res, R))
  <1> DEFINE T == {UnitsOf(res, r) : r \in R}
             f == [r \in R |-> UnitsOf(res, r)]
  <1>1. f \in Surjection(R, T)
    BY DEF Surjection
  <1>2. IsFiniteSet(T)
    BY <1>1, FS_Surjection DEF Risky
  <1>3. \A U \in T : IsFiniteSet(U)
    BY UnitsOfOne DEF Risky
  <1> QED BY <1>2, <1>3, FS_UNION DEF Units

LEMMA UnitsGrow ==
  ASSUME NEW res, NEW R, NEW x, x \notin R, Risky(res, R \cup {x})
  PROVE  /\ Risky(res, R)
         /\ Cardinality(Units(res, R \cup {x})) = res[x].risk_r + Cardinality(Units(res, R))
  <1>1. Risky(res, R)
    BY FS_Subset DEF Risky
  <1>2. Units(res, R \cup {x}) = Units(res, R) \cup UnitsOf(res, x)
    BY DEF Units
  <1>3. Units(res, R) \cap UnitsOf(res, x) = {}
    BY DEF Units, UnitsOf
  <1>4. IsFiniteSet(Units(res, R)) /\ Cardinality(Units(res, R)) \in Nat
    BY <1>1, UnitsFinite, FS_CardinalityType
  <1>5. /\ IsFiniteSet(UnitsOf(res, x)) /\ Cardinality(UnitsOf(res, x)) = res[x].risk_r
        /\ res[x].risk_r \in Nat
    BY UnitsOfOne DEF Risky
  <1>6. Cardinality(Units(res, R) \cup UnitsOf(res, x)) =
          Cardinality(Units(res, R)) + res[x].risk_r - Cardinality({})
    BY <1>3, <1>4, <1>5, FS_Union
  <1>7. Cardinality({}) = 0
    BY FS_EmptySet
  <1>8. \A m, n \in Nat : m + n - 0 = n + m
    OBVIOUS
  <1>9. Cardinality(Units(res, R) \cup UnitsOf(res, x)) =
          res[x].risk_r + Cardinality(Units(res, R))
    BY <1>4, <1>5, <1>6, <1>7, <1>8
  <1> QED BY <1>1, <1>2, <1>9

\* A function that obeys the equation of the sum gives the number of units: by
\* a smallest set for which it would not.
LEMMA SumIsUnits ==
  ASSUME NEW res, NEW S, Risky(res, S), NEW f,
         f = [s \in SUBSET S |->
                IF s = {} THEN 0
                ELSE LET x == CHOOSE x \in s : TRUE IN res[x].risk_r + f[s \ {x}]]
  PROVE  f[S] = Cardinality(Units(res, S))
  <1> DEFINE Wrong == {s \in SUBSET S : f[s] # Cardinality(Units(res, s))}
  <1>1. SUFFICES ASSUME Wrong # {} PROVE FALSE
    OBVIOUS
  <1>2. IsWellFoundedOn(StrictSubsetOrdering(S), SUBSET S)
    BY FS_StrictSubsetOrderingWellFounded, FS_FiniteSubsetsOfFinite DEF Risky
  <1>3. PICK s \in Wrong : \A t \in Wrong : <<t, s>> \notin StrictSubsetOrdering(S)
    BY <1>1, <1>2, WFMin
  <1>4. CASE s = {}
    <2>1. f[s] = 0
      BY <1>4
    <2>2. Units(res, s) = {}
      BY <1>4 DEF Units
    <2> QED BY <1>3, <2>1, <2>2, FS_EmptySet
  <1>5. CASE s # {}
    <2> DEFINE x == CHOOSE x \in s : TRUE
    <2>1. x \in s
      BY <1>5
    <2>2. f[s] = res[x].risk_r + f[s \ {x}]
      BY <1>5
    <2> HIDE DEF x
    <2>3. <<s \ {x}, s>> \in StrictSubsetOrdering(S)
      BY <2>1 DEF StrictSubsetOrdering
    <2>4. f[s \ {x}] = Cardinality(Units(res, s \ {x}))
      BY <1>3, <2>3
    <2>5. Risky(res, s)
      BY FS_Subset DEF Risky
    <2>6. (s \ {x}) \cup {x} = s /\ x \notin s \ {x}
      BY <2>1
    <2>7. Cardinality(Units(res, s)) = res[x].risk_r + Cardinality(Units(res, s \ {x}))
      BY <2>5, <2>6, UnitsGrow
    <2> QED BY <1>3, <2>2, <2>4, <2>7
  <1> QED BY <1>4, <1>5

\* There is such a function, so that the sum is the number of units.
LEMMA TotalIsUnits ==
  ASSUME NEW res, NEW S, Risky(res, S)
  PROVE  TotalRisk(res, S) = Cardinality(Units(res, S))
  <1> DEFINE Sums(f) == f = [s \in SUBSET S |->
                IF s = {} THEN 0
                ELSE LET x == CHOOSE x \in s : TRUE IN res[x].risk_r + f[s \ {x}]]
             g == [s \in SUBSET S |-> Cardinality(Units(res, s))]
  <1>1. Sums(g)
    <2>1. ASSUME NEW s \in SUBSET S
          PROVE  Cardinality(Units(res, s)) =
                   IF s = {} THEN 0
                   ELSE LET x == CHOOSE x \in s : TRUE
                        IN  res[x].risk_r + Cardinality(Units(res, s \ {x}))
      <3>1. CASE s = {}
        BY <3>1, FS_EmptySet DEF Units
      <3>2. CASE s # {}
        <4> DEFINE x == CHOOSE x \in s : TRUE
        <4>1. x \in s
          BY <3>2
        <4> HIDE DEF x
        <4>2. Risky(res, s) /\ (s \ {x}) \cup {x} = s /\ x \notin s \ {x}
          BY <4>1, FS_Subset DEF Risky
        <4>3. Cardinality(Units(res, s)) = res[x].risk_r + Cardinality(Units(res, s \ {x}))
          BY <4>2, UnitsGrow
        <4> QED BY <3>2, <4>3 DEF x
      <3> QED BY <3>1, <3>2
    <2>2. \A s \in SUBSET S : \A x : s \ {x} \in SUBSET S
      OBVIOUS
    <2> QED BY <2>1, <2>2
  <1>2. Sums(CHOOSE f : Sums(f))
    BY <1>1
  <1>3. (CHOOSE f : Sums(f))[S] = Cardinality(Units(res, S))
    BY <1>2, SumIsUnits
  <1> QED BY <1>3 DEF TotalRisk, MapThenSumSet, MapThenFoldSet

\* What the proofs need of the sum: it is a number, it grows with the set, by
\* what is added, and it depends on the risk of the members alone.
LEMMA TotalGrows ==
  ASSUME NEW res, NEW R, NEW x, x \notin R, Risky(res, R \cup {x})
  PROVE  TotalRisk(res, R \cup {x}) = TotalRisk(res, R) + res[x].risk_r
  <1>1. Risky(res, R) /\ res[x].risk_r \in Nat
    BY UnitsGrow DEF Risky
  <1>2. Cardinality(Units(res, R)) \in Nat
    BY <1>1, UnitsFinite, FS_CardinalityType
  <1>3. /\ TotalRisk(res, R) = Cardinality(Units(res, R))
        /\ TotalRisk(res, R \cup {x}) = Cardinality(Units(res, R \cup {x}))
    BY <1>1, TotalIsUnits
  <1>4. Cardinality(Units(res, R \cup {x})) = res[x].risk_r + Cardinality(Units(res, R))
    BY UnitsGrow
  <1>5. \A m, n \in Nat : m + n = n + m
    OBVIOUS
  <1> QED BY <1>1, <1>2, <1>3, <1>4, <1>5

LEMMA TotalOfSubset ==
  ASSUME NEW res, NEW R, NEW Q, Q \subseteq R, Risky(res, R)
  PROVE  /\ Risky(res, Q)
         /\ TotalRisk(res, Q) \in Nat /\ TotalRisk(res, R) \in Nat
         /\ TotalRisk(res, Q) <= TotalRisk(res, R)
  <1>1. Risky(res, Q)
    BY FS_Subset DEF Risky
  <1>2. Units(res, Q) \subseteq Units(res, R)
    BY DEF Units
  <1>3. IsFiniteSet(Units(res, R)) /\ IsFiniteSet(Units(res, Q))
    BY <1>1, UnitsFinite
  <1>4. /\ Cardinality(Units(res, Q)) \in Nat /\ Cardinality(Units(res, R)) \in Nat
        /\ Cardinality(Units(res, Q)) <= Cardinality(Units(res, R))
    BY <1>2, <1>3, FS_Subset, FS_CardinalityType
  <1> QED BY <1>1, <1>4, TotalIsUnits

LEMMA TotalOfSameRisk ==
  ASSUME NEW res, NEW new, NEW R, Risky(res, R), \A r \in R : new[r].risk_r = res[r].risk_r
  PROVE  Risky(new, R) /\ TotalRisk(new, R) = TotalRisk(res, R)
  <1>1. Risky(new, R)
    BY DEF Risky
  <1>2. \A r \in R : UnitsOf(new, r) = UnitsOf(res, r)
    BY DEF UnitsOf
  <1>3. Units(new, R) = Units(res, R)
    BY <1>2 DEF Units
  <1> QED BY <1>1, <1>3, TotalIsUnits

(***************************************************************************)
(* The ledger                                                              *)
(***************************************************************************)

Matched == \A r \in Requests : ledger[r].state = "none" <=> reservation[r].status = "none"

LedgerInv == LedgerTypeOK /\ Matched /\ SettledIffReleased

LEMMA NotReservingTyped == NotReserving \in ReserveIn
  BY DEF NotReserving, ReserveIn

LEMMA LedgerInitInv == now = 0 /\ LedgerInit => LedgerInv
  <1> SUFFICES ASSUME now = 0, LedgerInit PROVE LedgerInv OBVIOUS
  <1> USE ClockAssumption DEF LedgerInit
  <1>1. LedgerTypeOK
    BY NotReservingTyped DEF LedgerTypeOK, Instants, ExecutionLedgerRow, PortfolioReservation
  <1>2. Matched /\ SettledIffReleased
    BY DEF Matched, SettledIffReleased, TERMINAL_STATES
  <1> QED BY <1>1, <1>2 DEF LedgerInv

LEMMA StepLedger ==
  ASSUME LedgerInv, LedgerNext
  PROVE  LedgerInv'
  <1> USE ClockAssumption, LedgerAssumption, NotReservingTyped
      DEF LedgerInv, LedgerTypeOK, Matched, SettledIffReleased, Instants
  <1>1. ASSUME NEW h \in Reservers, NEW r \in Requests, NEW risk \in RiskSizes,
               NEW limit \in HeatLimits, ReserveExecution(h, r, risk, limit)
        PROVE  LedgerInv'
    <2>1. [request |-> r, risk_r |-> risk, max_heat_r |-> limit] \in ReserveIn
      BY DEF ReserveIn
    <2> QED BY <1>1, <2>1 DEF ReserveExecution
  <1>2. ASSUME NEW h \in Reservers, CommitReservation(h)
        PROVE  LedgerInv'
    <2> DEFINE r == reserving[h].request
               row == [state |-> "RESERVED", lease_until |-> now + LeaseSeconds]
               held == [status |-> "ACTIVE", risk_r |-> reserving[h].risk_r, id |-> nextId]
    <2>1. reserving[h] \in ReserveIn OBVIOUS
    <2>2. r \in Requests BY <1>2, <2>1 DEF CommitReservation, Busy, ReserveIn
    <2>3. row \in ExecutionLedgerRow /\ row.state = "RESERVED"
      BY DEF ExecutionLedgerRow, OpenStates
    <2>4. held \in PortfolioReservation /\ held.status = "ACTIVE"
      BY <2>1 DEF PortfolioReservation, ReserveIn
    <2>5. ledger' = [ledger EXCEPT ![r] = row] /\ reservation' = [reservation EXCEPT ![r] = held]
      BY <1>2 DEF CommitReservation
    <2>6. heatLimit' \in [Requests -> Nat] BY <1>2, <2>1 DEF CommitReservation, ReserveIn
    <2>7. /\ reserving' \in [Reservers -> ReserveIn] /\ nextId' \in Nat /\ now' = now
      BY <1>2 DEF CommitReservation
    <2> HIDE DEF r, row, held
    <2>8. LedgerTypeOK' BY <2>2, <2>3, <2>4, <2>5, <2>6, <2>7
    <2>9. Matched' BY <2>2, <2>3, <2>4, <2>5
    <2>10. SettledIffReleased' BY <2>2, <2>3, <2>4, <2>5 DEF TERMINAL_STATES
    <2> QED BY <2>8, <2>9, <2>10
  <1>3. ASSUME NEW h \in Reservers, RollBackReservation(h)
        PROVE  LedgerInv'
    BY <1>3 DEF RollBackReservation
  <1>4. ASSUME NEW r \in Requests, NEW s \in Reported, TransitionExecution(r, s)
        PROVE  LedgerInv'
    <2>1. s \in OpenStates \cup TERMINAL_STATES /\ s # "none"
      BY DEF OpenStates, TERMINAL_STATES
    <2>2. ledger' \in [Requests -> ExecutionLedgerRow]
      BY <1>4, <2>1 DEF TransitionExecution, ExecutionLedgerRow
    <2>3. ledger'[r].state = s /\ ledger[r].state \notin TERMINAL_STATES \cup {"none"}
      BY <1>4 DEF TransitionExecution, ExecutionLedgerRow
    <2>4. \A q \in Requests \ {r} : ledger'[q] = ledger[q] BY <1>4 DEF TransitionExecution
    <2>5. UNCHANGED <<now, reserving, nextId, heatLimit>> BY <1>4 DEF TransitionExecution
    <2>6. CASE s \in TERMINAL_STATES
      <3>1. reservation' = Released(r) BY <1>4, <2>6 DEF TransitionExecution
      <3>2. /\ reservation' \in [Requests -> PortfolioReservation]
            /\ reservation'[r].status = "RELEASED"
            /\ \A q \in Requests \ {r} : reservation'[q] = reservation[q]
        BY <3>1 DEF Released, PortfolioReservation
      <3> QED BY <2>1, <2>2, <2>3, <2>4, <2>5, <2>6, <3>2
    <2>7. CASE s \notin TERMINAL_STATES
      <3>1. reservation' = reservation BY <1>4, <2>7 DEF TransitionExecution
      <3> QED BY <2>1, <2>2, <2>3, <2>4, <2>5, <2>7, <3>1
    <2> QED BY <2>6, <2>7
  <1>5. CASE RecoverExpiredLeases
    <2>1. ledger' \in [Requests -> ExecutionLedgerRow]
      BY <1>5 DEF RecoverExpiredLeases, ExecutionLedgerRow, OpenStates
    <2>2. reservation' \in [Requests -> PortfolioReservation]
      BY <1>5 DEF RecoverExpiredLeases, PortfolioReservation
    <2>3. ASSUME NEW q \in Requests, q \in Expired
          PROVE  /\ ledger'[q].state = "RECOVERING" /\ reservation'[q].status = "RECOVERED"
      BY <1>5, <2>3 DEF RecoverExpiredLeases, ExecutionLedgerRow, PortfolioReservation
    <2>4. ASSUME NEW q \in Requests, q \notin Expired
          PROVE  ledger'[q] = ledger[q] /\ reservation'[q] = reservation[q]
      BY <1>5, <2>4 DEF RecoverExpiredLeases
    <2>5. Matched' BY <2>3, <2>4 DEF Expired
    <2>6. SettledIffReleased' BY <2>3, <2>4 DEF Expired, TERMINAL_STATES
    <2> QED BY <1>5, <2>1, <2>2, <2>5, <2>6 DEF RecoverExpiredLeases
  <1>6. CASE LedgerTick
    BY <1>6 DEF LedgerTick, TimePasses, ledgerVars
  <1> QED BY <1>1, <1>2, <1>3, <1>4, <1>5, <1>6 DEF LedgerNext

LEMMA LedgerInvariant == LedgerSpec => []LedgerInv
  <1>1. now = 0 /\ LedgerInit => LedgerInv BY LedgerInitInv
  <1>2. LedgerInv /\ [LedgerNext]_<<now, ledgerVars>> => LedgerInv'
    <2> SUFFICES ASSUME LedgerInv, UNCHANGED <<now, ledgerVars>> PROVE LedgerInv'
      BY StepLedger
    <2> QED BY DEF ledgerVars, LedgerInv, LedgerTypeOK, Matched, SettledIffReleased
  <1> QED BY <1>1, <1>2, PTL DEF LedgerSpec

\* The ledger and its reservations keep their types, whatever callers report.
THEOREM LedgerTypeCorrect == LedgerSpec => []LedgerTypeOK
  <1>1. LedgerInv => LedgerTypeOK BY DEF LedgerInv
  <1> QED BY <1>1, LedgerInvariant, PTL

\* POST /research/execution/transition and recover-expired
\* (execution_service.py): risk is given back exactly when the request has come
\* to its end, even if recovery had already set it aside.
THEOREM ReleasedExactlyAtTheEnd == LedgerSpec => []SettledIffReleased
  <1>1. LedgerInv => SettledIffReleased BY DEF LedgerInv
  <1> QED BY <1>1, LedgerInvariant, PTL

(***************************************************************************)
(* The heat of a portfolio                                                 *)
(***************************************************************************)

\* Active, of reservations given as a function.
ActiveIn(res) == {r \in Requests : res[r].status = "ACTIVE"}

\* The active requests that were there when r was admitted.
UpTo(res, r) == {q \in ActiveIn(res) : res[q].id <= res[r].id}

\* The requests that a reservation has added up, and its own, have their room.
RoomReserved ==
  \A h \in Reservers :
    Busy(h) => TotalRisk(reservation, ActiveIn(reservation)) + reserving[h].risk_r
                 <= reserving[h].max_heat_r

\* pg_advisory_xact_lock lets one reservation in at a time.
OneReserver == \A g, h \in Reservers : Busy(g) /\ Busy(h) => g = h

\* HeatWithinLimit, of the sum.
AdmittedWithin ==
  \A r \in ActiveIn(reservation) :
    TotalRisk(reservation, UpTo(reservation, r)) <= heatLimit[r]

\* The limit holds because of the room that a reservation in progress keeps, and
\* the room because there is one reservation at a time and ids go up.
HeatInv ==
  /\ LedgerTypeOK /\ Matched
  /\ IsFiniteSet(ActiveIn(reservation))
  /\ \A r \in ActiveIn(reservation) : reservation[r].id < nextId
  /\ OneReserver /\ RoomReserved /\ AdmittedWithin

LEMMA HeatIsTotal ==
  /\ Active = ActiveIn(reservation)
  /\ \A R : HeatOf(R) = TotalRisk(reservation, R)
  BY DEF Active, ActiveIn, HeatOf, TotalRisk

\* What the two mean of the reservations after a step.
LEMMA AfterStep ==
  /\ RoomReserved' <=>
       \A h \in Reservers :
         Busy(h)' => TotalRisk(reservation', ActiveIn(reservation')) + reserving'[h].risk_r
                       <= reserving'[h].max_heat_r
  /\ AdmittedWithin' <=>
       \A r \in ActiveIn(reservation') :
         TotalRisk(reservation', UpTo(reservation', r)) <= heatLimit'[r]
  BY DEF RoomReserved, AdmittedWithin, ActiveIn, UpTo, TotalRisk, MapThenSumSet, MapThenFoldSet

\* No request becomes active, and those that stay keep their risk.
Shrinks ==
  \A r \in ActiveIn(reservation') :
    /\ r \in ActiveIn(reservation)
    /\ reservation'[r].risk_r = reservation[r].risk_r
    /\ reservation'[r].id = reservation[r].id

LEMMA HeatTyped ==
  ASSUME HeatInv
  PROVE  /\ Risky(reservation, ActiveIn(reservation))
         /\ \A r \in ActiveIn(reservation) : UpTo(reservation, r) \subseteq ActiveIn(reservation)
  BY DEF HeatInv, LedgerTypeOK, PortfolioReservation, Risky, ActiveIn, UpTo

LEMMA ShrinkingKeeps ==
  ASSUME HeatInv, Shrinks
  PROVE  /\ IsFiniteSet(ActiveIn(reservation'))
         /\ TotalRisk(reservation', ActiveIn(reservation'))
              <= TotalRisk(reservation, ActiveIn(reservation))
         /\ TotalRisk(reservation', ActiveIn(reservation')) \in Nat
         /\ TotalRisk(reservation, ActiveIn(reservation)) \in Nat
         /\ \A r \in ActiveIn(reservation') :
              /\ TotalRisk(reservation', UpTo(reservation', r))
                   <= TotalRisk(reservation, UpTo(reservation, r))
              /\ TotalRisk(reservation', UpTo(reservation', r)) \in Nat
              /\ TotalRisk(reservation, UpTo(reservation, r)) \in Nat
  <1>1. ActiveIn(reservation') \subseteq ActiveIn(reservation)
    BY DEF Shrinks
  <1>2. ASSUME NEW R, NEW Q, Q \subseteq R, R \subseteq ActiveIn(reservation),
               Q \subseteq ActiveIn(reservation')
        PROVE  /\ TotalRisk(reservation', Q) <= TotalRisk(reservation, R)
               /\ TotalRisk(reservation', Q) \in Nat /\ TotalRisk(reservation, R) \in Nat
    <2>1. Risky(reservation, R)
      BY <1>2, HeatTyped, TotalOfSubset
    <2>2. /\ Risky(reservation, Q) /\ TotalRisk(reservation, Q) <= TotalRisk(reservation, R)
          /\ TotalRisk(reservation, Q) \in Nat /\ TotalRisk(reservation, R) \in Nat
      BY <1>2, <2>1, TotalOfSubset
    <2>3. \A r \in Q : reservation'[r].risk_r = reservation[r].risk_r
      BY <1>2 DEF Shrinks
    <2>4. TotalRisk(reservation', Q) = TotalRisk(reservation, Q)
      BY <2>2, <2>3, TotalOfSameRisk
    <2> QED BY <2>2, <2>4
  <1>3. ASSUME NEW r \in ActiveIn(reservation')
        PROVE  /\ UpTo(reservation', r) \subseteq UpTo(reservation, r)
               /\ UpTo(reservation, r) \subseteq ActiveIn(reservation)
               /\ UpTo(reservation', r) \subseteq ActiveIn(reservation')
    BY <1>3 DEF Shrinks, UpTo
  <1>4. IsFiniteSet(ActiveIn(reservation'))
    BY <1>1, FS_Subset DEF HeatInv
  <1> QED BY <1>1, <1>2, <1>3, <1>4
LEMMA ShrinkingStep ==
  ASSUME HeatInv, LedgerTypeOK', Matched', Shrinks,
         UNCHANGED <<reserving, nextId, heatLimit>>
  PROVE  HeatInv'
  <1>1. OneReserver'
    BY DEF HeatInv, OneReserver, Busy
  <1>2. RoomReserved'
    <2> SUFFICES ASSUME NEW h \in Reservers, Busy(h)'
                 PROVE  TotalRisk(reservation', ActiveIn(reservation')) + reserving[h].risk_r
                          <= reserving[h].max_heat_r
      BY AfterStep
    <2>1. reserving[h].risk_r \in Nat /\ reserving[h].max_heat_r \in Nat
      BY DEF HeatInv, LedgerTypeOK, ReserveIn
    <2>2. TotalRisk(reservation, ActiveIn(reservation)) + reserving[h].risk_r
            <= reserving[h].max_heat_r
      BY DEF HeatInv, RoomReserved, Busy
    <2> QED BY <2>1, <2>2, ShrinkingKeeps
  <1>3. AdmittedWithin'
    <2> SUFFICES ASSUME NEW r \in ActiveIn(reservation')
                 PROVE  TotalRisk(reservation', UpTo(reservation', r)) <= heatLimit[r]
      BY AfterStep
    <2>1. r \in ActiveIn(reservation) /\ r \in Requests
      BY DEF Shrinks, ActiveIn
    <2>2. TotalRisk(reservation, UpTo(reservation, r)) <= heatLimit[r] /\ heatLimit[r] \in Nat
      BY <2>1 DEF HeatInv, AdmittedWithin, LedgerTypeOK
    <2> QED BY <2>2, ShrinkingKeeps
  <1>4. \A r \in ActiveIn(reservation') : reservation'[r].id < nextId
    BY DEF HeatInv, Shrinks
  <1> QED BY <1>1, <1>2, <1>3, <1>4, ShrinkingKeeps DEF HeatInv, ActiveIn

LEMMA ReserveKeepsHeat ==
  ASSUME HeatInv, LedgerTypeOK', Matched', NEW h \in Reservers, NEW r \in Requests,
         NEW risk \in RiskSizes, NEW limit \in HeatLimits, ReserveExecution(h, r, risk, limit)
  PROVE  HeatInv'
  <1>1. reserving' = [reserving EXCEPT
           ![h] = [request |-> r, risk_r |-> risk, max_heat_r |-> limit]]
    BY DEF ReserveExecution
  <1>2. UNCHANGED <<reservation, nextId, heatLimit>>
    BY DEF ReserveExecution
  <1>3. \A g \in Reservers : ~ Busy(g)
    BY DEF ReserveExecution, PortfolioLock
  <1>4. \A g \in Reservers : Busy(g)' => g = h
    BY <1>1, <1>3 DEF Busy, HeatInv, LedgerTypeOK
  <1>5. TotalRisk(reservation, ActiveIn(reservation)) + risk <= limit
    BY HeatIsTotal DEF ReserveExecution
  <1>6. RoomReserved'
    <2> SUFFICES ASSUME NEW g \in Reservers, Busy(g)'
                 PROVE  TotalRisk(reservation', ActiveIn(reservation')) + reserving'[g].risk_r
                          <= reserving'[g].max_heat_r
      BY AfterStep
    <2>1. reserving'[g].risk_r = risk /\ reserving'[g].max_heat_r = limit
      BY <1>1, <1>4 DEF HeatInv, LedgerTypeOK
    <2> QED BY <1>2, <1>5, <2>1
  <1>7. AdmittedWithin'
    BY <1>2, AfterStep DEF HeatInv, AdmittedWithin
  <1>8. OneReserver'
    BY <1>4 DEF OneReserver
  <1> QED BY <1>2, <1>6, <1>7, <1>8 DEF HeatInv, ActiveIn

LEMMA CommitKeepsHeat ==
  ASSUME HeatInv, LedgerTypeOK', Matched', NEW h \in Reservers, CommitReservation(h)
  PROVE  HeatInv'
  <1> DEFINE x == reserving[h].request
             active == ActiveIn(reservation)
  <1>1. /\ x \in Requests /\ x # NoRequest
        /\ reserving[h].risk_r \in Nat /\ reserving[h].max_heat_r \in Nat
    BY DEF CommitReservation, Busy, HeatInv, LedgerTypeOK, ReserveIn
  <1>2. x \notin active
    BY <1>1 DEF CommitReservation, HeatInv, Matched, ActiveIn
  <1>3. /\ reservation'[x] = [status |-> "ACTIVE", risk_r |-> reserving[h].risk_r, id |-> nextId]
        /\ \A q \in Requests \ {x} : reservation'[q] = reservation[q]
        /\ heatLimit'[x] = reserving[h].max_heat_r
        /\ \A q \in Requests \ {x} : heatLimit'[q] = heatLimit[q]
    BY <1>1 DEF CommitReservation, HeatInv, LedgerTypeOK
  <1>4. ActiveIn(reservation') = active \cup {x}
    BY <1>1, <1>3 DEF ActiveIn
  <1>5. IsFiniteSet(active \cup {x})
    BY FS_AddElement DEF HeatInv
  <1>6. Risky(reservation', active \cup {x})
    BY <1>4, <1>5 DEF Risky, ActiveIn, LedgerTypeOK, PortfolioReservation
  <1>7. active \subseteq Requests
    BY DEF ActiveIn
  <1>8. \A q \in active : reservation'[q] = reservation[q]
    BY <1>2, <1>3, <1>7
  <1>9. TotalRisk(reservation', active) = TotalRisk(reservation, active)
    BY <1>8, HeatTyped, TotalOfSameRisk
  <1>10. TotalRisk(reservation', active \cup {x}) =
           TotalRisk(reservation, active) + reserving[h].risk_r
    <2>1. TotalRisk(reservation', active \cup {x}) =
            TotalRisk(reservation', active) + reservation'[x].risk_r
      BY <1>2, <1>6, TotalGrows
    <2>2. reservation'[x].risk_r = reserving[h].risk_r
      BY <1>3
    <2> QED BY <1>9, <2>1, <2>2
  <1>11. TotalRisk(reservation, active) + reserving[h].risk_r <= reserving[h].max_heat_r
    BY DEF CommitReservation, HeatInv, RoomReserved
  <1>12. \A g \in Reservers : ~ Busy(g)'
    BY DEF CommitReservation, HeatInv, OneReserver, Busy, NotReserving, LedgerTypeOK
  <1>13. ASSUME NEW r \in ActiveIn(reservation')
         PROVE  TotalRisk(reservation', UpTo(reservation', r)) <= heatLimit'[r]
    <2>1. CASE r = x
      <3>1. UpTo(reservation', r) \subseteq active \cup {x}
        BY <1>4 DEF UpTo
      <3>2. /\ TotalRisk(reservation', UpTo(reservation', r))
                 <= TotalRisk(reservation', active \cup {x})
            /\ TotalRisk(reservation', UpTo(reservation', r)) \in Nat
            /\ TotalRisk(reservation', active \cup {x}) \in Nat
        BY <1>6, <3>1, TotalOfSubset
      <3> QED BY <1>1, <1>3, <1>10, <1>11, <2>1, <3>2
    <2>2. CASE r # x
      <3>1. r \in active /\ r \in Requests
        BY <1>4, <1>7, <2>2
      <3>2. reservation[r].id < nextId /\ nextId \in Nat /\ reservation[r].id \in Nat
        BY <3>1 DEF HeatInv, LedgerTypeOK, PortfolioReservation
      <3>3. reservation'[r].id = reservation[r].id /\ reservation'[x].id = nextId
        BY <1>3, <1>8, <3>1
      <3>4. UpTo(reservation', r) = UpTo(reservation, r)
        BY <1>4, <1>8, <3>2, <3>3 DEF UpTo
      <3>5. UpTo(reservation, r) \subseteq active
        BY DEF UpTo
      <3>6. Risky(reservation, UpTo(reservation, r))
        BY <3>5, HeatTyped, TotalOfSubset
      <3>7. TotalRisk(reservation', UpTo(reservation, r)) =
              TotalRisk(reservation, UpTo(reservation, r))
        BY <1>8, <3>5, <3>6, TotalOfSameRisk
      <3>8. TotalRisk(reservation, UpTo(reservation, r)) <= heatLimit[r]
        BY <3>1 DEF HeatInv, AdmittedWithin
      <3> QED BY <1>3, <2>2, <3>1, <3>4, <3>7, <3>8
    <2> QED BY <2>1, <2>2
  <1>14. AdmittedWithin'
    BY <1>13, AfterStep
  <1>15. \A r \in ActiveIn(reservation') : reservation'[r].id < nextId'
    <2>1. nextId' = nextId + 1 /\ nextId \in Nat
      BY DEF CommitReservation, HeatInv, LedgerTypeOK
    <2>2. ASSUME NEW r \in active PROVE reservation'[r].id < nextId'
      BY <1>7, <1>8, <2>1 DEF HeatInv, LedgerTypeOK, PortfolioReservation
    <2>3. reservation'[x].id < nextId'
      BY <1>3, <2>1
    <2> QED BY <1>4, <2>2, <2>3
  <1>16. RoomReserved' /\ OneReserver'
    BY <1>12 DEF RoomReserved, OneReserver
  <1> QED BY <1>4, <1>5, <1>14, <1>15, <1>16 DEF HeatInv, ActiveIn

LEMMA StepHeat ==
  ASSUME HeatInv, LedgerInv, LedgerInv', LedgerNext
  PROVE  HeatInv'
  <1>1. LedgerTypeOK' /\ Matched'
    BY DEF LedgerInv
  <1>2. ASSUME NEW h \in Reservers, RollBackReservation(h)
        PROVE  HeatInv'
    <2>1. UNCHANGED <<reservation, nextId, heatLimit>>
      BY <1>2 DEF RollBackReservation
    <2>2. \A g \in Reservers : Busy(g)' => Busy(g) /\ reserving'[g] = reserving[g]
      BY <1>2 DEF RollBackReservation, Busy, NotReserving, HeatInv, LedgerTypeOK
    <2>3. OneReserver'
      BY <2>2 DEF HeatInv, OneReserver
    <2>4. RoomReserved' /\ AdmittedWithin'
      BY <2>1, <2>2, AfterStep DEF HeatInv, RoomReserved, AdmittedWithin
    <2> QED BY <1>1, <2>1, <2>3, <2>4 DEF HeatInv, ActiveIn
  <1>3. ASSUME NEW r \in Requests, NEW s \in Reported, TransitionExecution(r, s)
        PROVE  HeatInv'
    <2>1. UNCHANGED <<reserving, nextId, heatLimit>>
      BY <1>3 DEF TransitionExecution
    <2>2. reservation' \in {reservation, Released(r)}
      BY <1>3 DEF TransitionExecution
    <2>3. Shrinks
      BY <2>2 DEF Shrinks, ActiveIn, Released, HeatInv, LedgerTypeOK, PortfolioReservation
    <2> QED BY <1>1, <2>1, <2>3, ShrinkingStep
  <1>4. CASE RecoverExpiredLeases
    <2>1. UNCHANGED <<reserving, nextId, heatLimit>>
      BY <1>4 DEF RecoverExpiredLeases
    <2>2. Shrinks
      BY <1>4 DEF RecoverExpiredLeases, Shrinks, ActiveIn, HeatInv, LedgerTypeOK,
         PortfolioReservation
    <2> QED BY <1>1, <2>1, <2>2, ShrinkingStep
  <1>5. CASE LedgerTick
    <2>1. UNCHANGED ledgerVars
      BY <1>5 DEF LedgerTick
    <2>2. Shrinks
      BY <2>1 DEF ledgerVars, Shrinks
    <2> QED BY <1>1, <2>1, <2>2, ShrinkingStep DEF ledgerVars
  <1> QED BY <1>1, <1>2, <1>3, <1>4, <1>5, ReserveKeepsHeat, CommitKeepsHeat DEF LedgerNext

LEMMA HeatInitInv == now = 0 /\ LedgerInit => HeatInv
  <1> SUFFICES ASSUME now = 0, LedgerInit PROVE HeatInv OBVIOUS
  <1>1. LedgerTypeOK /\ Matched
    BY LedgerInitInv DEF LedgerInv
  <1>2. ActiveIn(reservation) = {}
    BY DEF LedgerInit, ActiveIn
  <1>3. \A h \in Reservers : ~ Busy(h)
    BY DEF LedgerInit, Busy, NotReserving
  <1> QED BY <1>1, <1>2, <1>3, FS_EmptySet DEF HeatInv, OneReserver, RoomReserved, AdmittedWithin

LEMMA HeatInvariant == LedgerSpec => []HeatInv
  <1>1. HeatInv /\ LedgerInv /\ [LedgerNext]_<<now, ledgerVars>> /\ LedgerInv' => HeatInv'
    <2> SUFFICES ASSUME HeatInv, LedgerInv', UNCHANGED <<now, ledgerVars>> PROVE HeatInv'
      BY StepHeat
    <2>1. Shrinks /\ UNCHANGED <<reserving, nextId, heatLimit>>
      BY DEF ledgerVars, Shrinks
    <2> QED BY <2>1, ShrinkingStep DEF LedgerInv
  <1> QED BY <1>1, HeatInitInv, LedgerInvariant, PTL DEF LedgerSpec

\* POST /research/execution/reserve (execution_service.py): requests that ask at
\* once do not both take the room that one of them leaves, for any numbers of
\* requests and handlers, any risk and any limits.
THEOREM HeatStaysWithinLimit == LedgerSpec => []HeatWithinLimit
  <1>1. HeatInv => HeatWithinLimit
    BY HeatIsTotal DEF HeatInv, AdmittedWithin, HeatWithinLimit, UpTo
  <1> QED BY <1>1, HeatInvariant, PTL

(***************************************************************************)
(* The ledger implements PortfolioAdmission                                *)
(***************************************************************************)

\* What a reservation asks for is what the request came with.
AsksForItsOwn ==
  \A h \in Reservers :
    Busy(h) => reserving[h].risk_r \in RiskSizes /\ reserving[h].max_heat_r \in HeatLimits

LEMMA StepAsks ==
  ASSUME LedgerTypeOK, AsksForItsOwn, LedgerNext
  PROVE  AsksForItsOwn'
  <1> USE DEF LedgerTypeOK, AsksForItsOwn
  <1>1. ASSUME NEW h \in Reservers, NEW r \in Requests, NEW risk \in RiskSizes,
               NEW limit \in HeatLimits, ReserveExecution(h, r, risk, limit)
        PROVE  AsksForItsOwn'
    BY <1>1 DEF ReserveExecution, Busy
  <1>2. ASSUME NEW h \in Reservers, CommitReservation(h) \/ RollBackReservation(h)
        PROVE  AsksForItsOwn'
    BY <1>2 DEF CommitReservation, RollBackReservation, Busy, NotReserving
  <1>3. CASE UNCHANGED reserving
    BY <1>3 DEF Busy
  <1> QED BY <1>1, <1>2, <1>3 DEF LedgerNext, TransitionExecution, RecoverExpiredLeases, LedgerTick,
      ledgerVars

\* The mapping: the state of the abstract portfolio.
AllAdmissions == [r \in Requests |-> AdmissionOf(r)]

LEMMA PortfolioHeat ==
  ASSUME HeatInv
  PROVE  /\ Portfolio!Running = ActiveIn(reservation)
         /\ Portfolio!Heat = TotalRisk(reservation, ActiveIn(reservation))
  <1>1. Portfolio!Running = ActiveIn(reservation)
    BY DEF Portfolio!Running, ActiveIn, AdmissionOf
  <1>2. Portfolio!Heat = TotalRisk(AllAdmissions, Portfolio!Running)
    BY DEF Portfolio!Heat, TotalRisk, AllAdmissions, MapThenSumSet, MapThenFoldSet,
       Portfolio!MapThenSumSet, Portfolio!MapThenFoldSet
  <1>3. \A r \in ActiveIn(reservation) : AllAdmissions[r].risk_r = reservation[r].risk_r
    BY DEF AllAdmissions, ActiveIn, AdmissionOf
  <1>4. TotalRisk(AllAdmissions, ActiveIn(reservation)) =
          TotalRisk(reservation, ActiveIn(reservation))
    BY <1>3, HeatTyped, TotalOfSameRisk
  <1> QED BY <1>1, <1>2, <1>4

LEMMA CommitAdmits ==
  ASSUME HeatInv, AsksForItsOwn, NEW h \in Reservers, CommitReservation(h)
  PROVE  Portfolio!AdmissionNext
  <1>1. PICK x \in Requests, risk \in RiskSizes, limit \in HeatLimits :
          reserving[h] = [request |-> x, risk_r |-> risk, max_heat_r |-> limit]
    <2>1. /\ reserving[h] \in ReserveIn /\ reserving[h].request \in Requests
          /\ reserving[h].risk_r \in RiskSizes /\ reserving[h].max_heat_r \in HeatLimits
      BY DEF CommitReservation, Busy, HeatInv, LedgerTypeOK, ReserveIn, AsksForItsOwn
    <2> QED BY <2>1 DEF ReserveIn
  <1>2. AdmissionOf(x).status = "new"
    BY <1>1 DEF CommitReservation, HeatInv, Matched, AdmissionOf
  <1>3. Portfolio!Heat + risk <= limit
    BY <1>1, PortfolioHeat DEF CommitReservation, HeatInv, RoomReserved
  <1>4. /\ reservation'[x] = [status |-> "ACTIVE", risk_r |-> risk, id |-> nextId]
        /\ \A r \in Requests \ {x} : reservation'[r] = reservation[r]
    <2>1. reservation \in [Requests -> PortfolioReservation]
      BY DEF HeatInv, LedgerTypeOK
    <2>2. reservation' = [reservation EXCEPT
             ![x] = [status |-> "ACTIVE", risk_r |-> risk, id |-> nextId]]
      BY <1>1 DEF CommitReservation
    <2> QED BY <2>1, <2>2
  <1>5. heatLimit'[x] = limit /\ \A r \in Requests \ {x} : heatLimit'[r] = heatLimit[r]
    BY <1>1 DEF CommitReservation, HeatInv, LedgerTypeOK
  <1>6. AdmissionOf(x)' = [status |-> "active", risk_r |-> risk, max_heat_r |-> limit]
    BY <1>4, <1>5 DEF AdmissionOf
  <1>7. \A r \in Requests \ {x} : AdmissionOf(r)' = AdmissionOf(r)
    BY <1>4, <1>5 DEF AdmissionOf
  <1>8. Portfolio!Admit(x, risk, limit)
    BY <1>1, <1>2, <1>3, <1>6, <1>7 DEF Portfolio!Admit
  <1> QED BY <1>1, <1>8 DEF Portfolio!AdmissionNext

\* Reservations that end are requests that leave; one that no longer counts has
\* left before.
LEMMA EndingLeaves ==
  ASSUME HeatInv, NEW ending \in SUBSET Requests,
         \A r \in ending : /\ reservation[r].status # "none"
                           /\ reservation'[r].status \in {"RELEASED", "RECOVERED"}
                           /\ reservation'[r].risk_r = reservation[r].risk_r,
         \A r \in Requests \ ending : reservation'[r] = reservation[r],
         UNCHANGED heatLimit
  PROVE  Portfolio!AdmissionNext
  <1> DEFINE leaving == ending \cap ActiveIn(reservation)
  <1>1. leaving \in SUBSET Requests /\ leaving \subseteq Portfolio!Running
    BY PortfolioHeat
  <1>2. ASSUME NEW r \in leaving
        PROVE  AdmissionOf(r)' = [AdmissionOf(r) EXCEPT !.status = "over"]
    BY <1>2 DEF AdmissionOf, ActiveIn
  <1>3. ASSUME NEW r \in Requests, r \notin leaving
        PROVE  AdmissionOf(r)' = AdmissionOf(r)
    BY <1>3 DEF AdmissionOf, ActiveIn
  <1> HIDE DEF leaving
  <1>4. Portfolio!Leave(leaving)
    BY <1>1, <1>2, <1>3 DEF Portfolio!Leave
  <1> QED BY <1>1, <1>4 DEF Portfolio!AdmissionNext

LEMMA StepAdmission ==
  ASSUME HeatInv, AsksForItsOwn, LedgerNext
  PROVE  [Portfolio!AdmissionNext]_AllAdmissions
  <1> USE DEF HeatInv, LedgerTypeOK
  <1>1. UNCHANGED <<reservation, heatLimit>> => UNCHANGED AllAdmissions
    BY DEF AllAdmissions, AdmissionOf
  <1>2. ASSUME NEW r \in Requests, NEW s \in Reported, TransitionExecution(r, s)
        PROVE  UNCHANGED <<reservation, heatLimit>> \/ Portfolio!AdmissionNext
    <2>0. UNCHANGED heatLimit
      BY <1>2 DEF TransitionExecution
    <2>1. CASE reservation' = Released(r)
      <3>1. /\ reservation'[r].status = "RELEASED" /\ reservation'[r].risk_r = reservation[r].risk_r
            /\ \A q \in Requests \ {r} : reservation'[q] = reservation[q]
        BY <2>1 DEF Released, PortfolioReservation
      <3>2. reservation[r].status # "none"
        BY <1>2 DEF TransitionExecution, Matched
      <3>3. {r} \in SUBSET Requests
        OBVIOUS
      <3> QED BY <2>0, <3>1, <3>2, <3>3, EndingLeaves
    <2> QED BY <1>2, <2>0, <2>1 DEF TransitionExecution
  <1>3. CASE RecoverExpiredLeases
    <2>1. Expired \in SUBSET Requests
      BY DEF Expired
    <2>2. ASSUME NEW r \in Expired
          PROVE  /\ reservation[r].status # "none" /\ reservation'[r].status = "RECOVERED"
                 /\ reservation'[r].risk_r = reservation[r].risk_r
      BY <1>3, <2>1, <2>2 DEF RecoverExpiredLeases, Expired, Matched, PortfolioReservation
    <2>3. \A r \in Requests \ Expired : reservation'[r] = reservation[r]
      BY <1>3 DEF RecoverExpiredLeases
    <2>4. UNCHANGED heatLimit
      BY <1>3 DEF RecoverExpiredLeases
    <2> QED BY <2>1, <2>2, <2>3, <2>4, EndingLeaves
  <1>4. CASE UNCHANGED <<reservation, heatLimit>>
    BY <1>1, <1>4
  <1> QED BY <1>1, <1>2, <1>3, <1>4, CommitAdmits DEF LedgerNext, ReserveExecution,
      RollBackReservation, LedgerTick, ledgerVars

\* POST /research/execution/reserve, transition and recover-expired
\* (execution_service.py): transactions of several statements that run at once
\* are as good as single steps.  Each request is admitted when its transaction
\* commits, once, and fits under the limit it came with at that moment.
THEOREM AdmissionIsAtomic == LedgerSpec => AdmitsInOneStep
  <1>1. LedgerInit => Portfolio!AdmissionInit
    BY DEF LedgerInit, Portfolio!AdmissionInit, AdmissionOf
  <1>2. now = 0 /\ LedgerInit => AsksForItsOwn
    BY DEF LedgerInit, AsksForItsOwn, Busy, NotReserving
  <1>3. HeatInv /\ AsksForItsOwn /\ [LedgerNext]_<<now, ledgerVars>> => AsksForItsOwn'
    <2>1. UNCHANGED reserving /\ AsksForItsOwn => AsksForItsOwn'
      BY DEF AsksForItsOwn, Busy
    <2> QED BY <2>1, StepAsks DEF HeatInv, ledgerVars
  <1>4. HeatInv /\ AsksForItsOwn /\ [LedgerNext]_<<now, ledgerVars>>
          => [Portfolio!AdmissionNext]_[r \in Requests |-> AdmissionOf(r)]
    <2>1. UNCHANGED ledgerVars => UNCHANGED AllAdmissions
      BY DEF AllAdmissions, AdmissionOf, ledgerVars
    <2> QED BY <2>1, StepAdmission DEF AllAdmissions
  <1> QED BY <1>1, <1>2, <1>3, <1>4, HeatInvariant, PTL
      DEF LedgerSpec, AdmitsInOneStep, Portfolio!AdmissionSpec

\* The risk that is active is within m.
HeatWithin(m) == TotalRisk(reservation, ActiveIn(reservation)) <= m

LEMMA StepWithin ==
  ASSUME HeatInv, HeatInv', AsksForItsOwn, LedgerNext,
         NEW m \in Nat, \A limit \in HeatLimits : limit <= m, HeatWithin(m)
  PROVE  HeatWithin(m)'
  <1> SUFFICES TotalRisk(reservation', ActiveIn(reservation')) <= m
    BY DEF HeatWithin, ActiveIn, TotalRisk, MapThenSumSet, MapThenFoldSet
  <1> USE DEF HeatWithin
  <1>1. ASSUME NEW h \in Reservers, CommitReservation(h)
        PROVE  TotalRisk(reservation', ActiveIn(reservation')) <= m
    <2> DEFINE x == reserving[h].request
    <2>1. /\ x \in Requests /\ reserving[h].max_heat_r \in HeatLimits
          /\ reserving[h].max_heat_r \in Nat
      BY <1>1 DEF CommitReservation, Busy, HeatInv, LedgerTypeOK, ReserveIn, AsksForItsOwn
    <2>2. /\ x \in ActiveIn(reservation') /\ reservation'[x].id = nextId /\ nextId' = nextId + 1
          /\ heatLimit'[x] = reserving[h].max_heat_r
      BY <1>1, <2>1 DEF CommitReservation, HeatInv, LedgerTypeOK, ActiveIn
    <2>3. \A r \in ActiveIn(reservation') :
             reservation'[r].id < nextId' /\ reservation'[r].id \in Nat
      BY DEF HeatInv, ActiveIn, LedgerTypeOK, PortfolioReservation
    <2>4. UpTo(reservation', x) = ActiveIn(reservation')
      BY <2>2, <2>3 DEF UpTo, HeatInv, LedgerTypeOK
    <2>5. TotalRisk(reservation', UpTo(reservation', x)) <= heatLimit'[x]
      BY <2>2, AfterStep DEF HeatInv
    <2>6. TotalRisk(reservation', ActiveIn(reservation')) \in Nat
      <3>1. IsFiniteSet(ActiveIn(reservation')) /\ reservation' \in [Requests -> PortfolioReservation]
        BY DEF HeatInv, ActiveIn, LedgerTypeOK
      <3>2. Risky(reservation', ActiveIn(reservation'))
        BY <3>1 DEF Risky, ActiveIn, PortfolioReservation
      <3> QED BY <3>2, TotalOfSubset
    <2> QED BY <2>1, <2>2, <2>4, <2>5, <2>6
  <1>2. CASE Shrinks
    BY <1>2, ShrinkingKeeps
  <1>3. UNCHANGED reservation => Shrinks
    BY DEF Shrinks
  <1>4. ASSUME NEW r \in Requests, NEW s \in Reported, TransitionExecution(r, s)
        PROVE  Shrinks
    <2>1. reservation' \in {reservation, Released(r)}
      BY <1>4 DEF TransitionExecution
    <2> QED BY <2>1 DEF Shrinks, ActiveIn, Released, HeatInv, LedgerTypeOK, PortfolioReservation
  <1>5. RecoverExpiredLeases => Shrinks
    BY DEF RecoverExpiredLeases, Shrinks, ActiveIn, HeatInv, LedgerTypeOK, PortfolioReservation
  <1> QED BY <1>1, <1>2, <1>3, <1>4, <1>5 DEF LedgerNext, ReserveExecution,
      RollBackReservation, LedgerTick, ledgerVars

\* Whatever limits the callers name, the active risk of the portfolio never
\* exceeds the greatest of them: recoveries, reports and failed transactions only
\* make it less.
THEOREM HeatUnderEveryLimit ==
  ASSUME NEW m \in Nat, \A limit \in HeatLimits : limit <= m
  PROVE  LedgerSpec => [](HeatOf(Active) <= m)
  <1>1. HeatInv /\ LedgerInit => HeatWithin(m)
    <2> SUFFICES ASSUME HeatInv, LedgerInit PROVE HeatWithin(m)
      OBVIOUS
    <2>1. ActiveIn(reservation) = {}
      BY DEF LedgerInit, ActiveIn
    <2>2. TotalRisk(reservation, {}) = 0
      <3>1. Risky(reservation, {}) /\ Units(reservation, {}) = {}
        BY FS_EmptySet DEF Risky, Units
      <3> QED BY <3>1, FS_EmptySet, TotalIsUnits
    <2> QED BY <2>1, <2>2 DEF HeatWithin
  <1>2. now = 0 /\ LedgerInit => AsksForItsOwn
    BY DEF LedgerInit, AsksForItsOwn, Busy, NotReserving
  <1>3. HeatInv /\ AsksForItsOwn /\ [LedgerNext]_<<now, ledgerVars>> => AsksForItsOwn'
    <2>1. UNCHANGED reserving /\ AsksForItsOwn => AsksForItsOwn'
      BY DEF AsksForItsOwn, Busy
    <2> QED BY <2>1, StepAsks DEF HeatInv, ledgerVars
  <1>4. HeatInv /\ HeatInv' /\ AsksForItsOwn /\ HeatWithin(m) /\ [LedgerNext]_<<now, ledgerVars>>
          => HeatWithin(m)'
    <2>1. UNCHANGED ledgerVars /\ HeatWithin(m) => HeatWithin(m)'
      BY DEF HeatWithin, ledgerVars, ActiveIn, TotalRisk, MapThenSumSet, MapThenFoldSet
    <2> QED BY <2>1, StepWithin
  <1>5. HeatWithin(m) => HeatOf(Active) <= m
    BY HeatIsTotal DEF HeatWithin
  <1> QED BY <1>1, <1>2, <1>3, <1>4, <1>5, HeatInvariant, PTL DEF LedgerSpec

(***************************************************************************)
(* The search for parameters                                               *)
(***************************************************************************)

\* One configuration is evaluated higher than another, by the improvement that
\* the statistical gate demands.
Better(d, c) ==
    /\ score[c] \in Evaluation /\ score[d] \in Evaluation
    /\ score[d].expectancy_r - score[c].expectancy_r >= MinimumImprovement

ProposalsImprove == \A p \in proposals : Better(p.values, p.parent)
Climbs == ~ stale => \A c \in left : Better(current, c)

ProposalInv == ProposalTypeOK /\ ProposalsImprove /\ Climbs

\* What is clamped is within the bounds, if there is a value within them at all.
LEMMA ClampedInBounds ==
  ASSUME NEW n \in Parameters, NEW value \in Int, Bounds(n) # {}
  PROVE  Clamped(n, value) \in Bounds(n)
  <1>1. ParameterSpec[n].minimum \in Int /\ ParameterSpec[n].maximum \in Int
    BY ProposalAssumption DEF Specification
  <1>2. ParameterSpec[n].minimum <= ParameterSpec[n].maximum BY <1>1 DEF Bounds
  <1> QED BY <1>1, <1>2 DEF Clamped, Bounds

\* Every candidate is a configuration.
LEMMA CandidatesTyped ==
  ASSUME NEW c \in ParameterSet
  PROVE  Candidates(c) \subseteq ParameterSet
  <1> DEFINE Shifted(n, d) == [c EXCEPT ![n] = Clamped(n, c[n] + d)]
  <1> SUFFICES ASSUME NEW n \in Parameters, NEW d \in -2 .. 2
               PROVE  Shifted(n, d) \in ParameterSet
    <2>1. Candidates(c) \subseteq {Shifted(n, d) : n \in Parameters, d \in -2 .. 2}
      BY DEF Candidates
    <2> HIDE DEF Shifted
    <2> QED BY <2>1
  <1>1. c[n] \in Bounds(n) /\ ParameterSpec[n] \in Specification
    BY ProposalAssumption DEF ParameterSet
  <1>2. c[n] + d \in Int BY <1>1 DEF Bounds, Specification
  <1>3. Clamped(n, c[n] + d) \in Bounds(n) BY <1>1, <1>2, ClampedInBounds
  <1> QED BY <1>3 DEF ParameterSet

\* What passes the gates is better than what it was compared with.
LEMMA SurvivorsAreBetter ==
  ASSUME ProposalTypeOK, NEW c \in ParameterSet, ~ Raises(c), NEW d \in Survivors(c)
  PROVE  d \in ParameterSet /\ Better(d, c)
  <1>1. d \in WithinReach(c) /\ StatisticalGate(score[c], score[d]) BY DEF Survivors
  <1>2. d \in ParameterSet BY <1>1, CandidatesTyped DEF WithinReach
  <1>3. score[c] # Refused /\ score[d] # Refused BY <1>1 DEF Raises
  <1>4. score[c] \in Evaluation /\ score[d] \in Evaluation
    BY <1>2, <1>3 DEF ProposalTypeOK
  <1> QED BY <1>1, <1>2, <1>4 DEF Better, StatisticalGate

\* Better is a strict order, as far as a climb needs it.
LEMMA BetterTransitive ==
  ASSUME NEW a, NEW b, NEW c, Better(a, b), Better(b, c)
  PROVE  Better(a, c)
  BY DEF Better, Evaluation, MinimumImprovement

LEMMA NotBetterThanItself == \A c : ~ Better(c, c)
  BY DEF Better, Evaluation, MinimumImprovement

LEMMA StepProposal ==
  ASSUME ProposalInv, ProposalNext
  PROVE  ProposalInv'
  <1> USE DEF ProposalInv, ProposalTypeOK, ProposalsImprove, Climbs
  <1>0. score' = score BY DEF ProposalNext, Propose, Adopt, Withdraw
  <1>1. CASE Propose
    <2>1. ASSUME NEW d \in Survivors(current)
          PROVE  d \in ParameterSet /\ Better(d, current)
      BY <1>1, SurvivorsAreBetter DEF Propose
    <2>2. ASSUME NEW p \in proposals'
          PROVE  p \in Proposal /\ Better(p.values, p.parent)
      <3>1. CASE p \in proposals BY <3>1
      <3>2. CASE p \notin proposals
        <4>1. PICK d \in Survivors(current) : p = [values |-> d, parent |-> current]
          BY <1>1, <3>2 DEF Propose
        <4> QED BY <2>1, <4>1 DEF Proposal
      <3> QED BY <3>1, <3>2
    <2>3. UNCHANGED <<current, left, stale>> BY <1>1 DEF Propose
    <2> QED BY <1>0, <2>2, <2>3 DEF Better
  <1>2. ASSUME NEW p \in proposals, Adopt(p)
        PROVE  ProposalInv'
    <2>1. p \in Proposal /\ Better(p.values, p.parent) OBVIOUS
    <2>2. /\ current' = p.values /\ left' = left \cup {current}
          /\ proposals' \subseteq proposals /\ stale' = (stale \/ p.parent # current)
      BY <1>2 DEF Adopt
    <2>3. ASSUME ~ stale', NEW c \in left' PROVE Better(p.values, c)
      <3>1. ~ stale /\ p.parent = current BY <2>2, <2>3
      <3>2. CASE c = current BY <2>1, <3>1, <3>2
      <3>3. CASE c \in left BY <2>1, <3>1, <3>3, BetterTransitive
      <3> QED BY <2>2, <3>2, <3>3
    <2> QED BY <1>0, <2>1, <2>2, <2>3 DEF Proposal, Better
  <1>3. ASSUME NEW p \in proposals, Withdraw(p)
        PROVE  ProposalInv'
    BY <1>3 DEF Withdraw, Better
  <1> QED BY <1>1, <1>2, <1>3 DEF ProposalNext

LEMMA ProposalInvariant == ProposalSpec => []ProposalInv
  <1>1. ProposalInit => ProposalInv
    BY ProposalAssumption
       DEF ProposalInit, ProposalInv, ProposalTypeOK, ProposalsImprove, Climbs
  <1>2. ProposalInv /\ [ProposalNext]_proposalVars => ProposalInv'
    <2> SUFFICES ASSUME ProposalInv, UNCHANGED proposalVars PROVE ProposalInv'
      BY StepProposal
    <2> QED BY DEF proposalVars, ProposalInv, ProposalTypeOK, ProposalsImprove, Climbs, Better
  <1> QED BY <1>1, <1>2, PTL DEF ProposalSpec

\* Whatever is proposed and adopted is a configuration within its bounds.
THEOREM ProposalTypeCorrect == ProposalSpec => []ProposalTypeOK
  <1>1. ProposalInv => ProposalTypeOK BY DEF ProposalInv
  <1> QED BY <1>1, ProposalInvariant, PTL

\* ParameterProposalEngine.propose() (proposer.py) and an approval of each of its
\* proposals: on the same outcomes, a configuration that was left is live again
\* only after an approval that came too late for its parent.
THEOREM SearchDoesNotCircle == ProposalSpec => []ReturnsOnlyByStale
  <1>1. ProposalInv => ReturnsOnlyByStale
    BY NotBetterThanItself DEF ProposalInv, Climbs, ReturnsOnlyByStale
  <1> QED BY <1>1, ProposalInvariant, PTL

(***************************************************************************)
(* The services together: MCResearch composes them, they share no state    *)
(***************************************************************************)

\* A run that follows one of the three shows of it what a run of it alone would:
\* what is proved of the ledger, of recalibration and of the search holds of the
\* composition, and what the run finds is found of each.
THEOREM ResearchPartsAlone == MCSpec => LedgerSpec /\ LearningSpec /\ ProposalSpec
  <1>1. MCInit => now = 0 /\ LedgerInit /\ LearningInit /\ ProposalInit
    BY DEF MCInit
  <1>2. [MCNext]_<<now, part, ledgerVars, learningVars, proposalVars>>
          => /\ [LedgerNext]_<<now, ledgerVars>>
             /\ [LearningNext]_learningVars
             /\ [ProposalNext]_proposalVars
    BY DEF MCNext
  <1> QED BY <1>1, <1>2, PTL DEF MCSpec, LedgerSpec, LearningSpec, ProposalSpec

\* Whichever part goes on, every variable of the three keeps its type.
THEOREM ResearchTypeCorrect == MCSpec => []TypeOK
  <1>1. LedgerTypeOK /\ LearningTypeOK /\ ProposalTypeOK => TypeOK
    BY DEF TypeOK
  <1> QED BY <1>1, ResearchPartsAlone, LedgerTypeCorrect, LearningTypeCorrect, ProposalTypeCorrect, PTL
=============================================================================
