----------------------- MODULE PositionManagerProofs -----------------------
(***************************************************************************)
(* Theorems about PositionManager, for every price, volume and distance.   *)
(***************************************************************************)
EXTENDS PositionManager, TLAPS

(* Type correctness. *)

\* The volume the broker holds for the trade never exceeds what was submitted.
TypeInv == TypeOK /\ pos.volume + resting <= submitted

LEMMA SubmittedType == TypeOK => submitted \in Nat /\ submitted > 0
BY PositionAssumption DEF TypeOK

LEMMA TransitionType ==
    ASSUME NEW from \in TradeStates, NEW to \in TradeStates
    PROVE  Transition(from, to) \in TradeStates
BY DEF Transition

\* The twelve states a step may ask for.
LEMMA KnownStates ==
    {"PENDING", "FILLED", "PROTECTED", "PARTIAL", "RUNNER", "ARCHIVED"} \subseteq TradeStates
BY DEF TradeStates

\* What ModifySLTP() leaves is the old stop or the one asked for.
LEMMA ModifiedStop ==
    ASSUME NEW stop, NEW m \in ModifyOutcomes(stop)
    PROVE  m.stop \in {stop, pos.stop}
BY DEF ModifyOutcomes

LEMMA ModifyFaults ==
    ASSUME NEW stop, NEW m \in ModifyOutcomes(stop)
    PROVE  m.faults \subseteq FaultKinds
<1>1. m.faults = {} \/ m.faults = {"falseAck"}
  BY DEF ModifyOutcomes
<1>2. QED
  BY <1>1 DEF FaultKinds

\* Faults are on record under their names.
LEMMA FaultedType ==
    ASSUME TypeOK, [Next]_vars
    PROVE  faulted' \subseteq FaultKinds
<1>1. faulted \subseteq FaultKinds
  BY DEF TypeOK
<1>2. ASSUME NEW kind, Fault(kind)
      PROVE  faulted' \subseteq FaultKinds
  BY <1>1, <1>2, PositionAssumption DEF Fault
<1>3. CASE BreakEven
  <2>1. PICK m \in ModifyOutcomes(RowEntry) : faulted' = faulted \cup m.faults
    BY <1>3 DEF BreakEven
  <2>2. QED
    BY <1>1, <2>1, ModifyFaults
<1>4. CASE Trail
  <2>1. PICK d \in TrailDistances :
           \E m \in ModifyOutcomes(TrailStop(d)) : faulted' = faulted \cup m.faults
    BY <1>4 DEF Trail
  <2>2. PICK m \in ModifyOutcomes(TrailStop(d)) : faulted' = faulted \cup m.faults
    BY <2>1
  <2>3. QED
    BY <1>1, <2>2, ModifyFaults
<1>5. CASE NoteClosed \/ PartialClose \/ HandOff
  BY <1>1, <1>2, <1>5 DEF NoteClosed, PartialClose, HandOff
<1>6. CASE SaveExecution \/ OnTradeTransaction \/ Recover
  BY <1>1, <1>2, <1>6 DEF SaveExecution, OnTradeTransaction, Recover
<1>7. CASE FillOrder \/ PriceMoves \/ ClosedOutside \/ ManualStop
  BY <1>1, <1>2, <1>7 DEF FillOrder, PriceMoves, ClosedOutside, ManualStop
<1>8. CASE Crash
  BY <1>1, <1>2, <1>8 DEF Crash, FaultKinds
<1>9. QED
  BY <1>1, <1>3, <1>4, <1>5, <1>6, <1>7, <1>8 DEF Next, EAStep, ManageTick, vars

LEMMA RowEntryType ==
    ASSUME TypeOK
    PROVE  RowEntry \in Prices
BY PositionAssumption DEF RowEntry, TypeOK, NoPrice

\* A trailing stop that improves on the old one is a price.
LEMMA TrailStopType ==
    ASSUME TypeOK, NEW d \in TrailDistances \ {0}, Improved(TrailStop(d))
    PROVE  TrailStop(d) \in Nat /\ TrailStop(d) # NoPrice
BY PositionAssumption DEF TypeOK, TrailStop, Improved, Prices, NoPrice

LEMMA InitType == Init => TypeInv
<1> SUFFICES ASSUME Init PROVE TypeInv
  OBVIOUS
<1>0. submitted \in Volumes
  BY DEF Init
<1>1. /\ InitialStop \in Nat /\ FillPrices("market") \subseteq Prices
      /\ submitted \in Volumes /\ submitted \in Nat
  BY <1>0, PositionAssumption DEF FillPrices, Prices
<1>2. CASE ~ (row.state = "PENDING" /\ resting = submitted)
  <2>1. PICK f \in FillPrices("market") :
           /\ row = [state |-> "FILLED", fill |-> f, volume |-> submitted]
           /\ pos = [entry |-> f, stop |-> InitialStop, volume |-> submitted]
           /\ resting = 0
    BY <1>2 DEF Init
  <2>2. f \in Prices /\ "FILLED" \in TradeStates /\ submitted \in 0 .. submitted
    BY <1>1, KnownStates
  <2>3. /\ row \in [state : TradeStates, fill : Prices \cup {NoPrice}, volume : 0 .. submitted]
        /\ pos \in [entry : Prices \cup {NoPrice}, stop : Nat, volume : 0 .. submitted]
    BY <1>1, <2>1, <2>2
  <2>4. QED
    BY <1>1, <2>1, <2>3 DEF Init, TypeInv, TypeOK
<1>3. CASE row.state = "PENDING" /\ resting = submitted
  BY <1>1, <1>3, KnownStates DEF Init, TypeInv, TypeOK, NoPosition, NoPrice
<1>4. QED
  BY <1>2, <1>3

LEMMA ManageType ==
    ASSUME TypeInv, ManageTick
    PROVE  TypeInv'
<1> USE DEF TypeInv
<1>0. faulted' \subseteq FaultKinds
  BY FaultedType DEF Next, EAStep
<1>1. UNCHANGED <<submitted, at, resting, deal, logged, price>> /\ submitted \in Nat
  BY SubmittedType DEF ManageTick
<1>2. CASE NoteClosed
  BY <1>1, <1>2, KnownStates DEF NoteClosed, NoRow, TypeOK
<1>3. CASE BreakEven
  <2>1. PICK m \in ModifyOutcomes(RowEntry) :
           /\ pos' = [pos EXCEPT !.stop = m.stop]
           /\ row' = IF m.ok THEN [row EXCEPT !.state = Transition("FILLED", "PROTECTED")]
                     ELSE row
    BY <1>3 DEF BreakEven
  <2>2. m.stop \in Nat
    BY ModifiedStop, RowEntryType DEF TypeOK, Prices
  <2>3. Transition("FILLED", "PROTECTED") \in TradeStates
    BY KnownStates, TransitionType
  <2>4. QED
    BY <1>0, <1>1, <1>3, <2>1, <2>2, <2>3 DEF BreakEven, TypeOK
<1>4. CASE PartialClose
  <2>1. Transition("PROTECTED", "PARTIAL") \in TradeStates
    BY KnownStates, TransitionType
  <2>2. row' \in [state : TradeStates, fill : Prices \cup {NoPrice}, volume : 0 .. submitted]
    BY <1>4, <2>1 DEF PartialClose, TypeOK
  <2>3. pos.volume \in Nat
    BY <1>1 DEF TypeOK
  <2>4. PICK left \in 0 .. pos.volume :
           \/ /\ pos' = IF left = 0 THEN NoPosition ELSE [pos EXCEPT !.volume = left]
              /\ partials' = partials + 1
           \/ UNCHANGED <<pos, partials>>
    <3>1. CASE UNCHANGED <<pos, partials>>
      BY <2>3, <3>1
    <3>2. CASE ~ UNCHANGED <<pos, partials>>
      <4>1. PICK half \in 1 .. row.volume :
               /\ pos' = IF LeftAfter(half) = 0 THEN NoPosition
                         ELSE [pos EXCEPT !.volume = LeftAfter(half)]
               /\ partials' = partials + 1
        BY <1>4, <3>2 DEF PartialClose
      <4>2. LeftAfter(half) \in 0 .. pos.volume
        BY <1>1, <2>3 DEF LeftAfter, TypeOK
      <4>3. QED
        BY <4>1, <4>2
    <3>3. QED
      BY <3>1, <3>2
  <2>5. /\ pos' \in [entry : Prices \cup {NoPrice}, stop : Nat, volume : 0 .. submitted]
        /\ pos'.volume <= pos.volume /\ partials' \in Nat
    BY <1>1, <2>4 DEF NoPosition, NoPrice, TypeOK
  <2>6. QED
    BY <1>0, <1>1, <2>2, <2>5 DEF TypeOK
<1>5. CASE HandOff
  <2>1. Transition("PARTIAL", "RUNNER") \in TradeStates
    BY KnownStates, TransitionType
  <2>2. QED
    BY <1>1, <1>5, <2>1 DEF HandOff, TypeOK
<1>6. CASE Trail
  <2>1. PICK d \in TrailDistances \ {0} :
           /\ Improved(TrailStop(d))
           /\ \E m \in ModifyOutcomes(TrailStop(d)) : pos' = [pos EXCEPT !.stop = m.stop]
    BY <1>6 DEF Trail
  <2>2. PICK m \in ModifyOutcomes(TrailStop(d)) : pos' = [pos EXCEPT !.stop = m.stop]
    BY <2>1
  <2>3. m.stop \in Nat
    BY <2>1, ModifiedStop, TrailStopType DEF TypeOK
  <2>4. QED
    BY <1>0, <1>1, <1>6, <2>2, <2>3 DEF Trail, TypeOK
<1>7. QED
  BY <1>2, <1>3, <1>4, <1>5, <1>6 DEF ManageTick

LEMMA FillType ==
    ASSUME TypeInv, FillOrder
    PROVE  TypeInv'
<1>1. PICK q \in 1 .. resting, f \in FillPrices("limit") :
         /\ resting' = resting - q
         /\ pos' = IF pos.volume > 0 THEN [pos EXCEPT !.volume = @ + q]
                   ELSE [entry |-> f, stop |-> InitialStop, volume |-> q]
         /\ deal' = IF at = "down" \/ deal # NoPrice THEN deal ELSE f
  BY DEF FillOrder
<1>2. UNCHANGED <<submitted, at, row, logged, price, partials>> /\ submitted \in Nat
  BY SubmittedType DEF FillOrder, TypeInv
<1>3. f \in Prices /\ InitialStop \in Nat
  BY PositionAssumption DEF FillPrices, Prices
<1>4. /\ pos' \in [entry : Prices \cup {NoPrice}, stop : Nat, volume : 0 .. submitted]
      /\ resting' \in 0 .. submitted /\ pos'.volume + resting' <= submitted
  <2>1. q \in Nat /\ q >= 1 /\ q <= resting /\ resting \in Nat /\ pos.volume \in Nat
    BY DEF TypeInv, TypeOK
  <2>2. CASE pos.volume > 0
    BY <1>1, <1>2, <2>1, <2>2 DEF TypeInv, TypeOK
  <2>3. CASE ~ (pos.volume > 0)
    BY <1>1, <1>2, <1>3, <2>1, <2>3 DEF TypeInv, TypeOK
  <2>4. QED
    BY <2>2, <2>3
<1>5. QED
  BY <1>1, <1>2, <1>3, <1>4, FaultedType DEF TypeInv, TypeOK, Next

LEMMA NextType == TypeInv /\ [Next]_vars => TypeInv'
<1> SUFFICES ASSUME TypeInv, [Next]_vars PROVE TypeInv'
  OBVIOUS
<1> USE DEF TypeInv
<1>0. submitted \in Nat
  BY SubmittedType
<1>1. CASE SaveExecution
  BY <1>0, <1>1, FaultedType DEF SaveExecution, TypeOK
<1>2. CASE OnTradeTransaction
  <2>1. Transition("PENDING", "FILLED") \in TradeStates
    BY KnownStates, TransitionType
  <2>2. QED
    BY <1>2, <2>1 DEF OnTradeTransaction, TypeOK
<1>3. CASE Recover
  <2>1. \A booked, current, stop :
           InferPositionState(booked, current, stop) \in TradeStates
    BY KnownStates DEF InferPositionState
  <2>2. row' \in [state : TradeStates, fill : Prices \cup {NoPrice}, volume : 0 .. submitted]
    BY <1>3, <2>1, <1>0, KnownStates DEF Recover, NoRow, TypeOK
  <2>3. QED
    BY <1>3, <2>2 DEF Recover, TypeOK
<1>4. CASE PriceMoves \/ ClosedOutside
  BY <1>0, <1>4, FaultedType DEF PriceMoves, ClosedOutside, NoPosition, NoPrice, TypeOK
<1>5. CASE ManualStop
  BY <1>5, FaultedType DEF ManualStop, Prices, NoPrice, TypeOK
<1>6. CASE Crash
  BY <1>0, <1>6, KnownStates, FaultedType DEF Crash, NoRow, TypeOK
<1>7. CASE UNCHANGED vars
  BY <1>7 DEF vars, TypeOK
<1>8. QED
  BY <1>1, <1>2, <1>3, <1>4, <1>5, <1>6, <1>7, ManageType, FillType DEF Next, EAStep

\* Whatever the fills, the moves of the price and the restarts, every variable
\* keeps its type; in particular no stop is ever negative.
THEOREM PositionTypeCorrect == Spec => []TypeOK
<1>1. TypeInv => TypeOK
  BY DEF TypeInv
<1>2. QED
  BY <1>1, InitType, NextType, PTL DEF Spec
-----------------------------------------------------------------------------
(* The stop is never loosened.  Trailing tightens by its own guard.  The move *)
(* to break-even has none: it relies on where the stop of a filled trade can  *)
(* be, which is what StopInv says.                                            *)

StopInv ==
    /\ pos.volume > 0 => pos.stop # NoPrice
    /\ \A fill \in {row.fill, deal} \ {NoPrice} : Favor(InitialStop, fill) > 0
    /\ row.state = "PENDING" /\ pos.volume > 0 => pos.stop = InitialStop
    /\ row.state = "FILLED" /\ pos.volume > 0 => Favor(pos.stop, RowEntry) >= 0

\* Every fill, and the theoretical entry, lies on the winning side of the
\* initial stop.
LEMMA FillBeyondStop ==
    /\ Favor(InitialStop, Entry) > 0
    /\ \A route, f : f \in FillPrices(route) => Favor(InitialStop, f) > 0
BY PositionAssumption DEF FillPrices, Favor, Prices

\* The entry a row goes by does so too.
LEMMA EntryBeyondStop ==
    ASSUME StopInv
    PROVE  Favor(InitialStop, RowEntry) > 0
BY FillBeyondStop DEF StopInv, RowEntry

LEMMA InitStop == Init => StopInv
<1> SUFFICES ASSUME Init PROVE StopInv
  OBVIOUS
<1>1. InitialStop # NoPrice
  BY PositionAssumption DEF Prices, NoPrice
<1>2. CASE ~ (row.state = "PENDING" /\ resting = submitted)
  <2>1. PICK f \in FillPrices("market") :
           /\ row = [state |-> "FILLED", fill |-> f, volume |-> submitted]
           /\ pos = [entry |-> f, stop |-> InitialStop, volume |-> submitted]
    BY <1>2 DEF Init
  <2>2. Favor(InitialStop, RowEntry) >= 0
    BY <2>1, FillBeyondStop, PositionAssumption DEF RowEntry, Favor, Prices, FillPrices
  <2>3. QED
    BY <1>1, <2>1, <2>2, FillBeyondStop DEF Init, StopInv
<1>3. CASE row.state = "PENDING" /\ resting = submitted
  BY <1>3, FillBeyondStop DEF Init, StopInv, NoPosition, NoPrice
<1>4. QED
  BY <1>2, <1>3

\* A step of the position manager, and what it does to the stop.
LEMMA ManageStop ==
    ASSUME TypeInv, StopInv, ManageTick
    PROVE  /\ StopInv'
           /\ pos.volume > 0 /\ pos'.volume > 0 => AtOrPast(pos'.stop, pos.stop)
<1> USE DEF TypeInv
<1>1. UNCHANGED <<resting, deal, price>>
  BY DEF ManageTick
<1>2. pos.stop \in Nat /\ row.state \in TradeStates /\ Favor(pos.stop, pos.stop) = 0
  BY DEF TypeOK, Favor
<1>3. CASE NoteClosed
  BY <1>1, <1>3 DEF NoteClosed, NoRow, NoPrice, StopInv
<1>4. CASE pos.volume > 0 /\ BreakEven
  <2>1. PICK m \in ModifyOutcomes(RowEntry) :
           /\ pos' = [pos EXCEPT !.stop = m.stop]
           /\ row' = IF m.ok THEN [row EXCEPT !.state = Transition("FILLED", "PROTECTED")]
                     ELSE row
    BY <1>4 DEF BreakEven
  <2>2. /\ pos'.stop = m.stop /\ pos'.volume = pos.volume /\ row'.fill = row.fill
        /\ row'.state \in {"FILLED", "PROTECTED"}
        /\ row'.state = "FILLED" => ~ m.ok
    BY <1>4, <2>1 DEF BreakEven, TypeOK, Transition, LegalMoves
  <2>3. Favor(pos.stop, RowEntry) >= 0 /\ RowEntry # NoPrice /\ pos.stop # NoPrice
    BY <1>4, RowEntryType DEF StopInv, BreakEven, Prices, NoPrice
  <2>4. m.stop \in {RowEntry, pos.stop} /\ (~ m.ok => m.stop = pos.stop)
    BY DEF ModifyOutcomes
  <2>5. Favor(RowEntry, RowEntry) = 0 /\ m.stop # NoPrice /\ RowEntry' = RowEntry
    BY <2>2, <2>3, <2>4, RowEntryType DEF Favor, Prices, RowEntry
  <2>6. AtOrPast(pos'.stop, pos.stop)
    BY <1>2, <2>2, <2>3, <2>4, <2>5 DEF AtOrPast
  <2>7. StopInv'
    BY <1>1, <2>2, <2>3, <2>4, <2>5 DEF StopInv
  <2>8. QED
    BY <2>6, <2>7
<1>5. CASE pos.volume > 0 /\ PartialClose
  <2>1. /\ pos' \in {pos, NoPosition} \/ \E left : left # 0 /\ pos' = [pos EXCEPT !.volume = left]
        /\ row' = [row EXCEPT !.state = Transition("PROTECTED", "PARTIAL")]
    BY <1>5 DEF PartialClose
  <2>2. row'.state = "PARTIAL" /\ row'.fill = row.fill
    BY <2>1 DEF TypeOK, Transition, LegalMoves
  <2>3. pos'.volume > 0 => pos'.stop = pos.stop
    BY <2>1 DEF NoPosition, TypeOK
  <2>4. StopInv'
    BY <1>1, <1>5, <2>2, <2>3 DEF StopInv
  <2>5. QED
    BY <1>2, <1>5, <2>3, <2>4 DEF StopInv, AtOrPast
<1>6. CASE pos.volume > 0 /\ HandOff
  <2>1. row'.state = "RUNNER" /\ row'.fill = row.fill /\ pos' = pos
    BY <1>6 DEF HandOff, TypeOK, Transition, LegalMoves
  <2>2. QED
    BY <1>1, <1>2, <1>6, <2>1 DEF StopInv, AtOrPast
<1>7. CASE pos.volume > 0 /\ Trail
  <2>1. PICK d \in TrailDistances \ {0} :
           /\ Improved(TrailStop(d))
           /\ \E m \in ModifyOutcomes(TrailStop(d)) : pos' = [pos EXCEPT !.stop = m.stop]
    BY <1>7 DEF Trail
  <2>2. PICK stop \in {TrailStop(d), pos.stop} : pos' = [pos EXCEPT !.stop = stop]
    BY <2>1, ModifiedStop
  <2>3. pos'.stop = stop /\ pos'.volume = pos.volume /\ row' = row /\ row.state = "RUNNER"
    BY <1>7, <2>2 DEF Trail, TypeOK
  <2>4. stop # NoPrice /\ Favor(pos.stop, stop) >= 0
    BY <1>2, <1>7, <2>1, TrailStopType DEF StopInv, Improved, Favor
  <2>5. QED
    BY <1>1, <2>3, <2>4 DEF StopInv, AtOrPast
<1>8. QED
  BY <1>3, <1>4, <1>5, <1>6, <1>7 DEF ManageTick

\* What has gone wrong stays on record.
LEMMA FaultedStays == [Next]_vars => faulted \subseteq faulted'
<1>1. CASE ManageTick
  BY <1>1 DEF ManageTick, NoteClosed, BreakEven, PartialClose, HandOff, Trail, Fault
<1>2. CASE SaveExecution \/ OnTradeTransaction \/ Recover
  BY <1>2 DEF SaveExecution, OnTradeTransaction, Recover, Fault
<1>3. CASE FillOrder \/ PriceMoves \/ ClosedOutside \/ ManualStop \/ Crash
  BY <1>3 DEF FillOrder, PriceMoves, ClosedOutside, ManualStop, Crash, Fault
<1>4. QED
  BY <1>1, <1>2, <1>3 DEF Next, EAStep, vars

LEMMA SubmittedStays == [Next]_vars => submitted' = submitted
BY DEF Next, EAStep, SaveExecution, ManageTick, OnTradeTransaction, Recover, FillOrder,
       PriceMoves, ClosedOutside, ManualStop, Crash, vars

LEMMA NextStop ==
    ASSUME "manual" \notin faulted', TypeInv, StopInv, [Next]_vars
    PROVE  StopInv'
<1> USE DEF TypeInv
<1>1. CASE SaveExecution
  BY <1>1 DEF SaveExecution, StopInv, RowEntry
<1>2. CASE OnTradeTransaction
  <2>1. row.state = "PENDING" =>
           row'.state = "FILLED" /\ row'.fill = deal
    BY <1>2 DEF OnTradeTransaction, TypeOK, Transition, LegalMoves
  <2>2. deal # NoPrice /\ deal \in Prices /\ pos' = pos /\ deal' = NoPrice
    BY <1>2 DEF OnTradeTransaction, TypeOK
  <2>3. CASE row.state = "PENDING"
    <3>1. RowEntry' = deal /\ Favor(InitialStop, deal) > 0
      BY <2>1, <2>2, <2>3 DEF RowEntry, StopInv
    <3>2. pos.volume > 0 => Favor(pos.stop, deal) >= 0
      BY <2>2, <2>3, <3>1, PositionAssumption DEF StopInv, Favor, Prices
    <3>3. QED
      BY <2>1, <2>2, <2>3, <3>1, <3>2 DEF StopInv
  <2>4. CASE row.state # "PENDING"
    BY <1>2, <2>2, <2>4 DEF OnTradeTransaction, StopInv, RowEntry
  <2>5. QED
    BY <2>3, <2>4
<1>3. CASE Recover
  <2>1. UNCHANGED <<pos, deal>>
    BY <1>3 DEF Recover
  <2>2. row'.fill = NoPrice /\ (row'.state = "PENDING" => ~ (pos.volume > 0))
    BY <1>3 DEF Recover, NoRow, InferPositionState
  <2>3. row'.state = "FILLED" /\ pos.volume > 0 => ~ AtOrPast(pos.stop, Entry)
    BY <1>3 DEF Recover, NoRow, InferPositionState
  <2>4. RowEntry' = Entry
    BY <2>2 DEF RowEntry
  <2>5. row'.state = "FILLED" /\ pos.volume > 0 => Favor(pos.stop, Entry) >= 0
    BY <2>3, PositionAssumption DEF AtOrPast, StopInv, TypeOK, Favor, Prices
  <2>6. QED
    BY <2>1, <2>2, <2>4, <2>5 DEF StopInv
<1>4. CASE FillOrder
  <2>1. PICK q \in 1 .. resting, f \in FillPrices("limit") :
           /\ pos' = IF pos.volume > 0 THEN [pos EXCEPT !.volume = @ + q]
                     ELSE [entry |-> f, stop |-> InitialStop, volume |-> q]
           /\ deal' = IF at = "down" \/ deal # NoPrice THEN deal ELSE f
    BY <1>4 DEF FillOrder
  <2>2. row' = row /\ RowEntry' = RowEntry
    BY <1>4 DEF FillOrder, RowEntry
  <2>3. pos'.stop = IF pos.volume > 0 THEN pos.stop ELSE InitialStop
    BY <2>1 DEF TypeOK
  <2>4. InitialStop # NoPrice /\ Favor(InitialStop, RowEntry) >= 0
    BY EntryBeyondStop, PositionAssumption, RowEntryType DEF Prices, NoPrice, Favor
  <2>5. \A fill \in {row'.fill, deal'} \ {NoPrice} : Favor(InitialStop, fill) > 0
    BY <2>1, <2>2, FillBeyondStop DEF StopInv
  <2>6. CASE pos.volume > 0
    BY <2>2, <2>3, <2>5, <2>6 DEF StopInv
  <2>7. CASE ~ (pos.volume > 0)
    BY <2>2, <2>3, <2>4, <2>5, <2>7 DEF StopInv
  <2>8. QED
    BY <2>6, <2>7
<1>5. CASE PriceMoves \/ ClosedOutside
  <2>1. UNCHANGED <<row, deal>> /\ pos' \in {pos, NoPosition}
    BY <1>5 DEF PriceMoves, ClosedOutside
  <2>2. QED
    BY <2>1 DEF StopInv, NoPosition, RowEntry
<1>6. CASE ManualStop
  BY <1>6 DEF ManualStop, Fault
<1>7. CASE Crash
  BY <1>7 DEF Crash, NoRow, NoPrice, StopInv
<1>8. CASE UNCHANGED vars
  BY <1>8 DEF vars, StopInv, RowEntry
<1>9. QED
  BY <1>1, <1>2, <1>3, <1>4, <1>5, <1>6, <1>7, <1>8, ManageStop DEF Next, EAStep

\* "only ever tighten, never widen, the stop", of every step of the EA: the move
\* to break-even included, after slippage in either direction, lost execution
\* rows, restarts that forget the actual fill, and requests reported as done that
\* were not.  Only the trader's own hand is left out.
THEOREM StopOnlyTightens == Spec => StopNeverLoosened
<1> DEFINE Safe == "manual" \notin faulted => StopInv
<1>1. Init => TypeInv /\ Safe
  BY InitType, InitStop
<1>2. TypeInv /\ Safe /\ [Next]_vars => (TypeInv /\ Safe)'
  BY NextType, NextStop, FaultedStays
<1>3. TypeInv /\ Safe /\ [Next]_vars
        => [EAStep /\ "manual" \notin faulted /\ pos.volume > 0 /\ pos'.volume > 0
              => AtOrPast(pos'.stop, pos.stop)]_vars
  <2> SUFFICES ASSUME TypeInv, StopInv, EAStep, pos.volume > 0, pos'.volume > 0
               PROVE  AtOrPast(pos'.stop, pos.stop)
    OBVIOUS
  <2>1. pos.stop # NoPrice /\ Favor(pos.stop, pos.stop) = 0
    BY DEF StopInv, TypeInv, TypeOK, Favor
  <2>2. CASE ManageTick
    BY <2>2, ManageStop
  <2>3. CASE SaveExecution \/ OnTradeTransaction \/ Recover
    BY <2>1, <2>3 DEF SaveExecution, OnTradeTransaction, Recover, AtOrPast
  <2>4. QED
    BY <2>2, <2>3 DEF EAStep
<1>4. QED
  BY <1>1, <1>2, <1>3, PTL DEF Spec, StopNeverLoosened

\* A runner's stop only tightens even when the trader has moved or removed it by
\* hand: the trail compares with the stop the broker shows.
THEOREM RunnerStopOnlyTightens == Spec => RunnerOnlyTightens
<1>1. TypeInv /\ [Next]_vars
        => [EAStep /\ row.state = "RUNNER" /\ pos.stop # NoPrice /\ pos'.volume > 0
              => AtOrPast(pos'.stop, pos.stop)]_vars
  <2> SUFFICES ASSUME TypeInv, EAStep, row.state = "RUNNER", pos.stop # NoPrice,
                      pos'.volume > 0
               PROVE  AtOrPast(pos'.stop, pos.stop)
    OBVIOUS
  <2>1. pos.stop \in Nat /\ Favor(pos.stop, pos.stop) = 0
    BY DEF TypeInv, TypeOK, Favor
  <2>2. CASE ManageTick
    <3>1. Trail
      BY <2>2 DEF ManageTick, NoteClosed, BreakEven, PartialClose, HandOff
    <3>2. PICK d \in TrailDistances \ {0} :
             /\ Improved(TrailStop(d))
             /\ \E m \in ModifyOutcomes(TrailStop(d)) : pos' = [pos EXCEPT !.stop = m.stop]
      BY <3>1 DEF Trail
    <3>3. pos'.stop \in {TrailStop(d), pos.stop}
      BY <3>2, ModifiedStop DEF TypeInv, TypeOK
    <3>4. TrailStop(d) # NoPrice /\ Favor(pos.stop, TrailStop(d)) >= 0
      BY <2>1, <3>2, TrailStopType DEF TypeInv, Improved, Favor
    <3>5. QED
      BY <2>1, <3>3, <3>4 DEF AtOrPast
  <2>3. CASE SaveExecution \/ OnTradeTransaction \/ Recover
    BY <2>1, <2>3 DEF SaveExecution, OnTradeTransaction, Recover, AtOrPast
  <2>4. QED
    BY <2>2, <2>3 DEF EAStep
<1>2. QED
  BY <1>1, InitType, NextType, PTL DEF Spec, RunnerOnlyTightens
-----------------------------------------------------------------------------
(* A position whose fill the EA knows is protected at it.  With requests that *)
(* do what their answer says and orders that fill at once, the fill the EA    *)
(* has heard of is the entry the broker shows, and break-even puts the stop   *)
(* on it.                                                                     *)

Quiet == faulted \cap {"falseAck", "manual", "partialFill"} = {}

\* What rests has no fill yet; a fill that is known, or on its way, is the
\* position's entry.
KnownFillInv ==
    /\ resting > 0 => pos.volume = 0 /\ deal = NoPrice /\ row.fill = NoPrice
    /\ \A fill \in {row.fill, deal} \ {NoPrice} : pos.volume > 0 => pos.entry = fill
    /\ row.fill # NoPrice => ProtectedAtActualEntry

LEMMA InitKnownFill == Init => KnownFillInv
<1> SUFFICES ASSUME Init PROVE KnownFillInv
  OBVIOUS
<1>1. CASE ~ (row.state = "PENDING" /\ resting = submitted)
  <2>1. PICK f \in FillPrices("market") :
           /\ row = [state |-> "FILLED", fill |-> f, volume |-> submitted]
           /\ pos = [entry |-> f, stop |-> InitialStop, volume |-> submitted]
           /\ resting = 0 /\ deal = NoPrice
    BY <1>1 DEF Init
  <2>2. QED
    BY <2>1 DEF KnownFillInv, ProtectedAtActualEntry
<1>2. CASE row.state = "PENDING" /\ resting = submitted
  BY <1>2, PositionAssumption
     DEF Init, KnownFillInv, ProtectedAtActualEntry, NoPosition, NoPrice
<1>3. QED
  BY <1>1, <1>2

\* Break-even sets the stop where the position was entered.
LEMMA BreakEvenAtEntry ==
    ASSUME TypeInv, KnownFillInv, "falseAck" \notin faulted', pos.volume > 0, BreakEven,
           UNCHANGED <<resting, deal>>
    PROVE  KnownFillInv'
<1>1. PICK m \in ModifyOutcomes(RowEntry) :
         /\ pos' = [pos EXCEPT !.stop = m.stop]
         /\ faulted' = faulted \cup m.faults
         /\ row' = IF m.ok THEN [row EXCEPT !.state = Transition("FILLED", "PROTECTED")]
                   ELSE row
  BY DEF BreakEven
<1>2. /\ pos'.stop = m.stop /\ pos'.volume = pos.volume /\ pos'.entry = pos.entry
      /\ row'.fill = row.fill /\ (~ m.ok => row' = row /\ row.state = "FILLED")
  BY <1>1 DEF BreakEven, TypeInv, TypeOK
<1>3. m.ok => m.stop = RowEntry
  <2>1. m.ok => m.stop = RowEntry \/ m.faults = {"falseAck"}
    BY DEF ModifyOutcomes
  <2>2. QED
    BY <1>1, <2>1
<1>4. row.fill # NoPrice => RowEntry = pos.entry /\ RowEntry \in Nat
  BY RowEntryType DEF RowEntry, KnownFillInv, Prices, TypeInv
<1>5. row'.fill # NoPrice /\ row'.state = "PROTECTED" => AtOrPast(pos'.stop, pos'.entry)
  <2>1. SUFFICES ASSUME row.fill # NoPrice, row'.state = "PROTECTED"
                 PROVE  AtOrPast(pos'.stop, pos'.entry)
    BY <1>2
  <2>2. m.ok
    BY <1>2, <2>1
  <2>3. pos'.stop = pos.entry /\ pos'.entry = pos.entry /\ pos.entry # NoPrice
    BY <1>2, <1>3, <1>4, <2>1, <2>2 DEF RowEntry
  <2>4. QED
    BY <1>4, <2>1, <2>3 DEF AtOrPast, Favor
<1>6. QED
  BY <1>2, <1>5 DEF KnownFillInv, ProtectedAtActualEntry

LEMMA NextKnownFill ==
    ASSUME Quiet', TypeInv, KnownFillInv, [Next]_vars
    PROVE  KnownFillInv'
<1> USE DEF TypeInv, Quiet
<1>1. CASE ManageTick
  <2>1. UNCHANGED <<resting, deal>>
    BY <1>1 DEF ManageTick
  <2>2. CASE NoteClosed
    BY <2>1, <2>2 DEF NoteClosed, NoRow, NoPrice, KnownFillInv, ProtectedAtActualEntry
  <2>3. CASE pos.volume > 0 /\ BreakEven
    BY <2>1, <2>3, BreakEvenAtEntry
  <2>4. CASE pos.volume > 0 /\ (PartialClose \/ HandOff)
    <3>1. row'.state \in {"PARTIAL", "RUNNER"} /\ row'.fill = row.fill
      BY <2>4 DEF PartialClose, HandOff, Transition, LegalMoves, TypeOK
    <3>2. pos' \in {pos, NoPosition} \/ \E left : pos' = [pos EXCEPT !.volume = left]
      BY <2>4 DEF PartialClose, HandOff
    <3>3. pos'.volume = 0 \/ pos'.entry = pos.entry
      BY <3>2 DEF NoPosition, TypeOK
    <3>4. ~ (resting > 0)
      BY <2>4 DEF KnownFillInv
    <3>5. QED
      BY <2>1, <2>4, <3>1, <3>3, <3>4 DEF KnownFillInv, ProtectedAtActualEntry
  <2>5. CASE pos.volume > 0 /\ Trail
    <3>1. row' = row /\ row.state = "RUNNER" /\ \E stop : pos' = [pos EXCEPT !.stop = stop]
      BY <2>5 DEF Trail
    <3>2. pos'.volume = pos.volume /\ pos'.entry = pos.entry
      BY <3>1 DEF TypeOK
    <3>3. QED
      BY <2>1, <3>1, <3>2 DEF KnownFillInv, ProtectedAtActualEntry
  <2>6. QED
    BY <1>1, <2>2, <2>3, <2>4, <2>5 DEF ManageTick
<1>2. CASE SaveExecution
  BY <1>2 DEF SaveExecution, KnownFillInv, ProtectedAtActualEntry
<1>3. CASE OnTradeTransaction
  <2>1. \/ row' = row
        \/ row'.state = "FILLED" /\ row'.fill = deal
    BY <1>3 DEF OnTradeTransaction, TypeOK, Transition, LegalMoves
  <2>2. deal # NoPrice /\ deal' = NoPrice /\ UNCHANGED <<pos, resting>>
    BY <1>3 DEF OnTradeTransaction
  <2>3. QED
    BY <2>1, <2>2 DEF KnownFillInv, ProtectedAtActualEntry
<1>4. CASE Recover
  <2>1. UNCHANGED <<pos, resting, deal>> /\ row'.fill = NoPrice
    BY <1>4 DEF Recover, NoRow
  <2>2. QED
    BY <2>1 DEF KnownFillInv
<1>5. CASE FillOrder
  <2>1. PICK q \in 1 .. resting, f \in FillPrices("limit") :
           /\ q = resting \/ (q < resting /\ Fault("partialFill"))
           /\ resting' = resting - q
           /\ pos' = IF pos.volume > 0 THEN [pos EXCEPT !.volume = @ + q]
                     ELSE [entry |-> f, stop |-> InitialStop, volume |-> q]
           /\ deal' = IF at = "down" \/ deal # NoPrice THEN deal ELSE f
    BY <1>5 DEF FillOrder
  <2>2. resting > 0 /\ resting \in Nat /\ row' = row
    BY <1>5 DEF FillOrder, TypeOK
  <2>3. pos.volume = 0 /\ deal = NoPrice /\ row.fill = NoPrice
    BY <2>2 DEF KnownFillInv
  <2>4. resting' = 0
    BY <2>1, <2>2 DEF Fault
  <2>5. pos'.entry = f /\ deal' \in {NoPrice, f}
    BY <2>1, <2>3
  <2>6. QED
    BY <2>2, <2>3, <2>4, <2>5 DEF KnownFillInv
<1>6. CASE PriceMoves \/ ClosedOutside
  <2>1. UNCHANGED <<row, deal, resting>> /\ pos' \in {pos, NoPosition}
    BY <1>6 DEF PriceMoves, ClosedOutside
  <2>2. QED
    BY <2>1 DEF KnownFillInv, ProtectedAtActualEntry, NoPosition
<1>7. CASE ManualStop
  BY <1>7 DEF ManualStop, Fault
<1>8. CASE Crash
  BY <1>8 DEF Crash, NoRow, NoPrice, KnownFillInv
<1>9. CASE UNCHANGED vars
  BY <1>9 DEF vars, KnownFillInv, ProtectedAtActualEntry
<1>10. QED
  BY <1>1, <1>2, <1>3, <1>4, <1>5, <1>6, <1>7, <1>8, <1>9 DEF Next, EAStep

\* "moves SL to the price this position ACTUALLY entered at": so it does, as
\* long as the EA knows that price.  A restart makes it forget, which run
\* PositionRestartLoss shows.
THEOREM KnownFillIsProtected == Spec => []ProtectedAtKnownFill
<1>1. Init => TypeInv /\ (Quiet => KnownFillInv)
  BY InitType, InitKnownFill
<1>2. TypeInv /\ (Quiet => KnownFillInv) /\ [Next]_vars => (TypeInv /\ (Quiet => KnownFillInv))'
  BY NextType, NextKnownFill, FaultedStays DEF Quiet
<1>3. (Quiet => KnownFillInv) => ProtectedAtKnownFill
  BY DEF Quiet, KnownFillInv, ProtectedAtKnownFill
<1>4. QED
  BY <1>1, <1>2, <1>3, PTL DEF Spec
-----------------------------------------------------------------------------
(* The profit is halved once.  A running EA remembers it in the state of the  *)
(* row; a restarted one compares the volume with what the file says of the    *)
(* submitted one.  That figure is rounded to 0.01 lots, but as long as it does *)
(* not read 0.00 it is more than half of the volume.                          *)

Recorded == faulted \cap {"lostExecution", "partialFill"} = {} /\ Legible

LEMMA WrittenAboveHalf ==
    ASSUME NEW v \in Nat, 0 \notin Written(v), NEW w \in Written(v)
    PROVE  w \in Nat /\ w > 0 /\ v < 2 * w
<1>1. PICK k \in 0 .. v : w = Hundredth * k
  BY DEF Written
<1>2. w # 0 /\ 2 * v <= 2 * w + Hundredth /\ Hundredth \in Nat /\ Hundredth > 0 /\ k \in Nat
  BY <1>1, PositionAssumption DEF Written
<1>3. k >= 1
  BY <1>1, <1>2
<1>4. Hundredth * k = Hundredth + Hundredth * (k - 1) /\ Hundredth * (k - 1) >= 0
  BY <1>2, <1>3
<1>5. w \in Nat /\ w >= Hundredth
  BY <1>1, <1>2, <1>4
<1>6. QED
  BY <1>2, <1>5

\* Until the partial close the position has the volume submitted, and so has its
\* row; after it at most half of that is left.
HalvedInv ==
    /\ at # "sent" => logged \in Written(submitted)
    /\ resting > 0 => resting = submitted /\ pos.volume = 0 /\ partials = 0
    /\ partials <= 1
    /\ partials = 0 => /\ pos.volume \in {0, submitted}
                       /\ row.state # "ARCHIVED" => row.volume = submitted
    /\ partials = 1 => /\ 2 * pos.volume <= submitted
                       /\ row.state \notin {"PENDING", "FILLED", "PROTECTED"}

LEMMA InitHalved == Init => HalvedInv
<1> SUFFICES ASSUME Init PROVE HalvedInv
  OBVIOUS
<1>1. /\ pos.volume \in {0, submitted} /\ row.volume = submitted
      /\ resting > 0 => resting = submitted /\ pos.volume = 0
  BY DEF Init, NoPosition
<1>2. QED
  BY <1>1 DEF Init, HalvedInv

\* Half of the volume is closed at most once, and the row moves on.
LEMMA CloseHalves ==
    ASSUME TypeInv, HalvedInv, pos.volume > 0, PartialClose,
           UNCHANGED <<submitted, at, resting, logged>>
    PROVE  HalvedInv'
<1> USE DEF TypeInv
<1>1. row.state = "PROTECTED" /\ row'.state = "PARTIAL" /\ row'.volume = row.volume
  BY DEF PartialClose, Transition, LegalMoves, TypeOK
<1>2. partials \in Nat /\ submitted \in Nat /\ submitted > 0 /\ resting \in Nat
  BY SubmittedType DEF TypeOK
<1>3. partials = 0 /\ ~ (resting > 0) /\ row.volume = submitted /\ pos.volume = submitted
  BY <1>1, <1>2 DEF HalvedInv
<1>4. CASE UNCHANGED <<pos, partials>>
  BY <1>1, <1>3, <1>4 DEF HalvedInv
<1>5. CASE ~ UNCHANGED <<pos, partials>>
  <2>1. PICK half \in 1 .. row.volume :
           /\ 2 * half = row.volume
           /\ pos' = IF LeftAfter(half) = 0 THEN NoPosition
                     ELSE [pos EXCEPT !.volume = LeftAfter(half)]
           /\ partials' = partials + 1
    BY <1>5 DEF PartialClose
  <2>2. LeftAfter(half) = half
    BY <1>2, <1>3, <2>1 DEF LeftAfter
  <2>3. pos'.volume = half
    BY <2>1, <2>2 DEF NoPosition, TypeOK
  <2>4. QED
    BY <1>1, <1>2, <1>3, <2>1, <2>3 DEF HalvedInv
<1>6. QED
  BY <1>4, <1>5

LEMMA NextHalved ==
    ASSUME Recorded', TypeInv, HalvedInv, [Next]_vars
    PROVE  HalvedInv'
<1> USE DEF TypeInv, Recorded
<1>0. submitted' = submitted /\ Legible
  BY SubmittedStays DEF Legible
<1>1. CASE ManageTick
  <2>1. UNCHANGED <<submitted, at, resting, logged>>
    BY <1>1 DEF ManageTick
  <2>2. CASE pos.volume > 0 /\ PartialClose
    BY <2>1, <2>2, CloseHalves
  <2>3. CASE NoteClosed
    BY <2>1, <2>3 DEF NoteClosed, NoRow, HalvedInv
  <2>4. CASE BreakEven \/ Trail
    <3>1. (\E stop : pos' = [pos EXCEPT !.stop = stop]) /\ partials' = partials
      BY <2>4 DEF BreakEven, Trail
    <3>2. pos'.volume = pos.volume
      BY <3>1 DEF TypeOK
    <3>3. row' = row \/ (row.state = "FILLED" /\ row'.volume = row.volume)
      BY <2>4 DEF BreakEven, Trail, TypeOK
    <3>4. QED
      BY <2>1, <3>1, <3>2, <3>3 DEF HalvedInv
  <2>5. CASE HandOff
    <3>1. /\ row.state = "PARTIAL" /\ row'.state = "RUNNER" /\ row'.volume = row.volume
          /\ UNCHANGED <<pos, partials>>
      BY <2>5 DEF HandOff, Transition, LegalMoves, TypeOK
    <3>2. QED
      BY <2>1, <3>1 DEF HalvedInv
  <2>6. QED
    BY <1>1, <2>2, <2>3, <2>4, <2>5 DEF ManageTick
<1>2. CASE SaveExecution
  BY <1>0, <1>2 DEF SaveExecution, Fault, HalvedInv
<1>3. CASE OnTradeTransaction
  <2>1. /\ row' = row \/ (row.state = "PENDING" /\ row'.volume = row.volume)
        /\ UNCHANGED <<at, pos, resting, logged, partials>>
    BY <1>3 DEF OnTradeTransaction, TypeOK
  <2>2. QED
    BY <1>0, <2>1 DEF HalvedInv
<1>4. CASE Recover
  <2>1. UNCHANGED <<pos, resting, logged, partials>> /\ at' = "idle"
    BY <1>4 DEF Recover
  <2>2. /\ logged \in Nat /\ logged # 0 /\ submitted < 2 * logged
        /\ submitted \in Nat /\ pos.volume \in Nat /\ resting \in Nat
    BY <1>0, <1>4, SubmittedType, WrittenAboveHalf DEF Recover, HalvedInv, Legible, TypeOK
  <2>3. partials = 1 /\ pos.volume > 0 => row'.state = "RUNNER"
    <3>1. SUFFICES ASSUME partials = 1, pos.volume > 0 PROVE row'.state = "RUNNER"
      OBVIOUS
    <3>2. pos.volume < logged
      BY <2>2, <3>1 DEF HalvedInv
    <3>3. QED
      BY <1>4, <2>2, <3>1, <3>2 DEF Recover, InferPositionState
  <2>4. partials = 1 /\ ~ (pos.volume > 0) => row'.state = "ARCHIVED"
    BY <1>4 DEF Recover, NoRow, HalvedInv
  <2>5. partials = 0 /\ row'.state # "ARCHIVED" => row'.volume = submitted
    BY <1>4, <2>2 DEF Recover, NoRow, HalvedInv
  <2>6. QED
    BY <1>0, <1>4, <2>1, <2>3, <2>4, <2>5 DEF HalvedInv, Recover
<1>5. CASE FillOrder
  <2>1. PICK q \in 1 .. resting, f \in FillPrices("limit") :
           /\ q = resting \/ (q < resting /\ Fault("partialFill"))
           /\ resting' = resting - q
           /\ pos' = IF pos.volume > 0 THEN [pos EXCEPT !.volume = @ + q]
                     ELSE [entry |-> f, stop |-> InitialStop, volume |-> q]
    BY <1>5 DEF FillOrder
  <2>2. resting > 0 /\ resting \in Nat /\ UNCHANGED <<at, row, logged, partials>>
    BY <1>5 DEF FillOrder, TypeOK
  <2>3. resting = submitted /\ pos.volume = 0 /\ partials = 0
    BY <2>2 DEF HalvedInv
  <2>4. q = resting /\ resting' = 0
    BY <2>1, <2>2 DEF Fault
  <2>5. pos'.volume = submitted
    BY <2>1, <2>3, <2>4
  <2>6. QED
    BY <1>0, <2>2, <2>3, <2>4, <2>5 DEF HalvedInv
<1>6. CASE PriceMoves \/ ClosedOutside
  <2>1. UNCHANGED <<at, row, logged, resting, partials>> /\ pos' \in {pos, NoPosition}
    BY <1>6 DEF PriceMoves, ClosedOutside
  <2>2. submitted \in Nat
    BY SubmittedType
  <2>3. QED
    BY <1>0, <2>1, <2>2 DEF HalvedInv, NoPosition
<1>7. CASE ManualStop
  <2>1. UNCHANGED <<at, row, logged, resting, partials>> /\ pos'.volume = pos.volume
    BY <1>7 DEF ManualStop, TypeOK
  <2>2. QED
    BY <1>0, <2>1 DEF HalvedInv
<1>8. CASE Crash
  <2>1. at = "idle"
    BY <1>8 DEF Crash
  <2>2. QED
    BY <1>0, <1>8, <2>1 DEF Crash, NoRow, HalvedInv
<1>9. CASE UNCHANGED vars
  BY <1>9 DEF vars, HalvedInv
<1>10. QED
  BY <1>1, <1>2, <1>3, <1>4, <1>5, <1>6, <1>7, <1>8, <1>9 DEF Next, EAStep

\* No restart makes the EA halve a position again, for any volume, volume step and
\* rounding of the figure on the disk, if that figure is there and not 0.00, and
\* the order was filled in one piece.
THEOREM HalvedOnce == Spec => []NoSecondPartial
<1>1. Init => TypeInv /\ (Recorded => HalvedInv)
  BY InitType, InitHalved
<1>2. TypeInv /\ (Recorded => HalvedInv) /\ [Next]_vars => (TypeInv /\ (Recorded => HalvedInv))'
  BY NextType, NextHalved, FaultedStays, SubmittedStays DEF Recorded, Legible
<1>3. (Recorded => HalvedInv) => NoSecondPartial
  BY DEF Recorded, HalvedInv, NoSecondPartial
<1>4. QED
  BY <1>1, <1>2, <1>3, PTL DEF Spec
-----------------------------------------------------------------------------
(* A restart is the only way to lose the fill of a live trade. *)

FillKept ==
    "restart" \notin faulted =>
        at # "down" /\ (row.fill = NoPrice => row.state \in {"PENDING", "ARCHIVED"})

LEMMA InitFillKept == Init => FillKept
<1> SUFFICES ASSUME Init PROVE FillKept
  OBVIOUS
<1>1. at # "down"
  BY DEF Init
<1>2. row.state = "PENDING" \/ \E f \in FillPrices("market") :
        row = [state |-> "FILLED", fill |-> f, volume |-> submitted]
  BY DEF Init
<1>3. \A f \in FillPrices("market") : f # NoPrice
  BY PositionAssumption DEF FillPrices, Prices, NoPrice
<1>4. QED
  BY <1>1, <1>2, <1>3 DEF FillKept

LEMMA NextFillKept ==
    ASSUME TypeInv, FillKept, [Next]_vars
    PROVE  FillKept'
<1> SUFFICES ASSUME "restart" \notin faulted'
             PROVE  at' # "down" /\ (row'.fill = NoPrice => row'.state \in {"PENDING", "ARCHIVED"})
  BY DEF FillKept
<1> USE DEF TypeInv
<1>1. at # "down" /\ (row.fill = NoPrice => row.state \in {"PENDING", "ARCHIVED"})
  BY FaultedStays DEF FillKept
<1>2. CASE ManageTick
  <2>1. at' = at
    BY <1>2 DEF ManageTick
  <2>2. CASE NoteClosed
    BY <1>1, <2>1, <2>2 DEF NoteClosed, NoRow
  <2>3. CASE BreakEven \/ PartialClose \/ HandOff \/ Trail
    <3>1. /\ row.state \in {"FILLED", "PROTECTED", "PARTIAL", "RUNNER"}
          /\ row'.fill = row.fill
      BY <2>3 DEF BreakEven, PartialClose, HandOff, Trail, TypeOK
    <3>2. QED
      BY <1>1, <2>1, <3>1
  <2>4. QED
    BY <1>2, <2>2, <2>3 DEF ManageTick
<1>3. CASE OnTradeTransaction
  <2>1. at' = at /\ (row' = row \/ (row'.fill = deal /\ deal # NoPrice))
    BY <1>3 DEF OnTradeTransaction, TypeOK
  <2>2. QED
    BY <1>1, <2>1
<1>4. CASE Recover
  BY <1>1, <1>4 DEF Recover
<1>5. CASE Crash
  BY <1>5 DEF Crash, Fault
<1>6. CASE SaveExecution
  BY <1>1, <1>6 DEF SaveExecution
<1>7. CASE FillOrder \/ PriceMoves \/ ClosedOutside \/ ManualStop
  BY <1>1, <1>7 DEF FillOrder, PriceMoves, ClosedOutside, ManualStop
<1>8. CASE UNCHANGED vars
  BY <1>1, <1>8 DEF vars
<1>9. QED
  BY <1>2, <1>3, <1>4, <1>5, <1>6, <1>7, <1>8 DEF Next, EAStep

\* What run PositionRestartLoss finds takes a restart: as long as the EA has not
\* restarted, a protected position cannot be stopped out at a loss, on either
\* route and at any slippage.
THEOREM ProtectedUnlessRestarted ==
    Spec => []("restart" \notin faulted /\ Quiet => ProtectedAtActualEntry)
<1>1. Init => TypeInv /\ FillKept
  BY InitType, InitFillKept
<1>2. TypeInv /\ FillKept /\ [Next]_vars => (TypeInv /\ FillKept)'
  BY NextType, NextFillKept
<1>3. FillKept /\ ProtectedAtKnownFill
        => ("restart" \notin faulted /\ Quiet => ProtectedAtActualEntry)
  BY DEF FillKept, ProtectedAtKnownFill, ProtectedAtActualEntry, Quiet
<1>4. QED
  BY <1>1, <1>2, <1>3, KnownFillIsProtected, PTL DEF Spec
-----------------------------------------------------------------------------
(* A volume that cannot be halved is not trailed. *)

UnhalvedInv ==
    faulted \cap {"restart", "falseAck"} = {} /\ ~ Halvable =>
        /\ at # "down"
        /\ row.state \in {"PENDING", "FILLED", "PROTECTED", "ARCHIVED"}
        /\ row.state # "ARCHIVED" => row.volume = submitted

LEMMA NoHalfToClose ==
    ASSUME TypeInv, ~ Halvable, row.volume = submitted, PartialClose
    PROVE  "falseAck" \in faulted'
<1>1. ASSUME NEW half \in 1 .. row.volume, 2 * half = row.volume PROVE FALSE
  <2>1. submitted \in Nat /\ submitted >= 2 * MinLots
    BY SubmittedType DEF TypeInv, PartialClose, HalfAllowed
  <2>2. submitted % 2 = 0
    BY <1>1, <2>1
  <2>3. QED
    BY <2>1, <2>2 DEF Halvable
<1>2. QED
  BY <1>1 DEF PartialClose, Fault

LEMMA NextUnhalved ==
    ASSUME TypeInv, UnhalvedInv, [Next]_vars
    PROVE  UnhalvedInv'
<1> SUFFICES ASSUME faulted' \cap {"restart", "falseAck"} = {}, ~ Halvable'
             PROVE  /\ at' # "down"
                    /\ row'.state \in {"PENDING", "FILLED", "PROTECTED", "ARCHIVED"}
                    /\ row'.state # "ARCHIVED" => row'.volume = submitted'
  BY DEF UnhalvedInv
<1> USE DEF TypeInv
<1>0. submitted' = submitted /\ ~ Halvable
  BY SubmittedStays DEF Halvable
<1>1. /\ at # "down"
      /\ row.state \in {"PENDING", "FILLED", "PROTECTED", "ARCHIVED"}
      /\ row.state # "ARCHIVED" => row.volume = submitted
  BY <1>0, FaultedStays DEF UnhalvedInv
<1>2. CASE ManageTick
  <2>1. at' = at
    BY <1>2 DEF ManageTick
  <2>2. CASE NoteClosed
    BY <1>1, <2>1, <2>2 DEF NoteClosed, NoRow
  <2>3. CASE BreakEven
    <3>1. row' = row \/ (/\ row'.state = "PROTECTED" /\ row'.volume = row.volume
                         /\ row.state = "FILLED")
      BY <2>3 DEF BreakEven, Transition, LegalMoves, TypeOK
    <3>2. QED
      BY <1>0, <1>1, <2>1, <3>1
  <2>4. CASE PartialClose
    BY <1>0, <1>1, <2>4, NoHalfToClose DEF PartialClose
  <2>5. CASE HandOff \/ Trail
    BY <1>1, <2>5 DEF HandOff, Trail
  <2>6. QED
    BY <1>2, <2>2, <2>3, <2>4, <2>5 DEF ManageTick
<1>3. CASE OnTradeTransaction
  <2>1. at' = at /\ (row' = row \/ (/\ row'.state = "FILLED" /\ row'.volume = row.volume
                                    /\ row.state = "PENDING"))
    BY <1>3 DEF OnTradeTransaction, Transition, LegalMoves, TypeOK
  <2>2. QED
    BY <1>0, <1>1, <2>1
<1>4. CASE Recover
  BY <1>1, <1>4 DEF Recover
<1>5. CASE Crash
  BY <1>5 DEF Crash, Fault
<1>6. CASE SaveExecution
  BY <1>0, <1>1, <1>6 DEF SaveExecution
<1>7. CASE FillOrder \/ PriceMoves \/ ClosedOutside \/ ManualStop
  BY <1>0, <1>1, <1>7 DEF FillOrder, PriceMoves, ClosedOutside, ManualStop
<1>8. CASE UNCHANGED vars
  BY <1>1, <1>8 DEF vars
<1>9. QED
  BY <1>2, <1>3, <1>4, <1>5, <1>6, <1>7, <1>8 DEF Next, EAStep

\* PositionManager.mqh leaves a trade whose volume it cannot halve, odd or too
\* small, at break-even for good: it never becomes a RUNNER and is never trailed,
\* unless a restart or an answer that was not meant makes the EA believe that it
\* was halved.
THEOREM UnhalvedIsNotTrailed ==
    Spec => [](faulted \cap {"restart", "falseAck"} = {} /\ ~ Halvable
                 => row.state \notin {"PARTIAL", "RUNNER"})
<1>1. Init => TypeInv /\ UnhalvedInv
  <2>1. Init => UnhalvedInv
    BY DEF Init, UnhalvedInv
  <2>2. QED
    BY <2>1, InitType
<1>2. TypeInv /\ UnhalvedInv /\ [Next]_vars => (TypeInv /\ UnhalvedInv)'
  BY NextType, NextUnhalved
<1>3. UnhalvedInv => (faulted \cap {"restart", "falseAck"} = {} /\ ~ Halvable
                        => row.state \notin {"PARTIAL", "RUNNER"})
  BY DEF UnhalvedInv
<1>4. QED
  BY <1>1, <1>2, <1>3, PTL DEF Spec
=============================================================================
