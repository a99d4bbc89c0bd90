----------------------- MODULE TradeExecutionProofs -----------------------
(***************************************************************************)
(* Theorems about TradeExecution, for every value of its constants.        *)
(***************************************************************************)
EXTENDS TradeExecution, FiniteSetTheorems, TLAPS

(* The table of moves. *)

\* Transition() never leaves the twelve states.
LEMMA TransitionType ==
    ASSUME NEW from \in TradeStates, NEW to \in TradeStates
    PROVE  Transition(from, to) \in TradeStates
BY DEF Transition

\* Nothing leads out of a state Prune() drops.
LEMMA PrunedIsFinal ==
    ASSUME NEW from \in PrunedStates, NEW to \in TradeStates
    PROVE  Transition(from, to) = from
BY DEF Transition, PrunedStates, LegalMoves

\* Submit() has walked the new row to PENDING, on either path.
LEMMA SubmittedIsPending ==
    ASSUME NEW route \in Sends
    PROVE  SubmittedState(route) = "PENDING"
BY DEF SubmittedState, Routed, Transition, LegalMoves, Sends

\* A submission is refused, or goes to the broker call with a pending row.
LEMMA SubmitCases ==
    ASSUME Submit
    PROVE  \/ EndTick /\ UNCHANGED rows
           \/ /\ MaySubmit(cur.id)
              /\ rows' = rows \cup {[id |-> cur.id, state |-> "PENDING", ticket |-> None]}
              /\ at' \in Sends /\ UNCHANGED <<cur, tries>>
<1>1. Routes \subseteq Sends
  BY ExecutionAssumption DEF Sends
<1>2. QED
  BY <1>1, SubmittedIsPending DEF Submit

\* What a pass of the position manager may leave in a row is a state.
LEMMA AfterPassType ==
    ASSUME NEW r \in Row
    PROVE  AfterPass(r) \subseteq TradeStates
<1>1. r.state \in TradeStates
  BY DEF Row
<1>2. {"FILLED", "PROTECTED", "PARTIAL", "RUNNER", "CLOSED", "ARCHIVED"} \subseteq TradeStates
  BY DEF TradeStates
<1>3. Transition(Transition(r.state, "CLOSED"), "ARCHIVED") \in TradeStates
  BY <1>1, <1>2, TransitionType
<1>4. /\ Transition("FILLED", "PROTECTED") \in TradeStates
      /\ Transition("PROTECTED", "PARTIAL") \in TradeStates
      /\ Transition("PARTIAL", "RUNNER") \in TradeStates
  BY <1>2, TransitionType
<1>5. QED
  BY <1>1, <1>2, <1>3, <1>4 DEF AfterPass, ManagedStates
-----------------------------------------------------------------------------
(* Type correctness: one step per action. *)

LEMMA InitType == Init => TypeOK
<1> SUFFICES ASSUME Init PROVE TypeOK
  OBVIOUS
<1> USE ExecutionAssumption DEF Init, TypeOK, Points, Ids, Tickets, None, NoDecision
<1>1. /\ at \in Points /\ rows \subseteq Row /\ store \subseteq Ids /\ disk \subseteq Ids
      /\ book \subseteq Ticket /\ ended \subseteq Ids /\ deals \subseteq Deal
  OBVIOUS
<1>2. /\ nextId \in 1 .. MaxDecisions + 1 /\ tries \in 0 .. Attempts - 1
      /\ lastBar \in 0 .. MaxBars + 1 /\ lastLogged \in 0 .. MaxBars + 1
      /\ nextTicket \in 1 .. MaxTickets + 1 /\ bar \in 1 .. MaxBars + 1
  OBVIOUS
<1>3. cur \in [id : Ids \cup {None}, zone : Zones \cup {None}]
  OBVIOUS
<1>4. QED
  BY <1>1, <1>2, <1>3

\* The rows after a change of the state or the ticket of some of them.
LEMMA RowsType ==
    ASSUME TypeOK, NEW state \in TradeStates, NEW ticket \in Tickets \cup {None}
    PROVE  /\ SetTicket(ticket) => rows' \subseteq Row
           /\ SetRow(state, ticket) => rows' \subseteq Row
<1>1. \A r \in rows : r \in Row /\ Transition(r.state, state) \in TradeStates
  BY TransitionType DEF TypeOK, Row
<1>2. \A r \in rows : [r EXCEPT !.ticket = ticket] \in Row
  BY <1>1 DEF Row
<1>3. \A r \in rows : [r EXCEPT !.state = Transition(r.state, state), !.ticket = ticket] \in Row
  BY <1>1 DEF Row
<1>4. SetTicket(ticket) => rows' \subseteq Row
  BY <1>1, <1>2 DEF SetTicket
<1>5. SetRow(state, ticket) => rows' \subseteq Row
  BY <1>1, <1>3 DEF SetRow
<1>6. QED
  BY <1>4, <1>5

\* The end of a tick and of an attempt at the broker.
LEMMA SendTypes ==
    ASSUME TypeOK
    PROVE  /\ EndTick => /\ at' \in Points /\ tries' \in 0 .. Attempts - 1
                         /\ cur' \in [id : Ids \cup {None}, zone : Zones \cup {None}]
           /\ NextAttempt => /\ at' \in Points /\ tries' \in 0 .. Attempts - 1
                             /\ cur' \in [id : Ids \cup {None}, zone : Zones \cup {None}]
                             /\ rows' \subseteq Row
<1>1. EndTick => /\ at' \in Points /\ tries' \in 0 .. Attempts - 1
                 /\ cur' \in [id : Ids \cup {None}, zone : Zones \cup {None}]
  BY ExecutionAssumption DEF EndTick, Points, NoDecision, None, Ids
<1>2. "REJECTED" \in TradeStates /\ None \in Tickets \cup {None}
  BY DEF TradeStates
<1>3. SetRow("REJECTED", None) => rows' \subseteq Row
  BY <1>2, RowsType
<1>4. CASE tries + 1 < Attempts
  BY <1>1, <1>4, ExecutionAssumption DEF NextAttempt, TypeOK
<1>5. CASE ~ (tries + 1 < Attempts)
  BY <1>1, <1>3, <1>5 DEF NextAttempt
<1>6. QED
  BY <1>1, <1>4, <1>5

\* A ticket the broker accepts.
LEMMA AcceptType ==
    ASSUME TypeOK, cur.id \in Ids, cur.zone \in Zones,
           NEW kind \in {"order", "position"}, Accept(kind)
    PROVE  /\ nextTicket \in Tickets /\ book' \subseteq Ticket
           /\ nextTicket' \in 1 .. MaxTickets + 1
           /\ ended' \subseteq Ids /\ deals' \subseteq Deal
BY ExecutionAssumption DEF Accept, TypeOK, Ticket, Tickets

\* While a decision is under way there is one, with a zone.
CurSet == at \in {"submit"} \cup Sends => cur \in [id : Ids, zone : Zones]

TypeInv == TypeOK /\ CurSet

LEMMA NextType == TypeInv /\ [Next]_vars => TypeInv'
<1> SUFFICES ASSUME TypeInv, [Next]_vars PROVE TypeInv'
  OBVIOUS
<1> USE ExecutionAssumption DEF TypeInv
<1>1. CASE RecoverPositions
  <2>1. rows' \subseteq Row
    <3>1. PICK inferred \in [RestorablePositions(disk) -> InferredStates] :
             rows' = {[id |-> p.id, state |-> inferred[p], ticket |-> p.ticket] :
                         p \in RestorablePositions(disk)}
      BY <1>1 DEF RecoverPositions
    <3>2. \A p \in RestorablePositions(disk) : /\ p.id \in Ids /\ p.ticket \in Tickets
                                               /\ inferred[p] \in TradeStates
      BY DEF RestorablePositions, Positions, TypeOK, Ticket, InferredStates, TradeStates
    <3>3. QED
      BY <3>1, <3>2 DEF Row
  <2>2. QED
    BY <1>1, <2>1 DEF RecoverPositions, TypeOK, CurSet, Points, broker, Sends
<1>2. CASE RecoverOrders
  <2>1. rows' \subseteq Row
    <3>1. \A o \in RestorableOrders(store, RowIds) : o.id \in Ids /\ o.ticket \in Tickets
      BY DEF RestorableOrders, Orders, TypeOK, Ticket
    <3>2. "PENDING" \in TradeStates
      BY DEF TradeStates
    <3>3. QED
      BY <1>2, <3>1, <3>2 DEF RecoverOrders, TypeOK, Row
  <2>2. nextId' \in 1 .. MaxDecisions + 1
    BY <1>2 DEF RecoverOrders, TypeOK
  <2>3. QED
    BY <1>2, <2>1, <2>2 DEF RecoverOrders, TypeOK, CurSet, Points, broker, Sends
<1>3. CASE ManageTick
  <2>1. rows' \subseteq Row
    <3>1. PICK passed \in {f \in [rows -> TradeStates] : \A r \in rows : f[r] \in AfterPass(r)} :
             rows' = Prune({[r EXCEPT !.state = passed[r]] : r \in rows})
      BY <1>3 DEF ManageTick
    <3>2. \A r \in rows : r \in Row /\ passed[r] \in TradeStates
      BY DEF TypeOK
    <3>3. \A r \in rows : [r EXCEPT !.state = passed[r]] \in Row
      BY <3>2 DEF Row
    <3>4. QED
      BY <3>1, <3>3 DEF Prune
  <2>2. /\ at' \in {"idle", "decide"} /\ lastBar' \in 0 .. MaxBars + 1
    BY <1>3 DEF ManageTick, TypeOK
  <2>3. QED
    BY <1>3, <2>1, <2>2 DEF ManageTick, TypeOK, CurSet, Points, broker, Sends
<1>4. CASE Decide
  <2>1. \/ nextId' = nextId /\ store' = store /\ disk' = disk
        \/ nextId \in Ids /\ nextId' = nextId + 1 /\ Save(nextId)
    BY <1>4 DEF Decide, TypeOK, Ids
  <2>2. /\ nextId' \in 1 .. MaxDecisions + 1 /\ store' \subseteq Ids /\ disk' \subseteq Ids
    <3>1. store' \subseteq Ids /\ disk' \subseteq Ids
      BY <2>1 DEF Save, TypeOK
    <3>2. nextId' \in 1 .. MaxDecisions + 1
      <4> HIDE DEF TypeInv
      <4>1. nextId \in 1 .. MaxDecisions + 1
        BY DEF TypeInv, TypeOK
      <4>2. nextId' = nextId \/ (nextId \in 1 .. MaxDecisions /\ nextId' = nextId + 1)
        BY <2>1 DEF Ids
      <4>3. QED
        BY <4>1, <4>2
    <3>3. QED
      BY <3>1, <3>2
  <2>3. /\ at' \in {"idle", "submit"} /\ lastLogged' \in 0 .. MaxBars + 1
    BY <1>4 DEF Decide, TypeOK
  <2>4. /\ cur' \in [id : Ids \cup {None}, zone : Zones \cup {None}]
        /\ at' = "submit" => cur' \in [id : Ids, zone : Zones]
    BY <1>4, <2>1 DEF Decide, TypeOK, Ids
  <2>5. QED
    BY <1>4, <2>2, <2>3, <2>4 DEF Decide, TypeOK, CurSet, Points, broker, Sends
<1>5. CASE Submit
  <2>1. CASE EndTick /\ UNCHANGED rows
    BY <1>5, <2>1, SendTypes DEF Submit, EndTick, TypeOK, CurSet, broker, Sends
  <2>2. CASE /\ rows' = rows \cup {[id |-> cur.id, state |-> "PENDING", ticket |-> None]}
             /\ at' \in Sends /\ UNCHANGED <<cur, tries>>
    <3>1. [id |-> cur.id, state |-> "PENDING", ticket |-> None] \in Row
      BY <1>5 DEF Submit, CurSet, Row, TradeStates
    <3>2. QED
      BY <1>5, <2>2, <3>1 DEF Submit, TypeOK, CurSet, Points, broker
  <2>3. QED
    BY <1>5, <2>1, <2>2, SubmitCases
<1>6. CASE SendAccepted \/ SendDeferred
  <2>1. cur.id \in Ids /\ cur.zone \in Zones
    BY <1>6 DEF SendAccepted, SendDeferred, CurSet, Sends
  <2>2. PICK kind \in {"order", "position"} : Accept(kind)
    BY <1>6 DEF SendAccepted, SendDeferred
  <2>3. SetRow("FILLED", nextTicket) \/ SetTicket(nextTicket)
    BY <1>6 DEF SendAccepted, SendDeferred
  <2>4. rows' \subseteq Row
    <3>1. nextTicket \in Tickets /\ "FILLED" \in TradeStates
      BY <2>2 DEF Accept, TradeStates
    <3>2. QED
      BY <2>3, <3>1, RowsType
  <2>5. EndTick /\ UNCHANGED <<store, nextId, lastBar, lastLogged, disk, bar>>
    BY <1>6 DEF SendAccepted, SendDeferred
  <2>6. QED
    BY <2>1, <2>2, <2>4, <2>5, AcceptType, SendTypes DEF TypeOK, CurSet, EndTick, Sends
<1>7. CASE SendRefused
  <2>1. rows' \subseteq Row
    BY <1>7, RowsType DEF SendRefused, TradeStates
  <2>2. QED
    BY <1>7, <2>1, SendTypes DEF SendRefused, TypeOK, CurSet, EndTick, broker, Sends
<1>8. CASE SendRetryable
  <2>1. at' \in {"submit"} \cup Sends => at' = at /\ cur' = cur
    BY <1>8 DEF SendRetryable, NextAttempt, EndTick, Sends
  <2>2. QED
    BY <1>8, <2>1, SendTypes DEF SendRetryable, TypeOK, CurSet, broker
<1>9. CASE SendUnacknowledged
  <2>1. at' \in {"submit"} \cup Sends => at' = at /\ cur' = cur
    BY <1>9 DEF SendUnacknowledged, NextAttempt, EndTick, Sends
  <2>2. PICK kind \in {"order", "position"} : Accept(kind)
    BY <1>9 DEF SendUnacknowledged
  <2>3. cur.id \in Ids /\ cur.zone \in Zones
    BY <1>9 DEF SendUnacknowledged, CurSet
  <2>4. NextAttempt /\ UNCHANGED <<store, nextId, lastBar, lastLogged, disk, bar>>
    BY <1>9 DEF SendUnacknowledged
  <2>5. QED
    BY <2>1, <2>2, <2>3, <2>4, AcceptType, SendTypes DEF TypeOK, CurSet
<1>10. CASE \E deal \in deals : OnTradeTransaction(deal)
  <2>1. PICK deal \in deals : OnTradeTransaction(deal)
    BY <1>10
  <2>2. deal.position \in Tickets
    BY DEF TypeOK, Deal
  <2>3. \A r \in rows : r \in Row /\ Transition(r.state, "FILLED") \in TradeStates
    BY TransitionType DEF TypeOK, Row, TradeStates
  <2>4. \A r \in rows :
           [r EXCEPT !.ticket = deal.position, !.state = Transition(r.state, "FILLED")] \in Row
    BY <2>2, <2>3 DEF Row
  <2>5. rows' \subseteq Row
    BY <2>1, <2>3, <2>4 DEF OnTradeTransaction, MarkFilled
  <2>6. QED
    BY <2>1, <2>5 DEF OnTradeTransaction, TypeOK, CurSet
<1>11. CASE \E o \in book : FillOrder(o)
  <2>1. PICK o \in book, k \in Tickets :
           /\ book' = (book \ {o}) \cup {[o EXCEPT !.kind = "position", !.ticket = k]}
           /\ nextTicket' = IF k = nextTicket THEN nextTicket + 1 ELSE nextTicket
           /\ deals' = IF at = "down" THEN deals
                       ELSE deals \cup {[order |-> o.ticket, position |-> k]}
    BY <1>11 DEF FillOrder
  <2>2. o \in Ticket /\ [o EXCEPT !.kind = "position", !.ticket = k] \in Ticket
    BY DEF TypeOK, Ticket
  <2>3. book' \subseteq Ticket
    BY <2>1, <2>2 DEF TypeOK
  <2>4. [order |-> o.ticket, position |-> k] \in Deal
    BY <2>2 DEF Deal, Ticket
  <2>5. deals' \subseteq Deal
    BY <2>1, <2>4 DEF TypeOK
  <2>6. nextTicket' \in 1 .. MaxTickets + 1
    BY <2>1 DEF TypeOK, Tickets
  <2>7. UNCHANGED <<ea, disk, ended, bar>>
    BY <1>11 DEF FillOrder
  <2>8. QED
    BY <2>3, <2>5, <2>6, <2>7 DEF TypeOK, CurSet, ea
<1>12. CASE \E t \in book : EndTicket(t)
  BY <1>12 DEF EndTicket, TypeOK, CurSet, Ticket, ea
<1>13. CASE NewBar
  BY <1>13 DEF NewBar, TypeOK, CurSet, ea, broker
<1>14. CASE Crash \/ Reinit
  <2>1. Forget /\ nextId' \in {nextId, 1} /\ lastBar' \in {lastBar, None}
               /\ lastLogged' \in {lastLogged, None}
    BY <1>14 DEF Crash, Reinit
  <2>2. cur' \in [id : Ids \cup {None}, zone : Zones \cup {None}]
    BY <2>1 DEF Forget, NoDecision
  <2>3. nextId' \in 1 .. MaxDecisions + 1
    BY <2>1 DEF TypeOK
  <2>4. QED
    BY <2>1, <2>2, <2>3 DEF Forget, TypeOK, CurSet, Points, None, Sends
<1>15. CASE UNCHANGED vars
  BY <1>15 DEF vars, ea, broker, TypeOK, CurSet
<1>16. QED
  BY <1>1, <1>2, <1>3, <1>4, <1>5, <1>6, <1>7, <1>8, <1>9, <1>10, <1>11, <1>12,
     <1>13, <1>14, <1>15 DEF Next, EAStep, Environment

\* Type correctness of the execution path.
THEOREM TypeCorrect == Spec => []TypeOK
<1>1. Init => TypeInv
  BY InitType DEF Init, CurSet, TypeInv, Sends
<1>2. TypeInv /\ [Next]_vars => TypeInv'
  BY NextType
<1>3. TypeInv => TypeOK
  BY DEF TypeInv
<1>4. QED
  BY <1>1, <1>2, <1>3, PTL DEF Spec
-----------------------------------------------------------------------------
(* One row per decision.  A restart picks the first position and the first  *)
(* order of a decision by its ticket, so that tickets must be told apart:   *)
(* the broker never gives one twice.                                        *)

TicketsUnique ==
    /\ \A t \in book : t.ticket < nextTicket
    /\ \A t, u \in book : t.ticket = u.ticket => t = u

LEMMA AcceptUnique ==
    ASSUME TypeOK, TicketsUnique, NEW kind, Accept(kind)
    PROVE  TicketsUnique'
<1>1. /\ nextTicket \in Nat /\ nextTicket' = nextTicket + 1
      /\ \A t \in book : t.ticket \in Nat
      /\ book' = book \cup {[ticket |-> nextTicket, id |-> cur.id,
                             zone |-> cur.zone, kind |-> kind]}
  BY DEF Accept, TypeOK, Ticket, Tickets
<1>2. QED
  BY <1>1 DEF TicketsUnique

LEMMA FillUnique ==
    ASSUME TypeOK, TicketsUnique, NEW o \in book, FillOrder(o)
    PROVE  TicketsUnique'
<1>1. PICK k \in {o.ticket, nextTicket} \cap Tickets :
         /\ book' = (book \ {o}) \cup {[o EXCEPT !.kind = "position", !.ticket = k]}
         /\ nextTicket' = IF k = nextTicket THEN nextTicket + 1 ELSE nextTicket
  BY DEF FillOrder
<1>2. nextTicket \in Nat /\ \A t \in book : t.ticket \in Nat /\ t \in Ticket
  BY DEF TypeOK, Ticket, Tickets
<1>3. [o EXCEPT !.kind = "position", !.ticket = k].ticket = k
  BY <1>2 DEF Ticket
<1>4. \A t \in book \ {o} : t.ticket # k /\ t.ticket < nextTicket
  BY <1>1, <1>2 DEF TicketsUnique
<1>5. k < nextTicket'
  BY <1>1, <1>2 DEF TicketsUnique
<1>6. nextTicket' >= nextTicket /\ nextTicket' \in Nat
  BY <1>1, <1>2
<1>7. \A t \in book' : t \in book \ {o} \/ t = [o EXCEPT !.kind = "position", !.ticket = k]
  BY <1>1
<1>8. \A t \in book' : t.ticket < nextTicket'
  <2>1. \A t \in book \ {o} : t.ticket < nextTicket'
    BY <1>2, <1>4, <1>6
  <2>2. QED
    BY <1>3, <1>5, <1>7, <2>1
<1>9. \A t, u \in book' : t.ticket = u.ticket => t = u
  BY <1>3, <1>4, <1>7 DEF TicketsUnique
<1>10. QED
  BY <1>8, <1>9 DEF TicketsUnique

\* Rows that are changed one by one, without their ids, stay one per decision.
LEMMA ImageUnique ==
    ASSUME RowPerDecision,
           NEW changed, \A r \in rows : changed[r].id = r.id,
           rows' \subseteq {changed[r] : r \in rows}
    PROVE  RowPerDecision'
BY DEF RowPerDecision

\* Setting a state or a ticket leaves every row its id.
LEMMA SetUnique ==
    ASSUME TypeOK, RowPerDecision, NEW state, NEW ticket,
           SetTicket(ticket) \/ SetRow(state, ticket)
    PROVE  RowPerDecision'
<1>1. \A r \in rows : r \in Row
  BY DEF TypeOK
<1>2. CASE SetTicket(ticket)
  <2> DEFINE changed == [r \in rows |-> IF r.id = cur.id THEN [r EXCEPT !.ticket = ticket] ELSE r]
  <2>1. \A r \in rows : changed[r].id = r.id
    BY <1>1 DEF Row
  <2>2. rows' \subseteq {changed[r] : r \in rows}
    BY <1>2 DEF SetTicket
  <2> HIDE DEF changed
  <2>3. QED
    BY <2>1, <2>2, ImageUnique
<1>3. CASE SetRow(state, ticket)
  <2> DEFINE changed == [r \in rows |->
                 IF r.id = cur.id
                 THEN [r EXCEPT !.state = Transition(r.state, state), !.ticket = ticket]
                 ELSE r]
  <2>1. \A r \in rows : changed[r].id = r.id
    BY <1>1 DEF Row
  <2>2. rows' \subseteq {changed[r] : r \in rows}
    BY <1>3 DEF SetRow
  <2> HIDE DEF changed
  <2>3. QED
    BY <2>1, <2>2, ImageUnique
<1>4. QED
  BY <1>2, <1>3

LEMMA FilledUnique ==
    ASSUME TypeOK, RowPerDecision, NEW deal, MarkFilled(deal)
    PROVE  RowPerDecision'
<1> DEFINE changed == [r \in rows |->
               IF r.state = "PENDING" /\ r.ticket = deal.order
               THEN [r EXCEPT !.ticket = deal.position, !.state = Transition(r.state, "FILLED")]
               ELSE r]
<1>1. \A r \in rows : changed[r].id = r.id
  BY DEF TypeOK, Row
<1>2. rows' \subseteq {changed[r] : r \in rows}
  BY DEF MarkFilled
<1> HIDE DEF changed
<1>3. QED
  BY <1>1, <1>2, ImageUnique

RowInv == TypeInv /\ TicketsUnique /\ RowPerDecision

LEMMA NextUnique ==
    ASSUME RowInv, [Next]_vars
    PROVE  TicketsUnique' /\ RowPerDecision'
<1> USE DEF RowInv, TypeInv
<1>1. CASE RecoverPositions
  <2>1. PICK inferred \in [RestorablePositions(disk) -> InferredStates] :
           rows' = {[id |-> p.id, state |-> inferred[p], ticket |-> p.ticket] :
                       p \in RestorablePositions(disk)}
    BY <1>1 DEF RecoverPositions
  <2>2. \A p, q \in RestorablePositions(disk) : p.id = q.id => p = q
    <3>1. \A p \in RestorablePositions(disk) : p \in book /\ p.ticket \in Nat
      BY DEF RestorablePositions, Positions, TypeOK, Ticket, Tickets
    <3>2. \A p, q \in RestorablePositions(disk) :
             p.id = q.id => p.ticket <= q.ticket /\ q.ticket <= p.ticket
      BY DEF RestorablePositions
    <3>3. QED
      BY <3>1, <3>2 DEF TicketsUnique
  <2>3. RowPerDecision'
    BY <2>1, <2>2 DEF RowPerDecision
  <2>4. QED
    BY <1>1, <2>3 DEF RecoverPositions, broker, TicketsUnique
<1>2. CASE RecoverOrders
  <2>1. \A o \in RestorableOrders(store, RowIds) : o.id \notin RowIds
    BY DEF RestorableOrders
  <2>2. \A o, q \in RestorableOrders(store, RowIds) : o.id = q.id => o = q
    <3>1. \A o \in RestorableOrders(store, RowIds) : o \in book /\ o.ticket \in Nat
      BY DEF RestorableOrders, Orders, TypeOK, Ticket, Tickets
    <3>2. \A o, q \in RestorableOrders(store, RowIds) :
             o.id = q.id => o.ticket <= q.ticket /\ q.ticket <= o.ticket
      BY DEF RestorableOrders
    <3>3. QED
      BY <3>1, <3>2 DEF TicketsUnique
  <2>3. rows' = rows \cup {[id |-> o.id, state |-> "PENDING", ticket |-> o.ticket] :
                              o \in RestorableOrders(store, RowIds)}
    BY <1>2 DEF RecoverOrders
  <2>4. RowPerDecision'
    <3>1. \A r \in rows' : \/ r \in rows
                           \/ \E o \in RestorableOrders(store, RowIds) :
                                r = [id |-> o.id, state |-> "PENDING", ticket |-> o.ticket]
      BY <2>3
    <3>2. \A r \in rows : r.id \in RowIds
      BY DEF RowIds
    <3>3. QED
      BY <2>1, <2>2, <3>1, <3>2 DEF RowPerDecision
  <2>5. QED
    BY <1>2, <2>4 DEF RecoverOrders, broker, TicketsUnique
<1>3. CASE ManageTick
  <2>1. PICK passed \in {f \in [rows -> TradeStates] : \A r \in rows : f[r] \in AfterPass(r)} :
           rows' = Prune({[r EXCEPT !.state = passed[r]] : r \in rows})
    BY <1>3 DEF ManageTick
  <2> DEFINE changed == [r \in rows |-> [r EXCEPT !.state = passed[r]]]
  <2>2. \A r \in rows : changed[r].id = r.id
    BY DEF TypeOK, Row
  <2>3. RowPerDecision'
    <3>1. rows' \subseteq {changed[r] : r \in rows}
      BY <2>1 DEF Prune
    <3> HIDE DEF changed
    <3>2. QED
      BY <2>2, <3>1, ImageUnique
  <2>4. QED
    BY <1>3, <2>3 DEF ManageTick, broker, TicketsUnique
<1>4. CASE Decide
  BY <1>4 DEF Decide, broker, TicketsUnique, RowPerDecision
<1>5. CASE Submit
  <2>1. \/ rows' = rows
        \/ /\ cur.id \notin RowIds
           /\ rows' = rows \cup {[id |-> cur.id, state |-> "PENDING", ticket |-> None]}
    BY <1>5, SubmitCases DEF MaySubmit
  <2>2. RowPerDecision'
    BY <2>1 DEF RowPerDecision, RowIds
  <2>3. QED
    BY <1>5, <2>2 DEF Submit, broker, TicketsUnique
<1>6. CASE SendAccepted \/ SendDeferred
  <2>1. TicketsUnique'
    BY <1>6, AcceptUnique DEF SendAccepted, SendDeferred
  <2>2. RowPerDecision'
    <3>1. SetRow("FILLED", nextTicket) \/ SetTicket(nextTicket)
      BY <1>6 DEF SendAccepted, SendDeferred
    <3>2. QED
      BY <3>1, SetUnique
  <2>3. QED
    BY <2>1, <2>2
<1>7. CASE SendRefused \/ SendRetryable \/ SendUnacknowledged
  <2>1. TicketsUnique'
    BY <1>7, AcceptUnique DEF SendRefused, SendRetryable, SendUnacknowledged, broker, TicketsUnique
  <2>2. rows' = rows \/ SetRow("REJECTED", None)
    BY <1>7 DEF SendRefused, SendRetryable, SendUnacknowledged, NextAttempt
  <2>3. RowPerDecision'
    BY <2>2, SetUnique DEF RowPerDecision
  <2>4. QED
    BY <2>1, <2>3
<1>8. CASE \E deal \in deals : OnTradeTransaction(deal)
  <2>1. PICK deal \in deals : OnTradeTransaction(deal)
    BY <1>8
  <2>2. RowPerDecision'
    BY <2>1, FilledUnique DEF OnTradeTransaction
  <2>3. QED
    BY <2>1, <2>2 DEF OnTradeTransaction, TicketsUnique
<1>9. CASE \E o \in book : FillOrder(o)
  BY <1>9, FillUnique DEF FillOrder, ea, RowPerDecision
<1>10. CASE \E t \in book : EndTicket(t)
  BY <1>10 DEF EndTicket, ea, RowPerDecision, TicketsUnique
<1>11. CASE NewBar
  BY <1>11 DEF NewBar, ea, broker, RowPerDecision, TicketsUnique
<1>12. CASE Crash \/ Reinit
  BY <1>12 DEF Crash, Reinit, Forget, RowPerDecision, TicketsUnique
<1>13. CASE UNCHANGED vars
  BY <1>13 DEF vars, ea, broker, RowPerDecision, TicketsUnique
<1>14. QED
  BY <1>1, <1>2, <1>3, <1>4, <1>5, <1>6, <1>7, <1>8, <1>9, <1>10, <1>11, <1>12,
     <1>13 DEF Next, EAStep, Environment

\* COrderManager never manages one decision twice, whatever the environment
\* does (every fault is admitted).
THEOREM OneRowPerDecision == Spec => []RowPerDecision
<1>1. Init => RowInv
  BY InitType DEF Init, CurSet, TypeInv, RowInv, TicketsUnique, RowPerDecision, Sends
<1>2. RowInv /\ [Next]_vars => RowInv'
  BY NextType, NextUnique DEF RowInv
<1>3. RowInv => RowPerDecision
  BY DEF RowInv
<1>4. QED
  BY <1>1, <1>2, <1>3, PTL DEF Spec
-----------------------------------------------------------------------------
(* No id is issued twice, provided the store reaches the disk.  The ids of   *)
(* the broker's tickets are then among the store's, because OnTick saves a   *)
(* decision before it submits it, and a restart counts on from the store.    *)

IdsInv ==
    /\ {t.id : t \in book} \subseteq disk
    /\ at \in {"submit"} \cup Sends => cur.id \in disk
    /\ at # "down" => store = disk
    /\ at \notin {"down", "orders"} => \A d \in disk : d < nextId

LEMMA InitIds == Init => IdsInv
BY DEF Init, IdsInv, Sends

\* Save() keeps the file and the memory alike, and puts the new id in both.
LEMMA SaveKeeps ==
    ASSUME "diskFull" \notin Faults, store = disk, NEW id, Save(id)
    PROVE  store' = disk' /\ disk' = disk \cup {id}
BY DEF Save

LEMMA NextIds ==
    ASSUME "diskFull" \notin Faults, TypeInv, IdsInv, [Next]_vars
    PROVE  IdsInv'
<1> USE DEF TypeInv
<1>1. CASE RecoverPositions
  BY <1>1 DEF RecoverPositions, IdsInv, broker, Sends
<1>2. CASE RecoverOrders
  <2>1. PICK n \in 1 .. MaxDecisions + 1 :
           IsSeed(n, store) /\ nextId' = IF n > nextId THEN n ELSE nextId
    BY <1>2 DEF RecoverOrders
  <2>2. \A d \in store : d < nextId'
    BY <2>1, ExecutionAssumption DEF IsSeed, TypeOK, Ids
  <2>3. QED
    BY <1>2, <2>2 DEF RecoverOrders, IdsInv, broker, Sends
<1>3. CASE ManageTick
  <2>1. at = "idle" /\ at' \in {"idle", "decide"}
    BY <1>3 DEF ManageTick
  <2>2. UNCHANGED <<store, nextId, disk, book>>
    BY <1>3 DEF ManageTick, broker
  <2>3. QED
    BY <2>1, <2>2 DEF IdsInv, Sends
<1>4. CASE Decide
  <2>1. at = "decide" /\ at' \in {"idle", "submit"} /\ book' = book
    BY <1>4 DEF Decide, broker
  <2>2. CASE at' = "idle" /\ UNCHANGED <<store, nextId, disk>>
    BY <2>1, <2>2 DEF IdsInv, Sends
  <2>3. CASE /\ nextId' = nextId + 1 /\ Save(nextId)
             /\ at' = "submit" => cur'.id = nextId
    <3>1. store' = disk' /\ disk' = disk \cup {nextId}
      BY <2>1, <2>3, SaveKeeps DEF IdsInv
    <3>2. \A d \in disk' : d < nextId'
      BY <2>1, <2>3, <3>1, ExecutionAssumption DEF IdsInv, TypeOK, Ids
    <3>3. QED
      BY <2>1, <2>3, <3>1, <3>2 DEF IdsInv, Sends
  <2>4. QED
    BY <1>4, <2>2, <2>3 DEF Decide
<1>5. CASE Submit
  <2>1. at = "submit" /\ at' \in {"idle"} \cup Sends /\ (at' \in Sends => cur' = cur)
    BY <1>5, SubmitCases DEF Submit, EndTick, Sends
  <2>2. QED
    BY <1>5, <2>1 DEF Submit, IdsInv, EndTick, broker, Sends
<1>6. CASE \/ SendAccepted \/ SendDeferred \/ SendRefused
           \/ SendRetryable \/ SendUnacknowledged
  <2>1. /\ at \in Sends /\ at' \in {"idle"} \cup Sends /\ (at' \in Sends => cur' = cur)
        /\ UNCHANGED <<store, nextId, disk>>
    BY <1>6 DEF SendAccepted, SendDeferred, SendRefused, SendRetryable,
                SendUnacknowledged, NextAttempt, EndTick, Sends
  <2>2. book' = book \/ \E kind : Accept(kind)
    BY <1>6 DEF SendAccepted, SendDeferred, SendRefused, SendRetryable,
                SendUnacknowledged, broker
  <2>3. {t.id : t \in book'} \subseteq {t.id : t \in book} \cup {cur.id}
    <3>1. \A t \in book' : t \in book \/ t.id = cur.id
      BY <2>2 DEF Accept
    <3>2. QED
      BY <3>1
  <2>4. QED
    BY <2>1, <2>3 DEF IdsInv, Sends
<1>7. CASE \E deal \in deals : OnTradeTransaction(deal)
  BY <1>7 DEF OnTradeTransaction, IdsInv
<1>8. CASE \E o \in book : FillOrder(o)
  <2>1. PICK o \in book, k \in Tickets :
           book' = (book \ {o}) \cup {[o EXCEPT !.kind = "position", !.ticket = k]}
    BY <1>8 DEF FillOrder
  <2>2. [o EXCEPT !.kind = "position", !.ticket = k].id = o.id
    BY DEF TypeOK, Ticket
  <2>3. {t.id : t \in book'} \subseteq {t.id : t \in book}
    BY <2>1, <2>2
  <2>4. QED
    BY <1>8, <2>3 DEF FillOrder, ea, IdsInv
<1>9. CASE \E t \in book : EndTicket(t)
  BY <1>9 DEF EndTicket, ea, IdsInv
<1>10. CASE NewBar
  BY <1>10 DEF NewBar, ea, broker, IdsInv
<1>11. CASE Crash \/ Reinit
  BY <1>11 DEF Crash, Reinit, Forget, IdsInv, Sends
<1>12. CASE UNCHANGED vars
  BY <1>12 DEF vars, ea, broker, IdsInv
<1>13. QED
  BY <1>1, <1>2, <1>3, <1>4, <1>5, <1>6, <1>7, <1>8, <1>9, <1>10, <1>11, <1>12
     DEF Next, EAStep, Environment

\* "A fresh EA instance must never reissue an ID": it does not, as long as every
\* append to the decisions file succeeds.
THEOREM IdsNeverReissued ==
    ASSUME "diskFull" \notin Faults
    PROVE  Spec => []IdsBelowNext
<1>1. Init => TypeInv /\ IdsInv
  BY InitType, InitIds DEF Init, CurSet, TypeInv, Sends
<1>2. TypeInv /\ IdsInv /\ [Next]_vars => (TypeInv /\ IdsInv)'
  BY NextType, NextIds
<1>3. TypeInv /\ IdsInv => IdsBelowNext
  BY DEF IdsInv, IdsBelowNext
<1>4. QED
  BY <1>1, <1>2, <1>3, PTL DEF Spec
-----------------------------------------------------------------------------
(* With a file that may refuse an append, memory still knows every decision  *)
(* of the file, and the counter is past whatever memory knows: Save() adds   *)
(* to memory before it writes, and OnInit() seeds from what it has read.     *)

RecordedInv ==
    /\ at # "down" => disk \subseteq store
    /\ at \notin {"down", "orders"} => \A d \in store : d < nextId

LEMMA NextRecorded ==
    ASSUME TypeInv, RecordedInv, [Next]_vars
    PROVE  RecordedInv'
<1> USE DEF TypeInv
<1>1. CASE RecoverPositions
  BY <1>1 DEF RecoverPositions, RecordedInv
<1>2. CASE RecoverOrders
  <2>1. PICK n \in 1 .. MaxDecisions + 1 :
           IsSeed(n, store) /\ nextId' = IF n > nextId THEN n ELSE nextId
    BY <1>2 DEF RecoverOrders
  <2>2. \A d \in store : d < nextId'
    BY <2>1, ExecutionAssumption DEF IsSeed, TypeOK, Ids
  <2>3. QED
    BY <1>2, <2>2 DEF RecoverOrders, RecordedInv
<1>3. CASE ManageTick
  BY <1>3 DEF ManageTick, RecordedInv
<1>4. CASE Decide
  <2>1. at = "decide"
    BY <1>4 DEF Decide
  <2>2. CASE UNCHANGED <<store, nextId, disk>>
    BY <2>1, <2>2 DEF RecordedInv
  <2>3. CASE nextId' = nextId + 1 /\ Save(nextId)
    <3>1. store' = store \cup {nextId} /\ disk' \subseteq disk \cup {nextId}
      BY <2>3 DEF Save
    <3>2. \A d \in store' : d < nextId'
      BY <2>1, <2>3, <3>1, ExecutionAssumption DEF RecordedInv, TypeOK, Ids
    <3>3. QED
      BY <2>1, <3>1, <3>2 DEF RecordedInv
  <2>4. QED
    BY <1>4, <2>2, <2>3 DEF Decide
<1>5. CASE Submit
  BY <1>5, SubmitCases DEF Submit, RecordedInv, EndTick, broker
<1>6. CASE \/ SendAccepted \/ SendDeferred \/ SendRefused
           \/ SendRetryable \/ SendUnacknowledged
  BY <1>6 DEF SendAccepted, SendDeferred, SendRefused, SendRetryable,
              SendUnacknowledged, Sends, RecordedInv
<1>7. CASE \E deal \in deals : OnTradeTransaction(deal)
  BY <1>7 DEF OnTradeTransaction, RecordedInv
<1>8. CASE Environment
  BY <1>8 DEF Environment, FillOrder, EndTicket, NewBar, Crash, Reinit, Forget,
              ea, RecordedInv
<1>9. CASE UNCHANGED vars
  BY <1>9 DEF vars, ea, RecordedInv
<1>10. QED
  BY <1>1, <1>2, <1>3, <1>4, <1>5, <1>6, <1>7, <1>8, <1>9 DEF Next, EAStep

\* An id that reached the decisions file is never issued again, whatever the
\* environment does and however many appends fail.
THEOREM RecordedNeverReissued == Spec => []ReissuedOnlyIfUnsaved
<1>1. Init => TypeInv /\ RecordedInv
  BY InitType DEF Init, CurSet, TypeInv, Sends, RecordedInv
<1>2. TypeInv /\ RecordedInv /\ [Next]_vars => (TypeInv /\ RecordedInv)'
  BY NextType, NextRecorded
<1>3. TypeInv /\ RecordedInv => ReissuedOnlyIfUnsaved
  BY DEF RecordedInv, ReissuedOnlyIfUnsaved
<1>4. QED
  BY <1>1, <1>2, <1>3, PTL DEF Spec
-----------------------------------------------------------------------------
(* A decision holds one ticket at most.  Its id is new to the disk when it   *)
(* is decided, hence new to the broker and to what has ended; and a request  *)
(* that was executed ends the tick, unless its acknowledgement is lost.      *)
(* Neither a request that is deferred nor a fill while OnInit runs opens a   *)
(* second one.                                                               *)

\* The decision in hand has no ticket yet.
NothingSentYet == at \in {"submit"} \cup Sends => \A t \in book : t.id # cur.id

OnceInv == TypeInv /\ IdsInv /\ OneTicketPerDecision /\ NothingSentYet

LEMMA NextOnce ==
    ASSUME Faults \cap {"unacknowledged", "diskFull"} = {}, OnceInv, [Next]_vars
    PROVE  OneTicketPerDecision' /\ NothingSentYet'
<1> USE DEF OnceInv
<1>1. CASE Decide
  <2>1. book' = book /\ at = "decide" /\ (at' \in {"submit"} \cup Sends => cur'.id = nextId)
    BY <1>1 DEF Decide, broker, Sends
  <2>2. \A t \in book : t.id # nextId
    BY <2>1 DEF IdsInv, TypeInv, TypeOK, Ids
  <2>3. QED
    BY <2>1, <2>2 DEF OneTicketPerDecision, NothingSentYet
<1>2. CASE SendAccepted \/ SendDeferred
  <2>1. at \in Sends /\ at' = "idle" /\ \E kind : Accept(kind)
    BY <1>2 DEF SendAccepted, SendDeferred, EndTick, Sends
  <2>2. PICK n : book' = book \cup {n} /\ n.id = cur.id
    <3>1. PICK kind : Accept(kind)
      BY <2>1
    <3>2. LET n == [ticket |-> nextTicket, id |-> cur.id, zone |-> cur.zone, kind |-> kind]
          IN  book' = book \cup {n} /\ n.id = cur.id
      BY <3>1 DEF Accept
    <3>3. QED
      BY <3>2
  <2>3. \A t \in book : t.id # n.id
    BY <2>1, <2>2 DEF NothingSentYet
  <2>4. OneTicketPerDecision'
    BY <2>2, <2>3 DEF OneTicketPerDecision
  <2>5. QED
    BY <2>1, <2>4 DEF NothingSentYet, Sends
<1>3. CASE \E o \in book : FillOrder(o)
  <2>1. PICK o \in book, k \in Tickets :
           book' = (book \ {o}) \cup {[o EXCEPT !.kind = "position", !.ticket = k]}
    BY <1>3 DEF FillOrder
  <2>2. PICK n : book' = (book \ {o}) \cup {n} /\ n.id = o.id
    <3>1. LET n == [o EXCEPT !.kind = "position", !.ticket = k]
          IN  book' = (book \ {o}) \cup {n} /\ n.id = o.id
      BY <2>1 DEF TypeInv, TypeOK, Ticket
    <3>2. QED
      BY <3>1
  <2>3. UNCHANGED <<at, cur>>
    BY <1>3 DEF FillOrder, ea
  <2>4. OneTicketPerDecision'
    BY <2>2 DEF OneTicketPerDecision
  <2>5. NothingSentYet'
    BY <2>2, <2>3 DEF NothingSentYet
  <2>6. QED
    BY <2>4, <2>5
<1>4. CASE \E t \in book : EndTicket(t)
  BY <1>4 DEF EndTicket, ea, OneTicketPerDecision, NothingSentYet
<1>5. CASE \/ RecoverPositions \/ RecoverOrders \/ ManageTick \/ Submit \/ SendRefused
           \/ SendRetryable \/ (\E deal \in deals : OnTradeTransaction(deal))
           \/ NewBar \/ Crash \/ Reinit \/ UNCHANGED vars
  <2>1. /\ UNCHANGED book
        /\ at' \in {"submit"} \cup Sends => cur' = cur /\ at \in {"submit"} \cup Sends
    BY <1>5 DEF RecoverPositions, RecoverOrders, ManageTick, Submit, SendRefused,
                SendRetryable, NextAttempt, EndTick, OnTradeTransaction, NewBar, Crash,
                Reinit, Forget, vars, ea, broker, Sends
  <2>2. QED
    BY <2>1 DEF OneTicketPerDecision, NothingSentYet
<1>6. CASE SendUnacknowledged
  BY <1>6 DEF SendUnacknowledged
<1>7. QED
  BY <1>1, <1>2, <1>3, <1>4, <1>5, <1>6 DEF Next, EAStep, Environment

LEMMA OnceInvariant ==
    ASSUME Faults \cap {"unacknowledged", "diskFull"} = {}
    PROVE  Spec => []OnceInv
<1>1. Init => OnceInv
  BY InitType, InitIds DEF Init, CurSet, TypeInv, OnceInv, OneTicketPerDecision, NothingSentYet,
     Sends
<1>2. OnceInv /\ [Next]_vars => OnceInv'
  BY NextType, NextIds, NextOnce DEF OnceInv
<1>3. QED
  BY <1>1, <1>2, PTL DEF Spec

\* A decision holds one ticket at most, if every acknowledgement arrives and the
\* decisions file can be written: each of the two is needed.
THEOREM NoSecondTicket ==
    ASSUME Faults \cap {"unacknowledged", "diskFull"} = {}
    PROVE  Spec => []OneTicketPerDecision
<1>1. OnceInv => OneTicketPerDecision
  BY DEF OnceInv
<1>2. QED
  BY <1>1, OnceInvariant, PTL
-----------------------------------------------------------------------------
(* Nothing at the broker is out of the EA's sight.  This holds in an         *)
(* environment without the faults of FaultKinds; the runs show what each of  *)
(* them breaks.  The argument: ids are not issued twice, so a decision has   *)
(* one ticket at most; a restart therefore restores every ticket, and a      *)
(* running EA keeps a row, or has a deal coming, for every ticket.           *)

DealsApart ==
    /\ \A e \in deals : /\ e.order < nextTicket
                        /\ \A o \in Orders : o.ticket # e.order
    /\ \A e, f \in deals : e.order = f.order => e = f

\* Between the two loops of Recover().
HalfRestored ==
    at = "orders" =>
        /\ \A p \in Positions : \E r \in rows : r.ticket = p.ticket /\ r.state \in ManagedStates
        /\ \A r \in rows, o \in Orders : r.id # o.id

\* Submit() works on a decision without a ticket, on a pending row without one.
SubmitsOnce ==
    /\ NothingSentYet
    /\ at \in Sends => \E r \in rows : /\ r.id = cur.id /\ r.state = "PENDING"
                                     /\ r.ticket = None

WatchInv ==
    /\ RowInv /\ IdsInv
    /\ OneTicketPerDecision /\ DealsApart /\ HalfRestored /\ SubmitsOnce
    /\ NothingUnwatched

\* What keeps a ticket in sight: its pending row stays pending, its managed row
\* stays managed, and no deal is lost.
LEMMA WatchedStays ==
    ASSUME TypeOK, NEW t \in Ticket, Watched(t), deals \subseteq deals',
           \A r \in rows : r.state = "PENDING" /\ r.ticket # None =>
              \E s \in rows' : s.ticket = r.ticket /\ s.state = "PENDING",
           \A r \in rows : t.kind = "position" /\ r.ticket = t.ticket /\ r.state \in ManagedStates =>
              \E s \in rows' : s.ticket = r.ticket /\ s.state \in ManagedStates
    PROVE  Watched(t)'
<1>1. t.ticket # None /\ \A e \in deals : e.order # None
  BY DEF TypeOK, Ticket, Deal, Tickets, None
<1>2. QED
  BY <1>1 DEF Watched

\* A pass of the position manager leaves pending rows alone and goes on managing
\* what is open.
LEMMA PassKeeps ==
    ASSUME NEW r \in Row, NEW state \in AfterPass(r)
    PROVE  /\ r.state = "PENDING" => state = "PENDING"
           /\ r.state \in ManagedStates /\ (\E p \in Positions : p.ticket = r.ticket)
                => state \in ManagedStates
<1>1. /\ Transition("FILLED", "PROTECTED") = "PROTECTED"
      /\ Transition("PROTECTED", "PARTIAL") = "PARTIAL"
      /\ Transition("PARTIAL", "RUNNER") = "RUNNER"
  BY DEF Transition, LegalMoves
<1>2. CASE r.state \notin ManagedStates
  BY <1>2 DEF AfterPass
<1>3. CASE r.state \in ManagedStates /\ r.ticket \in {p.ticket : p \in Positions}
  <2>1. AfterPass(r) = CASE r.state = "FILLED"    -> {"FILLED", "PROTECTED"}
                         [] r.state = "PROTECTED" -> {"PROTECTED", "PARTIAL"}
                         [] r.state = "PARTIAL"   -> {"PARTIAL", "RUNNER"}
                         [] r.state = "RUNNER"    -> {"RUNNER"}
    BY <1>1, <1>3 DEF AfterPass
  <2>2. r.state \in {"FILLED", "PROTECTED", "PARTIAL", "RUNNER"}
    BY <1>3 DEF ManagedStates
  <2>3. state \in ManagedStates
    BY <2>1, <2>2 DEF ManagedStates
  <2>4. QED
    BY <1>3, <2>3 DEF ManagedStates
<1>4. CASE r.state \in ManagedStates /\ r.ticket \notin {p.ticket : p \in Positions}
  BY <1>4 DEF ManagedStates
<1>5. QED
  BY <1>2, <1>3, <1>4

LEMMA RestoredInSight ==
    ASSUME WatchInv, RecoverPositions \/ RecoverOrders
    PROVE  HalfRestored' /\ NothingUnwatched'
<1> USE DEF WatchInv, RowInv, TypeInv
<1>1. \A t \in book : t.id \in disk /\ t.ticket \in Nat /\ \A u \in book : u.id = t.id => u = t
  BY DEF IdsInv, OneTicketPerDecision, TypeOK, Ticket, Tickets
<1>2. CASE RecoverPositions
  <2>1. PICK inferred \in [RestorablePositions(disk) -> InferredStates] :
           rows' = {[id |-> p.id, state |-> inferred[p], ticket |-> p.ticket] :
                       p \in RestorablePositions(disk)}
    BY <1>2 DEF RecoverPositions
  <2>2. Positions' = Positions /\ Orders' = Orders /\ at' = "orders"
    BY <1>2 DEF RecoverPositions, broker, Positions, Orders
  <2>3. \A p \in Positions : p \in RestorablePositions(disk)
    BY <1>1 DEF RestorablePositions, Positions
  <2>4. \A p \in Positions : \E r \in rows' : r.ticket = p.ticket /\ r.state \in ManagedStates
    <3>1. SUFFICES ASSUME NEW p \in Positions
                   PROVE  \E r \in rows' : r.ticket = p.ticket /\ r.state \in ManagedStates
      OBVIOUS
    <3>2. [id |-> p.id, state |-> inferred[p], ticket |-> p.ticket] \in rows'
      BY <2>1, <2>3
    <3>3. inferred[p] \in ManagedStates
      BY <2>3 DEF InferredStates, ManagedStates
    <3>4. QED
      BY <3>2, <3>3
  <2>5. \A r \in rows', o \in Orders : r.id # o.id
    <3>1. \A r \in rows' : \E p \in Positions : r.id = p.id
      BY <2>1 DEF RestorablePositions
    <3>2. QED
      BY <1>1, <3>1 DEF Positions, Orders
  <2>6. QED
    BY <2>2, <2>4, <2>5 DEF HalfRestored, NothingUnwatched
<1>3. CASE RecoverOrders
  <2>1. /\ at = "orders" /\ at' = "idle" /\ book' = book /\ store = disk
        /\ rows' = rows \cup {[id |-> o.id, state |-> "PENDING", ticket |-> o.ticket] :
                                 o \in RestorableOrders(store, RowIds)}
    BY <1>3 DEF RecoverOrders, broker, IdsInv
  <2>2. \A p \in Positions : Watched(p)'
    BY <2>1 DEF HalfRestored, Watched, Positions
  <2>3. \A o \in Orders : o \in RestorableOrders(store, RowIds)
    BY <1>1, <2>1 DEF HalfRestored, RestorableOrders, Orders, RowIds
  <2>4. \A o \in Orders : Watched(o)'
    <3>1. \A o \in Orders :
             [id |-> o.id, state |-> "PENDING", ticket |-> o.ticket] \in rows'
      BY <2>1, <2>3
    <3>2. QED
      BY <3>1 DEF Watched, Orders
  <2>5. \A t \in book : t \in Positions \/ t \in Orders
    BY DEF Positions, Orders, TypeOK, Ticket
  <2>6. QED
    BY <2>1, <2>2, <2>4, <2>5 DEF HalfRestored, NothingUnwatched
<1>4. QED
  BY <1>2, <1>3

LEMMA ManagedInSight ==
    ASSUME WatchInv, ManageTick
    PROVE  NothingUnwatched'
<1> USE DEF WatchInv, RowInv, TypeInv
<1>1. PICK passed \in {f \in [rows -> TradeStates] : \A r \in rows : f[r] \in AfterPass(r)} :
         rows' = Prune({[r EXCEPT !.state = passed[r]] : r \in rows})
  BY DEF ManageTick
<1>2. at = "idle" /\ book' = book /\ deals' = deals
  BY DEF ManageTick, broker
<1>3. SUFFICES ASSUME NEW t \in book PROVE Watched(t)'
  BY <1>2 DEF NothingUnwatched
<1>4. Watched(t) /\ t \in Ticket
  BY <1>2 DEF NothingUnwatched, TypeOK
<1>5. \A r \in rows : passed[r] \notin PrunedStates => [r EXCEPT !.state = passed[r]] \in rows'
  BY <1>1 DEF Prune, TypeOK, Row
<1>6. \A r \in rows : /\ [r EXCEPT !.state = passed[r]].ticket = r.ticket
                      /\ [r EXCEPT !.state = passed[r]].state = passed[r]
  BY DEF TypeOK, Row
<1>7. \A r \in rows : r.state = "PENDING" =>
         \E s \in rows' : s.ticket = r.ticket /\ s.state = "PENDING"
  <2>1. \A r \in rows : r.state = "PENDING" => passed[r] = "PENDING"
    BY PassKeeps DEF TypeOK
  <2>2. QED
    BY <1>5, <1>6, <2>1 DEF PrunedStates
<1>8. \A r \in rows : t.kind = "position" /\ r.ticket = t.ticket /\ r.state \in ManagedStates =>
         \E s \in rows' : s.ticket = r.ticket /\ s.state \in ManagedStates
  <2>1. t.kind = "position" => t \in Positions
    BY DEF Positions
  <2>2. \A r \in rows : t.kind = "position" /\ r.ticket = t.ticket /\ r.state \in ManagedStates =>
           passed[r] \in ManagedStates
    BY <2>1, PassKeeps DEF TypeOK
  <2>3. \A state \in ManagedStates : state \notin PrunedStates
    BY DEF ManagedStates, PrunedStates
  <2>4. QED
    BY <1>5, <1>6, <2>2, <2>3
<1>9. QED
  BY <1>2, <1>4, <1>7, <1>8, WatchedStays

\* The row of the decision at the broker call: no other row has its id, and no
\* row with a ticket is it.
LEMMA SendingRow ==
    ASSUME WatchInv, at \in Sends
    PROVE  \E r \in rows : /\ r.id = cur.id /\ r.state = "PENDING" /\ r.ticket = None
                           /\ \A s \in rows : s.ticket # None => s.id # cur.id
BY DEF WatchInv, SubmitsOnce, NothingSentYet, RowInv, RowPerDecision

\* Changing the row of the current decision keeps every ticket in sight.
LEMMA SendKeepsSight ==
    ASSUME WatchInv, at \in Sends, NEW state, NEW ticket,
           SetRow(state, ticket) \/ SetTicket(ticket) \/ rows' = rows,
           deals' = deals, NEW t \in book
    PROVE  Watched(t)'
<1>1. \A s \in rows : s.ticket # None => s \in rows'
  BY SendingRow DEF SetRow, SetTicket
<1>2. t \in Ticket /\ Watched(t) /\ t.ticket # None
  BY DEF WatchInv, RowInv, TypeInv, TypeOK, NothingUnwatched, Ticket, Tickets, None, Sends
<1>3. TypeOK
  BY DEF WatchInv, RowInv, TypeInv
<1>4. QED
  BY <1>1, <1>2, <1>3, WatchedStays

LEMMA AcceptedInSight ==
    ASSUME WatchInv, SendAccepted
    PROVE  OneTicketPerDecision' /\ DealsApart' /\ NothingUnwatched'
<1> USE DEF WatchInv, RowInv, TypeInv
<1>1. PICK kind \in {"order", "position"} :
         /\ Accept(kind)
         /\ \/ kind = "position" /\ SetRow("FILLED", nextTicket)
            \/ kind = "order" /\ SetTicket(nextTicket)
  BY DEF SendAccepted
<1>2. PICK n : /\ n = [ticket |-> nextTicket, id |-> cur.id, zone |-> cur.zone, kind |-> kind]
               /\ n.ticket = nextTicket /\ n.id = cur.id /\ n.kind = kind
  <2>1. LET n == [ticket |-> nextTicket, id |-> cur.id, zone |-> cur.zone, kind |-> kind]
        IN  n.ticket = nextTicket /\ n.id = cur.id /\ n.kind = kind
    OBVIOUS
  <2>2. QED
    BY <2>1
<1>3. /\ at \in Sends /\ book' = book \cup {n} /\ deals' = deals
      /\ nextTicket' = nextTicket + 1 /\ nextTicket \in Nat
  BY <1>1, <1>2 DEF SendAccepted, Accept, Tickets, Sends
<1>4. OneTicketPerDecision'
  BY <1>2, <1>3 DEF OneTicketPerDecision, SubmitsOnce, NothingSentYet
<1>5. DealsApart'
  <2>1. \A e \in deals : e.order \in Nat /\ e.order < nextTicket
    BY DEF DealsApart, TypeOK, Deal, Tickets
  <2>2. \A o \in Orders' : o \in Orders \/ o.ticket = nextTicket
    BY <1>2, <1>3 DEF Orders
  <2>3. QED
    BY <1>3, <2>1, <2>2 DEF DealsApart
<1>6. \A t \in book : Watched(t)'
  BY <1>1, <1>3, SendKeepsSight
<1>7. Watched(n)'
  <2>1. PICK r \in rows : r.id = cur.id /\ r.state = "PENDING" /\ r \in Row
    BY <1>3, SendingRow DEF TypeOK
  <2>2. CASE kind = "position" /\ SetRow("FILLED", nextTicket)
    <3>1. [r EXCEPT !.state = Transition(r.state, "FILLED"), !.ticket = nextTicket] \in rows'
      BY <2>1, <2>2 DEF SetRow
    <3>2. Transition(r.state, "FILLED") = "FILLED"
      BY <2>1 DEF Transition, LegalMoves
    <3>3. QED
      BY <1>2, <2>1, <2>2, <3>1, <3>2 DEF Watched, Row, ManagedStates
  <2>3. CASE kind = "order" /\ SetTicket(nextTicket)
    <3>1. [r EXCEPT !.ticket = nextTicket] \in rows'
      BY <2>1, <2>3 DEF SetTicket
    <3>2. QED
      BY <1>2, <2>1, <2>3, <3>1 DEF Watched, Row
  <2>4. QED
    BY <1>1, <2>2, <2>3
<1>8. QED
  BY <1>3, <1>4, <1>5, <1>6, <1>7 DEF NothingUnwatched

LEMMA DealInSight ==
    ASSUME WatchInv, NEW deal \in deals, OnTradeTransaction(deal)
    PROVE  DealsApart' /\ NothingUnwatched'
<1> USE DEF WatchInv, RowInv, TypeInv
<1>1. /\ at = "idle" /\ book' = book /\ nextTicket' = nextTicket
      /\ deals' = deals \ {deal} /\ MarkFilled(deal)
  BY DEF OnTradeTransaction
<1>2. DealsApart'
  BY <1>1 DEF DealsApart, Orders
<1>3. \A r \in rows : ~ (r.state = "PENDING" /\ r.ticket = deal.order) => r \in rows'
  BY <1>1 DEF MarkFilled
<1>4. ASSUME NEW t \in book PROVE Watched(t)'
  <2>1. Watched(t) /\ t \in Ticket
    BY <1>1 DEF NothingUnwatched, TypeOK
  <2>2. CASE t.kind = "position" /\ \E r \in rows : r.ticket = t.ticket /\ r.state \in ManagedStates
    BY <1>3, <2>2 DEF Watched, ManagedStates
  <2>3. CASE t.kind = "order" /\ \E r \in rows : r.ticket = t.ticket /\ r.state = "PENDING"
    <3>1. t.ticket # deal.order
      BY <2>3 DEF DealsApart, Orders
    <3>2. QED
      BY <1>3, <2>3, <3>1 DEF Watched
  <2>4. ASSUME t.kind = "position", NEW e \in deals, e.position = t.ticket,
               NEW r \in rows, r.ticket = e.order, r.state = "PENDING"
        PROVE  Watched(t)'
    <3>1. CASE e.order = deal.order
      <4>1. e = deal
        BY <3>1 DEF DealsApart
      <4>2. [r EXCEPT !.ticket = deal.position, !.state = Transition(r.state, "FILLED")] \in rows'
        BY <1>1, <2>4, <4>1 DEF MarkFilled
      <4>3. Transition(r.state, "FILLED") = "FILLED" /\ r \in Row
        BY <2>4 DEF Transition, LegalMoves, TypeOK
      <4>4. QED
        BY <2>4, <4>1, <4>2, <4>3 DEF Watched, Row, ManagedStates
    <3>2. CASE e.order # deal.order
      BY <1>1, <1>3, <2>4, <3>2 DEF Watched
    <3>3. QED
      BY <3>1, <3>2
  <2>5. QED
    BY <2>1, <2>2, <2>3, <2>4 DEF Watched
<1>5. QED
  BY <1>1, <1>2, <1>4 DEF NothingUnwatched

LEMMA FillInSight ==
    ASSUME WatchInv, "fillDuringInit" \notin Faults, NEW o \in book, FillOrder(o)
    PROVE  /\ OneTicketPerDecision' /\ DealsApart' /\ HalfRestored' /\ SubmitsOnce'
           /\ NothingUnwatched'
<1> USE DEF WatchInv, RowInv, TypeInv
<1>1. PICK k \in {o.ticket, nextTicket} \cap Tickets :
         /\ book' = (book \ {o}) \cup {[o EXCEPT !.kind = "position", !.ticket = k]}
         /\ nextTicket' = IF k = nextTicket THEN nextTicket + 1 ELSE nextTicket
         /\ deals' = IF at = "down" THEN deals
                     ELSE deals \cup {[order |-> o.ticket, position |-> k]}
  BY DEF FillOrder
<1>2. at # "orders" /\ at' = at /\ rows' = rows /\ cur' = cur /\ o \in Orders
  BY DEF FillOrder, ea
<1>3. PICK n : /\ n = [o EXCEPT !.kind = "position", !.ticket = k]
               /\ n.kind = "position" /\ n.ticket = k /\ n.id = o.id
  <2>1. o \in Ticket
    BY DEF TypeOK
  <2>2. LET n == [o EXCEPT !.kind = "position", !.ticket = k]
        IN  n.kind = "position" /\ n.ticket = k /\ n.id = o.id
    BY <2>1 DEF Ticket
  <2>3. QED
    BY <2>2
<1>4. book' = (book \ {o}) \cup {n}
  BY <1>1, <1>3
<1>5. /\ nextTicket \in Nat /\ nextTicket' \in Nat /\ nextTicket <= nextTicket'
      /\ o.ticket < nextTicket /\ o.ticket \in Nat
      /\ \A e \in deals : e.order \in Nat /\ e.order < nextTicket
  BY <1>1 DEF TypeOK, Ticket, Deal, Tickets, TicketsUnique, DealsApart
<1>6. OneTicketPerDecision' /\ SubmitsOnce' /\ HalfRestored'
  <2>1. OneTicketPerDecision'
    <3>1. n.id = o.id /\ \A t \in book' : t = n \/ (t \in book /\ t # o)
      BY <1>3, <1>4
    <3>2. \A t \in book : t # o => t.id # o.id
      BY DEF OneTicketPerDecision
    <3>3. QED
      BY <3>1, <3>2 DEF OneTicketPerDecision
  <2>2. SubmitsOnce'
    BY <1>2, <1>3, <1>4 DEF SubmitsOnce, NothingSentYet
  <2>3. HalfRestored'
    BY <1>2 DEF HalfRestored
  <2>4. QED
    BY <2>1, <2>2, <2>3
<1>7. DealsApart'
  <2>1. Orders' = Orders \ {o}
    BY <1>3, <1>4 DEF Orders
  <2>2. \A q \in Orders \ {o} : q.ticket # o.ticket
    BY <1>2 DEF Orders, TicketsUnique
  <2>3. \A e \in deals : e.order # o.ticket
    BY <1>2 DEF DealsApart
  <2>4. QED
    BY <1>1, <1>5, <2>1, <2>2, <2>3 DEF DealsApart
<1>8. NothingUnwatched'
  <2>1. SUFFICES ASSUME at \notin {"down", "orders"}, NEW t \in book' PROVE Watched(t)'
    BY <1>2 DEF NothingUnwatched
  <2>2. deals' = deals \cup {[order |-> o.ticket, position |-> k]}
    BY <1>1, <2>1
  <2>3. CASE t \in book
    BY <1>2, <2>1, <2>2, <2>3, WatchedStays DEF NothingUnwatched, TypeOK
  <2>4. CASE t = n
    <3>1. \E r \in rows : r.ticket = o.ticket /\ r.state = "PENDING"
      BY <1>2, <2>1 DEF NothingUnwatched, Watched, Orders
    <3>2. PICK e \in deals' : e.order = o.ticket /\ e.position = k
      <4>1. [order |-> o.ticket, position |-> k] \in deals'
        BY <2>2
      <4>2. QED
        BY <4>1
    <3>3. QED
      BY <1>2, <1>3, <2>4, <3>1, <3>2 DEF Watched
  <2>5. QED
    BY <1>4, <2>3, <2>4
<1>9. QED
  BY <1>6, <1>7, <1>8

LEMMA NextWatch ==
    ASSUME Faults = {}, WatchInv, [Next]_vars
    PROVE  /\ OneTicketPerDecision' /\ DealsApart' /\ HalfRestored' /\ SubmitsOnce'
           /\ NothingUnwatched'
<1> USE DEF WatchInv, RowInv, TypeInv
<1>1. CASE RecoverPositions \/ RecoverOrders
  <2>1. UNCHANGED <<book, deals, nextTicket>> /\ at' \in {"orders", "idle"}
    BY <1>1 DEF RecoverPositions, RecoverOrders, broker
  <2>2. OneTicketPerDecision' /\ DealsApart' /\ SubmitsOnce'
    BY <2>1 DEF OneTicketPerDecision, DealsApart, Orders, SubmitsOnce, NothingSentYet, Sends
  <2>3. QED
    BY <1>1, <2>2, RestoredInSight
<1>2. CASE ManageTick
  <2>1. UNCHANGED <<book, deals, nextTicket>> /\ at' \in {"idle", "decide"}
    BY <1>2 DEF ManageTick, broker
  <2>2. QED
    BY <1>2, <2>1, ManagedInSight
       DEF OneTicketPerDecision, DealsApart, Orders, SubmitsOnce, NothingSentYet,
           HalfRestored, Sends
<1>3. CASE Decide
  <2>1. UNCHANGED <<book, deals, nextTicket, rows>> /\ at' \in {"idle", "submit"}
    BY <1>3 DEF Decide, broker
  <2>2. at = "decide" /\ (at' = "submit" => cur'.id = nextId)
    BY <1>3 DEF Decide
  <2>3. at' = "submit" => \A t \in book : t.id # cur'.id
    <3>1. \A t \in book : t.id < nextId /\ t.id \in Nat
      BY <2>2 DEF IdsInv, TypeOK, Ticket, Ids
    <3>2. QED
      BY <2>2, <3>1 DEF TypeOK
  <2>4. NothingUnwatched'
    BY <2>1, <2>2 DEF NothingUnwatched, Watched
  <2>5. QED
    BY <2>1, <2>3, <2>4
       DEF OneTicketPerDecision, DealsApart, Orders, SubmitsOnce, NothingSentYet,
           HalfRestored, Sends
<1>4. CASE Submit
  <2>1. /\ UNCHANGED <<book, deals, nextTicket>> /\ at = "submit" /\ at' \in {"idle"} \cup Sends
        /\ rows \subseteq rows'
    BY <1>4, SubmitCases DEF Submit, EndTick, broker, Sends
  <2>2. NothingUnwatched'
    BY <2>1, WatchedStays DEF NothingUnwatched, TypeOK
  <2>3. SubmitsOnce'
    <3>1. CASE at' = "idle"
      BY <3>1 DEF SubmitsOnce, NothingSentYet, Sends
    <3>2. CASE at' \in Sends
      <4>1. /\ cur' = cur
            /\ [id |-> cur.id, state |-> "PENDING", ticket |-> None] \in rows'
        BY <1>4, <3>2, SubmitCases DEF EndTick, Sends
      <4>2. QED
        BY <2>1, <3>2, <4>1 DEF SubmitsOnce, NothingSentYet
    <3>3. QED
      BY <2>1, <3>1, <3>2
  <2>4. QED
    BY <2>1, <2>2, <2>3 DEF OneTicketPerDecision, DealsApart, Orders, HalfRestored, Sends
<1>5. CASE SendAccepted
  BY <1>5, AcceptedInSight
     DEF SendAccepted, EndTick, SubmitsOnce, NothingSentYet, HalfRestored, Sends
<1>6. CASE SendDeferred \/ SendUnacknowledged
  BY <1>6 DEF SendDeferred, SendUnacknowledged
<1>7. CASE SendRefused \/ SendRetryable
  <2>1. /\ at \in Sends /\ at' \in {"idle"} \cup Sends /\ UNCHANGED <<book, deals, nextTicket>>
        /\ SetRow("REJECTED", None) \/ rows' = rows
        /\ at' \in Sends => cur' = cur /\ rows' = rows
    BY <1>7 DEF SendRefused, SendRetryable, NextAttempt, EndTick, broker, Sends
  <2>2. NothingUnwatched'
    BY <2>1, SendKeepsSight DEF NothingUnwatched
  <2>3. QED
    BY <2>1, <2>2
       DEF OneTicketPerDecision, DealsApart, Orders, SubmitsOnce, NothingSentYet,
           HalfRestored, Sends
<1>8. CASE \E deal \in deals : OnTradeTransaction(deal)
  BY <1>8, DealInSight
     DEF OnTradeTransaction, OneTicketPerDecision, SubmitsOnce, NothingSentYet, HalfRestored, Sends
<1>9. CASE \E o \in book : FillOrder(o)
  BY <1>9, FillInSight
<1>10. CASE \E t \in book : EndTicket(t)
  <2>1. book' \subseteq book /\ UNCHANGED <<at, rows, cur, deals, nextTicket>>
    BY <1>10 DEF EndTicket, ea
  <2>2. NothingUnwatched'
    BY <2>1 DEF NothingUnwatched, Watched
  <2>3. QED
    BY <2>1, <2>2
       DEF OneTicketPerDecision, DealsApart, Orders, Positions, SubmitsOnce, NothingSentYet,
           HalfRestored
<1>11. CASE NewBar \/ UNCHANGED vars
  <2>1. UNCHANGED <<at, rows, cur, book, deals, nextTicket>>
    BY <1>11 DEF NewBar, vars, ea, broker
  <2>2. QED
    BY <2>1 DEF OneTicketPerDecision, DealsApart, Orders, Positions, SubmitsOnce, NothingSentYet,
                HalfRestored, NothingUnwatched, Watched
<1>12. CASE Crash \/ Reinit
  <2>1. at' = "down" /\ deals' = {} /\ UNCHANGED <<book, nextTicket>>
    BY <1>12 DEF Crash, Reinit, Forget
  <2>2. QED
    BY <2>1 DEF OneTicketPerDecision, DealsApart, SubmitsOnce, NothingSentYet, HalfRestored,
       NothingUnwatched, Sends
<1>13. QED
  BY <1>1, <1>2, <1>3, <1>4, <1>5, <1>6, <1>7, <1>8, <1>9, <1>10, <1>11, <1>12
     DEF Next, EAStep, Environment

LEMMA WatchInvariant ==
    ASSUME Faults = {}
    PROVE  Spec => []WatchInv
<1>1. Init => WatchInv
  <2> SUFFICES ASSUME Init PROVE WatchInv
    OBVIOUS
  <2>1. RowInv
    BY InitType DEF Init, CurSet, TypeInv, RowInv, TicketsUnique, RowPerDecision, Sends
  <2>2. QED
    BY <2>1, InitIds DEF Init, WatchInv, OneTicketPerDecision, DealsApart, HalfRestored,
       SubmitsOnce, NothingSentYet, NothingUnwatched, Sends
<1>2. WatchInv /\ [Next]_vars => WatchInv'
  BY NextType, NextUnique, NextIds, NextWatch DEF WatchInv, RowInv
<1>3. QED
  BY <1>1, <1>2, PTL DEF Spec

\* Restarted or not, the EA has every order and every position of its own in
\* sight, if the environment keeps to the rules.
THEOREM EverythingWatched ==
    ASSUME Faults = {}
    PROVE  Spec => []NothingUnwatched
<1>1. WatchInv => NothingUnwatched
  BY DEF WatchInv
<1>2. QED
  BY <1>1, WatchInvariant, PTL
-----------------------------------------------------------------------------
(* The limit on open trades bounds what the broker holds.  Submit() counts   *)
(* rows, not tickets: that the rows it counts are as many as the tickets     *)
(* needs every ticket in sight of a row, and no row in charge of two.        *)

\* An order is filled by one deal, and a position that goes on under the
\* ticket of its order is the one that deal speaks of.
DealsGoOn == \A e \in deals, t \in book : t.ticket = e.order => e.position = e.order

\* The row of the decision at the broker call is counted already.
RoomHeld == at \in Sends => OpenCount <= MaxOpen

ExposureInv == WatchInv /\ DealsGoOn /\ RoomHeld /\ ExposureWithinLimit

\* There are finitely many rows, one per decision, ...
LEMMA RowsFinite ==
    ASSUME TypeOK, RowPerDecision
    PROVE  /\ IsFiniteSet(rows) /\ IsFiniteSet(OpenRows)
           /\ OpenCount \in Nat
<1> DEFINE idOf == [r \in rows |-> r.id]
<1>1. idOf \in Injection(rows, Ids)
  BY DEF TypeOK, Row, RowPerDecision, Injection, IsInjective
<1>2. IsFiniteSet(Ids)
  BY ExecutionAssumption, FS_Interval DEF Ids
<1> HIDE DEF idOf
<1>3. IsFiniteSet(rows)
  BY <1>1, <1>2, FS_Injection
<1>4. IsFiniteSet(OpenRows)
  BY <1>3, FS_Subset DEF OpenRows
<1>5. QED
  BY <1>3, <1>4, FS_CardinalityType DEF OpenCount

\* ... and finitely many tickets.
LEMMA BookFinite ==
    ASSUME TypeOK, TicketsUnique
    PROVE  IsFiniteSet(book) /\ Cardinality(book) \in Nat
<1> DEFINE ticketOf == [t \in book |-> t.ticket]
<1>1. ticketOf \in Injection(book, Tickets)
  BY DEF TypeOK, Ticket, TicketsUnique, Injection, IsInjective
<1>2. IsFiniteSet(Tickets)
  BY ExecutionAssumption, FS_Interval DEF Tickets
<1> HIDE DEF ticketOf
<1>3. QED
  BY <1>1, <1>2, FS_Injection, FS_CardinalityType

\* The row that keeps a ticket in sight: the one under its number, or the one
\* the deal on its way is for.
Watcher(r, t) ==
    /\ r \in OpenRows
    /\ \/ r.ticket = t.ticket
       \/ \E e \in deals : e.position = t.ticket /\ r.ticket = e.order

LEMMA HasWatcher ==
    ASSUME NEW t \in book, Watched(t)
    PROVE  \E r \in rows : Watcher(r, t)
BY DEF Watched, Watcher, OpenRows, OpenStates, ManagedStates

\* No row is in charge of two tickets.
LEMMA OneWatcherEach ==
    ASSUME TicketsUnique, DealsApart, DealsGoOn,
           NEW r, NEW t \in book, NEW u \in book, Watcher(r, t), Watcher(r, u)
    PROVE  t = u
<1>1. t.ticket = u.ticket
  BY DEF Watcher, DealsApart, DealsGoOn
<1>2. QED
  BY <1>1 DEF TicketsUnique

\* At the broker call there is a row for every ticket, and one more: that of the
\* decision which has no ticket yet.
LEMMA RoomForOne ==
    ASSUME ExposureInv, at \in Sends
    PROVE  Cardinality(book) + 1 <= MaxOpen
<1> USE DEF ExposureInv, WatchInv, RowInv, TypeInv
<1>1. PICK own \in OpenRows : own.ticket = None
  BY DEF SubmitsOnce, NothingSentYet, OpenRows, OpenStates
<1> DEFINE rowOf == [t \in book |-> CHOOSE r \in rows : Watcher(r, t)]
<1>2. \A t \in book : Watcher(rowOf[t], t)
  BY HasWatcher DEF NothingUnwatched, Sends
<1>3. \A t \in book : t.ticket # None /\ \A e \in deals : e.order # None
  BY DEF TypeOK, Ticket, Deal, Tickets, None
<1> HIDE DEF rowOf
<1>4. \A t \in book : rowOf[t] \in OpenRows \ {own}
  BY <1>1, <1>2, <1>3 DEF Watcher
<1>5. \A t, u \in book : rowOf[t] = rowOf[u] => t = u
  BY <1>2, OneWatcherEach
<1>6. rowOf \in Injection(book, OpenRows \ {own})
  BY <1>4, <1>5 DEF Injection, IsInjective, rowOf
<1>7. /\ IsFiniteSet(OpenRows \ {own})
      /\ Cardinality(OpenRows \ {own}) = OpenCount - 1
  BY <1>1, RowsFinite, FS_RemoveElement DEF OpenCount
<1>8. Cardinality(book) <= OpenCount - 1
  BY <1>6, <1>7, FS_Injection
<1>9. QED
  BY <1>8, RowsFinite, BookFinite, ExecutionAssumption DEF RoomHeld

LEMMA NextDealsGoOn ==
    ASSUME Faults = {}, ExposureInv, [Next]_vars
    PROVE  DealsGoOn'
<1> USE DEF ExposureInv, WatchInv, RowInv, TypeInv
<1>1. CASE deals' \subseteq deals /\ book' \subseteq book
  BY <1>1 DEF DealsGoOn
<1>2. CASE deals' = deals /\ \E kind : Accept(kind)
  <2>1. nextTicket \in Nat /\ \A t \in book' : t \in book \/ t.ticket = nextTicket
    BY <1>2 DEF Accept, Tickets
  <2>2. \A e \in deals : e.order \in Nat /\ e.order < nextTicket
    BY DEF DealsApart, TypeOK, Deal, Tickets
  <2>3. QED
    BY <1>2, <2>1, <2>2 DEF DealsGoOn
<1>3. ASSUME NEW o \in book, FillOrder(o) PROVE DealsGoOn'
  <2>1. PICK k \in {o.ticket, nextTicket} \cap Tickets :
           /\ book' = (book \ {o}) \cup {[o EXCEPT !.kind = "position", !.ticket = k]}
           /\ deals' \subseteq deals \cup {[order |-> o.ticket, position |-> k]}
    BY <1>3 DEF FillOrder
  <2>2. /\ o \in Orders /\ o \in Ticket /\ nextTicket \in Nat
        /\ \A e \in deals : e.order \in Nat /\ e.order < nextTicket
    BY <1>3 DEF FillOrder, TypeOK, DealsApart, Deal, Tickets
  <2>3. \A t \in book' : t.ticket = k \/ (t \in book /\ t.ticket # o.ticket)
    BY <2>1, <2>2 DEF Ticket, TicketsUnique
  <2>4. \A e \in deals : e.order # o.ticket /\ e.order # k
    BY <2>1, <2>2 DEF DealsApart
  <2>5. \A e \in deals' : e \in deals \/ (e.order = o.ticket /\ e.position = k)
    BY <2>1
  <2>6. QED
    BY <2>3, <2>4, <2>5 DEF DealsGoOn
<1>4. QED
  <2>1. SendAccepted => deals' = deals /\ \E kind : Accept(kind)
    BY DEF SendAccepted, Accept
  <2>2. ~ SendDeferred /\ ~ SendUnacknowledged
    BY DEF SendDeferred, SendUnacknowledged
  <2>3. Crash \/ Reinit => deals' = {} /\ book' = book
    BY DEF Crash, Reinit, Forget
  <2>4. (\E t \in book : EndTicket(t)) => deals' = deals /\ book' \subseteq book
    BY DEF EndTicket
  <2>5. (\E deal \in deals : OnTradeTransaction(deal)) => deals' \subseteq deals /\ book' = book
    BY DEF OnTradeTransaction
  <2>6. \/ RecoverPositions \/ RecoverOrders \/ ManageTick \/ Decide \/ Submit
        \/ SendRefused \/ SendRetryable \/ NewBar \/ UNCHANGED vars
        => deals' = deals /\ book' = book
    BY DEF RecoverPositions, RecoverOrders, ManageTick, Decide, Submit, SendRefused,
           SendRetryable, NewBar, vars, broker
  <2>7. QED
    BY <1>1, <1>2, <1>3, <2>1, <2>2, <2>3, <2>4, <2>5, <2>6 DEF Next, EAStep, Environment

LEMMA NextRoom ==
    ASSUME Faults = {}, ExposureInv, [Next]_vars
    PROVE  RoomHeld'
<1> USE DEF ExposureInv, WatchInv, RowInv, TypeInv
<1>1. CASE at' \in Sends /\ at \notin Sends
  <2>1. Submit
    BY <1>1 DEF Next, EAStep, Environment, vars, ea, RecoverPositions, RecoverOrders,
         ManageTick, Decide, SendAccepted, SendDeferred, SendRefused, SendRetryable,
         SendUnacknowledged, OnTradeTransaction, FillOrder, EndTicket, NewBar, Crash,
         Reinit, Forget, Sends
  <2>2. /\ OpenCount < MaxOpen
        /\ rows' = rows \cup {[id |-> cur.id, state |-> "PENDING", ticket |-> None]}
    BY <1>1, <2>1, SubmitCases DEF EndTick, MaySubmit, Sends
  <2>3. PICK own : OpenRows' = OpenRows \cup {own}
    <3>1. OpenRows' = OpenRows \cup {[id |-> cur.id, state |-> "PENDING", ticket |-> None]}
      BY <2>2 DEF OpenRows, OpenStates
    <3>2. QED
      BY <3>1
  <2>4. /\ IsFiniteSet(OpenRows) /\ Cardinality(OpenRows) = OpenCount /\ OpenCount \in Nat
        /\ OpenCount' = Cardinality(OpenRows')
    BY RowsFinite DEF OpenCount
  <2>5. OpenCount' <= OpenCount + 1 /\ OpenCount' \in Nat
    <3>1. Cardinality(OpenRows \cup {own}) <= OpenCount + 1
          /\ Cardinality(OpenRows \cup {own}) \in Nat
      BY <2>4, FS_AddElement
    <3>2. QED
      BY <2>3, <2>4, <3>1
  <2>6. QED
    BY <2>2, <2>4, <2>5, ExecutionAssumption DEF RoomHeld
<1>2. CASE at' \in Sends /\ at \in Sends
  <2>1. rows' = rows
    BY <1>2 DEF Next, EAStep, Environment, vars, ea, RecoverPositions, RecoverOrders,
         ManageTick, Decide, Submit, SendAccepted, SendDeferred, SendRefused, SendRetryable,
         NextAttempt, EndTick, SendUnacknowledged, OnTradeTransaction, FillOrder,
         EndTicket, NewBar, Crash, Reinit, Forget, Sends
  <2>2. QED
    BY <1>2, <2>1 DEF RoomHeld, OpenCount, OpenRows
<1>3. QED
  BY <1>1, <1>2 DEF RoomHeld

LEMMA NextExposure ==
    ASSUME Faults = {}, ExposureInv, [Next]_vars
    PROVE  ExposureWithinLimit'
<1> USE DEF ExposureInv, WatchInv, RowInv, TypeInv
<1>1. IsFiniteSet(book) /\ Cardinality(book) \in Nat /\ MaxOpen \in Nat
  BY BookFinite, ExecutionAssumption
<1>2. CASE book' \subseteq book
  <2>1. IsFiniteSet(book') /\ Cardinality(book') <= Cardinality(book)
    BY <1>1, <1>2, FS_Subset
  <2>2. QED
    BY <1>1, <2>1, FS_CardinalityType DEF ExposureWithinLimit
<1>3. CASE at \in Sends /\ \E kind : Accept(kind)
  <2>1. PICK n : book' = book \cup {n}
    BY <1>3 DEF Accept
  <2>2. Cardinality(book') <= Cardinality(book) + 1 /\ Cardinality(book') \in Nat
    BY <1>1, <2>1, FS_AddElement
  <2>3. QED
    BY <1>1, <1>3, <2>2, RoomForOne DEF ExposureWithinLimit
<1>4. ASSUME NEW o \in book, FillOrder(o) PROVE ExposureWithinLimit'
  <2>1. PICK n : book' = (book \ {o}) \cup {n}
    BY <1>4 DEF FillOrder
  <2>2. /\ IsFiniteSet(book \ {o})
        /\ Cardinality(book \ {o}) = Cardinality(book) - 1
    BY <1>1, FS_RemoveElement
  <2>3. Cardinality(book') <= Cardinality(book) - 1 + 1 /\ IsFiniteSet(book')
    <3>1. Cardinality(book \ {o}) \in Nat
      BY <2>2, FS_CardinalityType
    <3>2. QED
      BY <2>1, <2>2, <3>1, FS_AddElement
  <2>4. QED
    BY <1>1, <2>3, FS_CardinalityType DEF ExposureWithinLimit
<1>5. QED
  <2>1. SendAccepted => at \in Sends /\ \E kind : Accept(kind)
    BY DEF SendAccepted, Sends
  <2>2. ~ SendDeferred /\ ~ SendUnacknowledged
    BY DEF SendDeferred, SendUnacknowledged
  <2>3. (\E t \in book : EndTicket(t)) => book' \subseteq book
    BY DEF EndTicket
  <2>4. \/ RecoverPositions \/ RecoverOrders \/ ManageTick \/ Decide \/ Submit
        \/ SendRefused \/ SendRetryable \/ (\E deal \in deals : OnTradeTransaction(deal))
        \/ NewBar \/ Crash \/ Reinit \/ UNCHANGED vars
        => book' = book
    BY DEF RecoverPositions, RecoverOrders, ManageTick, Decide, Submit, SendRefused,
           SendRetryable, OnTradeTransaction, NewBar, Crash, Reinit, Forget, vars, broker
  <2>5. QED
    BY <1>2, <1>3, <1>4, <2>1, <2>2, <2>3, <2>4 DEF Next, EAStep, Environment

LEMMA ExposureInvariant ==
    ASSUME Faults = {}
    PROVE  Spec => []ExposureInv
<1>1. Init => DealsGoOn /\ RoomHeld /\ ExposureWithinLimit
  BY FS_EmptySet, ExecutionAssumption
     DEF Init, DealsGoOn, RoomHeld, ExposureWithinLimit, Sends
<1>2. ExposureInv /\ WatchInv' /\ [Next]_vars => ExposureInv'
  BY NextDealsGoOn, NextRoom, NextExposure DEF ExposureInv
<1>3. Spec => [](WatchInv)
  BY WatchInvariant
<1>4. QED
  BY <1>1, <1>2, <1>3, PTL DEF Spec, ExposureInv

\* InpMaxOpenTrades bounds the orders and positions at the broker, whatever
\* fills, ends or restarts in between, if the environment keeps to the rules.
THEOREM ExposureLimited ==
    ASSUME Faults = {}
    PROVE  Spec => []ExposureWithinLimit
<1>1. ExposureInv => ExposureWithinLimit
  BY DEF ExposureInv
<1>2. QED
  BY <1>1, ExposureInvariant, PTL
-----------------------------------------------------------------------------
(* A running EA lets go of a row only when the broker holds nothing under    *)
(* its ticket.  A pass takes a managed row for closed when no *position* has *)
(* its ticket: that is right as long as no managed row has the ticket of an  *)
(* order, which is what a deferred market request brings about.              *)

\* Numbers the broker has given out, and whose they are.
TicketsApart ==
    /\ \A r \in rows : r.ticket < nextTicket
    /\ \A e \in deals : e.position < nextTicket /\ \A o \in Orders : o.ticket # e.position
    /\ \A r \in rows, o \in Orders : r.ticket = o.ticket => r.state \notin ManagedStates

\* A stopped EA has no rows; the row at the broker call is pending; a row in a
\* final state never had a ticket.
RowsHonest ==
    /\ at = "down" => rows = {}
    /\ at \in Sends => \A r \in rows : r.id = cur.id => r.state = "PENDING"
    /\ \A r \in rows : r.state \in PrunedStates => r.ticket = None

HoldInv == TypeInv /\ TicketsUnique /\ TicketsApart /\ RowsHonest

\* Each row is changed to one that keeps its ticket or gets a new one.
LEMMA AcceptHolds ==
    ASSUME HoldInv, NEW kind, Accept(kind), at \in Sends, at' \notin Sends \cup {"down"},
           deals' = deals,
           \/ SetTicket(nextTicket)
           \/ SetRow("FILLED", nextTicket) /\ kind = "position"
    PROVE  TicketsApart' /\ RowsHonest'
<1> USE DEF HoldInv, TypeInv
<1>1. /\ nextTicket \in Nat /\ nextTicket' = nextTicket + 1 /\ nextTicket # None
      /\ \A t \in book : t.ticket < nextTicket
      /\ \A o \in Orders' : o \in Orders \/ (o.ticket = nextTicket /\ kind = "order")
  <2>1. \A t \in book' : t \in book \/ (t.ticket = nextTicket /\ t.kind = kind)
    BY DEF Accept
  <2>2. nextTicket \in Nat /\ nextTicket' = nextTicket + 1 /\ nextTicket # None
    BY DEF Accept, Tickets, None
  <2>3. QED
    BY <2>1, <2>2 DEF TicketsUnique, Orders
<1>2. \A r \in rows : /\ r \in Row /\ r.ticket \in Nat /\ r.ticket < nextTicket
                      /\ r.id = cur.id => r.state = "PENDING"
  BY DEF TypeOK, Row, Tickets, None, TicketsApart, RowsHonest
<1>3. Transition("PENDING", "FILLED") = "FILLED"
  BY DEF Transition, LegalMoves
<1>4. \A s \in rows' : \/ s \in rows
                       \/ /\ s.ticket = nextTicket
                          /\ \/ s.state = "PENDING"
                             \/ s.state = "FILLED" /\ kind = "position"
  <2>1. CASE SetTicket(nextTicket)
    BY <1>2, <2>1 DEF SetTicket, Row
  <2>2. CASE SetRow("FILLED", nextTicket) /\ kind = "position"
    BY <1>2, <1>3, <2>2 DEF SetRow, Row
  <2>3. QED
    BY <2>1, <2>2
<1>5. \A s \in rows' : s.ticket \in Nat /\ s.ticket < nextTicket'
  <2>1. SUFFICES ASSUME NEW s \in rows' PROVE s.ticket \in Nat /\ s.ticket < nextTicket'
    OBVIOUS
  <2>2. s.ticket = nextTicket \/ s \in rows
    BY <1>4
  <2>3. QED
    BY <1>1, <1>2, <2>2
<1>6. \A s \in rows' : s.state \in PrunedStates => s.ticket = None
  BY <1>4 DEF RowsHonest, PrunedStates
<1>7. \A s \in rows', o \in Orders' : s.ticket = o.ticket => s.state \notin ManagedStates
  <2>1. \A o \in Orders : o.ticket < nextTicket /\ o.ticket \in Nat
    BY <1>1 DEF Orders, TypeOK, Ticket, Tickets
  <2>2. QED
    BY <1>1, <1>2, <1>4, <2>1 DEF TicketsApart, ManagedStates
<1>8. \A e \in deals : e.position \in Nat /\ e.position < nextTicket
  BY DEF TypeOK, Deal, Tickets, TicketsApart
<1>9. TicketsApart'
  <2>1. \A e \in deals', o \in Orders' : e.position < nextTicket' /\ o.ticket # e.position
    BY <1>1, <1>8 DEF TicketsApart
  <2>2. \A e \in deals' : e.position < nextTicket'
    BY <1>1, <1>8
  <2>3. QED
    BY <1>5, <1>7, <2>1, <2>2 DEF TicketsApart
<1>10. QED
  BY <1>6, <1>9 DEF RowsHonest

\* The broker fills an order: one order less, a position under a number that no
\* order has.
LEMMA FillHolds ==
    ASSUME HoldInv, NEW o \in book, FillOrder(o)
    PROVE  TicketsApart' /\ RowsHonest'
<1> USE DEF HoldInv, TypeInv
<1>1. PICK k \in {o.ticket, nextTicket} \cap Tickets :
         /\ book' = (book \ {o}) \cup {[o EXCEPT !.kind = "position", !.ticket = k]}
         /\ nextTicket' = IF k = nextTicket THEN nextTicket + 1 ELSE nextTicket
         /\ deals' \subseteq deals \cup {[order |-> o.ticket, position |-> k]}
  BY DEF FillOrder
<1>2. UNCHANGED <<at, rows, cur>> /\ o \in Orders /\ o \in Ticket
  BY DEF FillOrder, ea, TypeOK
<1>3. Orders' = Orders \ {o}
  BY <1>1, <1>2 DEF Orders, Ticket
<1>4. /\ nextTicket \in Nat /\ nextTicket' \in Nat /\ nextTicket <= nextTicket'
      /\ k \in Nat /\ k < nextTicket'
      /\ \A q \in Orders \ {o} : q.ticket # k
  BY <1>1, <1>2 DEF TypeOK, Ticket, Tickets, TicketsUnique, Orders
<1>5. \A r \in rows : r.ticket \in Nat
  BY DEF TypeOK, Row, Tickets, None
<1>6. \A e \in deals' : \/ e.position = k
                        \/ e \in deals /\ e.position \in Nat /\ e.position < nextTicket
  <2>1. \A e \in deals' : e \in deals \/ e.position = k
    BY <1>1
  <2>2. \A e \in deals : e.position \in Nat /\ e.position < nextTicket
    BY DEF TypeOK, Deal, Tickets, TicketsApart
  <2>3. QED
    BY <2>1, <2>2
<1>7. TicketsApart'
  <2>1. \A r \in rows' : r.ticket < nextTicket'
    BY <1>2, <1>4, <1>5 DEF TicketsApart
  <2>2. \A e \in deals' : e.position < nextTicket'
    BY <1>4, <1>6
  <2>3. \A e \in deals', q \in Orders' : q.ticket # e.position
    BY <1>3, <1>4, <1>6 DEF TicketsApart
  <2>4. \A r \in rows', q \in Orders' : r.ticket = q.ticket => r.state \notin ManagedStates
    BY <1>2, <1>3 DEF TicketsApart
  <2>5. QED
    BY <2>1, <2>2, <2>3, <2>4 DEF TicketsApart
<1>8. QED
  BY <1>2, <1>7 DEF RowsHonest

\* Rows that keep their ticket and are not newly managed or final.
LEMMA SameTicketsHold ==
    ASSUME HoldInv, UNCHANGED <<book, nextTicket>>, deals' \subseteq deals,
           \A s \in rows' : \/ s.ticket = None
                            \/ \E r \in rows : /\ s.ticket = r.ticket
                                               /\ s.state \in ManagedStates => r.state \in ManagedStates
    PROVE  TicketsApart'
<1>1. nextTicket \in Nat /\ None < nextTicket /\ \A o \in Orders : o.ticket # None
  BY DEF HoldInv, TypeInv, TypeOK, Orders, Ticket, Tickets, None
<1>2. QED
  BY <1>1 DEF HoldInv, TicketsApart, Orders

LEMMA RecoverHolds ==
    ASSUME HoldInv, RecoverPositions \/ RecoverOrders
    PROVE  TicketsApart' /\ RowsHonest'
<1> USE DEF HoldInv, TypeInv
<1>1. /\ UNCHANGED <<book, nextTicket, deals>> /\ Orders' = Orders
      /\ at' \in {"orders", "idle"}
  BY DEF RecoverPositions, RecoverOrders, broker, Orders
<1>2. \A s \in rows' :
         \/ s \in rows
         \/ \E p \in Positions : s.ticket = p.ticket /\ s.state \in InferredStates
         \/ \E o \in Orders : s.ticket = o.ticket /\ s.state = "PENDING"
  <2>1. CASE RecoverPositions
    <3>1. PICK inferred \in [RestorablePositions(disk) -> InferredStates] :
             rows' = {[id |-> p.id, state |-> inferred[p], ticket |-> p.ticket] :
                         p \in RestorablePositions(disk)}
      BY <2>1 DEF RecoverPositions
    <3>2. \A s \in rows' : \E p \in RestorablePositions(disk) :
             s.ticket = p.ticket /\ s.state \in InferredStates
      BY <3>1
    <3>3. QED
      BY <3>2 DEF RestorablePositions
  <2>2. CASE RecoverOrders
    BY <2>2 DEF RecoverOrders, RestorableOrders
  <2>3. QED
    BY <2>1, <2>2
<1>3. TicketsApart'
  <2>1. \A p \in Positions, o \in Orders : p.ticket # o.ticket
    BY DEF TicketsUnique, Positions, Orders
  <2>2. \A t \in book : t.ticket < nextTicket
    BY DEF TicketsUnique
  <2>3. \A s \in rows' : s.ticket < nextTicket
    BY <1>2, <2>2 DEF TicketsApart, Positions, Orders
  <2>4. \A s \in rows', o \in Orders : s.ticket = o.ticket => s.state \notin ManagedStates
    BY <1>2, <2>1 DEF TicketsApart, ManagedStates
  <2>5. QED
    BY <1>1, <2>3, <2>4 DEF TicketsApart
<1>4. QED
  BY <1>1, <1>2, <1>3 DEF RowsHonest, InferredStates, PrunedStates, Sends

\* A pass changes no ticket, and brings no row under management.
LEMMA PassHolds ==
    ASSUME HoldInv, ManageTick
    PROVE  TicketsApart' /\ RowsHonest'
<1> USE DEF HoldInv, TypeInv
<1>1. PICK passed \in {f \in [rows -> TradeStates] : \A r \in rows : f[r] \in AfterPass(r)} :
         rows' = Prune({[r EXCEPT !.state = passed[r]] : r \in rows})
  BY DEF ManageTick
<1>2. UNCHANGED <<book, nextTicket, deals>> /\ at' \in {"idle", "decide"}
  BY DEF ManageTick, broker
<1>3. \A r \in rows : r.state \notin ManagedStates => passed[r] = r.state
  BY <1>1 DEF AfterPass
<1>4. \A s \in rows' : s.state \notin PrunedStates /\ \E r \in rows :
         s.ticket = r.ticket /\ (s.state \in ManagedStates => r.state \in ManagedStates)
  BY <1>1, <1>3 DEF Prune, TypeOK, Row
<1>5. QED
  BY <1>2, <1>4, SameTicketsHold DEF RowsHonest, Sends

LEMMA NextHold ==
    ASSUME "deferred" \notin Faults, HoldInv, [Next]_vars
    PROVE  TicketsApart' /\ RowsHonest'
<1> USE DEF HoldInv, TypeInv
<1>1. CASE RecoverPositions \/ RecoverOrders
  BY <1>1, RecoverHolds
<1>2. CASE ManageTick
  BY <1>2, PassHolds
<1>3. CASE Decide
  <2>1. UNCHANGED <<rows, book, nextTicket, deals>> /\ at' \in {"idle", "submit"}
    BY <1>3 DEF Decide, broker
  <2>2. QED
    BY <2>1 DEF TicketsApart, RowsHonest, Orders, Sends
<1>4. CASE Submit
  <2>1. UNCHANGED <<book, nextTicket, deals>> /\ at' \in {"idle"} \cup Sends
    BY <1>4, SubmitCases DEF Submit, EndTick, broker
  <2>2. CASE UNCHANGED rows /\ EndTick
    BY <2>1, <2>2 DEF TicketsApart, RowsHonest, Orders, EndTick, Sends
  <2>3. CASE /\ MaySubmit(cur.id) /\ cur' = cur
             /\ rows' = rows \cup {[id |-> cur.id, state |-> "PENDING", ticket |-> None]}
    <3>1. \A s \in rows' : s \in rows \/ (s.state = "PENDING" /\ s.ticket = None)
      BY <2>3
    <3>2. \A r \in rows : r.id # cur.id
      BY <2>3 DEF MaySubmit, RowIds
    <3>3. TicketsApart'
      BY <2>1, <3>1, SameTicketsHold
    <3>4. QED
      BY <2>1, <2>3, <3>1, <3>2, <3>3 DEF RowsHonest, PrunedStates, Sends
  <2>4. QED
    BY <1>4, <2>2, <2>3, SubmitCases
<1>5. CASE SendAccepted
  BY <1>5, AcceptHolds DEF SendAccepted, EndTick, Sends, Accept
<1>6. CASE SendDeferred
  BY <1>6 DEF SendDeferred
<1>7. CASE SendRefused \/ SendRetryable
  <2>1. /\ UNCHANGED <<book, nextTicket, deals>> /\ at \in Sends
        /\ \/ at' = at /\ cur' = cur /\ rows' = rows
           \/ at' = "idle" /\ SetRow("REJECTED", None)
    BY <1>7 DEF SendRefused, SendRetryable, NextAttempt, EndTick, broker
  <2>2. CASE rows' = rows /\ at' = at /\ cur' = cur
    BY <2>1, <2>2 DEF TicketsApart, RowsHonest, Orders
  <2>3. CASE at' = "idle" /\ SetRow("REJECTED", None)
    <3>1. \A s \in rows' : s \in rows \/ s.ticket = None
      BY <2>3 DEF SetRow, TypeOK, Row
    <3>2. QED
      BY <2>1, <2>3, <3>1, SameTicketsHold DEF RowsHonest, Sends
  <2>4. QED
    BY <2>1, <2>2, <2>3
<1>8. CASE SendUnacknowledged
  <2>1. PICK kind : Accept(kind)
    BY <1>8 DEF SendUnacknowledged
  <2>2. /\ at \in Sends /\ deals' = deals
        /\ \/ at' = at /\ cur' = cur /\ rows' = rows
           \/ at' = "idle" /\ SetRow("REJECTED", None)
    BY <1>8 DEF SendUnacknowledged, NextAttempt, EndTick, Accept
  <2>3. /\ nextTicket \in Nat /\ nextTicket' = nextTicket + 1 /\ nextTicket # None
        /\ \A o \in Orders' : o \in Orders \/ o.ticket = nextTicket
    BY <2>1 DEF Accept, Tickets, None, Orders
  <2>4. \A s \in rows' : s \in rows \/ s.ticket = None
    <3>1. SetRow("REJECTED", None) => \A s \in rows' : s \in rows \/ s.ticket = None
      BY DEF SetRow, TypeOK, Row
    <3>2. QED
      BY <2>2, <3>1
  <2>5. /\ \A r \in rows : r.ticket \in Nat /\ r.ticket < nextTicket
        /\ \A e \in deals : e.position \in Nat /\ e.position < nextTicket
        /\ \A o \in Orders : o.ticket # None
    BY DEF TypeOK, Row, Deal, Tickets, None, TicketsApart, Orders, Ticket
  <2>6. TicketsApart'
    <3>1. None \in Nat /\ None < nextTicket'
      BY <2>3 DEF None
    <3>2. \A s \in rows' : s.ticket < nextTicket'
      BY <2>3, <2>4, <2>5, <3>1
    <3>3. \A s \in rows', o \in Orders' : s.ticket = o.ticket => s.state \notin ManagedStates
      BY <2>3, <2>4, <2>5 DEF TicketsApart
    <3>4. \A e \in deals' : e.position < nextTicket' /\ \A o \in Orders' : o.ticket # e.position
      BY <2>2, <2>3, <2>5 DEF TicketsApart
    <3>5. QED
      BY <3>2, <3>3, <3>4 DEF TicketsApart
  <2>7. QED
    BY <2>2, <2>4, <2>6 DEF RowsHonest, Sends
<1>9. ASSUME NEW deal \in deals, OnTradeTransaction(deal)
      PROVE  TicketsApart' /\ RowsHonest'
  <2>1. /\ UNCHANGED <<book, nextTicket, at>> /\ at = "idle" /\ deals' \subseteq deals
        /\ MarkFilled(deal)
    BY <1>9 DEF OnTradeTransaction
  <2>2. Transition("PENDING", "FILLED") = "FILLED"
    BY DEF Transition, LegalMoves
  <2>3. \A s \in rows' : s \in rows \/ (s.ticket = deal.position /\ s.state = "FILLED")
    BY <2>1, <2>2 DEF MarkFilled, TypeOK, Row
  <2>4. QED
    BY <2>1, <2>3 DEF TicketsApart, RowsHonest, Orders, PrunedStates, Sends
<1>10. CASE \E o \in book : FillOrder(o)
  BY <1>10, FillHolds
<1>11. CASE (\E t \in book : EndTicket(t)) \/ NewBar \/ UNCHANGED vars
  <2>1. book' \subseteq book /\ UNCHANGED <<at, rows, cur, deals, nextTicket>>
    BY <1>11 DEF EndTicket, NewBar, vars, ea, broker
  <2>2. QED
    BY <2>1 DEF TicketsApart, RowsHonest, Orders
<1>12. CASE Crash \/ Reinit
  BY <1>12 DEF Crash, Reinit, Forget, TicketsApart, RowsHonest, Sends
<1>13. QED
  BY <1>1, <1>2, <1>3, <1>4, <1>5, <1>6, <1>7, <1>8, <1>9, <1>10, <1>11, <1>12
     DEF Next, EAStep, Environment

\* A row the broker has a ticket for is still there after a step of a running EA.
LEMMA RowStays ==
    ASSUME HoldInv, [Next]_vars, at' # "down",
           NEW r \in rows, r.ticket \in {t.ticket : t \in book'}
    PROVE  r.id \in {s.id : s \in rows'}
<1> USE DEF HoldInv, TypeInv
<1>1. r \in Row
  BY DEF TypeOK
<1>2. CASE ManageTick
  <2>1. PICK passed \in {f \in [rows -> TradeStates] : \A q \in rows : f[q] \in AfterPass(q)} :
           rows' = Prune({[q EXCEPT !.state = passed[q]] : q \in rows})
    BY <1>2 DEF ManageTick
  <2>2. PICK t \in book : t.ticket = r.ticket /\ t \in Ticket
    BY <1>2 DEF ManageTick, broker, TypeOK
  <2>3. r.state \notin PrunedStates
    BY <2>2 DEF RowsHonest, Ticket, Tickets, None
  <2>4. r.state \in ManagedStates => t \in Positions
    BY <2>2 DEF TicketsApart, Orders, Positions, Ticket
  <2>5. passed[r] \notin PrunedStates
    <3>1. CASE r.state \notin ManagedStates
      BY <2>3, <3>1 DEF AfterPass
    <3>2. CASE r.state \in ManagedStates
      <4>1. passed[r] \in ManagedStates
        BY <1>1, <2>2, <2>4, <3>2, PassKeeps
      <4>2. QED
        BY <4>1 DEF ManagedStates, PrunedStates
    <3>3. QED
      BY <3>1, <3>2
  <2>6. [r EXCEPT !.state = passed[r]] \in rows' /\ [r EXCEPT !.state = passed[r]].id = r.id
    BY <1>1, <2>1, <2>5 DEF Prune, Row
  <2>7. QED
    BY <2>6
<1>3. CASE (\E deal \in deals : OnTradeTransaction(deal))
  <2>1. PICK deal \in deals : MarkFilled(deal)
    BY <1>3 DEF OnTradeTransaction
  <2>2. \E s \in rows' : s.id = r.id
    <3> DEFINE s == IF r.state = "PENDING" /\ r.ticket = deal.order
                    THEN [r EXCEPT !.ticket = deal.position, !.state = Transition(r.state, "FILLED")]
                    ELSE r
    <3>1. s \in rows'
      BY <2>1 DEF MarkFilled
    <3>2. s.id = r.id
      BY <1>1 DEF Row
    <3>3. QED
      BY <3>1, <3>2
  <2>3. QED
    BY <2>2
<1>4. CASE SetRow("REJECTED", None) \/ SetRow("FILLED", nextTicket)
  <2>1. PICK state, ticket : SetRow(state, ticket)
    BY <1>4
  <2> DEFINE s == IF r.id = cur.id
                  THEN [r EXCEPT !.state = Transition(r.state, state), !.ticket = ticket]
                  ELSE r
  <2>2. s \in rows'
    BY <2>1 DEF SetRow
  <2>3. s.id = r.id
    BY <1>1 DEF Row
  <2>4. QED
    BY <2>2, <2>3
<1>5. CASE SetTicket(nextTicket)
  <2> DEFINE s == IF r.id = cur.id THEN [r EXCEPT !.ticket = nextTicket] ELSE r
  <2>1. s \in rows'
    BY <1>5 DEF SetTicket
  <2>2. s.id = r.id
    BY <1>1 DEF Row
  <2>3. QED
    BY <2>1, <2>2
<1>6. CASE rows \subseteq rows'
  BY <1>6
<1>7. QED
  <2>1. ~ RecoverPositions
    BY DEF RecoverPositions, RowsHonest
  <2>2. ~ Crash /\ ~ Reinit
    BY DEF Crash, Reinit, Forget
  <2>3. Submit => rows \subseteq rows'
    BY SubmitCases
  <2>4. SendAccepted \/ SendDeferred => SetRow("FILLED", nextTicket) \/ SetTicket(nextTicket)
    BY DEF SendAccepted, SendDeferred
  <2>5. SendRefused \/ SendRetryable \/ SendUnacknowledged => SetRow("REJECTED", None) \/ rows' = rows
    BY DEF SendRefused, SendRetryable, SendUnacknowledged, NextAttempt
  <2>6. \/ Decide \/ NewBar \/ UNCHANGED vars \/ (\E t \in book : FillOrder(t) \/ EndTicket(t))
        => rows' = rows
    BY DEF Decide, NewBar, FillOrder, EndTicket, vars, ea
  <2>7. RecoverOrders => rows \subseteq rows'
    BY DEF RecoverOrders
  <2>8. QED
    BY <1>2, <1>3, <1>4, <1>5, <1>6, <2>1, <2>2, <2>3, <2>4, <2>5, <2>6, <2>7
       DEF Next, EAStep, Environment

\* Prune and the passes that lead to it lose no ticket the broker still holds;
\* of the misbehaviours, only a deferred market request could make them.
THEOREM LetsGoOfNothingLive ==
    ASSUME "deferred" \notin Faults
    PROVE  Spec => LetsGoOnlyWhatEnded
<1>1. Init => HoldInv
  BY InitType DEF Init, CurSet, TypeInv, HoldInv, TicketsUnique, TicketsApart, RowsHonest, Orders, Sends
<1>2. HoldInv /\ TicketsUnique' /\ [Next]_vars => HoldInv'
  BY NextType, NextHold DEF HoldInv
<1>3. Spec => []TicketsUnique
  <2>1. Init => RowInv
    BY InitType DEF Init, CurSet, TypeInv, RowInv, TicketsUnique, RowPerDecision, Sends
  <2>2. RowInv /\ [Next]_vars => RowInv'
    BY NextType, NextUnique DEF RowInv
  <2>3. RowInv => TicketsUnique
    BY DEF RowInv
  <2>4. QED
    BY <2>1, <2>2, <2>3, PTL DEF Spec
<1>4. HoldInv /\ [Next]_vars =>
         [at' # "down" => \A r \in rows : r.ticket \in {t.ticket : t \in book'} =>
                              r.id \in {s.id : s \in rows'}]_vars
  BY RowStays
<1>5. QED
  BY <1>1, <1>2, <1>3, <1>4, PTL DEF Spec, LetsGoOnlyWhatEnded
-----------------------------------------------------------------------------
(* Every decision is acted on at most once: TradeExecution implements        *)
(* DecisionOutcome.  What is over stays over, because its id is not issued   *)
(* again.                                                                    *)

EndedInv ==
    /\ ended \subseteq disk
    /\ \A t \in book : t.id \notin ended
    /\ at \in {"submit"} \cup Sends => cur.id \notin ended

OutcomeInv == OnceInv /\ EndedInv

Held(d) == {t \in book : t.id = d}

\* The stage of a decision, case by case.
LEMMA StageIs ==
    OutcomeInv =>
        /\ \A d \in Ids : d \in ended => StageOf(d) = "over"
        /\ \A d \in Ids : d \notin ended /\ Held(d) = {} =>
               StageOf(d) = IF d \in disk THEN "issued" ELSE "unissued"
        /\ \A o \in Orders : StageOf(o.id) = "resting"
        /\ \A p \in Positions : StageOf(p.id) = "open"
<1> SUFFICES ASSUME OutcomeInv
             PROVE  /\ \A d \in Ids : d \in ended => StageOf(d) = "over"
                    /\ \A d \in Ids : d \notin ended /\ Held(d) = {} =>
                           StageOf(d) = IF d \in disk THEN "issued" ELSE "unissued"
                    /\ \A o \in Orders : StageOf(o.id) = "resting"
                    /\ \A p \in Positions : StageOf(p.id) = "open"
  OBVIOUS
<1>1. ASSUME NEW d \in Ids, d \in ended PROVE StageOf(d) = "over"
  <2>1. Held(d) = {}
    BY <1>1 DEF OutcomeInv, EndedInv, Held
  <2>2. QED
    BY <1>1, <2>1 DEF StageOf, Held
<1>2. ASSUME NEW d \in Ids, d \notin ended, Held(d) = {}
      PROVE  StageOf(d) = IF d \in disk THEN "issued" ELSE "unissued"
  BY <1>2 DEF StageOf, Held
<1>3. ASSUME NEW t \in book
      PROVE  /\ Held(t.id) = {t} /\ t \in Held(t.id) /\ t.id \in disk /\ t.id \notin ended
             /\ t \in Orders <=> ~ (t \in Positions)
  <2>1. Held(t.id) = {t}
    BY DEF OutcomeInv, OnceInv, OneTicketPerDecision, Held
  <2>2. t.id \in disk /\ t.id \notin ended
    BY DEF OutcomeInv, OnceInv, IdsInv, EndedInv
  <2>3. t \in Orders <=> ~ (t \in Positions)
    BY DEF OutcomeInv, OnceInv, TypeInv, TypeOK, Ticket, Orders, Positions
  <2>4. QED
    BY <2>1, <2>2, <2>3
<1>4. ASSUME NEW o \in Orders PROVE StageOf(o.id) = "resting"
  <2>1. o \in book
    BY DEF Orders
  <2>2. Held(o.id) = {o} /\ Held(o.id) # {} /\ Held(o.id) \subseteq Orders
    BY <1>3, <2>1
  <2>3. QED
    BY <1>3, <2>1, <2>2 DEF StageOf, Held
<1>5. ASSUME NEW p \in Positions PROVE StageOf(p.id) = "open"
  <2>1. p \in book
    BY DEF Positions
  <2>2. Held(p.id) = {p} /\ Held(p.id) # {} /\ ~ (Held(p.id) \subseteq Orders)
    BY <1>3, <2>1
  <2>3. QED
    BY <1>3, <2>1, <2>2 DEF StageOf, Held
<1>6. QED
  BY <1>1, <1>2, <1>4, <1>5

\* The same of the state after a step.
LEMMA StageIsNext ==
    OutcomeInv' =>
        /\ \A d \in Ids : d \in ended' => StageOf(d)' = "over"
        /\ \A d \in Ids : d \notin ended' /\ Held(d)' = {} =>
               StageOf(d)' = IF d \in disk' THEN "issued" ELSE "unissued"
        /\ \A o \in Orders' : StageOf(o.id)' = "resting"
        /\ \A p \in Positions' : StageOf(p.id)' = "open"
<1>1. (OutcomeInv =>
        /\ \A d \in Ids : d \in ended => StageOf(d) = "over"
        /\ \A d \in Ids : d \notin ended /\ Held(d) = {} =>
               StageOf(d) = IF d \in disk THEN "issued" ELSE "unissued"
        /\ \A o \in Orders : StageOf(o.id) = "resting"
        /\ \A p \in Positions : StageOf(p.id) = "open")'
  BY StageIs, PTL
<1>2. QED
  BY <1>1

\* What is over stays over, and nothing new is opened for it.
LEMMA NextEnded ==
    ASSUME Faults \cap {"unacknowledged", "diskFull"} = {}, OutcomeInv, [Next]_vars
    PROVE  EndedInv'
<1> USE DEF OutcomeInv, OnceInv, TypeInv, EndedInv
<1>1. CASE Decide
  <2>1. UNCHANGED <<book, ended>> /\ at = "decide" /\ disk \subseteq disk'
    BY <1>1 DEF Decide, Save, IdsInv, broker
  <2>2. at' \in {"submit"} \cup Sends => cur'.id = nextId
    BY <1>1 DEF Decide, Sends
  <2>3. nextId \notin disk
    BY <2>1 DEF IdsInv, TypeOK, Ids
  <2>4. QED
    BY <2>1, <2>2, <2>3
<1>2. CASE SendAccepted \/ SendDeferred
  <2>1. /\ at \in Sends /\ at' = "idle" /\ UNCHANGED <<disk, ended>>
        /\ \A t \in book' : t \in book \/ t.id = cur.id
    BY <1>2 DEF SendAccepted, SendDeferred, EndTick, Accept, Sends
  <2>2. QED
    BY <2>1 DEF Sends
<1>3. CASE \E o \in book : FillOrder(o)
  <2>1. PICK o \in book : FillOrder(o)
    BY <1>3
  <2>2. UNCHANGED <<at, cur, disk, ended>> /\ \A t \in book' : t \in book \/ t.id = o.id
    BY <2>1 DEF FillOrder, ea, TypeOK, Ticket
  <2>3. QED
    BY <2>2
<1>4. CASE \E t \in book : EndTicket(t)
  <2>1. PICK t \in book : EndTicket(t)
    BY <1>4
  <2>2. /\ book' = book \ {t} /\ ended' = ended \cup {t.id}
        /\ UNCHANGED <<at, cur, disk>> /\ t.id \in disk
    BY <2>1 DEF EndTicket, ea, IdsInv
  <2>3. QED
    BY <2>2 DEF OneTicketPerDecision, NothingSentYet
<1>5. CASE \/ RecoverPositions \/ RecoverOrders \/ ManageTick \/ Submit \/ SendRefused
           \/ SendRetryable \/ (\E deal \in deals : OnTradeTransaction(deal))
           \/ NewBar \/ Crash \/ Reinit \/ UNCHANGED vars
  <2>1. /\ UNCHANGED <<book, disk, ended>>
        /\ at' \in {"submit"} \cup Sends => cur' = cur /\ at \in {"submit"} \cup Sends
    BY <1>5 DEF RecoverPositions, RecoverOrders, ManageTick, Submit, SendRefused,
                SendRetryable, NextAttempt, EndTick, OnTradeTransaction, NewBar, Crash,
                Reinit, Forget, vars, ea, broker, Sends
  <2>2. QED
    BY <2>1
<1>6. CASE SendUnacknowledged
  BY <1>6 DEF SendUnacknowledged
<1>7. QED
  BY <1>1, <1>2, <1>3, <1>4, <1>5, <1>6 DEF Next, EAStep, Environment

LEMMA OutcomeInvariant ==
    ASSUME Faults \cap {"unacknowledged", "diskFull"} = {}
    PROVE  Spec => []OutcomeInv
<1>1. Init => EndedInv
  BY DEF Init, EndedInv
<1>2. EndedInv /\ OnceInv /\ [Next]_vars => EndedInv'
  BY NextEnded DEF OutcomeInv
<1>3. QED
  BY <1>1, <1>2, OnceInvariant, PTL DEF Spec, OutcomeInv

\* A decision whose tickets, end and row on the disk a step leaves alone stays in
\* its stage.
LEMMA StageKept ==
    ASSUME OutcomeInv, OutcomeInv', NEW d \in Ids, Held(d)' = Held(d),
           d \in disk' <=> d \in disk, d \in ended' <=> d \in ended
    PROVE  StageOf(d)' = StageOf(d)
<1>1. CASE d \in ended
  BY <1>1, StageIs, StageIsNext
<1>2. CASE d \notin ended /\ Held(d) = {}
  BY <1>2, StageIs, StageIsNext
<1>3. CASE d \notin ended /\ Held(d) # {}
  <2>1. PICK t \in book : t.id = d /\ t \in book'
    BY <1>3 DEF Held
  <2>2. (t \in Orders /\ t \in Orders') \/ (t \in Positions /\ t \in Positions')
    BY <2>1 DEF OutcomeInv, OnceInv, TypeInv, TypeOK, Ticket, Orders, Positions
  <2>3. QED
    BY <2>1, <2>2, StageIs, StageIsNext
<1>4. QED
  BY <1>1, <1>2, <1>3

\* A step that touches one decision is a move of DecisionOutcome.
LEMMA OneMove ==
    ASSUME OutcomeInv, OutcomeInv', NEW d \in Ids,
           \A e \in Ids : e # d =>
              /\ Held(e)' = Held(e)
              /\ e \in disk' <=> e \in disk
              /\ e \in ended' <=> e \in ended,
           \/ StageOf(d) = "unissued" /\ StageOf(d)' = "issued"
           \/ StageOf(d) = "issued" /\ StageOf(d)' \in {"resting", "open"}
           \/ StageOf(d) = "resting" /\ StageOf(d)' \in {"open", "over"}
           \/ StageOf(d) = "open" /\ StageOf(d)' = "over"
    PROVE  Outcome!OutcomeNext
<1>1. \A e \in Ids : e # d => StageOf(e)' = StageOf(e)
  BY StageKept
<1>2. [e \in Ids |-> StageOf(e)]' = [[e \in Ids |-> StageOf(e)] EXCEPT ![d] = StageOf(d)']
  BY <1>1
<1>3. [e \in Ids |-> StageOf(e)][d] = StageOf(d)
  OBVIOUS
<1>4. Outcome!Issue(d) \/ Outcome!Rest(d) \/ Outcome!Open(d) \/ Outcome!Finish(d)
  BY <1>2, <1>3 DEF Outcome!Issue, Outcome!Rest, Outcome!Open, Outcome!Finish, Outcome!Move
<1>5. QED
  BY <1>4 DEF Outcome!OutcomeNext

\* Each action is one of its moves, or none.
LEMMA NextOutcome ==
    ASSUME Faults \cap {"unacknowledged", "diskFull"} = {}, OutcomeInv, OutcomeInv', [Next]_vars
    PROVE  Outcome!OutcomeNext \/ UNCHANGED [d \in Ids |-> StageOf(d)]
<1>1. CASE Decide
  <2>1. UNCHANGED <<book, ended>> /\ at = "decide"
    BY <1>1 DEF Decide, broker
  <2>2. CASE disk' = disk
    <3>1. \A d \in Ids : StageOf(d)' = StageOf(d)
      BY <2>1, <2>2, StageKept DEF Held
    <3>2. QED
      BY <3>1
  <2>3. CASE disk' # disk
    <3>1. PICK d \in Ids : d = nextId /\ disk' = disk \cup {d}
      BY <1>1, <2>3 DEF Decide, Save, OutcomeInv, OnceInv, TypeInv, TypeOK, Ids
    <3>2. d \notin disk /\ d \notin ended /\ Held(d) = {}
      BY <2>1, <3>1 DEF OutcomeInv, OnceInv, IdsInv, EndedInv, Held, Ids
    <3>3. StageOf(d) = "unissued" /\ StageOf(d)' = "issued"
      BY <2>1, <3>1, <3>2, StageIs, StageIsNext DEF Held
    <3>4. QED
      BY <2>1, <3>1, <3>3, OneMove DEF Held
  <2>4. QED
    BY <2>2, <2>3
<1>2. CASE SendAccepted \/ SendDeferred
  <2>1. PICK kind \in {"order", "position"} : Accept(kind)
    BY <1>2 DEF SendAccepted, SendDeferred
  <2>2. PICK n : /\ book' = book \cup {n} /\ n.id = cur.id
                 /\ n \in Orders' \/ n \in Positions'
    <3>1. LET n == [ticket |-> nextTicket, id |-> cur.id, zone |-> cur.zone, kind |-> kind]
          IN  book' = book \cup {n} /\ n.id = cur.id /\ n.kind \in {"order", "position"}
      BY <2>1 DEF Accept
    <3>2. QED
      BY <3>1 DEF Orders, Positions
  <2>3. UNCHANGED <<disk, ended>> /\ at \in Sends /\ cur.id \in Ids
    BY <1>2, <2>1 DEF SendAccepted, SendDeferred, Accept, OutcomeInv, OnceInv, TypeInv, CurSet, Sends
  <2>4. Held(cur.id) = {} /\ cur.id \notin ended /\ cur.id \in disk
    BY <2>3 DEF OutcomeInv, OnceInv, IdsInv, EndedInv, NothingSentYet, Held
  <2>5. StageOf(cur.id) = "issued"
    BY <2>3, <2>4, StageIs
  <2>6. StageOf(n.id)' \in {"resting", "open"}
    BY <2>2, StageIsNext
  <2>7. PICK d \in Ids : d = cur.id
    BY <2>3
  <2>8. StageOf(d) = "issued" /\ StageOf(d)' \in {"resting", "open"}
    BY <2>2, <2>5, <2>6, <2>7
  <2>9. \A e \in Ids : e # d => Held(e)' = Held(e)
    BY <2>2, <2>7 DEF Held
  <2>10. QED
    BY <2>3, <2>8, <2>9, OneMove
<1>3. CASE \E o \in book : FillOrder(o)
  <2>1. PICK o \in book : FillOrder(o)
    BY <1>3
  <2>2. PICK k : book' = (book \ {o}) \cup {[o EXCEPT !.kind = "position", !.ticket = k]}
    BY <2>1 DEF FillOrder
  <2>3. o \in Orders /\ o \in Ticket /\ o.id \in Ids /\ UNCHANGED <<disk, ended>>
    BY <2>1 DEF FillOrder, Orders, OutcomeInv, OnceInv, TypeInv, TypeOK, Ticket
  <2>4. PICK n : /\ book' = (book \ {o}) \cup {n} /\ n.id = o.id
                 /\ n \in Positions'
    <3>1. LET n == [o EXCEPT !.kind = "position", !.ticket = k]
          IN  book' = (book \ {o}) \cup {n} /\ n.id = o.id /\ n.kind = "position"
      BY <2>2, <2>3 DEF Ticket
    <3>2. QED
      BY <3>1 DEF Positions
  <2>5. PICK d \in Ids : d = o.id
    BY <2>3
  <2>6. StageOf(d) = "resting"
    BY <2>3, <2>5, StageIs
  <2>7. StageOf(n.id)' = "open"
    BY <2>4, StageIsNext
  <2>8. StageOf(d)' = "open"
    BY <2>4, <2>5, <2>7
  <2>9. \A e \in Ids : e # d => Held(e)' = Held(e)
    BY <2>4, <2>5 DEF Held
  <2>10. QED
    BY <2>3, <2>6, <2>8, <2>9, OneMove
<1>4. CASE \E t \in book : EndTicket(t)
  <2>1. PICK t \in book : EndTicket(t)
    BY <1>4
  <2>2. /\ book' = book \ {t} /\ ended' = ended \cup {t.id} /\ disk' = disk
        /\ t.id \in Ids /\ (t \in Orders \/ t \in Positions)
    BY <2>1 DEF EndTicket, OutcomeInv, OnceInv, TypeInv, TypeOK, Ticket,
                Orders, Positions
  <2>3. PICK d \in Ids : d = t.id
    BY <2>2
  <2>4. StageOf(d) \in {"resting", "open"}
    BY <2>2, <2>3, StageIs
  <2>5. StageOf(d)' = "over"
    BY <2>2, <2>3, StageIsNext
  <2>6. \A e \in Ids : e # d => Held(e)' = Held(e)
    BY <2>2, <2>3 DEF Held
  <2>7. QED
    BY <2>2, <2>3, <2>4, <2>5, <2>6, OneMove
<1>5. CASE \/ RecoverPositions \/ RecoverOrders \/ ManageTick \/ Submit \/ SendRefused
           \/ SendRetryable \/ (\E deal \in deals : OnTradeTransaction(deal))
           \/ NewBar \/ Crash \/ Reinit \/ UNCHANGED vars
  <2>1. UNCHANGED <<book, disk, ended>>
    BY <1>5 DEF RecoverPositions, RecoverOrders, ManageTick, Submit, SendRefused,
                SendRetryable, OnTradeTransaction, NewBar, Crash, Reinit, Forget, vars, broker
  <2>2. \A d \in Ids : StageOf(d)' = StageOf(d)
    BY <2>1, StageKept DEF Held
  <2>3. QED
    BY <2>2
<1>6. CASE SendUnacknowledged
  BY <1>6 DEF SendUnacknowledged
<1>7. QED
  BY <1>1, <1>2, <1>3, <1>4, <1>5, <1>6 DEF Next, EAStep, Environment

\* Across retries, fills, crashes and restarts a decision is acted on at most
\* once: the execution path implements DecisionOutcome, if every acknowledgement
\* arrives and the decisions file can be written.
THEOREM ActedOnce ==
    ASSUME Faults \cap {"unacknowledged", "diskFull"} = {}
    PROVE  Spec => DecidedOnceActedOnce
<1>1. Init => Outcome!OutcomeInit
  <2>1. Init => \A d \in Ids : StageOf(d) = "unissued"
    BY DEF Init, StageOf
  <2>2. QED
    BY <2>1 DEF Outcome!OutcomeInit
<1>2. OutcomeInv /\ OutcomeInv' /\ [Next]_vars
         => [Outcome!OutcomeNext]_[d \in Ids |-> StageOf(d)]
  BY NextOutcome
<1>3. QED
  BY <1>1, <1>2, OutcomeInvariant, PTL
     DEF Spec, DecidedOnceActedOnce, Outcome!OutcomeSpec
=============================================================================
