--------------------------- MODULE TradeExecution ---------------------------
(***************************************************************************)
(* How the Expert Advisor turns decisions into broker orders, follows them *)
(* to the end, and takes them up again after a restart.                    *)
(*                                                                         *)
(* The EA is single-threaded: a handler (OnInit, OnTick,                   *)
(* OnTradeTransaction) runs to its end before the next one starts, but it  *)
(* calls the broker while it runs, and the broker fills, closes and        *)
(* cancels on its own between any two of those calls.  "at" is the point   *)
(* the EA has reached between two such calls.  A crash may come at any     *)
(* point: it loses every variable of the EA and none of the broker's and   *)
(* the disk's.                                                             *)
(*                                                                         *)
(* Prices, volumes and stops are left to module PositionManager; here a    *)
(* pass of the position manager advances a row or does not.                *)
(***************************************************************************)
EXTENDS TradeStateMachine, FiniteSets

CONSTANTS
    Zones,        \* price zones (fair value gaps) a setup can be built on
    MaxOpen,      \* InpMaxOpenTrades
    Attempts,     \* m_maxRetries of the broker adapter
    Routes,       \* the values InpUseMarketOrders takes: see Sends
    Faults,       \* the misbehaviour of the environment a run admits
    MaxDecisions, \* bound: decision ids 1 .. MaxDecisions
    MaxTickets,   \* bound: broker tickets 1 .. MaxTickets
    MaxBars       \* bound: bars 1 .. MaxBars

\* The misbehaviours.  "unacknowledged": the broker executes a request and the
\* EA sees a retcode its retry loop retries (TIMEOUT, CONNECTION, DONE_PARTIAL).
\* "deferred": a market request is reported PLACED, or its deal cannot be read,
\* and the order ticket comes back for a position that is not there yet.
\* "diskFull": AppendLine cannot open the file.  "fillDuringInit": an order
\* fills between the two loops of Recover().
FaultKinds == {"unacknowledged", "deferred", "diskFull", "fillDuringInit"}

ASSUME ExecutionAssumption ==
    /\ MaxOpen \in Nat /\ Attempts \in Nat \ {0}
    /\ Routes \subseteq {"market", "limit"}
    /\ Faults \subseteq FaultKinds
    /\ MaxDecisions \in Nat /\ MaxTickets \in Nat /\ MaxBars \in Nat

Ids == 1 .. MaxDecisions
Tickets == 1 .. MaxTickets
None == 0   \* no id, no ticket, no zone, no bar yet
NoDecision == [id |-> None, zone |-> None]

VARIABLES
    at,         \* where the EA is: see Points
    rows,       \* COrderManager::m_trades
    store,      \* CDecisionStore::m_decisions: the ids in memory
    nextId,     \* CDecisionEngine::m_nextId
    lastBar,    \* g_lastBarTime
    lastLogged, \* g_lastLoggedTime
    cur,        \* the decision OnTick is submitting
    tries,      \* i of the adapter's retry loop
    disk,       \* the decision ids in MedisTouch_Decisions_<symbol>.csv
    book,       \* the broker's resting orders and open positions of this EA
    nextTicket, \* the broker's next ticket
    ended,      \* decisions whose order or position the broker has ended
    deals,      \* entry deals of resting orders, not yet handed to the EA
    bar         \* open time of the current bar

ea     == <<at, rows, store, nextId, lastBar, lastLogged, cur, tries>>
broker == <<book, nextTicket, ended, deals>>
vars   == <<ea, disk, broker, bar>>

\* In the adapter's retry loop, with an order at market or a resting limit
\* order.  The input may change whenever the EA is set up again.
Sends  == {"market", "limit"}
Points == {"down", "orders", "idle", "decide", "submit"} \cup Sends
Row    == [id : Ids, state : TradeStates, ticket : Tickets \cup {None}]
Ticket == [ticket : Tickets, id : Ids, zone : Zones, kind : {"order", "position"}]
Deal   == [order : Tickets, position : Tickets]

TypeOK ==
    /\ at \in Points
    /\ rows \subseteq Row
    /\ store \subseteq Ids
    /\ nextId \in 1 .. MaxDecisions + 1
    /\ lastBar \in 0 .. MaxBars + 1 /\ lastLogged \in 0 .. MaxBars + 1
    /\ cur \in [id : Ids \cup {None}, zone : Zones \cup {None}]
    /\ tries \in 0 .. Attempts - 1
    /\ disk \subseteq Ids
    /\ book \subseteq Ticket
    /\ nextTicket \in 1 .. MaxTickets + 1
    /\ ended \subseteq Ids
    /\ deals \subseteq Deal
    /\ bar \in 1 .. MaxBars + 1

Positions == {t \in book : t.kind = "position"}
Orders    == {t \in book : t.kind = "order"}
LiveTickets == {t.ticket : t \in book}

RowIds == {r.id : r \in rows}
\* Mutant of OpenRows: a resting order does not count.
OpenRowsWithoutPending == {r \in rows : r.state \in ManagedStates}

OpenRows == {r \in rows : r.state \in OpenStates}
OpenCount == Cardinality(OpenRows)

Init ==
    /\ at = "down"
    /\ rows = {} /\ store = {} /\ nextId = 1
    /\ lastBar = None /\ lastLogged = None
    /\ cur = NoDecision /\ tries = 0
    /\ disk = {}
    /\ book = {} /\ nextTicket = 1 /\ ended = {} /\ deals = {}
    /\ bar = 1
-----------------------------------------------------------------------------
(* OnInit: reload the store, rebuild the rows from the broker, seed the ids. *)

\* InferPositionState(): the evidence is a stop and a volume (module
\* PositionManager); here any of its three answers.
InferredStates == {"FILLED", "PROTECTED", "RUNNER"}

\* Mutant of RestorablePositions: RestoreTrade() does not look the id up.
RestorablePositionsEach(known) == {p \in Positions : p.id \in known}

\* The positions Recover() can restore: the decision is found in the store,
\* and RestoreTrade() takes one position (the first listed) per decision.
RestorablePositions(known) ==
    {p \in Positions : /\ p.id \in known
                       /\ \A q \in Positions : q.id = p.id => p.ticket <= q.ticket}

RestorableOrders(known, taken) ==
    {o \in Orders : /\ o.id \in known
                    /\ o.id \notin taken
                    /\ \A q \in Orders : q.id = o.id => o.ticket <= q.ticket}

\* OnInit() up to the end of the position loop of Recover().
RecoverPositions ==
    /\ at = "down"
    /\ \E inferred \in [RestorablePositions(disk) -> InferredStates] :
         rows' = {[id |-> p.id, state |-> inferred[p], ticket |-> p.ticket] :
                     p \in RestorablePositions(disk)}
    /\ store' = disk
    /\ at' = "orders"
    /\ UNCHANGED <<nextId, lastBar, lastLogged, cur, tries, disk, broker, bar>>

\* Mutant of IsSeed: the highest id itself, without the + 1.
IsSeedNotPast(n, known) ==
    /\ \A d \in known : d <= n
    /\ n = 1 \/ n \in known

\* The id OnInit() hands to SeedNextId(): one past the highest id of the store.
\* SeedNextId() itself only ever raises the counter.
IsSeed(n, known) ==
    /\ \A d \in known : d < n
    /\ n = 1 \/ n - 1 \in known

\* The order loop of Recover() and the rest of OnInit().
RecoverOrders ==
    /\ at = "orders"
    /\ rows' = rows \cup {[id |-> o.id, state |-> "PENDING", ticket |-> o.ticket] :
                             o \in RestorableOrders(store, RowIds)}
    /\ \E n \in 1 .. MaxDecisions + 1 :
         IsSeed(n, store) /\ nextId' = IF n > nextId THEN n ELSE nextId
    /\ at' = "idle"
    /\ UNCHANGED <<store, lastBar, lastLogged, cur, tries, disk, broker, bar>>
-----------------------------------------------------------------------------
(* OnTick: manage, prune, pass the gates, decide, submit. *)

\* Mutant of AfterPass: a closed row is never archived.
AfterPassNotArchived(r) ==
    IF r.state \in ManagedStates /\ r.ticket \notin {p.ticket : p \in Positions}
    THEN {Transition(r.state, "CLOSED")} ELSE {r.state}

\* What one pass of CPositionManager::OnTick can leave in a row.
AfterPass(r) ==
    IF r.state \notin ManagedStates THEN {r.state}
    ELSE IF r.ticket \notin {p.ticket : p \in Positions}
    THEN {Transition(Transition(r.state, "CLOSED"), "ARCHIVED")}
    ELSE CASE r.state = "FILLED"    -> {"FILLED", Transition("FILLED", "PROTECTED")}
           [] r.state = "PROTECTED" -> {"PROTECTED", Transition("PROTECTED", "PARTIAL")}
           [] r.state = "PARTIAL"   -> {"PARTIAL", Transition("PARTIAL", "RUNNER")}
           [] r.state = "RUNNER"    -> {"RUNNER"}

\* Mutant of Prune: keeps the managed rows only.
PruneUnmanaged(trades) == {r \in trades : r.state \in ManagedStates}

Prune(trades) == {r \in trades : r.state \notin PrunedStates}

\* OnTick() up to the new-bar gate: positions.OnTick, Prune, then the risk
\* halts and the news lock (which return before g_lastBarTime is set), then the
\* bar gate.
ManageTick ==
    /\ at = "idle"
    /\ \E passed \in {f \in [rows -> TradeStates] : \A r \in rows : f[r] \in AfterPass(r)} :
         rows' = Prune({[r EXCEPT !.state = passed[r]] : r \in rows})
    /\ \/ at' = "idle" /\ UNCHANGED lastBar
       \/ /\ at' = IF bar # lastBar THEN "decide" ELSE "idle"
          /\ lastBar' = bar
    /\ UNCHANGED <<store, nextId, lastLogged, cur, tries, disk, broker, bar>>

\* Mutant of Save: nothing reaches the file.
SaveInMemoryOnly(id) == store' = store \cup {id} /\ disk' = disk

\* CDecisionStore::Save: the row in memory is added whether or not the append
\* to the file succeeds, and OnTick does not look at the result.
Save(id) ==
    /\ store' = store \cup {id}
    /\ \/ disk' = IF id \in store THEN disk ELSE disk \cup {id}
       \/ "diskFull" \in Faults /\ disk' = disk

\* OnTick() from the setups to the decision: nothing to trade, or a setup that
\* is routed (its creation_time, the current time, is not g_lastLoggedTime) and
\* ignored by Decide(), or decided and saved.  A decision that is not to be
\* executed, or that lot sizing or the portfolio refuses, ends the tick.
Decide ==
    /\ at = "decide"
    /\ \/ at' = "idle" /\ UNCHANGED <<store, nextId, lastLogged, cur, disk>>
       \/ /\ bar # lastLogged
          /\ lastLogged' = bar
          /\ \/ at' = "idle" /\ UNCHANGED <<store, nextId, cur, disk>>
             \/ /\ nextId <= MaxDecisions
                /\ nextId' = nextId + 1
                /\ Save(nextId)
                /\ \/ at' = "idle" /\ cur' = cur
                   \/ \E z \in Zones :
                        at' = "submit" /\ cur' = [id |-> nextId, zone |-> z]
    /\ UNCHANGED <<rows, lastBar, tries, broker, bar>>

\* The end of OnTick().  SaveExecution and Publish, which follow a submission,
\* change nothing this module keeps.
EndTick == at' = "idle" /\ cur' = NoDecision /\ tries' = 0

\* The walk of a new row's state machine to the broker call.
Routed == Transition("DETECTED", "VALIDATED")
SubmittedState(route) ==
    IF route = "market" THEN Transition(Routed, "PENDING")
    ELSE Transition(Transition(Routed, "WAITING"), "PENDING")

\* COrderManager::Submit's guards on the rows.
MaySubmit(id) == OpenCount < MaxOpen /\ id \notin RowIds

\* COrderManager::Submit up to the broker call: refused (a guard, or the market
\* has left the entry price), or a row that has walked to PENDING.
Submit ==
    /\ at = "submit"
    /\ \/ EndTick /\ UNCHANGED rows
       \/ /\ MaySubmit(cur.id)
          /\ \E route \in Routes :
               /\ rows' = rows \cup {[id |-> cur.id, state |-> SubmittedState(route),
                                     ticket |-> None]}
               /\ at' = route
          /\ UNCHANGED <<cur, tries>>
    /\ UNCHANGED <<store, nextId, lastBar, lastLogged, disk, broker, bar>>
-----------------------------------------------------------------------------
(* The broker call of Submit: the adapter's checks and its retry loop. *)

\* The row Submit() is working on gets a ticket, or a state and a ticket.
SetTicket(ticket) ==
    rows' = {IF r.id = cur.id THEN [r EXCEPT !.ticket = ticket] ELSE r : r \in rows}

SetRow(state, ticket) ==
    rows' = {IF r.id = cur.id
             THEN [r EXCEPT !.state = Transition(r.state, state), !.ticket = ticket]
             ELSE r : r \in rows}

\* The broker accepts the request of the current decision under a new ticket.
Accept(kind) ==
    /\ nextTicket \in Tickets
    /\ book' = book \cup {[ticket |-> nextTicket, id |-> cur.id,
                           zone |-> cur.zone, kind |-> kind]}
    /\ nextTicket' = nextTicket + 1
    /\ UNCHANGED <<ended, deals>>

\* A request that is answered DONE (or PLACED, for a limit order).
SendAccepted ==
    /\ \/ at = "market" /\ Accept("position") /\ SetRow("FILLED", nextTicket)
       \/ at = "limit" /\ Accept("order") /\ SetTicket(nextTicket)
    /\ EndTick
    /\ UNCHANGED <<store, nextId, lastBar, lastLogged, disk, bar>>

\* A market request that is answered PLACED, or whose deal cannot be read:
\* ResolvePositionTicket() falls back to the order ticket.
SendDeferred ==
    /\ at = "market" /\ "deferred" \in Faults
    /\ Accept("order") /\ SetRow("FILLED", nextTicket)
    /\ EndTick
    /\ UNCHANGED <<store, nextId, lastBar, lastLogged, disk, bar>>

\* A local check fails, or the broker answers a terminal retcode.
SendRefused ==
    /\ at \in Sends
    /\ SetRow("REJECTED", None)
    /\ EndTick
    /\ UNCHANGED <<store, nextId, lastBar, lastLogged, disk, broker, bar>>

\* Mutant of NextAttempt: one attempt too many.
NextAttemptOneMore ==
    IF tries < Attempts
    THEN tries' = tries + 1 /\ UNCHANGED <<at, cur, rows>>
    ELSE EndTick /\ SetRow("REJECTED", None)

\* The loop comes round again, or gives up after the last attempt.
NextAttempt ==
    IF tries + 1 < Attempts
    THEN tries' = tries + 1 /\ UNCHANGED <<at, cur, rows>>
    ELSE EndTick /\ SetRow("REJECTED", None)

\* A retryable retcode, and the request was not executed ...
SendRetryable ==
    /\ at \in Sends
    /\ NextAttempt
    /\ UNCHANGED <<store, nextId, lastBar, lastLogged, disk, broker, bar>>

\* ... or a retryable retcode, and it was.
SendUnacknowledged ==
    /\ at \in Sends /\ "unacknowledged" \in Faults
    /\ Accept(IF at = "market" THEN "position" ELSE "order")
    /\ NextAttempt
    /\ UNCHANGED <<store, nextId, lastBar, lastLogged, disk, bar>>
-----------------------------------------------------------------------------
(* OnTradeTransaction, and what happens outside the EA. *)

\* Mutants of MarkFilled: the row keeps the order's ticket; the row gets the
\* ticket and stays PENDING.
MarkFilledOldTicket(deal) ==
    rows' = {IF r.state = "PENDING" /\ r.ticket = deal.order
             THEN [r EXCEPT !.state = Transition(r.state, "FILLED")] ELSE r : r \in rows}

MarkFilledStillPending(deal) ==
    rows' = {IF r.state = "PENDING" /\ r.ticket = deal.order
             THEN [r EXCEPT !.ticket = deal.position] ELSE r : r \in rows}

\* COrderManager::MarkFilledFromPending: the row that waits on this order gets
\* the position's ticket and is filled; no other row is touched.
MarkFilled(deal) ==
    rows' = {IF r.state = "PENDING" /\ r.ticket = deal.order
             THEN [r EXCEPT !.ticket = deal.position, !.state = Transition(r.state, "FILLED")]
             ELSE r : r \in rows}

OnTradeTransaction(deal) ==
    /\ at = "idle"
    /\ deal \in deals
    /\ MarkFilled(deal)
    /\ deals' = deals \ {deal}
    /\ UNCHANGED <<at, store, nextId, lastBar, lastLogged, cur, tries, disk,
                   book, nextTicket, ended, bar>>

\* The broker fills a resting order: a position under the order's ticket or
\* under a new one, and a deal for the EA if it is running to hear of it.
FillOrder(o) ==
    /\ o \in Orders
    /\ at = "orders" => "fillDuringInit" \in Faults
    /\ \E k \in {o.ticket, nextTicket} \cap Tickets :
         /\ book' = (book \ {o}) \cup {[o EXCEPT !.kind = "position", !.ticket = k]}
         /\ nextTicket' = IF k = nextTicket THEN nextTicket + 1 ELSE nextTicket
         /\ deals' = IF at = "down" THEN deals
                     ELSE deals \cup {[order |-> o.ticket, position |-> k]}
    /\ UNCHANGED <<ea, disk, ended, bar>>

\* A position is closed (stop, target, by hand) or an order cancelled (by hand,
\* by the broker: the EA itself never cancels one).
EndTicket(t) ==
    /\ t \in book
    /\ book' = book \ {t}
    /\ ended' = ended \cup {t.id}
    /\ UNCHANGED <<ea, disk, nextTicket, deals, bar>>

NewBar ==
    /\ bar < MaxBars
    /\ bar' = bar + 1
    /\ UNCHANGED <<ea, disk, broker>>

\* What both ways of stopping lose: COrderManager::Init and
\* CDecisionStore::Deinit empty their arrays, and the event queue is gone.
Forget ==
    /\ at' = "down"
    /\ rows' = {} /\ store' = {} /\ deals' = {}
    /\ cur' = NoDecision /\ tries' = 0
    /\ UNCHANGED <<disk, book, nextTicket, ended, bar>>

\* The terminal dies, or the EA is removed: its globals start afresh.
Crash ==
    /\ at # "down"
    /\ Forget
    /\ nextId' = 1 /\ lastBar' = None /\ lastLogged' = None

\* OnDeinit and OnInit on the same instance (the chart's timeframe changes):
\* the globals OnInit() does not set keep their values.
Reinit ==
    /\ at = "idle"
    /\ Forget
    /\ UNCHANGED <<nextId, lastBar, lastLogged>>

EAStep ==
    \/ RecoverPositions \/ RecoverOrders
    \/ ManageTick \/ Decide \/ Submit
    \/ SendAccepted \/ SendDeferred \/ SendRefused
    \/ SendRetryable \/ SendUnacknowledged
    \/ \E deal \in deals : OnTradeTransaction(deal)

Environment ==
    \/ \E t \in book : FillOrder(t) \/ EndTicket(t)
    \/ NewBar \/ Crash \/ Reinit

Next == EAStep \/ Environment

Spec == Init /\ [][Next]_vars

\* MetaTrader calls OnInit when the terminal is up, OnTick on every price, and
\* delivers every queued deal: the EA's own steps are never put off for ever.
\* Nothing is assumed of fills, closures, bars and crashes.
FairSpec ==
    /\ Spec
    /\ WF_vars(RecoverPositions) /\ WF_vars(RecoverOrders)
    /\ WF_vars(ManageTick) /\ WF_vars(Decide) /\ WF_vars(Submit)
    /\ WF_vars(SendAccepted \/ SendDeferred \/ SendRefused
                  \/ SendRetryable \/ SendUnacknowledged)
    /\ \A o, p \in Tickets : WF_vars(OnTradeTransaction([order |-> o, position |-> p]))
-----------------------------------------------------------------------------
(* Properties *)

\* One row per decision: neither a second submission nor a restart that finds
\* several tickets of one decision makes COrderManager manage it twice
\* (Submit and RestoreTrade both look the id up first).
RowPerDecision == \A r, s \in rows : r.id = s.id => r = s

\* "A fresh EA instance must never reissue an ID already live on a broker-side
\* ticket": while the EA can decide, every id the broker or the store holds
\* lies below the counter.
IdsBelowNext ==
    at \notin {"down", "orders"} =>
        \A d \in {t.id : t \in book} \cup disk \cup store : d < nextId

\* The rest of that claim when an append to the decisions file may fail: an id
\* is issued again only if it never reached the file, so that the EA running now
\* counts on past every decision that is recorded, before a restart and after.
ReissuedOnlyIfUnsaved ==
    at \notin {"down", "orders"} => \A d \in disk \cup store : d < nextId

\* A ticket the EA watches over: a filled row under the position's ticket, a
\* pending row under the order's, or the deal that turns the one into the other
\* on its way.
Watched(t) ==
    \/ t.kind = "position" /\ \E r \in rows : r.ticket = t.ticket /\ r.state \in ManagedStates
    \/ t.kind = "order" /\ \E r \in rows : r.ticket = t.ticket /\ r.state = "PENDING"
    \/ t.kind = "position" /\ \E e \in deals : /\ e.position = t.ticket
                                               /\ \E r \in rows : /\ r.ticket = e.order
                                                                  /\ r.state = "PENDING"

\* Nothing at the broker is out of the EA's sight once OnInit is over, whatever
\* was resting or open before and whenever the EA died.
NothingUnwatched == at \notin {"down", "orders"} => \A t \in book : Watched(t)

\* InpMaxOpenTrades bounds the real exposure, not only the rows: orders that
\* have not filled count, and a restart neither forgets nor adds one.
ExposureWithinLimit == Cardinality(book) <= MaxOpen

\* A running EA lets go of a row only when the broker holds nothing under its
\* ticket any more (Prune, and the passes that lead to it).
LetsGoOnlyWhatEnded ==
    [][at' # "down" => \A r \in rows : r.ticket \in {t.ticket : t \in book'} =>
                            r.id \in {s.id : s \in rows'}]_vars

\* The next tick after a position has ended at the broker takes its row off the
\* books: a trade closed by its stop does not hold a slot for ever.
ClosedTradeLeaves ==
    \A d \in Ids :
        (\E r \in rows : /\ r.id = d /\ r.state \in ManagedStates
                         /\ r.ticket \notin LiveTickets)
        ~> (\A r \in rows : r.id = d => r.ticket \in LiveTickets)

\* A fill the EA has queued takes effect: the position comes under management,
\* unless it is gone or the EA has stopped by then (and restores it later).
FillTakesEffect ==
    \A k \in Tickets :
        (\E e \in deals, r \in rows : /\ e.position = k
                                      /\ r.state = "PENDING" /\ r.ticket = e.order)
        ~> \/ at = "down" \/ k \notin LiveTickets
           \/ \E r \in rows : r.ticket = k /\ r.state \in ManagedStates

\* "Already submitted, don't double-fire": a decision holds one ticket at most.
OneTicketPerDecision == \A t, u \in book : t.id = u.id => t = u

\* "one active setup at a time is this EA's whole model": no two tickets of the
\* same zone, so that neither the next bar nor a restart doubles up on it.
OneTicketPerZone == \A t, u \in book : t.zone = u.zone => t = u

\* The abstract stage of a decision, read off the disk and the broker.  A second
\* ticket, or a ticket after the end, is no stage of DecisionOutcome.
StageOf(d) ==
    LET held == {t \in book : t.id = d} IN
    CASE d \in ended /\ held = {}  -> "over"
      [] d \notin ended /\ held = {} -> IF d \in disk THEN "issued" ELSE "unissued"
      [] \E t \in held : held = {t} /\ d \notin ended /\ d \in disk ->
             IF held \subseteq Orders THEN "resting" ELSE "open"
      [] OTHER -> "again"

Outcome == INSTANCE DecisionOutcome
               WITH Decisions <- Ids, stage <- [d \in Ids |-> StageOf(d)]

\* Every decision is executed at most once, across retries, fills, crashes and
\* restarts: TradeExecution implements DecisionOutcome.
DecidedOnceActedOnce == Outcome!OutcomeSpec
=============================================================================
