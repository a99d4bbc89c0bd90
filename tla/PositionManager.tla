-------------------------- MODULE PositionManager --------------------------
(***************************************************************************)
(* One trade from the moment the broker has accepted its order: the stop   *)
(* moved to break-even, the partial close, the trailing stop, and what a   *)
(* restarted EA makes of the position it finds.                            *)
(*                                                                         *)
(* "price" is CurrentExitPrice(): the bid for a buy, the ask for a sell.   *)
(* Prices are natural numbers, 0 standing for "none" as in the code, and   *)
(* volumes are counted in the symbol's volume step.  The partial fraction  *)
(* is 1/2, the default of InpPartialFraction.  Several trades, their ids   *)
(* and tickets are the subject of module TradeExecution.                   *)
(***************************************************************************)
EXTENDS TradeStateMachine, Integers

CONSTANTS
    Buy,            \* the direction: TRUE for a buy, FALSE for a sell
    Routes,         \* how the order went out: "market", "limit"
    Entry,          \* ResolveExecutionEntry(): the theoretical entry
    InitialStop,    \* setup.stop_loss
    Slippage,       \* bound: how far a fill may lie from Entry
    BreakEvenAtR, PartialAtR,
    TrailDistances, \* values of InpTrailATRMult * currentAtr
    MinDist,        \* the broker's stops and freeze level
    Volumes,        \* the volumes CalculateLotSize() may have asked for
    MinLots,        \* the symbol's smallest volume
    Hundredth,      \* how many volume steps 0.01 lots are
    MaxPrice,       \* bound: prices 1 .. MaxPrice
    Faults          \* the misbehaviour a run admits

\* "restart": the terminal dies.  "lostExecution": the row SaveExecution()
\* should have written is not on the disk.  "falseAck": PositionModify() or
\* PositionClosePartial() returns true and the server has refused, which the
\* adapter does not look at.  "partialFill": the broker fills a limit order
\* piece by piece.  "manual": the trader moves or removes the stop.
FaultKinds == {"restart", "lostExecution", "falseAck", "partialFill", "manual"}

Prices == 1 .. MaxPrice
NoPrice == 0

\* How far price q lies from price p in the trade's favour.
Favor(p, q) == IF Buy THEN q - p ELSE p - q

ASSUME PositionAssumption ==
    /\ Buy \in BOOLEAN /\ Routes \subseteq {"market", "limit"}
    /\ MaxPrice \in Nat /\ Slippage \in Nat
    /\ Entry \in Prices /\ InitialStop \in Prices
    /\ Favor(InitialStop, Entry) > Slippage
    /\ BreakEvenAtR \in Nat \ {0} /\ PartialAtR \in Nat \ {0}
    /\ TrailDistances \subseteq Nat /\ MinDist \in Nat
    /\ Volumes \subseteq Nat \ {0} /\ MinLots \in Nat \ {0}
    /\ Hundredth \in Nat \ {0}
    /\ Faults \subseteq FaultKinds

VARIABLES
    submitted, \* the volume of the order
    at,       \* "sent": accepted, SaveExecution() still to come; "idle"; "down"
    row,      \* the ManagedTrade
    pos,      \* the broker's position; its volume is 0 when there is none
    resting,  \* what is left of the limit order at the broker
    deal,     \* fill price of an entry deal not yet handed to the EA
    logged,   \* the volume in MedisTouch_Executions_<symbol>.csv, 0 for no row
    price,    \* the exit price
    partials, \* history: partial closes the broker has executed for the EA
    faulted   \* history: the misbehaviour there has been

vars == <<submitted, at, row, pos, resting, deal, logged, price, partials, faulted>>

NoRow == [state |-> "ARCHIVED", fill |-> NoPrice, volume |-> 0]
NoPosition == [entry |-> NoPrice, stop |-> NoPrice, volume |-> 0]

\* DoubleToString(volume, 2): the hundredths of a lot next to the volume, either
\* of them where it lies halfway.  0 is what Recover() makes of a missing row too.
Written(volume) ==
    {w \in {Hundredth * k : k \in 0 .. volume} :
        2 * w <= 2 * volume + Hundredth /\ 2 * volume <= 2 * w + Hundredth}

TypeOK ==
    /\ submitted \in Volumes
    /\ at \in {"sent", "idle", "down"}
    /\ row \in [state : TradeStates, fill : Prices \cup {NoPrice}, volume : 0 .. submitted]
    /\ pos \in [entry : Prices \cup {NoPrice}, stop : Nat, volume : 0 .. submitted]
    /\ resting \in 0 .. submitted /\ logged \in {0} \cup Written(submitted)
    /\ deal \in Prices \cup {NoPrice}
    /\ price \in Prices
    /\ partials \in Nat /\ faulted \subseteq FaultKinds

\* A stop that is set and at, or on the winning side of, a level.
AtOrPast(stop, level) == stop # NoPrice /\ Favor(level, stop) >= 0

\* The prices an order may fill at: a market order within the deviation
\* Submit() tolerates, a limit order at its price or better.
FillPrices(route) ==
    {f \in Prices : /\ f \in Entry - Slippage .. Entry + Slippage
                    /\ route = "market" \/ Favor(f, Entry) >= 0}

\* Submit() has returned true.
Init ==
    /\ submitted \in Volumes /\ at = "sent"
    /\ price \in {p \in Prices : Favor(InitialStop, p) > 0 /\ Favor(Entry, p) <= Slippage}
    /\ \/ /\ "market" \in Routes
          /\ \E f \in FillPrices("market") :
               /\ Favor(f, price) <= 0
               /\ row = [state |-> "FILLED", fill |-> f, volume |-> submitted]
               /\ pos = [entry |-> f, stop |-> InitialStop, volume |-> submitted]
          /\ resting = 0
       \/ /\ "limit" \in Routes
          /\ row = [state |-> "PENDING", fill |-> NoPrice, volume |-> submitted]
          /\ pos = NoPosition
          /\ resting = submitted
    /\ deal = NoPrice /\ logged = 0 /\ partials = 0 /\ faulted = {}

\* A misbehaviour that a run admits, on record.
Fault(kind) == kind \in Faults /\ faulted' = faulted \cup {kind}

SaveExecution ==
    /\ at = "sent" /\ at' = "idle"
    /\ \/ logged' \in Written(submitted) /\ UNCHANGED faulted
       \/ Fault("lostExecution") /\ UNCHANGED logged
    /\ UNCHANGED <<submitted, row, pos, resting, deal, price, partials>>
-----------------------------------------------------------------------------
(* CPositionManager::OnTick *)

\* Mutant of RowEntry: the fill is ignored.
RowEntryTheoretical == Entry

\* FillPriceAt(): the actual fill, or the theoretical entry if it is unknown.
RowEntry == IF row.fill # NoPrice THEN row.fill ELSE Entry

\* RMultiple(): the price is n times the risk in favour of the entry.
RiskDistance(entry) == Favor(InitialStop, entry)
ReachedR(n, entry) ==
    RiskDistance(entry) > 0 /\ Favor(entry, price) >= n * RiskDistance(entry)

\* ValidateStopDistance(): the right side of the price, and far enough.
StopAllowed(stop) == Favor(stop, price) > 0 /\ Favor(stop, price) >= MinDist

\* What ModifySLTP() may return, with the stop that holds afterwards and the
\* misbehaviour that it took.
ModifyOutcomes(stop) ==
    LET refused  == [ok |-> FALSE, stop |-> pos.stop, faults |-> {}]
        done     == [ok |-> TRUE, stop |-> stop, faults |-> {}]
        falseAck == [ok |-> TRUE, stop |-> pos.stop, faults |-> {"falseAck"}]
    IN {refused} \cup {m \in {done, falseAck} : StopAllowed(stop) /\ m.faults \subseteq Faults}

\* 1. Break-even: a filled trade far enough in profit.
BreakEven ==
    /\ row.state = "FILLED" /\ ReachedR(BreakEvenAtR, RowEntry)
    /\ \E m \in ModifyOutcomes(RowEntry) :
         /\ pos' = [pos EXCEPT !.stop = m.stop]
         /\ faulted' = faulted \cup m.faults
         /\ row' = IF m.ok THEN [row EXCEPT !.state = Transition("FILLED", "PROTECTED")]
                   ELSE row
    /\ UNCHANGED partials

\* Mutant of HalfAllowed: the minimum is asked of a quarter.
HalfAllowedStrict == row.volume > 4 * MinLots

\* vol >= minVol.
HalfAllowed == row.volume >= 2 * MinLots

\* Mutant of LeftAfter: more is closed than there is.
LeftAfterUnclamped(half) == pos.volume - half

\* The broker closes half of the row's volume, or all that the position has.
LeftAfter(half) == IF half < pos.volume THEN pos.volume - half ELSE 0

\* 2. The partial close.  The broker takes whole volume steps only; a position
\* closed in full is gone.
PartialClose ==
    /\ row.state = "PROTECTED" /\ ReachedR(PartialAtR, RowEntry) /\ HalfAllowed
    /\ \/ /\ \E half \in 1 .. row.volume :
               LET left == LeftAfter(half)
               IN  /\ 2 * half = row.volume
                   /\ pos' = IF left = 0 THEN NoPosition ELSE [pos EXCEPT !.volume = left]
          /\ partials' = partials + 1 /\ UNCHANGED faulted
       \/ Fault("falseAck") /\ UNCHANGED <<pos, partials>>
    /\ row' = [row EXCEPT !.state = Transition("PROTECTED", "PARTIAL")]

\* 3. The remainder becomes a trailing runner.
HandOff ==
    /\ row.state = "PARTIAL"
    /\ row' = [row EXCEPT !.state = Transition("PARTIAL", "RUNNER")]
    /\ UNCHANGED <<pos, partials, faulted>>

TrailStop(distance) == IF Buy THEN price - distance ELSE price + distance

\* Mutant of Improved: any stop will do.
ImprovedAlways(stop) == TRUE

\* "only ever tighten": a sell without a stop (0) counts as tighter than any.
Improved(stop) == IF Buy THEN stop > pos.stop ELSE stop < pos.stop

\* 4. Trailing.
Trail ==
    /\ row.state = "RUNNER"
    /\ \E d \in TrailDistances \ {0} :
         /\ Improved(TrailStop(d))
         /\ \E m \in ModifyOutcomes(TrailStop(d)) :
              pos' = [pos EXCEPT !.stop = m.stop] /\ faulted' = faulted \cup m.faults
    /\ UNCHANGED <<row, partials>>

\* The position is gone: CLOSED, ARCHIVED, and Prune() drops the row.
NoteClosed ==
    /\ row.state \in ManagedStates /\ pos.volume = 0
    /\ row' = NoRow
    /\ UNCHANGED <<pos, partials, faulted>>

\* One tick.  "state" is read once, so a tick takes one of the steps at most; a
\* refused or untriggered step leaves everything as it is.
ManageTick ==
    /\ at = "idle"
    /\ \/ NoteClosed
       \/ pos.volume > 0 /\ (BreakEven \/ PartialClose \/ HandOff \/ Trail)
    /\ UNCHANGED <<submitted, at, resting, deal, logged, price>>
-----------------------------------------------------------------------------
(* The broker, the trader, the market. *)

\* The limit order fills, in full or in part, at its price or better; the deal
\* is queued for a running EA.  Later pieces join the position at its price.
FillOrder ==
    /\ resting > 0
    /\ \E q \in 1 .. resting, f \in FillPrices("limit") :
         /\ \/ q = resting /\ UNCHANGED faulted
            \/ q < resting /\ Fault("partialFill")
         /\ Favor(f, price) <= 0 /\ Favor(InitialStop, price) > 0
         /\ resting' = resting - q
         /\ pos' = IF pos.volume > 0 THEN [pos EXCEPT !.volume = @ + q]
                   ELSE [entry |-> f, stop |-> InitialStop, volume |-> q]
         /\ deal' = IF at = "down" \/ deal # NoPrice THEN deal ELSE f
    /\ UNCHANGED <<submitted, at, row, logged, price, partials>>

\* OnTradeTransaction() and MarkFilledFromPending().
OnTradeTransaction ==
    /\ at = "idle" /\ deal # NoPrice
    /\ deal' = NoPrice
    /\ row' = IF row.state # "PENDING" THEN row
              ELSE [row EXCEPT !.state = Transition("PENDING", "FILLED"), !.fill = deal]
    /\ UNCHANGED <<submitted, at, pos, resting, logged, price, partials, faulted>>

\* The price moves, or jumps; the broker closes a position whose stop it hits.
PriceMoves ==
    /\ price' \in Prices \ {price}
    /\ pos' = IF pos.stop # NoPrice /\ Favor(pos.stop, price') <= 0 THEN NoPosition ELSE pos
    /\ UNCHANGED <<submitted, at, row, resting, deal, logged, partials, faulted>>

\* The target is reached, or the trader closes the position.
ClosedOutside ==
    /\ pos.volume > 0
    /\ pos' = NoPosition
    /\ UNCHANGED <<submitted, at, row, resting, deal, logged, price, partials, faulted>>

ManualStop ==
    /\ Fault("manual") /\ pos.volume > 0
    /\ \E stop \in {NoPrice} \cup {p \in Prices : Favor(p, price) > 0} :
         pos' = [pos EXCEPT !.stop = stop]
    /\ UNCHANGED <<submitted, at, row, resting, deal, logged, price, partials>>
-----------------------------------------------------------------------------
(* Restart *)

Crash ==
    /\ at # "down"
    /\ \/ at = "idle" /\ Fault("restart")
       \/ /\ at = "sent" /\ {"restart", "lostExecution"} \subseteq Faults
          /\ faulted' = faulted \cup {"restart", "lostExecution"}
    /\ at' = "down" /\ row' = NoRow /\ deal' = NoPrice
    /\ UNCHANGED <<submitted, pos, resting, logged, price, partials>>

\* Mutants of InferPositionState: the volume, or the stop, is not looked at.
InferByStopOnly(booked, current, stop) ==
    IF AtOrPast(stop, Entry) THEN "PROTECTED" ELSE "FILLED"

InferByVolumeOnly(booked, current, stop) ==
    IF current < booked THEN "RUNNER" ELSE "FILLED"

InferPositionState(booked, current, stop) ==
    IF current < booked THEN "RUNNER"
    ELSE IF AtOrPast(stop, Entry) THEN "PROTECTED" ELSE "FILLED"

\* Recover(): the position loop, then the order loop, which passes over a
\* decision that is already restored.  The fill of a restored row is unknown,
\* its volume is what the broker shows now.
Recover ==
    /\ at = "down" /\ at' = "idle"
    /\ row' = IF pos.volume > 0
              THEN [state  |-> InferPositionState(IF logged = 0 THEN pos.volume ELSE logged,
                                                  pos.volume, pos.stop),
                    fill   |-> NoPrice, volume |-> pos.volume]
              ELSE IF resting > 0
              THEN [state |-> "PENDING", fill |-> NoPrice, volume |-> resting]
              ELSE NoRow
    /\ UNCHANGED <<submitted, pos, resting, deal, logged, price, partials, faulted>>

EAStep == SaveExecution \/ ManageTick \/ OnTradeTransaction \/ Recover

Next ==
    \/ EAStep
    \/ FillOrder \/ PriceMoves \/ ClosedOutside \/ ManualStop \/ Crash

Spec == Init /\ [][Next]_vars

\* The EA's handlers run when they are due, and a broker that could grant a
\* request in every tick from some point on does not refuse it in all of them.
FairSpec ==
    /\ Spec
    /\ WF_vars(SaveExecution) /\ WF_vars(OnTradeTransaction) /\ WF_vars(Recover)
    /\ WF_vars(ManageTick /\ row' # row)
-----------------------------------------------------------------------------
(* Properties *)

\* No step of the EA moves the stop of a live position to the losing side, and
\* none takes it away: neither the move to break-even, which may come after a
\* restart has replaced the actual fill by the theoretical entry, nor the trail.
\* Only the trader's own hand can upset it.
StopNeverLoosened ==
    [][EAStep /\ "manual" \notin faulted /\ pos.volume > 0 /\ pos'.volume > 0
         => AtOrPast(pos'.stop, pos.stop)]_vars

\* "only ever tighten, never widen, the stop": of a runner, wherever the trader
\* has put its stop by hand.
RunnerOnlyTightens ==
    [][EAStep /\ row.state = "RUNNER" /\ pos.stop # NoPrice /\ pos'.volume > 0
         => AtOrPast(pos'.stop, pos.stop)]_vars

\* The volume is too large to be written as 0.00.
Legible == 0 \notin Written(submitted)

\* The profit of a trade is halved once: a restart between the partial close
\* and the end of the trade does not make the EA close half of the rest again,
\* however the volume was rounded when it was written.  But it has to be on the
\* disk, not as 0.00, and it has to have been filled at once.
NoSecondPartial ==
    faulted \cap {"lostExecution", "partialFill"} = {} /\ Legible => partials <= 1

\* "moves SL to the price this position ACTUALLY entered at": a protected
\* position can no longer be stopped out at a loss.
ProtectedAtActualEntry ==
    row.state = "PROTECTED" /\ pos.volume > 0 => AtOrPast(pos.stop, pos.entry)

\* The same of the positions whose actual fill the EA knows, which are those it
\* has not taken over after a restart, while the broker means what it answers and
\* fills an order at once.
ProtectedAtKnownFill ==
    faulted \cap {"falseAck", "manual", "partialFill"} = {} /\ row.fill # NoPrice
        => ProtectedAtActualEntry

\* Half of it is a whole number of volume steps, and not too small.
Halvable == submitted % 2 = 0 /\ submitted >= 2 * MinLots

\* The documented lifecycle is walked to its end: a position that stays beyond
\* the partial level is handed to the trailing stop, restarts or not, if its
\* volume can be halved and does not read 0.00.  An odd or smallest volume is
\* neither halved nor trailed.
WinnerTrailed ==
    <>[](/\ Halvable /\ Legible
         /\ at = "idle" /\ pos.volume > 0 /\ ReachedR(PartialAtR, RowEntry)
         /\ faulted \cap {"lostExecution", "partialFill"} = {})
        => <>(row.state = "RUNNER")
=============================================================================
