--------------------------- MODULE CopyExecution ---------------------------
(***************************************************************************)
(* Copying one signal for one user of the reference library: the payments  *)
(* of two providers turn into a subscription and an entitlement, prices    *)
(* move the signal on, the Copy button of its message makes a copy event,  *)
(* and workers poll, authorize, claim and execute it.                      *)
(*                                                                         *)
(* The library holds the decisions; its caller loads and saves the rows,   *)
(* and is modelled from what the library asks of it: a webhook is one      *)
(* transaction, and of two workers only one wins the compare-and-swap on   *)
(* the event.  What a worker has loaded may be old when it claims.         *)
(***************************************************************************)
EXTENDS Clock, SignalLifecycle

CONSTANTS
    Setups,       \* the setups an engine may emit
    Prices,       \* market prices
    Workers,      \* workers that poll for copy events
    Metas,        \* what the broker may tell of the symbol
    Order,        \* the order of the copy: volume, margin
    Lifetime      \* DEFAULT_SUBSCRIPTION_PERIOD

\* Every field may be missing; "free" is the account's free margin.
SymbolMetadata ==
    [point : Int \cup {None}, tick : Int \cup {None}, stops : Int \cup {None},
     freeze : Int \cup {None}, min : Int \cup {None}, max : Int \cup {None},
     step : Int \cup {None}, permitted : BOOLEAN \cup {None}, open : BOOLEAN \cup {None},
     digits : Int \cup {None}, free : Int \cup {None}]

ASSUME CopyAssumption ==
    /\ \A s \in Setups : s \in TradeSetup /\ ValidSetup(s)
    /\ Prices \subseteq Int /\ Lifetime \in Nat
    /\ Metas \subseteq SymbolMetadata

VARIABLES
    setup, signal,  \* the signal
    message,        \* what its Telegram message shows
    account,        \* CopyAccount.enabled
    flow,           \* per payment: how far the provider is with it
    rows,           \* per provider reference: the row of payments
    subscription, entitlement,
    event,          \* the copy event
    worker

copyVars == <<setup, signal, message, account, flow, rows, subscription, entitlement,
              event, worker>>

(***************************************************************************)
(* Payments: one, of either provider                                       *)
(***************************************************************************)

Providers == {"smart_glocal", "ammer_pay"}

\* Of a payment, in its provider's books.
FlowStage == {"unused", "none", "open", "confirming", "settled", "failed", "refunded"}
FlowNext == [unused |-> {}, none |-> {"open"}, open |-> {"confirming"},
             confirming |-> {"settled", "failed"}, settled |-> {"refunded"},
             failed |-> {}, refunded |-> {}]

\* The references under which rows are kept: Smart Glocal's early events may
\* carry no payment object, and then the session's id stands in for its id.
References == {"smart_session", "smart_payment", "ammer_payment"}

PaymentStatus == {"pending", "succeeded", "failed", "refunded"}

\* A webhook of Smart Glocal.  The status nested in it may read "succeeded"
\* while the customer or the merchant has still to confirm.
SmartEvents(stage) ==
    (IF stage \in {"confirming", "settled", "failed", "refunded"}
     THEN [type : {"ready_to_confirm", "action_required"},
           status : {"processing", "succeeded"}, ref : {"smart_session", "smart_payment"}]
     ELSE {})
    \cup (IF stage \in {"settled", "refunded"}
          THEN {[type |-> "payment_finished", status |-> "succeeded", ref |-> "smart_payment"]}
          ELSE {})
    \cup (IF stage = "failed"
          THEN {[type |-> "payment_finished", status |-> "declined", ref |-> "smart_payment"]}
          ELSE {})
    \cup (IF stage = "refunded"
          THEN {[type |-> "payment_refunded", status |-> "refunded", ref |-> "smart_payment"]}
          ELSE {})

TerminalStatus == [succeeded |-> "succeeded", failed |-> "failed", declined |-> "failed",
                   refunded |-> "refunded"]

\* Mutant: the nested status is taken as it is, whatever the type of the event.
NormalizeNested(e) == IF e.status \in DOMAIN TerminalStatus THEN TerminalStatus[e.status]
                      ELSE "pending"

\* Mutant: the provider's word is kept as it is.
NormalizeRaw(e) == IF e.type \in {"payment_finished", "payment_refunded"} THEN e.status
                   ELSE "pending"

\* Only payment_finished and payment_refunded report a settled outcome.
NormalizeSmart(e) == IF /\ e.type \in {"payment_finished", "payment_refunded"}
                        /\ e.status \in DOMAIN TerminalStatus
                     THEN TerminalStatus[e.status] ELSE "pending"

\* Ammer Pay's status is taken as it is.
AmmerStatus == [unused |-> {}, none |-> {}, open |-> {"pending"}, confirming |-> {"pending"},
                settled |-> {"pending", "succeeded"}, failed |-> {"pending", "failed"},
                refunded |-> {"pending", "succeeded", "refunded"}]
AmmerEvents(stage) == [status : AmmerStatus[stage], ref : {"ammer_payment"}]

\* The verified webhooks that may arrive: of any stage the payment has reached,
\* again and in any order.
Normalized ==
    {[ref |-> e.ref, status |-> NormalizeSmart(e)] : e \in SmartEvents(flow["smart_glocal"])}
    \cup AmmerEvents(flow["ammer_pay"])

\* The row of a reference, and, as history, when it granted a period.
NoRow == [status |-> None, granted |-> None]

\* create_checkout() opens the payment; the provider takes it from there.
ProviderMoves(p) ==
    /\ \E stage \in FlowNext[flow[p]] : flow' = [flow EXCEPT ![p] = stage]
    /\ UNCHANGED <<now, setup, signal, message, account, rows, subscription, entitlement,
                   event, worker>>

\* map_payment_status() and calculate_expiry(): a renewal counts from now, and
\* what was left of the period before is gone.
Granted == [status |-> "ACTIVE", expires |-> now + Lifetime]

\* A reference that has a row is not looked at again, whatever its event says.
ProcessPaymentWebhook ==
    \E e \in Normalized :
        /\ rows[e.ref] = NoRow
        /\ rows' = [rows EXCEPT ![e.ref] = [status |-> e.status,
                                             granted |-> IF e.status = "succeeded" THEN now ELSE None]]
        /\ IF e.status = "succeeded"
           THEN subscription' = Granted /\ entitlement' = [status |-> "ACTIVE", copy |-> TRUE]
           ELSE UNCHANGED <<subscription, entitlement>>
        /\ UNCHANGED <<now, setup, signal, message, account, flow, event, worker>>

\* revoke_expired(), on a schedule and at request time.
RevokeExpired ==
    LET lapsed == /\ subscription.status = "ACTIVE"
                  /\ subscription.expires # None /\ subscription.expires <= now
        over   == lapsed \/ subscription.status # "ACTIVE"
        loses  == over /\ entitlement.status = "ACTIVE"
    IN  /\ lapsed \/ loses
        /\ subscription' = [subscription EXCEPT !.status = IF lapsed THEN "EXPIRED" ELSE @]
        /\ entitlement' = IF loses THEN [status |-> "INACTIVE", copy |-> FALSE]
                          ELSE entitlement
        /\ UNCHANGED <<now, setup, signal, message, account, flow, rows, event, worker>>

(***************************************************************************)
(* The signal and its message                                              *)
(***************************************************************************)

EvaluateSignal ==
    \E price \in Prices :
        /\ signal' = Evaluated(setup, signal, price, now)
        /\ UNCHANGED <<now, setup, message, account, flow, rows, subscription, entitlement,
                       event, worker>>

\* The bot edits the message some time after the status has changed.
EditMessage ==
    /\ RequiresEdit(message, signal)
    /\ message' = MessageUpdate(signal)
    /\ UNCHANGED <<now, setup, signal, account, flow, rows, subscription, entitlement,
                   event, worker>>

\* A button that is still shown can be pressed; the idempotency key of the user
\* and the signal is unique, so that there is one event.
PressCopy ==
    /\ message.copy /\ event.status = "none"
    /\ event' = [event EXCEPT !.status = "PENDING"]
    /\ UNCHANGED <<now, setup, signal, message, account, flow, rows, subscription,
                   entitlement, worker>>

ToggleAccount ==
    /\ account' = ~ account
    /\ UNCHANGED <<now, setup, signal, message, flow, rows, subscription, entitlement,
                   event, worker>>

(***************************************************************************)
(* The gate                                                                *)
(***************************************************************************)

\* can_copy(): entitlement.valid_until is not among its conditions.
CanCopy ==
    /\ subscription.status = "ACTIVE"
    /\ subscription.expires # None /\ subscription.expires > now
    /\ entitlement.status = "ACTIVE" /\ entitlement.copy
    /\ account
    /\ signal.status = "ACTIVE" /\ signal.invalidatedAt = None
    /\ setup.expiry = None \/ setup.expiry > now

\* COPY_POLLING_WHERE_CLAUSE, its conditions over the same rows.
PollSelects ==
    /\ subscription.status = "ACTIVE"
    /\ IF subscription.expires = None THEN FALSE ELSE subscription.expires > now
    /\ entitlement.status = "ACTIVE" /\ entitlement.copy = TRUE /\ account = TRUE
    /\ signal.status = "ACTIVE" /\ signal.invalidatedAt = None
    /\ IF setup.expiry = None THEN TRUE ELSE setup.expiry > now

CopyEventStatus == {"none", "PENDING", "CLAIMED", "EXECUTED", "REJECTED", "ERROR"}
NoEvent == [status |-> "none", claimedAt |-> None, meta |-> None]
WorkerState == [at : {"idle", "polled", "loaded", "claimed"}, authorizedAt : Stamp]
IdleWorker == [at |-> "idle", authorizedAt |-> None]

Poll(w) ==
    /\ worker[w].at = "idle" /\ event.status = "PENDING" /\ PollSelects
    /\ worker' = [worker EXCEPT ![w].at = "polled"]
    /\ UNCHANGED <<now, setup, signal, message, account, flow, rows, subscription,
                   entitlement, event>>

\* The worker opens its transaction and asks can_copy() of what it loads.
Authorize(w) ==
    /\ worker[w].at = "polled"
    /\ worker' = [worker EXCEPT ![w] =
           [at |-> "loaded", authorizedAt |-> IF CanCopy THEN now ELSE None]]
    /\ UNCHANGED <<now, setup, signal, message, account, flow, rows, subscription,
                   entitlement, event>>

\* The swap fails when another worker has taken the event.
Claim(w) ==
    /\ worker[w].at = "loaded"
    /\ IF event.status # "PENDING"
       THEN worker' = [worker EXCEPT ![w] = IdleWorker] /\ UNCHANGED event
       ELSE IF worker[w].authorizedAt # None
       THEN /\ event' = [event EXCEPT !.status = "CLAIMED", !.claimedAt = worker[w].authorizedAt]
            /\ worker' = [worker EXCEPT ![w] = [IdleWorker EXCEPT !.at = "claimed"]]
       ELSE /\ event' = [event EXCEPT !.status = "REJECTED"]
            /\ worker' = [worker EXCEPT ![w] = IdleWorker]
    /\ UNCHANGED <<now, setup, signal, message, account, flow, rows, subscription, entitlement>>

(***************************************************************************)
(* Validation: what is not known refuses the trade                         *)
(***************************************************************************)

\* Mutant: a missing freeze level is skipped.
FarUnlessUnknown(required, meta) ==
    /\ meta.point # None
    /\ required = None \/ Distance(setup.top, setup.stop) >= required * meta.point

Far(required, meta) ==
    /\ meta.point # None /\ required # None
    /\ Distance(setup.top, setup.stop) >= required * meta.point

ValidateStopDistance(meta) == Far(meta.stops, meta)
ValidateFreezeLevel(meta) == Far(meta.freeze, meta)
ValidateTickSize(meta) == meta.tick # None /\ meta.tick > 0 /\ setup.top % meta.tick = 0
ValidateNormalization(meta) == meta.digits # None   \* prices are whole numbers here
ValidateVolume(meta) ==
    /\ meta.min # None /\ meta.max # None /\ meta.step # None
    /\ meta.min <= Order.volume /\ Order.volume <= meta.max
    /\ (Order.volume - meta.min) % meta.step = 0
ValidatePermissions(meta) == meta.permitted = TRUE /\ meta.open = TRUE
ValidateMargin(meta) ==
    Order.required # None /\ meta.free # None /\ Order.required <= meta.free

ValidateExecution(meta) ==
    /\ ValidateStopDistance(meta) /\ ValidateFreezeLevel(meta) /\ ValidateTickSize(meta)
    /\ ValidateNormalization(meta) /\ ValidateVolume(meta)
    /\ ValidatePermissions(meta) /\ ValidateMargin(meta)

\* The worker that has claimed the event validates it and sends the order.
Execute(w) ==
    /\ worker[w].at = "claimed"
    /\ \E meta \in Metas :
           event' = IF ValidateExecution(meta)
                    THEN [event EXCEPT !.status = "EXECUTED", !.meta = meta]
                    ELSE [event EXCEPT !.status = "ERROR"]
    /\ worker' = [worker EXCEPT ![w] = IdleWorker]
    /\ UNCHANGED <<now, setup, signal, message, account, flow, rows, subscription, entitlement>>

\* A worker dies; an event it has claimed stays CLAIMED.
WorkerDies(w) ==
    /\ worker[w].at # "idle"
    /\ worker' = [worker EXCEPT ![w] = IdleWorker]
    /\ UNCHANGED <<now, setup, signal, message, account, flow, rows, subscription,
                   entitlement, event>>

CopyTick == TimePasses /\ UNCHANGED copyVars

CopyInit ==
    /\ setup \in Setups /\ signal = NewSignal /\ message = MessageUpdate(signal)
    /\ account = TRUE
    /\ \E p \in Providers : flow = [q \in Providers |-> IF q = p THEN "none" ELSE "unused"]
    /\ rows = [r \in References |-> NoRow]
    /\ subscription = [status |-> "EXPIRED", expires |-> None]
    /\ entitlement = [status |-> "INACTIVE", copy |-> FALSE]
    /\ event = NoEvent
    /\ worker = [w \in Workers |-> IdleWorker]

CopyNext ==
    \/ \E p \in Providers : ProviderMoves(p)
    \/ ProcessPaymentWebhook \/ RevokeExpired
    \/ EvaluateSignal \/ EditMessage \/ PressCopy \/ ToggleAccount
    \/ \E w \in Workers : Poll(w) \/ Authorize(w) \/ Claim(w) \/ Execute(w) \/ WorkerDies(w)
    \/ CopyTick

CopySpec == now = 0 /\ CopyInit /\ [][CopyNext]_<<now, copyVars>>

CopyTypeOK ==
    /\ now \in Instants
    /\ setup \in Setups /\ signal \in Signal
    /\ message \in [label : SignalStatus, copy : BOOLEAN]
    /\ account \in BOOLEAN
    /\ flow \in [Providers -> FlowStage]
    /\ rows \in [References -> [status : PaymentStatus \cup {None}, granted : Stamp]]
    /\ subscription \in [status : {"ACTIVE", "EXPIRED"}, expires : Stamp]
    /\ entitlement \in [status : {"ACTIVE", "INACTIVE"}, copy : BOOLEAN]
    /\ event \in [status : CopyEventStatus, claimedAt : Stamp, meta : Metas \cup {None}]
    /\ worker \in [Workers -> WorkerState]

(***************************************************************************)
(* What must hold                                                          *)
(***************************************************************************)

\* The signal could still be entered at this time: no target, no invalidation and
\* no expiry before it.
OpenAt(time) ==
    /\ signal.tp1At = None \/ time <= signal.tp1At
    /\ signal.invalidatedAt = None \/ time <= signal.invalidatedAt
    /\ setup.expiry = None \/ time < setup.expiry

\* The user's money had been taken, and its period covered this time.
PaidAt(time) ==
    \E r \in References :
        /\ rows[r].granted # None /\ rows[r].granted <= time /\ time < rows[r].granted + Lifetime
        /\ flow[IF r = "ammer_payment" THEN "ammer_pay" ELSE "smart_glocal"]
               \in {"settled", "refunded"}

\* A copy is claimed, and so executed, only for a signal that was open and a period
\* that was paid when it was authorized: neither a button that is still shown, nor
\* an old poll, nor an early, repeated or reordered webhook authorizes a trade.
ClaimsAuthorized ==
    event.status \in {"CLAIMED", "EXECUTED"} => OpenAt(event.claimedAt) /\ PaidAt(event.claimedAt)

\* Nothing is executed on a symbol of which anything that matters is unknown.
RefusesUnknown ==
    event.status = "EXECUTED" => \A f \in DOMAIN event.meta : event.meta[f] # None

\* A copy is decided once: what is executed was claimed, a claim keeps its stamp,
\* and nothing becomes of an event that has ended, although workers execute
\* without looking at its status again.
CopiedOnce ==
    [][/\ event.status \in {"EXECUTED", "REJECTED", "ERROR"} => event' = event
       /\ event.status # "EXECUTED" /\ event'.status = "EXECUTED" => event.status = "CLAIMED"
       /\ event.status = "CLAIMED" => event'.claimedAt = event.claimedAt]_event

Reached == [ACTIVE |-> 0, TP1_REACHED |-> 1, TP2_REACHED |-> 2, COMPLETED |-> 3]

\* A signal goes on, never back: what has ended stays as it is, a target that was
\* reached stays reached when the price falls back, and no stamp is written twice.
ProgressIsForward ==
    [][/\ signal.status \notin Actionable => signal' = signal
       /\ {signal.status, signal'.status} \subseteq DOMAIN Reached =>
              Reached[signal.status] <= Reached[signal'.status]
       /\ \A f \in {"invalidatedAt", "tp1At", "tp2At", "completedAt"} :
              signal[f] # None => signal'[f] = signal[f]]_signal
=============================================================================
