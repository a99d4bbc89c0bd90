-------------------------- MODULE SignalLifecycle --------------------------
(***************************************************************************)
(* The life of one signal of the reference library, as functions of the    *)
(* record: what a setup must satisfy, what a price does to a signal, and   *)
(* which controls its Telegram message shows.  Prices are ordinals.        *)
(***************************************************************************)
EXTENDS Integers

CONSTANT None   \* Python's None

ASSUME NoneAssumption == None \notin Int /\ None \notin BOOLEAN

OrderType == {"BUY", "SELL"}
SignalStatus == {"ACTIVE", "INVALIDATED", "EXPIRED", "STALE", "SUPERSEDED",
                 "TP1_REACHED", "TP2_REACHED", "COMPLETED"}
TradeSetup == [type : OrderType, top : Int, bottom : Int, invalidation : Int, stop : Int,
               tp1 : Int, tp2 : Int, final : Int, expiry : Nat \cup {None}]
Stamp == Nat \cup {None}
Signal == [status : SignalStatus, invalidatedAt : Stamp, tp1At : Stamp, tp2At : Stamp,
           completedAt : Stamp]

\* __post_init__(): nothing is asked of invalidation or of the targets.
ValidSetup(s) ==
    /\ s.top >= s.bottom
    /\ s.type = "BUY" => s.stop < s.bottom
    /\ s.type = "SELL" => s.stop > s.top

NewSignal == [status |-> "ACTIVE", invalidatedAt |-> None, tp1At |-> None, tp2At |-> None,
              completedAt |-> None]

Actionable == {"ACTIVE", "TP1_REACHED", "TP2_REACHED"}

Crosses(s, price) ==
    IF s.type = "BUY" THEN price <= s.invalidation ELSE price >= s.invalidation

\* evaluate_signal() never passes a drift, so that no signal goes stale.
MaxDriftBp == 0

Distance(a, b) == IF a > b THEN a - b ELSE b - a

EntryIsStale(s, price) ==
    LET drift == IF price > s.top THEN price - s.top ELSE Distance(price, s.bottom)
    IN  /\ price < s.bottom \/ price > s.top
        /\ MaxDriftBp > 0
        /\ drift * 10000 > (s.top - s.bottom) * MaxDriftBp

Hit(s, level, price) == IF s.type = "BUY" THEN price >= level ELSE price <= level

\* Mutant: the status is what the price of this tick says.
TargetByPrice(s, signal, price, time) ==
    IF Hit(s, s.tp2, price) THEN [signal EXCEPT !.status = "TP2_REACHED", !.tp2At = time]
    ELSE IF Hit(s, s.tp1, price) THEN [signal EXCEPT !.status = "TP1_REACHED", !.tp1At = time]
    ELSE [signal EXCEPT !.status = "ACTIVE"]

\* One tick may pass several targets: the three conditions are asked in turn.
TargetProgress(s, signal, price, time) ==
    LET one   == IF signal.status = "ACTIVE" /\ Hit(s, s.tp1, price)
                 THEN [signal EXCEPT !.status = "TP1_REACHED", !.tp1At = time] ELSE signal
        two   == IF one.status = "TP1_REACHED" /\ Hit(s, s.tp2, price)
                 THEN [one EXCEPT !.status = "TP2_REACHED", !.tp2At = time] ELSE one
        three == IF two.status = "TP2_REACHED" /\ Hit(s, s.final, price)
                 THEN [two EXCEPT !.status = "COMPLETED", !.completedAt = time] ELSE two
    IN  three

\* evaluate_signal(): expiry before invalidation before staleness before targets.
Evaluated(s, signal, price, time) ==
    IF signal.status \notin Actionable THEN signal
    ELSE IF s.expiry # None /\ time >= s.expiry
    THEN [signal EXCEPT !.status = "EXPIRED"]
    ELSE IF Crosses(s, price)
    THEN [signal EXCEPT !.status = "INVALIDATED", !.invalidatedAt = time]
    ELSE IF signal.status = "ACTIVE" /\ EntryIsStale(s, price)
    THEN [signal EXCEPT !.status = "STALE"]
    ELSE TargetProgress(s, signal, price, time)

\* render_signal_controls(): whether the message has its Copy button.
HasCopyButton(signal) == signal.status = "ACTIVE" /\ signal.status \in Actionable

\* build_message_update(): the label and the button of the edited message.
MessageUpdate(signal) == [label |-> signal.status, copy |-> HasCopyButton(signal)]

RequiresEdit(message, signal) == message.label # signal.status
=============================================================================
