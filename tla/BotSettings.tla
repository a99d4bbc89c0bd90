---------------------------- MODULE BotSettings ----------------------------
(***************************************************************************)
(* The settings an administrator keeps through the bot: the list of muted  *)
(* symbols, the pause of all broadcasts, and the copy-trading switch with  *)
(* its second message, "yes".                                              *)
(*                                                                         *)
(* Each setting is a row of bot_settings.  A command reads a row, decides, *)
(* and writes it back with a commit of its own; the updates of Telegram    *)
(* are handled concurrently, so that commands interleave between the read  *)
(* and the write.                                                          *)
(***************************************************************************)
EXTENDS Clock

CONSTANTS
    Symbols,     \* symbols that are muted and unmuted
    Commands,    \* handlers of commands at work at once
    ConfirmTtl,  \* COPY_TRADING_CONFIRM_TTL_SECONDS
    NoSymbol     \* the argument of a command that has none

ASSUME SettingsAssumption == ConfirmTtl \in Nat \ {0} /\ NoSymbol \notin Symbols

VARIABLES
    muted,         \* muted_symbols
    paused,        \* broadcast_paused
    enabled,       \* copy_trading_enabled
    pendingUntil,  \* copy_trading_pending_on: expires_at, 0 for NULL
    command,       \* the handlers
    asked,         \* history: the instants at which /copytrading on was recorded
    wished,        \* history: the list if commands were carried out one by one
    clashed        \* history: a command read the list before another wrote it

settingsVars == <<muted, paused, enabled, pendingUntil, command, asked, wished, clashed>>

\* What a handler is doing and what it has read.
Handler == [at : {"idle", "mute", "unmute", "on", "confirm", "clear"},
            symbol : Symbols \cup {NoSymbol}, list : SUBSET Symbols,
            time : Nat]
NoCommand == [at |-> "idle", symbol |-> NoSymbol, list |-> {}, time |-> 0]

SettingsTypeOK ==
    /\ now \in Instants
    /\ muted \subseteq Symbols /\ wished \subseteq Symbols
    /\ paused \in BOOLEAN /\ enabled \in BOOLEAN /\ clashed \in BOOLEAN
    /\ pendingUntil \in Nat /\ asked \subseteq Nat
    /\ command \in [Commands -> Handler]

SettingsInit ==
    /\ muted = {} /\ wished = {}
    /\ paused = FALSE /\ enabled = FALSE /\ pendingUntil = 0
    /\ command = [h \in Commands |-> NoCommand]
    /\ asked = {} /\ clashed = FALSE

switchVars == <<enabled, pendingUntil, asked>>
listVars == <<muted, wished, clashed>>

(***************************************************************************)
(* Muted symbols and the pause                                             *)
(***************************************************************************)

\* /mute and /unmute read the list ...
ReadList(h, kind, symbol) ==
    /\ command[h].at = "idle" /\ kind \in {"mute", "unmute"}
    /\ command' = [command EXCEPT ![h] = [NoCommand EXCEPT
                       !.at = kind, !.symbol = symbol, !.list = muted]]
    /\ UNCHANGED <<now, paused, listVars, switchVars>>

With(list, c) == IF c.at = "mute" THEN list \cup {c.symbol} ELSE list \ {c.symbol}

\* Mutant: only what the command adds or removes is written.
WrittenDelta(c) == IF c.at = "mute" THEN {c.symbol} ELSE {}

\* ... and write it back whole.  A list equal to the one that was read is not
\* written: the session sees no change.
Written(c) == IF With(c.list, c) = c.list THEN muted ELSE With(c.list, c)

WriteList(h) ==
    /\ command[h].at \in {"mute", "unmute"}
    /\ muted' = Written(command[h])
    /\ wished' = With(wished, command[h])
    /\ clashed' = (clashed \/ \E o \in Commands \ {h} : command[o].at \in {"mute", "unmute"})
    /\ command' = [command EXCEPT ![h] = NoCommand]
    /\ UNCHANGED <<now, paused, switchVars>>

\* /pause and /resume write one value, whatever it was.
SetPaused ==
    /\ paused' = ~ paused
    /\ UNCHANGED <<now, command, listVars, switchVars>>

(***************************************************************************)
(* The copy-trading switch                                                 *)
(***************************************************************************)

\* /copytrading on: refused when it is on already ...
ReadSwitch(h) ==
    /\ command[h].at = "idle" /\ ~ enabled
    /\ command' = [command EXCEPT ![h] = [NoCommand EXCEPT !.at = "on"]]
    /\ UNCHANGED <<now, paused, listVars, switchVars>>

\* ... and else recorded as a request with a term.
RequestOn(h) ==
    /\ command[h].at = "on"
    /\ pendingUntil' = now + ConfirmTtl
    /\ asked' = asked \cup {now}
    /\ command' = [command EXCEPT ![h] = NoCommand]
    /\ UNCHANGED <<now, paused, enabled, listVars>>

\* /copytrading off leaves a pending request alone.
TurnOff ==
    /\ enabled' = FALSE
    /\ UNCHANGED <<now, paused, pendingUntil, asked, command, listVars>>

\* Mutant: an old request still counts.
IsPendingForEver == pendingUntil > 0

IsPending == pendingUntil > now

\* The "yes" reads the request; one that has lapsed will be cleared.  A status
\* does no more than that.
ReadRequest(h) ==
    /\ command[h].at = "idle" /\ pendingUntil > 0
    /\ command' = [command EXCEPT ![h] = [NoCommand EXCEPT
                       !.at = IF IsPending THEN "confirm" ELSE "clear", !.time = now]]
    /\ UNCHANGED <<now, paused, listVars, switchVars>>

\* The switch is committed before the request is cleared.
TurnOn(h) ==
    /\ command[h].at = "confirm"
    /\ enabled' = TRUE
    /\ command' = [command EXCEPT ![h].at = "clear"]
    /\ UNCHANGED <<now, paused, pendingUntil, asked, listVars>>

ClearRequest(h) ==
    /\ command[h].at = "clear"
    /\ pendingUntil' = 0
    /\ command' = [command EXCEPT ![h] = NoCommand]
    /\ UNCHANGED <<now, paused, enabled, asked, listVars>>

\* A handler raises, or the bridge is redeployed: what is committed stays.
Abandon ==
    /\ \E gone \in SUBSET Commands :
           command' = [h \in Commands |-> IF h \in gone THEN NoCommand ELSE command[h]]
    /\ UNCHANGED <<now, paused, listVars, switchVars>>

SettingsTick == TimePasses /\ UNCHANGED settingsVars

SettingsNext ==
    \/ \E h \in Commands : \/ \E kind \in {"mute", "unmute"}, s \in Symbols : ReadList(h, kind, s)
                           \/ WriteList(h) \/ ReadSwitch(h) \/ RequestOn(h)
                           \/ ReadRequest(h) \/ TurnOn(h) \/ ClearRequest(h)
    \/ SetPaused \/ TurnOff \/ Abandon \/ SettingsTick

SettingsSpec == now = 0 /\ SettingsInit /\ [][SettingsNext]_<<now, settingsVars>>

(***************************************************************************)
(* What must hold                                                          *)
(***************************************************************************)

\* A symbol's muting is lost, or comes back, only when two commands overlapped:
\* otherwise the list is what the commands, one after the other, make of it.
ListIsWhatWasWished == ~ clashed => muted = wished

\* Copying goes on only after a request that was still within its term when the
\* "yes" was read, whatever other commands ran between the two messages.
TurnedOnInTime ==
    [][~ enabled /\ enabled' =>
           \E h \in Commands : /\ command[h].at = "confirm"
                               /\ \E t \in asked : /\ t <= command[h].time
                                                   /\ command[h].time < t + ConfirmTtl
      ]_settingsVars
=============================================================================
