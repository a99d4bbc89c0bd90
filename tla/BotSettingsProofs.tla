------------------------- MODULE BotSettingsProofs -------------------------
(***************************************************************************)
(* BotSettings keeps its types, loses a muting only when two commands      *)
(* overlap, and turns copying on only after a request that was within its  *)
(* term: for any symbols, handlers and term.                               *)
(*                                                                         *)
(* The inductive invariant says what a handler still knows: the list it    *)
(* has read is the one that stands, unless commands have clashed, and a    *)
(* request it has read was made no longer ago than its term.               *)
(***************************************************************************)
EXTENDS BotSettings, TLAPS

Editing == {"mute", "unmute"}

\* A handler that edits the list has the symbol it was given.
SymbolsNamed == \A h \in Commands : command[h].at \in Editing => command[h].symbol \in Symbols

ReadsAreCurrent ==
    \A h \in Commands : command[h].at \in Editing /\ ~ clashed => command[h].list = muted

\* A request recorded at the instant t is within its term at u.
Covers(t, u) == t <= u /\ u < t + ConfirmTtl

AskedBefore == \A t \in asked : t <= now
PendingWasAsked == pendingUntil > 0 => \E t \in asked : pendingUntil = t + ConfirmTtl
ConfirmsInTime ==
    \A h \in Commands : command[h].at = "confirm" =>
        \E t \in asked : Covers(t, command[h].time)

IInv == /\ SettingsTypeOK /\ SymbolsNamed /\ ListIsWhatWasWished /\ ReadsAreCurrent
        /\ AskedBefore /\ PendingWasAsked /\ ConfirmsInTime
-----------------------------------------------------------------------------
\* A handler that is idle knows nothing.
LEMMA NoCommandTyped == NoCommand \in Handler /\ NoCommand.at = "idle"
  BY DEF NoCommand, Handler

LEMMA InitIInv == now = 0 /\ SettingsInit => IInv
  <1> SUFFICES ASSUME now = 0, SettingsInit PROVE IInv OBVIOUS
  <1> USE ClockAssumption, SettingsAssumption DEF SettingsInit
  <1>1. \A h \in Commands : command[h].at = "idle" BY DEF NoCommand
  <1>2. SettingsTypeOK
    <2>1. command \in [Commands -> Handler] BY NoCommandTyped
    <2>2. now \in Instants BY DEF Instants
    <2> QED BY <2>1, <2>2 DEF SettingsTypeOK
  <1>3. SymbolsNamed /\ ReadsAreCurrent /\ ConfirmsInTime
    BY <1>1 DEF SymbolsNamed, ReadsAreCurrent, ConfirmsInTime, Editing
  <1>4. ListIsWhatWasWished /\ AskedBefore /\ PendingWasAsked
    BY DEF ListIsWhatWasWished, AskedBefore, PendingWasAsked
  <1> QED BY <1>2, <1>3, <1>4 DEF IInv

LEMMA StepType ==
  ASSUME SettingsTypeOK, SymbolsNamed, SettingsNext
  PROVE  SettingsTypeOK' /\ SymbolsNamed'
  <1> USE ClockAssumption, SettingsAssumption, NoCommandTyped
      DEF SettingsTypeOK, SymbolsNamed, Editing, Instants
  <1>1. ASSUME NEW h \in Commands, NEW kind \in {"mute", "unmute"}, NEW s \in Symbols,
               ReadList(h, kind, s)
        PROVE  SettingsTypeOK' /\ SymbolsNamed'
    <2> DEFINE read == [NoCommand EXCEPT !.at = kind, !.symbol = s, !.list = muted]
    <2>1. read \in Handler /\ read.symbol = s BY DEF NoCommand, Handler
    <2>2. command' = [command EXCEPT ![h] = read] BY <1>1 DEF ReadList
    <2> QED BY <1>1, <2>1, <2>2 DEF ReadList, listVars, switchVars
  <1>2. CASE \E h \in Commands : WriteList(h)
    BY <1>2 DEF WriteList, switchVars, Written, With, Handler
  <1>3. ASSUME NEW h \in Commands, ReadSwitch(h) \/ ReadRequest(h)
        PROVE  SettingsTypeOK' /\ SymbolsNamed'
    <2>1. PICK read \in Handler :
              read.at \notin Editing /\ command' = [command EXCEPT ![h] = read]
      <3>1. CASE ReadSwitch(h)
        BY <3>1 DEF ReadSwitch, NoCommand, Handler
      <3>2. CASE ReadRequest(h)
        <4> DEFINE read == [NoCommand EXCEPT !.at = IF IsPending THEN "confirm" ELSE "clear",
                                             !.time = now]
        <4> HIDE DEF SymbolsNamed
        <4>0. now \in Nat /\ read.at \in {"confirm", "clear"} BY DEF NoCommand
        <4>1. read \in Handler /\ read.at \notin Editing
          <5>1. CASE IsPending BY <4>0, <5>1 DEF NoCommand, Handler
          <5>2. CASE ~ IsPending BY <4>0, <5>2 DEF NoCommand, Handler
          <5> QED BY <5>1, <5>2
        <4>2. command' = [command EXCEPT ![h] = read] BY <3>2 DEF ReadRequest
        <4> QED BY <4>1, <4>2
      <3> QED BY <1>3, <3>1, <3>2
    <2> QED BY <1>3, <2>1 DEF ReadSwitch, ReadRequest, listVars, switchVars
  <1>4. ASSUME NEW h \in Commands, RequestOn(h) \/ ClearRequest(h)
        PROVE  SettingsTypeOK' /\ SymbolsNamed'
    <2>1. CASE RequestOn(h)
      <3>1. command' = [command EXCEPT ![h] = NoCommand] BY <2>1 DEF RequestOn
      <3>2. command' \in [Commands -> Handler] BY <3>1
      <3>3. now \in Nat /\ pendingUntil' \in Nat /\ asked' \subseteq Nat
        BY <2>1 DEF RequestOn
      <3>4. SymbolsNamed' BY <3>1
      <3> QED BY <2>1, <3>2, <3>3, <3>4 DEF RequestOn, listVars
    <2>2. CASE ClearRequest(h) BY <2>2 DEF ClearRequest, listVars
    <2> QED BY <1>4, <2>1, <2>2
  <1>8. ASSUME NEW h \in Commands, TurnOn(h)
        PROVE  SettingsTypeOK' /\ SymbolsNamed'
    BY <1>8 DEF TurnOn, listVars, Handler
  <1>5. CASE SetPaused \/ TurnOff
    BY <1>5 DEF SetPaused, TurnOff, listVars, switchVars
  <1>6. CASE Abandon
    BY <1>6 DEF Abandon, listVars, switchVars
  <1>7. CASE SettingsTick
    BY <1>7 DEF SettingsTick, settingsVars, TimePasses
  <1> QED BY <1>1, <1>2, <1>3, <1>4, <1>5, <1>6, <1>7, <1>8 DEF SettingsNext

\* The list: a command that writes it while another has read it clashes with it.
LEMMA StepList ==
  ASSUME SettingsTypeOK, SymbolsNamed, ListIsWhatWasWished, ReadsAreCurrent, SettingsNext
  PROVE  ListIsWhatWasWished' /\ ReadsAreCurrent'
  <1> USE NoCommandTyped DEF SettingsTypeOK, ListIsWhatWasWished, ReadsAreCurrent, Editing
  <1>1. ASSUME NEW h \in Commands, NEW kind \in {"mute", "unmute"}, NEW s \in Symbols,
               ReadList(h, kind, s)
        PROVE  ListIsWhatWasWished' /\ ReadsAreCurrent'
    <2> DEFINE read == [NoCommand EXCEPT !.at = kind, !.symbol = s, !.list = muted]
    <2>1. read.list = muted BY DEF NoCommand
    <2>2. command' = [command EXCEPT ![h] = read] BY <1>1 DEF ReadList
    <2> QED BY <1>1, <2>1, <2>2 DEF ReadList, listVars
  <1>2. ASSUME NEW h \in Commands, WriteList(h)
        PROVE  ListIsWhatWasWished' /\ ReadsAreCurrent'
    <2>1. command' = [command EXCEPT ![h] = NoCommand] BY <1>2 DEF WriteList
    <2>2. ReadsAreCurrent'
      <3> SUFFICES ASSUME NEW o \in Commands, command'[o].at \in Editing, ~ clashed'
                   PROVE  command'[o].list = muted'
        OBVIOUS
      <3>1. o # h /\ command[o].at \in Editing BY <2>1
      <3> QED BY <1>2, <3>1 DEF WriteList
    <2>3. ASSUME ~ clashed' PROVE muted' = wished'
      <3>1. ~ clashed BY <1>2, <2>3 DEF WriteList
      <3>2. command[h].list = muted /\ muted = wished BY <1>2, <3>1 DEF WriteList
      <3> QED BY <1>2, <3>2 DEF WriteList, Written
    <2> QED BY <2>2, <2>3
  <1>3. ASSUME NEW h \in Commands,
               ReadSwitch(h) \/ RequestOn(h) \/ ReadRequest(h) \/ TurnOn(h) \/ ClearRequest(h)
        PROVE  ListIsWhatWasWished' /\ ReadsAreCurrent'
    <2>1. UNCHANGED listVars
      BY <1>3 DEF ReadSwitch, RequestOn, ReadRequest, TurnOn, ClearRequest
    <2>2. command'[h].at \notin Editing
      <3>1. CASE ReadSwitch(h) BY <3>1 DEF ReadSwitch, NoCommand
      <3>2. CASE ReadRequest(h) BY <3>2 DEF ReadRequest, NoCommand
      <3>3. CASE TurnOn(h) BY <3>3 DEF TurnOn, Handler
      <3>4. CASE RequestOn(h) \/ ClearRequest(h) BY <3>4 DEF RequestOn, ClearRequest
      <3> QED BY <1>3, <3>1, <3>2, <3>3, <3>4
    <2>3. \A o \in Commands \ {h} : command'[o] = command[o]
      BY <1>3 DEF ReadSwitch, RequestOn, ReadRequest, TurnOn, ClearRequest
    <2> QED BY <2>1, <2>2, <2>3 DEF listVars
  <1>4. CASE SetPaused \/ TurnOff \/ SettingsTick
    BY <1>4 DEF SetPaused, TurnOff, SettingsTick, settingsVars, listVars
  <1>5. CASE Abandon
    BY <1>5 DEF Abandon, listVars
  <1> QED BY <1>1, <1>2, <1>3, <1>4, <1>5 DEF SettingsNext

\* The switch: a "yes" that will turn copying on has read a request in its term.
LEMMA StepSwitch ==
  ASSUME SettingsTypeOK, AskedBefore, PendingWasAsked, ConfirmsInTime, SettingsNext
  PROVE  AskedBefore' /\ PendingWasAsked' /\ ConfirmsInTime'
  <1> USE ClockAssumption, SettingsAssumption, NoCommandTyped
      DEF SettingsTypeOK, AskedBefore, PendingWasAsked, ConfirmsInTime, Instants
  <1>1. ASSUME NEW h \in Commands, NEW kind \in {"mute", "unmute"}, NEW s \in Symbols,
               ReadList(h, kind, s)
        PROVE  AskedBefore' /\ PendingWasAsked' /\ ConfirmsInTime'
    <2> DEFINE read == [NoCommand EXCEPT !.at = kind, !.symbol = s, !.list = muted]
    <2>1. read.at # "confirm" BY DEF NoCommand
    <2>2. command' = [command EXCEPT ![h] = read] BY <1>1 DEF ReadList
    <2> QED BY <1>1, <2>1, <2>2 DEF ReadList, switchVars
  <1>2. ASSUME NEW h \in Commands, WriteList(h) \/ ReadSwitch(h) \/ ClearRequest(h) \/ TurnOn(h)
        PROVE  AskedBefore' /\ PendingWasAsked' /\ ConfirmsInTime'
    <2>1. asked' = asked /\ now' = now /\ pendingUntil' \in {0, pendingUntil}
      BY <1>2 DEF WriteList, ReadSwitch, ClearRequest, TurnOn, switchVars
    <2>2. command'[h].at # "confirm"
      BY <1>2 DEF WriteList, ReadSwitch, ClearRequest, TurnOn, NoCommand, Handler
    <2>3. \A o \in Commands \ {h} : command'[o] = command[o]
      BY <1>2 DEF WriteList, ReadSwitch, ClearRequest, TurnOn
    <2> QED BY <2>1, <2>2, <2>3
  <1>3. ASSUME NEW h \in Commands, RequestOn(h)
        PROVE  AskedBefore' /\ PendingWasAsked' /\ ConfirmsInTime'
    <2>1. now' = now /\ asked' = asked \cup {now} /\ pendingUntil' = now + ConfirmTtl
      BY <1>3 DEF RequestOn
    <2>2. AskedBefore' /\ PendingWasAsked' BY <2>1
    <2>3. command' = [command EXCEPT ![h] = NoCommand] BY <1>3 DEF RequestOn
    <2>4. ConfirmsInTime' BY <2>1, <2>3
    <2> QED BY <2>2, <2>4
  <1>4. ASSUME NEW h \in Commands, ReadRequest(h)
        PROVE  AskedBefore' /\ PendingWasAsked' /\ ConfirmsInTime'
    <2> DEFINE read == [NoCommand EXCEPT !.at = IF IsPending THEN "confirm" ELSE "clear",
                                         !.time = now]
    <2>1. command' = [command EXCEPT ![h] = read] /\ UNCHANGED <<now, asked, pendingUntil>>
      BY <1>4 DEF ReadRequest, switchVars
    <2>2. PICK t \in asked : pendingUntil = t + ConfirmTtl BY <1>4 DEF ReadRequest
    <2>3. read.at = "confirm" => Covers(t, now) BY <2>2 DEF IsPending, NoCommand, Covers
    <2>4. read.time = now BY DEF NoCommand
    <2>5. ConfirmsInTime' BY <2>1, <2>2, <2>3, <2>4
    <2> QED BY <2>1, <2>5
  <1>5. CASE SetPaused \/ TurnOff \/ Abandon
    BY <1>5 DEF SetPaused, TurnOff, Abandon, switchVars
  <1>6. CASE SettingsTick
    BY <1>6 DEF SettingsTick, settingsVars, TimePasses
  <1> QED BY <1>1, <1>2, <1>3, <1>4, <1>5, <1>6 DEF SettingsNext

LEMMA Inductive == IInv /\ [SettingsNext]_<<now, settingsVars>> => IInv'
  <1> SUFFICES ASSUME IInv, [SettingsNext]_<<now, settingsVars>> PROVE IInv' OBVIOUS
  <1>1. CASE SettingsNext
    BY <1>1, StepType, StepList, StepSwitch DEF IInv
  <1>2. CASE UNCHANGED <<now, settingsVars>>
    BY <1>2 DEF IInv, settingsVars, SettingsTypeOK, SymbolsNamed, ListIsWhatWasWished,
                ReadsAreCurrent, AskedBefore, PendingWasAsked, ConfirmsInTime, Editing
  <1> QED BY <1>1, <1>2

LEMMA Invariant == SettingsSpec => []IInv
  <1>1. IInv /\ [SettingsNext]_<<now, settingsVars>> => IInv' BY Inductive
  <1>2. now = 0 /\ SettingsInit => IInv BY InitIInv
  <1> QED BY <1>1, <1>2, PTL DEF SettingsSpec
-----------------------------------------------------------------------------
\* The settings and the handlers keep their types, whatever commands interleave
\* and wherever they are cut off.
THEOREM SettingsTypeCorrect == SettingsSpec => []SettingsTypeOK
  <1>1. IInv => SettingsTypeOK BY DEF IInv
  <1> QED BY <1>1, Invariant, PTL

\* /mute and /unmute (settings_store.py): as long as no two of them overlapped,
\* the stored list is what they make of it one after the other.
THEOREM MutingIsLostOnlyByOverlap == SettingsSpec => []ListIsWhatWasWished
  <1>1. IInv => ListIsWhatWasWished BY DEF IInv
  <1> QED BY <1>1, Invariant, PTL

\* Only TurnOn sets the switch, and the handler that takes it has read a request
\* that was within its term.
LEMMA OnlyAnsweredRequests ==
  ASSUME IInv, [SettingsNext]_<<now, settingsVars>>, ~ enabled, enabled'
  PROVE  \E h \in Commands : /\ command[h].at = "confirm"
                             /\ \E t \in asked : Covers(t, command[h].time)
  <1>1. PICK h \in Commands : TurnOn(h)
    BY DEF IInv, SettingsTypeOK, SettingsNext, ReadList, WriteList, ReadSwitch, RequestOn,
           ReadRequest, ClearRequest, SetPaused, TurnOff, Abandon, SettingsTick,
           settingsVars, switchVars
  <1> QED BY <1>1 DEF TurnOn, IInv, ConfirmsInTime

\* /copytrading on (copy_settings.py): however late the "yes" is carried out, and
\* whatever ran between, copying goes on only after a request in its term.
THEOREM CopyingTurnedOnInTime == SettingsSpec => TurnedOnInTime
  <1>1. IInv /\ [SettingsNext]_<<now, settingsVars>>
          => [~ enabled /\ enabled' =>
                 \E h \in Commands : /\ command[h].at = "confirm"
                                     /\ \E t \in asked : /\ t <= command[h].time
                                                         /\ command[h].time < t + ConfirmTtl
             ]_settingsVars
    BY OnlyAnsweredRequests DEF Covers
  <1> QED BY <1>1, Invariant, PTL DEF SettingsSpec, TurnedOnInTime
=============================================================================
