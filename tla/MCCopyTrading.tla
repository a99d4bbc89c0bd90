--------------------------- MODULE MCCopyTrading ---------------------------
(***************************************************************************)
(* Paid access on a small instance: the bridge's subscription, the         *)
(* library's copy execution, and the administrator's settings.             *)
(*                                                                         *)
(* The three share nothing but the clock, so that in a behaviour of all of *)
(* them each behaves as it does alone.  A run therefore follows one of the *)
(* three, the one that "part" names, and leaves the others where they were.*)
(***************************************************************************)
EXTENDS Membership, CopyExecution, BotSettings, TLC

CONSTANTS p1, p2,   \* processes: handlers of updates, workers, handlers of commands
          x1, x2    \* charges, symbols

VARIABLE part

\* The same distances for both directions, and an expiry for one of them.
MCSetups ==
    {[type |-> "BUY", top |-> 1, bottom |-> 1, invalidation |-> 0, stop |-> -1,
      tp1 |-> 2, tp2 |-> 3, final |-> 4, expiry |-> 1],
     [type |-> "SELL", top |-> 3, bottom |-> 3, invalidation |-> 4, stop |-> 5,
      tp1 |-> 2, tp2 |-> 1, final |-> 0, expiry |-> None]}
MCPrices == 0 .. 4

MCOrder == [volume |-> 2, required |-> 3]
Good == [point |-> 1, tick |-> 1, stops |-> 2, freeze |-> 1, min |-> 1, max |-> 3, step |-> 1,
         permitted |-> TRUE, open |-> TRUE, digits |-> 2, free |-> 5]

\* Metadata that passes, that lacks one field, or that refuses for one reason.
MCMetas ==
    {Good} \cup {[Good EXCEPT ![f] = None] : f \in DOMAIN Good}
    \cup {[Good EXCEPT !.stops = 9], [Good EXCEPT !.freeze = 9], [Good EXCEPT !.tick = 2],
          [Good EXCEPT !.max = 1], [Good EXCEPT !.permitted = FALSE],
          [Good EXCEPT !.open = FALSE], [Good EXCEPT !.free = 2]}

MCSymmetry == Permutations({p1, p2}) \cup Permutations({x1, x2})

CopyHorizon == 2   \* bound: the last instant of a behaviour of copying

MCInit ==
    /\ now = 0 /\ part \in {"membership", "copying", "settings"}
    /\ MemberInit /\ CopyInit /\ SettingsInit
    /\ part # "copying" => setup.type = "BUY" /\ flow["ammer_pay"] = "none"

MCNext ==
    /\ UNCHANGED part
    /\ \/ part = "membership" /\ MemberNext /\ UNCHANGED <<copyVars, settingsVars>>
       \/ /\ part = "copying" /\ CopyNext /\ now' <= CopyHorizon
          /\ UNCHANGED <<memberVars, settingsVars>>
       \/ part = "settings" /\ SettingsNext /\ UNCHANGED <<memberVars, copyVars>>

MCSpec == MCInit /\ [][MCNext]_<<now, part, memberVars, copyVars, settingsVars>>

\* Every variable of the three parts has its type.
TypeOK == MemberTypeOK /\ CopyTypeOK /\ SettingsTypeOK
=============================================================================
