----------------------------- MODULE Membership -----------------------------
(***************************************************************************)
(* The subscription of one Telegram user in the bridge: invoices and       *)
(* payment updates, the daily sweep, and the feed that they guard.         *)
(*                                                                         *)
(* Every HTTP request and every Telegram update is a coroutine with a      *)
(* session of its own.  A session reads the row once, decides in memory    *)
(* and writes, at its commit, the columns whose value it has changed; what *)
(* others committed in between stays unseen (expire_on_commit is off).     *)
(* An action is one stretch between two awaits that matter.  Rows of       *)
(* different users never meet.                                             *)
(*                                                                         *)
(* warned_at and the reminders are left out: telegram.send_dm(),           *)
(* ban_chat_member() and unban_chat_member(), which group_enforcement      *)
(* calls after the sweep's commit, do not exist.  The first call raises,   *)
(* so that the sweep ends with its commit and nobody is warned or removed  *)
(* from the group.                                                         *)
(***************************************************************************)
EXTENDS Clock, FiniteSets

CONSTANTS
    Charges,     \* telegram_payment_charge_id
    Updates,     \* handlers of a successful_payment update
    Sweeps,      \* runs of the sweep: the daily workflow, /checkpayments
    Period,      \* SUBSCRIPTION_PERIOD_DAYS
    Grace,       \* SUBSCRIPTION_GRACE_PERIOD_DAYS
    NoCharge     \* no payment, no key

ASSUME MembershipAssumption ==
    /\ Period \in Nat \ {0} /\ Grace \in Nat
    /\ IsFiniteSet(Charges) /\ NoCharge \notin Charges

VARIABLES
    member,      \* the user's row of subscribers
    payments,    \* the charges that have a row of payments
    due,         \* charges whose update Telegram has still to deliver
    update,      \* the handlers of successful_payment
    sweep,       \* the runs of the sweep
    copying,     \* is_copy_trading_enabled()
    used,        \* history: units of time in which the feed was open
    overlapped   \* history: a payment and a sweep wrote over each other

memberVars == <<member, payments, due, update, sweep, copying, used, overlapped>>

MemberStatus == {"none", "pending", "active", "expired", "removed"}
Subscriber == [status : MemberStatus, end : Nat, key : Charges \cup {NoCharge}]

\* What a session that records a payment has read, and how far it is.
Session == [at : {"idle", "loaded", "inserted"}, charge : Charges \cup {NoCharge},
            status : MemberStatus, end : Nat]
Idle == [at |-> "idle", charge |-> NoCharge, status |-> "none", end |-> 0]

\* What a sweep has selected so far, and the instant it started.
Selection == [at : {"idle", "expired", "removed"}, time : Nat,
              expire : BOOLEAN, remove : BOOLEAN]
NotSweeping == [at |-> "idle", time |-> 0, expire |-> FALSE, remove |-> FALSE]

MemberTypeOK ==
    /\ now \in Instants
    /\ member \in Subscriber
    /\ payments \subseteq Charges /\ due \subseteq Charges
    /\ update \in [Updates -> Session]
    /\ sweep \in [Sweeps -> Selection]
    /\ copying \in BOOLEAN /\ used \in Nat /\ overlapped \in BOOLEAN

MemberInit ==
    /\ member = [status |-> "none", end |-> 0, key |-> NoCharge]
    /\ payments = {} /\ due = {}
    /\ update = [h \in Updates |-> Idle]
    /\ sweep = [s \in Sweeps |-> NotSweeping]
    /\ copying = FALSE /\ used = 0 /\ overlapped = FALSE

(***************************************************************************)
(* The feed                                                                *)
(***************************************************************************)

IsEntitled == member.status = "active" /\ member.end > now

MayCopy == IsEntitled /\ copying

\* GET /copy/feed with this key is answered with signals: not 401, not 403.
FeedServes(key) == member.key = key /\ MayCopy

(***************************************************************************)
(* Payments                                                                *)
(***************************************************************************)

\* get_or_create_subscriber(); of two that insert the row at once one reads
\* the row of the other.
Created == IF member.status = "none" THEN [member EXCEPT !.status = "pending"] ELSE member

\* /subscribe, which opens an invoice; /mysubscription does the same to the row.
Subscribe ==
    /\ member.status = "none"
    /\ member' = Created
    /\ UNCHANGED <<now, payments, due, update, sweep, copying, used, overlapped>>

\* The user pays an open invoice; Telegram owes the bridge an update.
Charge(c) ==
    /\ member.status # "none" /\ c \notin due \cup payments
    /\ \A h \in Updates : update[h].charge # c
    /\ due' = due \cup {c}
    /\ UNCHANGED <<now, member, payments, update, sweep, copying, used, overlapped>>

\* Telegram delivers it, perhaps again: the handler loads the row.
Load(h, c) ==
    /\ update[h].at = "idle" /\ c \in due
    /\ update' = [update EXCEPT ![h] = [at |-> "loaded", charge |-> c,
                      status |-> member.status, end |-> member.end]]
    /\ UNCHANGED <<now, member, payments, due, sweep, copying, used, overlapped>>

\* The answer to an update may be lost, and then Telegram repeats it.
Acknowledge(c) == due' \in {due, due \ {c}}

\* Mutant: the unique key of the charge is not relied on.
InsertAgain(h) ==
    /\ update[h].at = "loaded"
    /\ update' = [update EXCEPT ![h].at = "inserted"]
    /\ UNCHANGED <<now, member, payments, due, sweep, copying, used, overlapped>>

\* The row of payments is flushed.  A charge that has one is a duplicate; one
\* that another session is inserting makes this one wait.
Insert(h) ==
    /\ update[h].at = "loaded"
    /\ \A o \in Updates \ {h} :
           ~ (update[o].at = "inserted" /\ update[o].charge = update[h].charge)
    /\ IF update[h].charge \in payments
       THEN /\ update' = [update EXCEPT ![h] = Idle]
            /\ Acknowledge(update[h].charge)
       ELSE /\ update' = [update EXCEPT ![h].at = "inserted"]
            /\ UNCHANGED due
    /\ UNCHANGED <<now, member, payments, sweep, copying, used, overlapped>>

\* A period more, from the end that was read or from now.
Extended(u) == (IF u.end > now THEN u.end ELSE now) + Period

\* Mutant: a renewal leaves the status to the sweep.
RenewedEndOnly(u) == [member EXCEPT !.end = Extended(u), !.key = u.charge,
                      !.status = IF member.status = "pending" THEN "active" ELSE @]

\* The columns the session has changed: the status only if the one it had read
\* was another.
Renewed(u) == [status |-> IF u.status = "active" THEN member.status ELSE "active",
               end    |-> Extended(u),
               key    |-> u.charge]

\* A sweep that has flushed its UPDATE holds the lock of the row until it commits.
HoldsRow(s) == sweep[s].at = "removed" /\ sweep[s].expire

Commit(h) ==
    /\ update[h].at = "inserted"
    /\ ~ \E s \in Sweeps : HoldsRow(s)
    /\ member' = Renewed(update[h])
    /\ payments' = payments \cup {update[h].charge}
    /\ update' = [update EXCEPT ![h] = Idle]
    /\ Acknowledge(update[h].charge)
    /\ overlapped' = \/ overlapped
                     \/ update[h].status = "active" /\ member.status # "active"
                     \/ \E s \in Sweeps : sweep[s].at # "idle"
    /\ UNCHANGED <<now, sweep, copying, used>>

\* The handler raises; the webhook answers 200 all the same, so that Telegram
\* does not repeat the update.
Fail(h) ==
    /\ update[h].at # "idle"
    /\ update' = [update EXCEPT ![h] = Idle]
    /\ due' = due \ {update[h].charge}
    /\ UNCHANGED <<now, member, payments, sweep, copying, used, overlapped>>

(***************************************************************************)
(* The sweep                                                               *)
(***************************************************************************)

SelectToExpire(s) ==
    /\ sweep[s].at = "idle"
    /\ sweep' = [sweep EXCEPT ![s] =
           [at |-> "expired", time |-> now, remove |-> FALSE,
            expire |-> member.status = "active" /\ member.end <= now]]
    /\ UNCHANGED <<now, member, payments, due, update, copying, used, overlapped>>

\* The query flushes what the session has changed, and sees it.
SelectToRemove(s) ==
    /\ sweep[s].at = "expired"
    /\ sweep[s].expire => ~ \E o \in Sweeps : HoldsRow(o)
    /\ sweep' = [sweep EXCEPT ![s].at = "removed",
                     ![s].remove = /\ sweep[s].expire \/ member.status = "expired"
                                   /\ member.end + Grace <= sweep[s].time]
    /\ UNCHANGED <<now, member, payments, due, update, copying, used, overlapped>>

Swept(r) == [member EXCEPT
                 !.status = IF r.remove THEN "removed" ELSE IF r.expire THEN "expired" ELSE @]

CommitSweep(s) ==
    /\ sweep[s].at = "removed"
    /\ ~ \E o \in Sweeps \ {s} : HoldsRow(o)
    /\ member' = Swept(sweep[s])
    /\ sweep' = [sweep EXCEPT ![s] = NotSweeping]
    /\ UNCHANGED <<now, payments, due, update, copying, used, overlapped>>

(***************************************************************************)
(* Time, the switch and the process                                        *)
(***************************************************************************)

\* The administrator turns copying on or off; BotSettings has the commands.
SwitchCopying ==
    /\ copying' = ~ copying
    /\ UNCHANGED <<now, member, payments, due, update, sweep, used, overlapped>>

MemberTick ==
    /\ TimePasses
    /\ used' = used + (IF \E c \in Charges : FeedServes(c) THEN 1 ELSE 0)
    /\ UNCHANGED <<member, payments, due, update, sweep, copying, overlapped>>

\* The bridge is redeployed: nothing uncommitted survives, and set_webhook() at
\* the start drops the updates that Telegram still holds, unless it fails.
MemberCrash ==
    /\ update' = [h \in Updates |-> Idle]
    /\ sweep' = [s \in Sweeps |-> NotSweeping]
    /\ due' \in {due, {}}
    /\ UNCHANGED <<now, member, payments, copying, used, overlapped>>

MemberNext ==
    \/ Subscribe
    \/ \E c \in Charges : Charge(c)
    \/ \E h \in Updates, c \in Charges : Load(h, c)
    \/ \E h \in Updates : Insert(h) \/ Commit(h) \/ Fail(h)
    \/ \E s \in Sweeps : SelectToExpire(s) \/ SelectToRemove(s) \/ CommitSweep(s)
    \/ SwitchCopying \/ MemberTick \/ MemberCrash

MemberSpec == now = 0 /\ MemberInit /\ [][MemberNext]_<<now, memberVars>>

(***************************************************************************)
(* What must hold                                                          *)
(***************************************************************************)

Left(date) == IF date > now THEN date - now ELSE 0

\* The feed was open, and can still be open, for no longer than the periods that
\* have been paid: no repeated update, race of two payments, crash or sweep gives
\* time away.
ServesOnlyPaidTime == used + Left(member.end) <= Period * Cardinality(payments)

\* A user with time left is shut out only if a payment and a sweep overlapped:
\* one of them had read the row before the other wrote it.
ShutOutOnlyByOverlap == member.end > now /\ member.status # "active" => overlapped

\* At any instant one handler at most is between its read of the row and its end.
AloneAtWork ==
    \A g, h \in Updates : update[g].at # "idle" /\ update[h].at # "idle" => g = h

\* Each recorded payment has moved the end by a period: none is lost, unless two
\* payments are recorded at once (then both extend the end they have read).
NoPeriodLost == Period * Cardinality(payments) <= member.end
=============================================================================
