--------------------------- MODULE SignalDelivery ---------------------------
(***************************************************************************)
(* How the bridge turns a POST /signal or POST /trade into one message in  *)
(* the Telegram chat, and what its retries do about those that failed.     *)
(*                                                                         *)
(* A handler runs until it awaits the database or Telegram; every action   *)
(* below is one stretch between two such points, so that other handlers    *)
(* run, and a handler may be lost, in between.  The unique key of a table  *)
(* makes the insertion of a row one step.  A row's column is written only  *)
(* if the handler has changed it, and a batch of rows is read once, when   *)
(* the retry starts: sessions keep what they have loaded.                  *)
(*                                                                         *)
(* An item is a signal or a trade event; its text, its secondary copies    *)
(* (best effort) and requests refused with 400 or 429 are left out.        *)
(***************************************************************************)
EXTENDS FiniteSets, Naturals

CONSTANTS
    Signals,      \* signal ids, subject to /mute and /pause
    TradeEvents,  \* event ids of POST /trade
    Posters,      \* handlers of POST /signal and POST /trade
    Retriers,     \* handlers of the two retry endpoints and of the bot's /retry
    Attempts,     \* TELEGRAM_MAX_RETRIES
    BatchLimit,   \* rows one retry takes
    None,         \* no item, no result
    MaxExcuses,   \* bound: excuses (see the variable) per item
    MaxLosses     \* bound: handlers lost
\* A trade event is a signal that nobody can hush.

Items == Signals \cup TradeEvents
Handlers == Posters \cup Retriers

\* What became of a send: a message, a permanent error, a transient one, or no
\* attempt because the signal was muted or paused.
Results == {"sent", "refused", "failed", "hushed"}

ASSUME DeliveryAssumption ==
    /\ Attempts \in Nat \ {0} /\ BatchLimit \in Nat \ {0}
    /\ MaxExcuses \in Nat /\ MaxLosses \in Nat
    /\ None \notin Items \cup Results /\ Signals \cap TradeEvents = {}
    /\ Posters \cap Retriers = {}
    /\ IsFiniteSet(Handlers)

VARIABLES
    row,        \* the rows of signals and trade_events
    hushed,     \* the signals whose symbol is muted; all of them when paused
    job,        \* what each handler is doing
    posts,      \* messages of an item in the chat
    suppressed, \* history: signals recorded without a message on purpose
    excuses,    \* history: what may cause a second message (see NoSecondMessage)
    losses      \* handlers lost so far

vars == <<row, hushed, job, posts, suppressed, excuses, losses>>

Statuses == {"none", "PENDING", "ACTIVE", "FAILED", "PERMANENTLY_FAILED"}
Job == [step   : {"idle", "check", "send", "write", "next"},
        item   : Items \cup {None},
        tries  : 0 .. Attempts - 1,
        result : Results \cup {None},
        todo   : SUBSET Items]
NoJob == [step |-> "idle", item |-> None, tries |-> 0, result |-> None, todo |-> {}]
NoRow == [status |-> "none", message |-> FALSE, old |-> FALSE]

TypeOK ==
    /\ row \in [Items -> [status : Statuses, message : BOOLEAN, old : BOOLEAN]]
    /\ hushed \subseteq Signals
    /\ job \in [Handlers -> Job]
    /\ posts \in [Items -> Nat]
    /\ suppressed \subseteq Signals
    /\ excuses \in [Items -> 0 .. MaxExcuses]
    /\ losses \in 0 .. MaxLosses

Init ==
    /\ row = [i \in Items |-> NoRow]
    /\ hushed = {} /\ suppressed = {}
    /\ job = [h \in Handlers |-> NoJob]
    /\ posts = [i \in Items |-> 0]
    /\ excuses = [i \in Items |-> 0]
    /\ losses = 0

\* Handler h has item i in hand, or in its batch.
Holds(h, i) == job[h].item = i \/ i \in job[h].todo

Held(i) == \E h \in Handlers : Holds(h, i)
-----------------------------------------------------------------------------
(* POST /signal and POST /trade *)

\* Mutant of Reservable: the key of the table is not unique.
ReservableAlways(i) == TRUE

\* The insertion of the PENDING row succeeds; otherwise the request is answered
\* as a duplicate and nothing changes.
Reservable(i) == row[i].status = "none"

Receive(p, i) ==
    /\ job[p] = NoJob /\ Reservable(i)
    /\ row' = [row EXCEPT ![i] = [NoRow EXCEPT !.status = "PENDING"]]
    /\ job' = [job EXCEPT ![p] = [NoJob EXCEPT !.item = i,
                  !.step = IF i \in Signals THEN "check" ELSE "send"]]
    /\ UNCHANGED <<hushed, posts, suppressed, excuses, losses>>

\* is_broadcast_paused() or is_symbol_muted().
CheckHushed(p) ==
    /\ job[p].step = "check"
    /\ job' = IF job[p].item \in hushed
              THEN [job EXCEPT ![p].step = "write", ![p].result = "hushed"]
              ELSE [job EXCEPT ![p].step = "send"]
    /\ UNCHANGED <<row, hushed, posts, suppressed, excuses, losses>>

\* Mutant of PostedRow: a hushed signal is recorded as one that was not sent.
PostedRowHushed(r, result) ==
    CASE result = "sent"    -> [r EXCEPT !.status = "ACTIVE", !.message = TRUE]
      [] result = "refused" -> [r EXCEPT !.status = "PERMANENTLY_FAILED"]
      [] result \in {"failed", "hushed"} -> [r EXCEPT !.status = "FAILED"]

\* Mutant of PostedRow: a transient failure leaves the status, as in a retry.
PostedRowKept(r, result) ==
    CASE result = "sent"    -> [r EXCEPT !.status = "ACTIVE", !.message = TRUE]
      [] result = "hushed"  -> [r EXCEPT !.status = "ACTIVE"]
      [] result = "refused" -> [r EXCEPT !.status = "PERMANENTLY_FAILED"]
      [] result = "failed"  -> r

\* The row after receive_signal() or receive_trade_event(): a hushed signal is
\* recorded as ACTIVE, without a message.
PostedRow(r, result) ==
    CASE result = "sent"    -> [r EXCEPT !.status = "ACTIVE", !.message = TRUE]
      [] result = "hushed"  -> [r EXCEPT !.status = "ACTIVE"]
      [] result = "refused" -> [r EXCEPT !.status = "PERMANENTLY_FAILED"]
      [] result = "failed"  -> [r EXCEPT !.status = "FAILED"]

WritePosted(p) ==
    LET i == job[p].item IN
    /\ p \in Posters /\ job[p].step = "write"
    /\ row' = [row EXCEPT ![i] = PostedRow(row[i], job[p].result)]
    /\ suppressed' = IF job[p].result = "hushed" THEN suppressed \cup {i} ELSE suppressed
    /\ job' = [job EXCEPT ![p] = NoJob]
    /\ UNCHANGED <<hushed, posts, excuses, losses>>
-----------------------------------------------------------------------------
(* send_telegram_message(), in any handler *)

\* A handler that has its answer, or has given up.
Answered(h, result) ==
    job' = [job EXCEPT ![h].step = "write", ![h].result = result, ![h].tries = 0]

\* Mutant of AttemptFailed: one attempt more than TELEGRAM_MAX_RETRIES.
AttemptFailedOneMore(h) ==
    IF job[h].tries < Attempts
    THEN job' = [job EXCEPT ![h].tries = @ + 1]
    ELSE Answered(h, "failed")

\* One more attempt, or none left.
AttemptFailed(h) ==
    IF job[h].tries + 1 < Attempts
    THEN job' = [job EXCEPT ![h].tries = @ + 1]
    ELSE Answered(h, "failed")

SendAccepted(h) ==
    /\ job[h].step = "send"
    /\ posts' = [posts EXCEPT ![job[h].item] = @ + 1]
    /\ Answered(h, "sent")
    /\ UNCHANGED <<row, hushed, suppressed, excuses, losses>>

\* NonRetryableError: any other 4xx, or a permanent error code.
SendRefused(h) ==
    /\ job[h].step = "send"
    /\ Answered(h, "refused")
    /\ UNCHANGED <<row, hushed, posts, suppressed, excuses, losses>>

\* 429, 5xx or no connection.
SendFailed(h) ==
    /\ job[h].step = "send"
    /\ AttemptFailed(h)
    /\ UNCHANGED <<row, hushed, posts, suppressed, excuses, losses>>

\* Telegram has taken the message and its answer times out: a RequestError.
SendUnanswered(h) ==
    LET i == job[h].item IN
    /\ job[h].step = "send"
    /\ excuses[i] < MaxExcuses
    /\ posts' = [posts EXCEPT ![i] = @ + 1]
    /\ excuses' = [excuses EXCEPT ![i] = @ + 1]
    /\ AttemptFailed(h)
    /\ UNCHANGED <<row, hushed, suppressed, losses>>
-----------------------------------------------------------------------------
(* retry_failed_signals_core(), retry_failed_trade_events_core() *)

\* FAILED, or PENDING for more than PENDING_STALE_SECONDS.
Retriable(i) ==
    \/ row[i].status = "FAILED"
    \/ row[i].status = "PENDING" /\ row[i].old

\* The rows of one table, at most BatchLimit of them.  That another handler has
\* one of them in hand is not looked at; here it is noted.
SelectBatch(r) ==
    /\ job[r] = NoJob
    /\ \E table \in {Signals, TradeEvents} :
         \E batch \in SUBSET {i \in table : Retriable(i)} :
            /\ batch # {}
            /\ Cardinality(batch) <= BatchLimit
            /\ \/ Cardinality(batch) = BatchLimit
               \/ \A i \in table : Retriable(i) => i \in batch
            /\ \A i \in batch : Held(i) => excuses[i] < MaxExcuses
            /\ job' = [job EXCEPT ![r] = [NoJob EXCEPT !.step = "next", !.todo = batch]]
            /\ excuses' = [i \in Items |-> IF i \in batch /\ Held(i)
                                           THEN excuses[i] + 1 ELSE excuses[i]]
    /\ UNCHANGED <<row, hushed, posts, suppressed, losses>>

TakeNext(r) ==
    /\ job[r].step = "next"
    /\ \E i \in job[r].todo :
         job' = [job EXCEPT ![r].step = "send", ![r].item = i, ![r].todo = @ \ {i}]
    /\ UNCHANGED <<row, hushed, posts, suppressed, excuses, losses>>

\* Mutant of RetriedRow: the outcome of a failed attempt is written too.
RetriedRowFailed(r, result) ==
    CASE result = "sent"    -> [r EXCEPT !.status = "ACTIVE"]
      [] result = "refused" -> [r EXCEPT !.status = "PERMANENTLY_FAILED"]
      [] result = "failed"  -> [r EXCEPT !.status = "FAILED"]

\* The row after one round of the loop: a transient failure leaves its status.
RetriedRow(r, result) ==
    CASE result = "sent"    -> [r EXCEPT !.status = "ACTIVE", !.message = TRUE]
      [] result = "refused" -> [r EXCEPT !.status = "PERMANENTLY_FAILED"]
      [] result = "failed"  -> r

WriteRetried(r) ==
    LET i == job[r].item IN
    /\ r \in Retriers /\ job[r].step = "write"
    /\ row' = [row EXCEPT ![i] = RetriedRow(row[i], job[r].result)]
    /\ job' = [job EXCEPT ![r] = IF job[r].todo = {} THEN NoJob
                                 ELSE [NoJob EXCEPT !.step = "next", !.todo = job[r].todo]]
    /\ UNCHANGED <<hushed, posts, suppressed, excuses, losses>>
-----------------------------------------------------------------------------
(* Around the handlers *)

\* The process dies, or a commit fails: the handler is gone, and with it what
\* it had not written.
Lose(h) ==
    LET i == job[h].item
        unrecorded == job[h].step = "write" /\ job[h].result = "sent"
    IN /\ job[h] # NoJob /\ losses < MaxLosses
       /\ unrecorded => excuses[i] < MaxExcuses
       /\ losses' = losses + 1
       /\ excuses' = IF unrecorded THEN [excuses EXCEPT ![i] = @ + 1] ELSE excuses
       /\ job' = [job EXCEPT ![h] = NoJob]
       /\ UNCHANGED <<row, hushed, posts, suppressed>>

\* PENDING_STALE_SECONDS go by.
Age(i) ==
    /\ row[i].status = "PENDING" /\ ~ row[i].old
    /\ row' = [row EXCEPT ![i].old = TRUE]
    /\ UNCHANGED <<hushed, job, posts, suppressed, excuses, losses>>

\* /mute, /unmute, /pause, /resume.
Command(muted) ==
    /\ hushed' = muted /\ hushed' # hushed
    /\ UNCHANGED <<row, job, posts, suppressed, excuses, losses>>

Step(h) ==
    \/ CheckHushed(h)
    \/ SendAccepted(h) \/ SendRefused(h) \/ SendFailed(h) \/ SendUnanswered(h)
    \/ WritePosted(h) \/ WriteRetried(h) \/ TakeNext(h)

Next ==
    \/ \E p \in Posters, i \in Items : Receive(p, i)
    \/ \E r \in Retriers : SelectBatch(r)
    \/ \E h \in Handlers : Step(h) \/ Lose(h)
    \/ \E i \in Items : Age(i)
    \/ \E muted \in SUBSET Signals : Command(muted)

Spec == Init /\ [][Next]_vars

\* A handler that is not lost goes on: the event loop and the time limits of
\* the HTTP client see to it.  Nobody has to call a retry.
FairSpec == Spec /\ \A h \in Handlers : WF_vars(Step(h))
-----------------------------------------------------------------------------
(* Properties *)

\* "Telegram is contacted at most once per signal_id": every message beyond the
\* first has its excuse, which is an answer of Telegram that was lost, a handler
\* that was lost before it could record what it had sent, or a retry that took
\* an item another handler had in hand.  Repeated requests, failures in any
\* number and retries one after another do not double a message.
NoSecondMessage == \A i \in Items : posts[i] <= 1 + excuses[i]

\* A row says ACTIVE only of what is in the chat or was held back on purpose,
\* and names a message only when there is one, however its handlers overlapped.
ActiveIsAccountedFor ==
    \A i \in Items :
        /\ row[i].status = "ACTIVE" => row[i].message \/ i \in suppressed
        /\ row[i].message => posts[i] > 0

\* "recorded, not sent to Telegram": a retry never picks up what was held back,
\* even when the symbol is unmuted by then, unless it already had the item in
\* hand while the request was still being handled.
SuppressedStaysSilent == \A i \in suppressed : posts[i] <= excuses[i]

\* "a muted symbol or a global pause suppresses the outbound broadcast": no
\* handler starts to send a signal that is hushed at that moment.
NoHushedBroadcast ==
    [][\A h \in Handlers :
          job'[h].step = "send" /\ job[h].step # "send" => job'[h].item \notin hushed]_vars

\* The same of the requests, which ask before they send: only a retry broadcasts
\* what is hushed.  Trade events are never hushed, and are not asked about.
RequestsAskFirst ==
    [][\A p \in Posters :
          job'[p].step = "send" /\ job[p].step # "send" => job'[p].item \notin hushed]_vars

\* A row is left PENDING with nobody working on it only by the loss of a
\* handler: every path through receive_signal() resolves its reservation.
StrandedOnlyByLoss ==
    losses = 0 =>
        \A i \in Items : row[i].status = "PENDING" => \E p \in Posters : job[p].item = i
=============================================================================
