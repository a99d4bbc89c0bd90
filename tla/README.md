# Medis Touch: formal specification

TLA+ modules, TLC runs and machine-checked proofs about Medis Touch: a
MetaTrader 5 Expert Advisor (`EA/`) that finds setups, places and manages
orders and publishes signals; a FastAPI service (`telegram-bridge/`) that turns
signals into Telegram messages, deploys parameters and sells access; and a
reference library (`medis_touch/`) for signal lifecycles, copy trading and
payments.  Paths below are relative to the repository's root.

`PROJECT.json` lists every component, run, mutant, hazard and theorem, and maps
every definition that models code to the lines it models.

How to run it, in this directory:

    tlc -workers 2 -config TradeExecution.cfg MCTradeExecution
    tlapm TradeExecutionProofs.tla

## 1. The system

### 1.1 Components, their state, their operations

| Component | State it keeps | Operations | Module |
|---|---|---|---|
| EA core (`EA/MedisTouch_v2.8.mq5`) | bar and setup times, the last published decision | `OnInit`, `OnTick`, `OnTradeTransaction`, `OnDeinit` | `TradeExecution` |
| Decision engine and store (`Decision/`) | next id; decisions in memory and in a CSV file; executions in a second file | `Decide`, `SeedNextId`, `Save`, `SaveExecution`, `FindById` | `TradeExecution` |
| Order manager (`Execution/OrderManager.mqh`) | one row per trade: decision, volume, fill, a state machine | `Submit`, `MarkFilledFromPending`, `RestoreTrade`, `Prune`, `OpenCount` | `TradeExecution` |
| Trade state machine (`Execution/TradeStateMachine.mqh`) | the state of one trade | `Transition`, `IsLegal` | `TradeStateMachine` |
| Broker adapter (`Execution/BrokerAdapter.mqh`) | attempts of the current request | market and limit orders, stop changes, partial closes, ticket resolution | `TradeExecution`, `PositionManager` |
| Position manager (`Execution/PositionManager.mqh`) | none of its own: rows, and the broker's position | break-even, partial close, trail, detection of a closed position | `PositionManager` |
| Recovery (`Recovery/RecoveryEngine.mqh`) | none | `Recover`, `InferPositionState` | `TradeExecution`, `PositionManager` |
| Signal delivery (`telegram-bridge/app/routes.py`, `telegram.py`, `settings_store.py`) | tables `signals`, `trade_events`, `bot_settings` | `POST /signal`, `POST /trade`, the two retries, `/mute`, `/pause` | `SignalDelivery` |
| Parameter deployment (`config_routes.py`, `deployment.py`, `config_registry.py`, `Signals/ConfigSync.mqh`, `Core/RuntimeConfigBus.mqh`) | deployment rows and acknowledgements in the database; `m_runtime`, `m_lastAppliedHash` in the EA's memory | `GET /config/{symbol}`, `POST /config/{symbol}/ack`, `Poll` | `ConfigDeployment` |
| Bot settings (`settings_store.py`, `copy_settings.py`, `copytrading_admin.py`, `bot_handlers.py`) | rows of `bot_settings`: muted symbols, pause, copy switch, pending request | `/mute`, `/unmute`, `/pause`, `/resume`, `/copytrading`, "yes" | `BotSettings` |
| Subscriptions (`subscriptions.py`, `payments_bot.py`, `group_enforcement.py`, `copy_routes.py`) | `subscribers`, `payments` | `/subscribe`, a successful payment, the daily sweep, `GET /copy/feed` | `Membership` |
| Signal lifecycle (`medis_touch/app/models.py`, `telegram_controls.py`) | one signal: its status and stamps; the controls its message shows | `evaluate_signal`, `build_message_update` | `SignalLifecycle` |
| Copy trading (`medis_touch/app/payment_webhook.py`, `payments/`, `copy_trading.py`, `execution_validation.py`) | payment rows, subscription, entitlement, account, copy event | webhooks, expiry, Copy, poll, `authorize_and_claim`, `validate_execution` | `CopyExecution` |
| Execution control plane (`research_routes.py`, `research/execution_service.py`) | `execution_ledger`, `portfolio_reservations` | reserve, transition, recover expired leases | `ExecutionLedger` |
| Recalibration (`calibration.py`, `bot_promotions.py`, `tools/gating.py`, `tools/stats.py`, `tools/metrics_engine.py`) | `calibration_cycles`, `promotion_requests`, `approved_weight_versions` | `run_cycle`, `decide`, the approve and reject buttons | `Gating`, `Learning` |
| Parameter proposal (`medis_touch/app/parameter_proposal/`) | the live configuration, proposals that wait | `propose`; approval | `ParameterProposal` |
| Risk (`Portfolio/`, `Trading/RiskEngine.mqh`), outcomes (`Trading/OutcomeTracker.mqh`, `POST /outcome`), `Execution/AsyncExecutionEngine.mqh`, control plane, rate limit | | | see 6 |
| Market analysis (`Analysis/`, `SmartMoney/`, `Structure/`, `Regime/`, `Strategies/`), the other tools, UI, logging | indicators over price bars | numerical | see 6 |

### 1.2 How they interact

* `OnTick` runs the position manager over the rows, prunes them, and on a new
  bar lets the decision engine choose a setup; a decision is saved, submitted
  through the order manager and the broker adapter, and published.
* The terminal calls `OnTradeTransaction` later than the broker acts; the deal
  it hands over is the only way a resting order's fill reaches its row.
* After a restart `OnInit` has three witnesses: the decisions file, the
  executions file, and what the broker shows under the EA's magic number.
* The EA posts signals and trade events over HTTP and repeats a request whose
  answer is lost.  The bridge reserves a row by its unique key before it talks
  to Telegram; retries come from an endpoint, from a schedule and from the bot.
* The EA polls the bridge for parameters and acknowledges what it has applied.
* Telegram delivers updates to a webhook of the bridge, each to a coroutine of
  its own: commands, payments and taps on a card.  It repeats an update that is
  not answered; the bridge answers 200 even after an exception.
* A daily workflow calls the sweep, another one the recalibration; the
  administrator's tap turns a promotion into a row of `approved_weight_versions`.
* The library is called by whoever keeps its rows: nothing in it locks, and it
  says in its comments which transaction it expects.

### 1.3 Where it is hard

* One process, many handlers: the bridge's coroutines interleave at every
  `await`; what was read before one may be stale after it.
* The broker, Telegram and the database answer late, or not at all, and the
  code repeats what may have been done.
* The EA is killed and restarted between any two calls, and must rebuild its
  rows from partial evidence.
* What was true when a button was rendered, an event polled, a request recorded,
  a gate asked or a proposal made may be over when somebody acts on it.
* Every retry, recovery and reservation has a duplicate, a lost item or a
  stranded item as its failure, none of which a unit test with one caller sees.

`PROJECT.json` lists each of these at its line, with the properties that watch
it.

### 1.4 What makes each component correct

| Component | Correct when |
|---|---|
| Order manager, store, recovery | one row per decision; no recorded id reissued; no order or position out of sight; exposure within `InpMaxOpenTrades`; a decision is acted on once, across crashes |
| Position manager | a stop only tightens; a protected trade cannot lose; one partial close; a winner whose volume can be halved ends as a trailed runner |
| Signal delivery | one message per signal, or a named reason for a second; the row tells the truth; what was suppressed stays so; no row is stranded |
| Deployment | a row is active only when an EA runs it; an EA runs what was validated and remembers what was recorded; all instances end on the newest row, which takes acknowledgements the bridge can read |
| Bot settings | no command is lost unless two overlap; copying goes on only within the term of a request |
| Subscriptions | the feed is open for no longer than was paid; nobody with time left is shut out, unless a payment and a sweep overlap |
| Signal lifecycle | a signal only goes forward, whatever prices do |
| Copy trading | a claim stands on an open signal and a settled payment at its instant; nothing is executed on what is unknown |
| Execution control plane | active heat stays within the limit of each admission; heat is released exactly when a request ends |
| Recalibration | what is approved was promoted on evidence that is stored; a verdict stands |
| Parameter proposal | the search improves strictly, and comes back to a configuration only through a stale approval |


## 2. The modules

| Module | Models | Extends |
|---|---|---|
| `TradeStateMachine` | the table of legal transitions (`IsLegal`) and the sets of states the code's scans use | |
| `DecisionOutcome` | abstract: a decision is unissued, issued, resting, open, over, and never goes back | |
| `TradeExecution` | the EA core, decision store, order manager, recovery and the broker they talk to; implements `DecisionOutcome` | `TradeStateMachine` |
| `PositionManager` | one trade: prices, stops, volumes, restarts | `TradeStateMachine` |
| `SignalDelivery` | requests, retries, Telegram and the rows of the bridge | |
| `ConfigDeployment` | the deployment rows, both endpoints and the polls of several EA instances | |
| `Clock` | the instants that expiries are compared with | |
| `BotSettings` | the settings of the administrator and the handlers of his commands | `Clock` |
| `Membership` | one user's subscription, payments, sweep and feed | `Clock` |
| `SignalLifecycle` | a signal and its message as functions of the record | |
| `CopyExecution` | payments, entitlement, signal, button, workers: one copy of one signal | `Clock`, `SignalLifecycle` |
| `PortfolioAdmission` | abstract: a request is admitted in one step, under the limit it brings, and leaves for good | |
| `ExecutionLedger` | admission by heat, reports, leases; implements `PortfolioAdmission` | `Clock` |
| `Gating` | the statistical gate over three cycles, as an operator | |
| `Learning` | cycles, promotion requests, cards and taps | `Gating` |
| `ParameterProposal` | the search for parameters and the approval of what it finds | |
| `MCCopyTrading` | `Membership`, `CopyExecution` and `BotSettings` in one instance | the three |
| `MCResearch` | `ExecutionLedger`, `Learning` and `ParameterProposal` in one instance | the three |
| `MC...` | constants, symmetry sets for TLC | the module they check |
| `...Proofs` | theorems | the module they are about |

### 2.1 `TradeExecution`

A handler of the EA runs to its end, but calls the broker on its way, and the
broker acts on its own between two calls.  The variable `at` is the point the
EA has reached between two such calls; every action is one stretch.

| Code | Actions | What the stretch covers |
|---|---|---|
| `OnInit` | `RecoverPositions`, `RecoverOrders` | the two loops of `Recover()`, between which the broker may act, and the seeding of the ids |
| `OnTick` up to the bar gate | `ManageTick` | the position manager's pass over every row, `Prune`, the halts that return early, the new bar |
| `OnTick`, setups to gates | `Decide` | no setup, an ignored one, or a decision saved; sizing and portfolio may refuse it |
| `Submit` up to the broker call | `Submit` | the guards, the walk of the row's states, the routing to a market or a limit order |
| the adapter's retry loop | `SendAccepted`, `SendDeferred`, `SendRefused`, `SendRetryable`, `SendUnacknowledged` | one attempt each |
| `OnTradeTransaction` | `OnTradeTransaction` | `MarkFilledFromPending` |
| `OnDeinit`, a killed terminal | `Reinit`, `Crash` | what each of the two forgets |
| the broker | `FillOrder`, `EndTicket`, `NewBar` | |

State: `rows` is `COrderManager::m_trades`, `store` the ids of
`CDecisionStore`, `disk` the decisions file, `nextId` the engine's counter,
`lastBar` and `lastLogged` the globals of `OnTick`, `cur` and `tries` the locals
of a submission; `book`, `ended`, `deals`, `nextTicket` are the broker's side.
Prices and stops are abstracted: a pass may advance a row or not, and recovery
may infer any of its three states.  `Faults` says which misbehaviour of the
environment a run admits: a request executed although its answer asks for a
retry (`"unacknowledged"`), a deal that is not there yet (`"deferred"`), a file
that cannot be opened (`"diskFull"`), a fill between the loops of `Recover()`
(`"fillDuringInit"`).

### 2.2 `PositionManager`

One trade, with a grid of prices and volumes in units of the symbol's step.
`ManageTick` is `CPositionManager::OnTick`: its four steps read the row's state
once, so that a tick takes one of them at most, and each step that calls the
broker may be refused, done, or reported as done and refused
(`PositionModify()` and `PositionClosePartial()` return true when the request
was sent).  `FillOrder` and `OnTradeTransaction` give a resting order's fill,
`Crash` and `Recover` a restart with what `InferPositionState()` makes of the
broker's volume and stop and of the executions file.  `faulted` is a history
variable: properties that do not hold under a misbehaviour say which.

The volume that was submitted (`submitted`) is any member of `Volumes`, an odd
one and the smallest among them.  `SaveExecution` puts on the disk what
`DoubleToString(volume, 2)` makes of it: `Written(volume)` are the hundredths of
a lot next to it, and `Hundredth` says how many volume steps a hundredth is (1
for the usual step of 0.01, 10 for one of 0.001).  After a restart
`InferPositionState()` compares the position's volume with that figure, which
may be more than was submitted, less, or 0, and 0 is the same as no figure at
all.  `Legible` says that the figure cannot be 0.  A partial close asks for half
of what the row says (`HalfAllowed`), and the broker executes it if that is a
whole number of steps: `Halvable` volumes can be halved.

### 2.3 `SignalDelivery`

A handler of the bridge is a record in `job`: the item in hand, the step it has
reached between two awaits, the attempts of `send_telegram_message()`, the
result it has yet to write, and the rest of a retry's batch.  `row` is the table
(status, whether it names a message, whether it is older than
`PENDING_STALE_SECONDS`), `posts` counts the messages in the chat.

| Code | Actions |
|---|---|
| `receive_signal`, `receive_trade_event` | `Receive` (the reservation), `CheckHushed`, the sends, `WritePosted` |
| `_send_to_chat` with its retry decorator | `SendAccepted`, `SendRefused`, `SendFailed`, `SendUnanswered` |
| the two retry functions | `SelectBatch`, `TakeNext`, the sends, `WriteRetried` |
| `/mute`, `/unmute`, `/pause`, `/resume` | `Command` |
| a killed process, a refused commit | `Lose` |

The session keeps what it has read (`expire_on_commit=False`), so a retry works
on the batch as it was when selected, and writes the columns it has changed
over whatever another handler has written since.  `excuses` is a history
variable that counts, per item, the three events after which a second message
is possible.  Secondary chats, validation, the rate limit and authentication
are left out.

### 2.4 `ConfigDeployment`

`deployments` and `acks` are the bridge's tables, for one symbol, in the order
of creation; `params` and `applied` are `m_runtime` and `m_lastAppliedHash` of
each instance, `poll` the point at which its `Poll()` waits, and `request` an
acknowledgement on its way: the one the EA waits for (`"current"`) or one it has
given up and the bridge still works on (`"late"`).

| Code | Actions |
|---|---|
| `get_active_config` and `Poll()` up to its next request | `Reject`, `Validate`, `ApplyOffered` (guard `Offered`, order `IsOffer`) |
| `Poll()` after the first acknowledgement, after the last | `ApplyValidated`, `Finish` |
| `Ack()` returning false; a restart | `Fail`, `Restart` |
| the endpoint's body parser answering 422 | `Unreadable` |
| `acknowledge_config`, before and after its await | `AckRead`, `AckCommit` |
| the operator in the database | `Schedule`, `Withdraw` |

`Ack()` posts the whole array that `StringToCharArray` fills, the NUL at its end
included; `SignalPublisher.mqh:243` cuts that byte off, and says why.  With it
the body is not JSON, and the bridge answers 422 before `acknowledge_config` is
called.  `Readable` says what the parser may make of a body: `{FALSE}` is the
code as it stands, `{TRUE}` what both handlers are written for, and the safety
properties are checked and proved with either answer to any body.

A handler writes the state it derived from the row it read, whatever has become
of the row: `AckCommit` does not read it again, as the session does not.  No
code of the repository creates or withdraws a row, so these two actions are the
operator's, and allow what `_ALLOWED` allows.  That a configuration is missing
(404, or 503 for a row without one) is left out, as nothing deletes one; one
that may not be served (503) is a configuration outside `Deployable`.
`Fit[i]` stands for the comparison of the parent version and the ranges of
`ValidateParams`.

### 2.5 `BotSettings`

`muted`, `paused`, `enabled` and `pendingUntil` are rows of `bot_settings`;
`command` is what each handler has read and has yet to write.

| Code | Actions |
|---|---|
| `/mute`, `/unmute` | `ReadList`, `WriteList` |
| `/pause`, `/resume` | `SetPaused` |
| `/copytrading on` | `ReadSwitch`, `RequestOn` |
| `/copytrading off` | `TurnOff` |
| "yes" | `ReadRequest`, `TurnOn`, `ClearRequest`, three transactions |
| an exception, a restart | `Abandon` |

`wished`, `clashed` and `asked` are history: the list as the commands would have
made it one after the other, whether two overlapped, the instants of requests.

### 2.6 `Membership`

`member` is the user's row, `update` the sessions of `successful_payment`,
`sweep` the runs of the sweep with what they have selected.  A session writes
the columns whose value differs from what it read: `Renewed` and `Swept` keep
what another session wrote into the others.

| Code | Actions |
|---|---|
| `/subscribe`, pre-checkout and the charge | `Subscribe`, `Charge` |
| `successful_payment_callback`, `record_payment` | `Load`, `Insert`, `Commit`, `Fail` |
| `sweep_subscriber_statuses` | `SelectToExpire`, `SelectToRemove`, `CommitSweep` |
| the copy switch, time, a restart | `SwitchCopying`, `MemberTick`, `MemberCrash` |

A restart drops the updates that Telegram still owes (`drop_pending_updates`),
and the webhook answers 200 after an exception: in both cases a charge is lost.

### 2.7 `SignalLifecycle` and `CopyExecution`

`SignalLifecycle` has no state: `Evaluated` is `evaluate_signal()` on a setup, a
signal, a price and an instant; prices are ordinals.  `CopyExecution` puts a
signal, its message, two payment providers, the rows they lead to and the
workers together.

| Code | Actions |
|---|---|
| the provider (external) | `ProviderMoves` |
| `verify_webhook`, `normalize_event`, `process_payment_webhook` | `ProcessPaymentWebhook`, with `NormalizeSmart` and `AmmerStatus` |
| `revoke_expired` | `RevokeExpired` |
| `evaluate_signal`, `build_message_update` | `EvaluateSignal`, `EditMessage` |
| the Copy button, `CopyAccount.enabled` | `PressCopy`, `ToggleAccount` |
| `COPY_POLLING_WHERE_CLAUSE`, `authorize_and_claim` | `Poll`, `Authorize`, `Claim` |
| `validate_execution` | `Execute` |

The library holds decisions and no transactions.  What its comments ask of a
caller is taken from them: a webhook is one transaction, and of two workers one
wins the compare-and-swap.  What a worker has loaded may be old when it claims,
which is why authorizing and claiming are two actions.

### 2.8 `ExecutionLedger`

`ledger` and `reservation` are the two tables, `reserving` what an open
transaction has inserted.  `ReserveExecution` is the admission up to the
inserts, under the advisory lock; `CommitReservation` and `RollBackReservation`
end the transaction.  `TransitionExecution` and `RecoverExpiredLeases` decide
under the locks of the rows they write, and are one step each; a report of a row
that an open admission has locked waits (`RowIsFree`).

`PortfolioAdmission` knows neither transactions nor locks.  `AdmissionOf` maps a
request to it: its status is read off the reservation, its limit is the one it
brought.  A request is admitted there when its transaction commits; what an open
transaction has inserted does not exist yet, and a rolled back one is a stutter.

### 2.9 `Gating` and `Learning`

`Decide` is `decide()` over the last three cycles of a version: for each metric
whether the intervals have come apart, and in which direction, twice.  `Learning`
runs it: `runner` is a run of `run_cycle()`, `tap` a callback.

| Code | Actions |
|---|---|
| `run_cycle` | `Compute`, `Persist`, `Hold`, `Request`, `Send`, `EndRun` |
| `handle_promotion_callback` | `LoadRequest`, `LookUp`, `Approve`, `Reject`, `FailTap` |

A request keeps, as a history field, the cycles its decision rests on (`basis`).
Handlers that decide in time order by `generated_at` may store in another order.

### 2.10 `ParameterProposal`

`score` is any function from configurations to evaluations, chosen at the start:
on unchanged outcomes the evaluator says the same of the same configuration.
`Propose` is `propose()` with its gates in the code's order (movement,
statistical, regime, robustness); `Adopt` and `Withdraw` are what somebody makes
of a proposal.  `left` is history: the configurations that were live before.


## 3. What TLC checks

| Run | Question | Result |
|---|---|---|
| `TradeExecution` | Do ids, rows and tickets stay consistent over three decisions, with fills, closures, crashes and re-initialisations at every point, and is `DecisionOutcome` implemented? | holds |
| `TradeExecutionFaults` | What still holds under all four misbehaviours: one row per decision, no recorded id is issued again, closed trades leave, a fill the EA hears of takes effect | holds |
| `TradeExecutionFillDuringInit` | Is every position under management after `OnInit`, if an order fills between the loops of `Recover()`? | violated (finding) |
| `TradeExecutionSameZone` | "one-active-setup-at-a-time": one ticket per zone? | violated (finding) |
| `PositionManager` | Protection, one partial close, stops that only tighten, a winner that is trailed, for an odd, an even and the smallest volume | holds |
| `PositionRestartLoss` | Is a protected trade protected at the price it actually entered at, after a restart too? | violated (finding) |
| `SignalDelivery` | One message per signal or a named reason; truthful rows; suppressed signals stay silent; no stranded row | holds |
| `ConfigDeployment` | Do rows, acknowledgements and what the EAs run agree under overlapping handlers, late requests and restarts, whichever bodies the bridge can read? | holds |
| `ConfigNeverActive` | "SCHEDULE -> EA ACK -> ACTIVE": with the bodies that `Ack()` posts, do all instances end on the newest row? | violated (finding) |
| `CopyTrading` | With payments, sweeps, webhooks, buttons, polls and commands in any order: is no time given away, no claim made that was not authorized, nothing executed on the unknown, no setting changed unasked? | holds |
| `Research` | With reservations, reports, cycles, taps and approvals in any order: do the heat limit, the release, the evidence and the verdict stand, and does the search not circle? | holds |
| `SignalRetryHushed` | Does a mute or a pause suppress every outbound broadcast? | violated (finding) |

Each property of a passing run has a mutant in `PROJECT.json`: a plausible
mistake in one mapped definition, which TLC finds by that property.

### 3.1 The properties

* `TradeExecution`: `IdsBelowNext` (no id at the broker or in the store is
  reissued), `NothingUnwatched` (every order and position has its row, or its
  deal is on the way), `ExposureWithinLimit` (tickets, not rows, within
  `InpMaxOpenTrades`), `LetsGoOnlyWhatEnded`, `DecidedOnceActedOnce` (the
  refinement).  Under all four faults: `RowPerDecision`, `ReissuedOnlyIfUnsaved`
  (what is left of `IdsBelowNext` when the file may refuse an append: an id that
  reached it is not issued again), `ClosedTradeLeaves`, `FillTakesEffect`.
* `PositionManager`: `StopNeverLoosened`, `RunnerOnlyTightens` (also after the
  trader's own hand), `ProtectedAtKnownFill`, `NoSecondPartial` (of volumes
  that cannot read 0.00), `WinnerTrailed` (of those that can be halved as well).
* `SignalDelivery`: `NoSecondMessage`, `ActiveIsAccountedFor`,
  `SuppressedStaysSilent`, `StrandedOnlyByLoss`.
* `ConfigDeployment`: `ActiveIsBackedByAcks`, `RunsOnlyRecordedConfigs`,
  `RememberedWasRecorded`, `MovesBackOnlyByOverlap` (a row leaves `_ALLOWED` only
  where two handlers overlapped: then it does), and, of `ConfigNeverActive`,
  `InstancesConverge`.
* `Membership`: `ServesOnlyPaidTime`, `ShutOutOnlyByOverlap`.
* `CopyExecution`: `ClaimsAuthorized` (the signal was open and a settled payment
  covered the instant of the claim), `RefusesUnknown`, `ProgressIsForward`.
* `BotSettings`: `ListIsWhatWasWished`, `TurnedOnInTime`.
* `ExecutionLedger`: `HeatWithinLimit` (by the order of admission, since every
  request brings a limit of its own), `SettledIffReleased`.
* `Learning`: `ApprovedOnEvidence` (stated on the estimates themselves and not
  with `Decide`), `VerdictStands`.
* `ParameterProposal`: `ReturnsOnlyByStale`.

Properties that name an overlap hold in its absence, and the code breaks them in
its presence: each flag is set only where two handlers worked on one row.

### 3.2 Bounds, and why they are enough

* `TradeExecution`: three decisions on two zones, four tickets, three bars, two
  attempts, `MaxOpen` 2.  Two open trades and a third decision reach the limit;
  a fill may take a new ticket; two attempts tell a first from a last; three
  bars let a decision be made, submitted and followed by another.  Zones are
  interchangeable and only compared, hence the symmetry.
* `TradeExecutionFaults`: one zone, two decisions, two tickets, one open trade:
  enough for two tickets of one decision, and small enough for liveness, which
  is checked without symmetry.  Tickets that a bound refuses only cut behaviours
  off; no liveness property asks for a ticket to be issued.
* `PositionManager`: a sell, with entry 6, stop 8, prices 1 to 8, volumes of 1,
  3 and 4 steps, a smallest one of 1, two steps to a hundredth of a lot,
  slippage 1.  Both R levels can be reached and overshot.  4 steps are written
  exactly, and their half can be halved again (which a second partial close
  would do); 3 are odd and written as 2 or 4; 1 is the smallest and written as 0
  or 2. The proofs are for any volumes and steps.  Fills differ from the
  theoretical entry both ways.  A sell because "no stop" is the number 0, which
  compares differently there; a buy is in `PositionRestartLoss`, and both are
  proved.
* `SignalDelivery`: two signals, two requests and two retries at a time,
  batches of two, two attempts, one lost handler, one excuse per item.  Two
  handlers of each kind overlap on one item and on two.  A trade event is a
  signal that is never hushed, so `TradeEvents` is empty here and has one member
  in `SignalRetryHushed`; the proofs are for any sets.
* `ConfigDeployment`: two instances, two rows (`Plans`: a replacement, one after
  a row that one instance refuses, the same configuration again, one that may not
  be served), bodies that can be read and bodies that cannot, and one event
  (`MaxEvents`: a failed acknowledgement, a restart or a withdrawal) at any
  point.  Two instances overlap on one row; two rows tell newest from waiting
  and active.  The invariants are proved for any plans and numbers of events.
* `ConfigNeverActive`: the same rows with `Readable = {FALSE}` and no event at
  all, so that nothing but the body is in the way.  `InstancesConverge` asks only
  of behaviours in which nothing is refused, lost or withdrawn (`Undisturbed`).
  With `Readable = {TRUE}` and one event TLC finds that it holds (321 176 states,
  restarts between two requests among them): the byte is all that is in the way.
* `CopyTrading` and `Research` each hold three modules that share nothing but the
  clock: a behaviour follows the one that `part` names.  A step of one module
  cannot enable or disable a step of another, so that interleaving them would
  add states and no behaviour of any of them.  That a behaviour of the instance
  is one of each module is proved (`AccessPartsAlone`, `ResearchPartsAlone`).
* `CopyTrading`, `Membership`: two charges, two handlers, one sweep, period 2,
  grace 1, instants 0 to 3.  Two handlers record two payments or one payment
  twice; a period can begin, be extended, end, pass its grace and be renewed.
* `CopyTrading`, `CopyExecution`: a buy that expires and a sell that does not,
  five prices that cross every level both ways, one payment of either provider,
  two workers, a lifetime of 1 and instants 0 to 2 (`CopyHorizon`).  A period
  starts, ends and is over.  `Metas` is a symbol that passes and the same with
  one field missing or refusing, for every field.
* `CopyTrading`, `BotSettings`: two commands at once on two symbols, a term of 2
  in instants 0 to 3, so that an answer is in time or late.
* `Research`, `ExecutionLedger`: three requests of risk 1 or 2 under limits 2
  or 3, two transactions at once.  Two requests fill a limit that three exceed.
  `Reported` has a state that recovery ignores, one it recovers and an end.
* `Research`, `Learning`: three cycles of two metrics, the least `decide()`
  compares, two runs and two taps at once, one version.  Intervals of width 0 and
  2 on three values come apart, touch and contain one another.
* `Research`, `ParameterProposal`: two parameters of three and two values, one on
  which the relative movement limit bites and one that can be 0; every assignment
  of three grades to the six configurations, each grade an improvement on the one
  before, with at most one configuration that is refused or fails one gate.
  Three grades on three values are what a return through a stale proposal needs.
  The proof is for any landscape.

### 3.3 Deadlock and fairness

* `TradeExecution` and `PositionManager` check deadlock: the EA always has a
  next tick.  `SignalDelivery` says `CHECK_DEADLOCK FALSE`: when every signal is
  delivered nobody need act; so does `ConfigDeployment`, where a poll that is
  offered nothing new changes nothing; so do `CopyTrading` and `Research`, which
  end at their last instant, cycle or approval.
* `FairSpec` of `TradeExecution`: MetaTrader calls `OnInit` when the terminal is
  up, `OnTick` with every price and hands over every queued deal.  Nothing is
  assumed of fills, closures, bars or crashes.  `WF` of an action that a crash
  disables again promises nothing about it.
* `FairSpec` of `PositionManager`: handlers run when due, and a broker that can
  grant a request in every tick does not refuse it in all of them.  Without the
  latter the code's retry in the next tick has nothing to hope for.
* `FairSpec` of `SignalDelivery`: a handler that is not lost goes on (the event
  loop, and the HTTP client's time limit).  Nobody has to call a retry.
* `FairSpec` of `ConfigDeployment`, for `ConfigNeverActive`: `OnTimer` fires
  again and again and the bridge finishes the requests it has.  The operator
  owes nothing.

## 4. What is proved

The theorems hold for every value of the constants that satisfies the named
assumptions of the modules (`ExecutionAssumption`, `PositionAssumption`,
`DeliveryAssumption`, `DeploymentAssumption`, `ClockAssumption`,
`MembershipAssumption`, `SettingsAssumption`, `NoneAssumption`, `CopyAssumption`,
`LedgerAssumption`, `GatingAssumption`, `LearningAssumption`,
`ProposalAssumption`).  TLC evaluates each of them in a run.

| Theorem | Says |
|---|---|
| `TradeExecutionProofs!TypeCorrect` | type correctness under every fault |
| `TradeExecutionProofs!OneRowPerDecision` | the guards of `Submit` and `RestoreTrade` suffice, under every fault |
| `TradeExecutionProofs!IdsNeverReissued` | ids, as long as the file can be written |
| `TradeExecutionProofs!RecordedNeverReissued` | ids that reached the file, under every fault |
| `TradeExecutionProofs!EverythingWatched` | nothing is out of sight, if the environment keeps to the rules |
| `TradeExecutionProofs!ExposureLimited` | no more orders and positions than `InpMaxOpenTrades`, likewise |
| `TradeExecutionProofs!LetsGoOfNothingLive` | no row is dropped over a live ticket, unless the broker defers a market request |
| `TradeExecutionProofs!NoSecondTicket` | one ticket per decision, if every acknowledgement arrives and the file can be written |
| `TradeExecutionProofs!ActedOnce` | `TradeExecution` implements `DecisionOutcome`, likewise |
| `PositionManagerProofs!PositionTypeCorrect` | type correctness under every fault |
| `PositionManagerProofs!StopOnlyTightens` | no step of the EA loosens a stop |
| `PositionManagerProofs!RunnerStopOnlyTightens` | nor does the trail, even after the trader's hand |
| `PositionManagerProofs!KnownFillIsProtected` | a protected position whose fill is known is not stopped out at a loss |
| `PositionManagerProofs!HalvedOnce` | profit is taken once, over restarts, for any volume, step and rounding, if the figure on the disk is not 0.00 |
| `PositionManagerProofs!UnhalvedIsNotTrailed` | an odd or smallest volume is never trailed, until a restart or a false acknowledgement |
| `PositionManagerProofs!ProtectedUnlessRestarted` | what `PositionRestartLoss` refutes holds until the first restart |
| `SignalDeliveryProofs!DeliveryTypeCorrect` | type correctness |
| `SignalDeliveryProofs!AtMostOneMessage` | a second message has one of three causes |
| `SignalDeliveryProofs!SuppressedIsNotSent` | a suppressed signal is not picked up by a later retry |
| `SignalDeliveryProofs!ActiveMeansSent` | a row says `ACTIVE` only of what is in the chat, or was held back |
| `SignalDeliveryProofs!ReservationsResolved` | a `PENDING` row has a request at work on it, unless a handler was lost |
| `SignalDeliveryProofs!RequestsRespectMute` | what `SignalRetryHushed` refutes holds of requests: only a retry sends what is hushed |
| `ConfigDeploymentProofs!DeploymentTypeCorrect` | type correctness; `EA_ACKNOWLEDGED` is never stored |
| `ConfigDeploymentProofs!ActivationIsReported` | no row is activated by receipt or validation alone |
| `ConfigDeploymentProofs!OnlyRecordedConfigsRun` | no EA runs what nobody recorded as validated |
| `ConfigDeploymentProofs!RememberedIsRecorded` | what an EA skips was recorded as applied by it |
| `ConfigDeploymentProofs!BackwardOnlyByOverlap` | a row leaves `_ALLOWED` only where two handlers overlapped on it |
| `ConfigDeploymentProofs!UnreadableTakesNoEffect` | while no body can be read, no row leaves `SCHEDULED`, nothing is recorded and every EA runs its compiled defaults |
| `AccessProofs!MemberTypeCorrect`, `CopyTypeCorrect` | type correctness |
| `AccessProofs!OnlyPaidTimeIsServed` | the feed is open for no longer than the recorded periods |
| `AccessProofs!EveryPeriodIsGiven` | no recorded period is lost where no two handlers of a payment are at work at once |
| `AccessProofs!ShutOutNeedsOverlap` | a user with time left is shut out only where a payment and a sweep overlapped |
| `AccessProofs!EveryClaimWasAuthorized` | a claim stands on an open signal and a settled payment |
| `AccessProofs!UnknownIsRefused` | nothing is executed on metadata that is not complete |
| `AccessProofs!EventsDecidedOnce` | a copy is decided once, by the worker that claimed it |
| `AccessProofs!PollAndGateAgree` | the poll's WHERE clause and `can_copy()` select the same |
| `AccessProofs!SignalsGoForward` | for any setup and prices |
| `AccessProofs!EvaluationSettles` | `evaluate_signal()` is idempotent |
| `AccessProofs!AccessPartsAlone`, `AccessTypeCorrect` | a behaviour of `MCCopyTrading` is one of each of its modules; its types |
| `BotSettingsProofs!SettingsTypeCorrect` | type correctness |
| `BotSettingsProofs!MutingIsLostOnlyByOverlap` | the list is what the commands make of it |
| `BotSettingsProofs!CopyingTurnedOnInTime` | only within the term of a request |
| `ResearchProofs!LedgerTypeCorrect`, `ProposalTypeCorrect` | type correctness; what is adopted is within its bounds |
| `ResearchProofs!ReleasedExactlyAtTheEnd` | heat is released exactly when a request ends |
| `ResearchProofs!HeatStaysWithinLimit` | every admission was within its own limit |
| `ResearchProofs!HeatUnderEveryLimit` | the heat never exceeds the greatest limit |
| `ResearchProofs!AdmissionIsAtomic` | `ExecutionLedger` implements `PortfolioAdmission` |
| `ResearchProofs!SearchDoesNotCircle` | on unchanged outcomes, but for stale approvals |
| `ResearchProofs!ResearchPartsAlone`, `ResearchTypeCorrect` | a behaviour of `MCResearch` is one of each of its modules; its types |
| `LearningProofs!LearningTypeCorrect` | type correctness |
| `LearningProofs!NothingApprovedWithoutEvidence` | an approved version has three stored cycles as evidence |
| `LearningProofs!VerdictStandsUnlessTapsOverlap` | a verdict stands |

The arguments:

* `TradeExecution`.  `NothingUnwatched` is not inductive: whether the deal of a
  fill finds its row depends on tickets being unique, on every id at the broker
  being on the disk (so that a restart finds it), on no order being the second
  of its decision, and on the rows that `RecoverPositions` has built before
  `RecoverOrders` adds the rest.  `WatchInv` is the conjunction of these;
  `IdsInv` is the part about the disk, which needs that the decision is saved
  before it is submitted.
* `TradeExecution`, exposure.  `OpenCount` counts rows and the limit is about
  tickets.  While the EA runs every ticket has a watcher among the open rows, and
  no row watches two (`OneWatcherEach`).  At the broker call the row comes first:
  `RoomHeld` says that it is counted, and as it watches no ticket yet, there is
  room for one (`RoomForOne`).  For a row not to watch two it takes `DealsGoOn`:
  if the ticket of a filled order is still in the book, it is that of the
  position.
* `TradeExecution`, one ticket.  For `OneTicketPerDecision` it is enough that
  the decision under submission has no ticket (`NothingSentYet`) and that a new
  id is unknown to disk and broker (`IdsInv`): nothing about rows or deals.
  Hence the theorem needs only that acknowledgements arrive and that the file
  can be written; with either of the two faults alone TLC finds a second ticket.
  The refinement follows: the stage of a decision is read off the disk and the
  broker, and a step that does not reach the broker is a stutter.
  `EverythingWatched` and `ExposureLimited` do need an environment without
  fault: any of the four alone breaks both.
* `TradeExecution`, letting go.  `HoldInv` says what a row's state means at the
  broker: no managed row and no deal names the ticket of a resting order, and none
  names a ticket that the broker has yet to give (`TicketsApart`); a row in a
  final state never had one (`RowsHonest`).  It holds under every fault but a
  deferred deal, which puts a managed row on an order's ticket.
* `PositionManager`.  Break-even does not compare with the stop that is there.
  That it never loosens one follows from where a stop can be: a `FILLED` row's
  stop is the initial one, or lies short of the theoretical entry, or its
  position was changed by hand; the invariant of the proof says so, and that the
  initial stop lies further from the entry than any slippage
  (`PositionAssumption`: the code refuses an entry that has run further).
* `PositionManager`, protection and the partial close.  `KnownFillInv` follows
  the fill from the deal to the row: as long as the EA knows it, break-even
  moves the stop to it, and a trailed stop lies beyond.  `HalvedInv` compares
  the volume that is left with the one on the disk, for every state from which
  the EA could close a part again: once half is gone, what is left lies below
  the figure even if that was rounded down, unless it was rounded to 0
  (`WrittenAboveHalf`). `UnhalvedIsNotTrailed` follows the row: without a
  restart it holds the volume that was submitted, and only an executed close
  makes it `PARTIAL`.  Both are proved under the condition that nothing of what
  they except has happened yet, which is why `faulted` only grows.  For
  `ProtectedUnlessRestarted`, `FillKept` says that only a restart forgets a
  fill.
* `SignalDelivery`.  The invariant is a budget per item: the messages in the
  chat plus the handlers that may still send one (`Senders`) are at most one
  more than the excuses.  A row that a retry may select while nobody works on it
  has spent none of it.  That needs in turn that a poster is the only one for
  its item, and that a row without a status has no handler.  `ActiveMeansSent`
  adds that the result a handler has yet to write is true (`ResultsAreTrue`),
  since it will write it over whatever the row says by then.
* `ConfigDeployment`.  The invariant follows an acknowledgement from the poll
  that sends it to the table.  What a handler has read was true when it read it
  (`RequestsOK`), and the table only grows, so the state it writes is backed by
  the table even when the row has moved on.  A poll waits for one
  acknowledgement, and an answer means that it is recorded (`PollsOK`).
  `NothingTakesEffect` is the invariant of a bridge that can read nothing: no
  request is ever past its parser, so that no poll gets past the first one.
* `Membership`.  `ServesOnlyPaidTime` is a budget of time, and must also hold of
  what each handler has read (`ReadsCovered`), for it will write a period more
  than that; the charge it has flushed is new and nobody else's
  (`InsertedIsNew`).  A sweep that is under way has selected only what was due
  (`SweepsAreDue`), and time only makes that more true.  The other direction,
  `NoPeriodLost`, is false when two payments are recorded at once (section 5), so
  `EveryPeriodIsGiven` takes the absence of that as a hypothesis on the behaviour,
  `[]AloneAtWork`: a handler alone at work holds the end as it is in the row.
* `CopyExecution`.  The instants at which a copy was allowed (`AuthorizedTimes`)
  only grow: a later step never takes back that the signal was open or the
  period paid then (`Onward`), because stamps are written once and in order
  (`Orderly`).  A subscription that is active was granted by a row that succeeded,
  and that row by a payment that had settled (`SubscriptionPaid`).  A worker
  holds an instant of the set, and so does the event it has claimed.  That a copy
  is decided once needs that one worker at most holds the claim (`ClaimedByOne`).
* `BotSettings`.  While nothing has clashed, what a handler has read is the list
  as it is (`ReadsAreCurrent`); a handler that confirms has read a request in its
  term (`ConfirmsInTime`), and nothing it does later asks again.
* `ExecutionLedger`.  Row and reservation are born together and leave together:
  `Matched` says which pairs of states exist.
* `ExecutionLedger`, heat.  Heat is a fold over a set, and the prover has no
  induction over sets.  The fold is replaced by a count: of the units of risk
  `{<<r, k>> : 1 <= k <= risk of r}` there are as many as the risks add up to.
  That this is so of every finite set is shown by the smallest set of which it
  would not be.  The invariant (`HeatInv`) then says that the room which an open
  reservation has found is still there when it commits, because the advisory lock
  lets no second one look (`OneReserver`) and every other step only lets go
  (`Shrinks`).  The same fact is the one step of the refinement that is not a
  stutter, and gives `HeatUnderEveryLimit`.
* `Learning`.  The evidence of a request is stored and never changes
  (`Founded`, `Rests`); cards are shown for promotions only (`CardsPromote`); a
  tap knows the request it decides (`TapsKnow`).  `PromotedOnEvidence` is the
  lemma about `decide()`: two moves apart in one direction put the third interval
  clear of the first.
* `ParameterProposal`.  A proposal improves strictly on its parent
  (`ProposalsImprove`), "better" is a strict order, and so every configuration
  that was left is worse than the current one (`Climbs`).
* The compositions.  `AccessPartsAlone` and `ResearchPartsAlone` justify the
  instances that TLC explores: the parts share only the clock, a step of one is a
  step or a stutter of each of the others, and so every theorem about a module
  holds of the composition.

Four theorems state definitions that no run lists, as they are about the model
beside what its runs ask: `EventsDecidedOnce`, `RequestsRespectMute`,
`AdmissionIsAtomic` and `EveryPeriodIsGiven`.

Every invariant and every safety property that a passing run checks is proved.
Only model-checked is liveness (`ClosedTradeLeaves`, `FillTakesEffect`,
`WinnerTrailed`), which needs fairness and `ENABLED` and is out of the prover's
reach, and what the five violation runs find, which is about one behaviour.

## 5. Where the code and its documents disagree

* **A fill between the two loops of `Recover()`** is in neither list; the deal
  that follows finds no row (`TradeExecutionFillDuringInit`).
* **The same zone is traded once per bar**: `creation_time` is the current time,
  so the comparison with `g_lastLoggedTime` never holds
  (`TradeExecutionSameZone`).
* **Break-even after a restart** uses the theoretical entry: the actual fill is
  not persisted (`PositionRestartLoss`).
* **Retries do not ask for mute or pause** (`SignalRetryHushed`).
* **No acknowledgement of a configuration can be read**: `Ack()` posts a NUL after
  its JSON, the bridge answers 422, and `Poll()` gives up at the first of its two
  acknowledgements, every time.  No row leaves `SCHEDULED` and no EA applies a
  configuration (`ConfigNeverActive`).

Theorems say how far these go: `ProtectedUnlessRestarted` (the third needs a
restart), `RequestsRespectMute` (the fourth is the retries' alone),
`UnreadableTakesNoEffect` (the fifth is so for any rows, instances and time), and
`EverythingWatched` (without such a fill, or another fault, nothing is missed).

The models show further behaviour that no run states; what a comment says
against it is named: a resting order cancelled at the broker leaves its row
`PENDING` for as long as the EA runs, and holds a slot; a request that was
executed and answered with a retryable code is sent again, and the decision
holds two tickets (`OrderManager.mqh:162` means to prevent a second submission,
and does within the EA); when the decisions file cannot be written the order is
submitted all the same, and its id is issued again after a restart (against the
comment at `MedisTouch_v2.8.mq5:422-424`; the ids that did reach the file are
safe, `RecordedNeverReissued`); a request that the broker defers puts the row on
the order's ticket, and its position opens unmanaged; a limit order that has
filled in part is restored as a `RUNNER` (`RecoveryEngine.mqh:36-37` rules out a
state ahead of the evidence); a retry may take a row that a slow handler still
works on, and the message is doubled; a `SCHEDULED` deployment that an instance
refuses is offered to it for ever, in place of the active one.

Volumes are written to the executions file with two decimals
(`DecisionStore.mqh:188`), while lots follow the symbol's step.  With a step
below 0.01 a restart works on the rounded figure.  One that reads 0.00 is taken
for none: with `Volumes = {4}`, `Hundredth = 8`, the fault `"restart"` alone and
without the conjunct `Legible`, TLC finds `NoSecondPartial` violated (half is
closed, the EA restarts, restores the row as `PROTECTED`, and half of the rest
is closed).  One that is rounded up is above the position's volume from the
start, so that a restart takes the position for halved and a `FILLED` trade
becomes a `RUNNER` that was never protected.  And whatever the step, an odd or
the smallest volume is never halved and so never handed to the trail
(`PositionManager.mqh:109-111`): `WinnerTrailed` is stated of the others,
`UnhalvedIsNotTrailed` of these.

Behind the unreadable acknowledgement the deployment's code has more of its own,
which the model shows for bodies that can be read: of two overlapping
acknowledgements the slower one may put an `ACTIVE` deployment back to
`EA_VALIDATED`; and when only the answer to an APPLIED acknowledgement was lost,
an EA may skip the next offer, which is what it remembers and not what it runs.
As the code stands, the safety properties of `ConfigDeployment` hold because
nothing is ever acknowledged; they say what trimming the body leaves true.

`docs/adaptive-optimizer-architecture.md:44-47` says that `ConfigSync.mqh` does
not mutate parameters at run time; the model follows the code, which does.

Likewise of the bridge and the library: two payments recorded at once extend the
same end, and one period is lost (not otherwise: `EveryPeriodIsGiven`); a
payment whose handler fails is answered 200 and not delivered again;
`send_dm()`, `ban_chat_member()` and `unban_chat_member()`, which the sweep
calls after its commit, are not defined in `app/telegram.py`, so that nobody is
warned or removed; `/copytrading off` leaves a request for "on" standing; a
request in `CHECKED` or `PARTIAL` is never recovered, and a `RECOVERED` one
gives its heat back while its order may still fill; a promotion whose card could
not be sent stays pending; a rollback is recorded and announced, and changes
nothing; of two taps at once the request may say "rejected" and its version be
approved; with a negative objective the ratio of `evaluate_robustness()` is
greater the worse the neighbour is; no caller gives `evaluate_signal()` a drift,
so that no signal becomes `STALE`.

## 6. What is not modelled, and why

* Market analysis, strategies and scoring are numerical functions of price bars;
  their result is a nondeterministic setup.
* Risk guard, lot sizing and the portfolio's gates run in one thread and compare
  floating-point equity and volumes.  `TradeExecution` takes their answer as a
  refusal that may come at every decision, so what it shows holds for every rule
  they might apply; that the rules themselves are the right ones is not shown.
* `AsyncExecutionEngine.mqh` and `PortfolioCoordinator.mqh` are called by nothing
  in the EA; `research/portfolio.py` by a test only; `holdout.py`,
  `walk_forward.py`, `challenger.py` and the library's `deployment.py` not by the
  proposal engine.  There is no program whose behaviour they are part of.
* Outcomes: the EA's tracker keeps statistics, and the bridge keeps one row per
  signal in which the last report stands.  How metrics and their intervals are
  computed from them is floating-point statistics; `Learning` takes any estimates
  that lie within their intervals.
* The control plane's views, the rate limiter's counter, authentication,
  signatures of webhooks, wording and layout of messages, charts and logs change
  no state that a property is about.
* Times appear as what they decide: a new bar, a stale row, a lease or a period
  that has run out.
