------------------------- MODULE TradeStateMachine -------------------------
(***************************************************************************)
(* The states of one trade and the table of legal moves between them, as   *)
(* in EA/includes/Execution/TradeStateMachine.mqh.  The module holds no    *)
(* variables: OrderManager keeps one machine per row, and the modules      *)
(* about rows (TradeExecution, PositionManager) use these operators.       *)
(***************************************************************************)
EXTENDS Naturals

\* The moves IsLegal() allows out of each state.  The states without a move
\* (ARCHIVED, CANCELLED, REJECTED) are the default branch of its switch.
LegalMoves ==
    [ DETECTED  |-> {"VALIDATED", "CANCELLED"},
      VALIDATED |-> {"WAITING", "PENDING", "CANCELLED"},
      WAITING   |-> {"PENDING", "CANCELLED"},
      PENDING   |-> {"FILLED", "CANCELLED", "REJECTED"},
      FILLED    |-> {"PROTECTED", "PARTIAL", "CLOSED"},
      PROTECTED |-> {"PARTIAL", "CLOSED"},
      PARTIAL   |-> {"RUNNER", "CLOSED"},
      RUNNER    |-> {"CLOSED"},
      CLOSED    |-> {"ARCHIVED"},
      ARCHIVED  |-> {},
      CANCELLED |-> {},
      REJECTED  |-> {} ]

TradeStates == { "DETECTED", "VALIDATED", "WAITING", "PENDING", "FILLED",
                 "PROTECTED", "PARTIAL", "RUNNER", "CLOSED", "ARCHIVED",
                 "CANCELLED", "REJECTED" }

\* Transition() refuses an illegal move and leaves the machine where it was.
Transition(from, to) == IF to \in LegalMoves[from] THEN to ELSE from

\* Rows that count against the limit on open trades (COrderManager::OpenCount).
OpenStates == {"PENDING", "FILLED", "PROTECTED", "PARTIAL", "RUNNER"}

\* Rows CPositionManager::OnTick manages: a live position should stand behind.
ManagedStates == {"FILLED", "PROTECTED", "PARTIAL", "RUNNER"}

\* Rows COrderManager::Prune drops.
PrunedStates == {"ARCHIVED", "CANCELLED", "REJECTED"}
=============================================================================
