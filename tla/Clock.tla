------------------------------- MODULE Clock -------------------------------
(***************************************************************************)
(* The clock that everything with an expiry compares itself with:          *)
(* datetime.now(timezone.utc) in the bridge and in the library.            *)
(***************************************************************************)
EXTENDS Naturals

CONSTANT MaxNow   \* bound: the last instant a run looks at

ASSUME ClockAssumption == MaxNow \in Nat

VARIABLE now

Instants == 0 .. MaxNow

TimePasses == now < MaxNow /\ now' = now + 1
=============================================================================
