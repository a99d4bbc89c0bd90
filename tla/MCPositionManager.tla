------------------------- MODULE MCPositionManager -------------------------
(***************************************************************************)
(* Instances of PositionManager for TLC.                                   *)
(***************************************************************************)
EXTENDS PositionManager

\* The environments of the runs.
EveryFault == FaultKinds
Restart    == {"restart"}
=============================================================================
