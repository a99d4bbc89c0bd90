-------------------------- MODULE MCTradeExecution --------------------------
(***************************************************************************)
(* Instances of TradeExecution for TLC.                                    *)
(***************************************************************************)
EXTENDS TradeExecution, TLC

\* Zones are only ever compared.
ZoneSymmetry == Permutations(Zones)

\* The environments of the runs.
NoFaults       == {}
FillDuringInit == {"fillDuringInit"}
AllFaults      == FaultKinds
=============================================================================
