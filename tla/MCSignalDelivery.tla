-------------------------- MODULE MCSignalDelivery --------------------------
(***************************************************************************)
(* Instances of SignalDelivery for TLC.  Handlers of one kind, and signals *)
(* and trade events, are interchangeable.                                  *)
(***************************************************************************)
EXTENDS SignalDelivery, TLC

Interchangeable ==
    Permutations(Posters) \cup Permutations(Retriers) \cup Permutations(Signals)
=============================================================================
