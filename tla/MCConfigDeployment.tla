------------------------- MODULE MCConfigDeployment -------------------------
(***************************************************************************)
(* Instances of ConfigDeployment for TLC.                                  *)
(***************************************************************************)
EXTENDS ConfigDeployment

CONSTANTS c1, c2, c3, c4, a, b

\* Both instances take c1, c2 and c4, which the bridge may not serve; c3 was built
\* on a's parent version only.
MixedFit == [i \in {a, b} |-> IF i = a THEN {c1, c2, c3, c4} ELSE {c1, c2, c4}]

\* The second row replaces the first, follows one that b refuses, deploys the
\* same configuration again, or is not deployable.
TwoRows == {<<c1, c2>>, <<c3, c1>>, <<c1, c1>>, <<c1, c4>>}
=============================================================================
