----------------------------- MODULE MCEvidence -----------------------------
(***************************************************************************)
(* Instances of Evidence for TLC.                                          *)
(***************************************************************************)
EXTENDS Evidence, TLC

CONSTANTS charge, order

ChosenIds == {charge, order}
ChosenCanonical == [i \in ChosenIds |-> i]

\* Neither ingestions nor the numbers of changes are compared by order.
EvidenceSymmetry == Permutations(Ingestions) \cup Permutations(Changes)
=============================================================================
