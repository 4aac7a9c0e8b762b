---------------------------- MODULE MCStoreOpen ----------------------------
(* Small instances of StoreOpen for TLC.                                   *)
EXTENDS StoreOpen, TLC

CONSTANTS p1, p2, p3

\* Two calls with the same inputs and one with other inputs.
TwoIntents == [p \in Process |-> IF p = p3 THEN "other" ELSE "same"]
\* Calls with the same inputs are interchangeable.
Symmetric == Permutations({p1, p2})
=============================================================================
