-------------------------- MODULE MCInplaceUpgrade --------------------------
(***************************************************************************)
(* Model values of InplaceUpgrade for TLC: a cluster of a primary and two  *)
(* replicas; the configurations choose the set of faults.                  *)
(***************************************************************************)
EXTENDS InplaceUpgrade, TLC

CONSTANTS p1, r1, r2

\* The two replicas are interchangeable; used by runs without liveness only.
Symmetry == Permutations({r1, r2})
=============================================================================
