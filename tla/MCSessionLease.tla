--------------------------- MODULE MCSessionLease ---------------------------
(* Instances of SessionLease for TLC: the handles are interchangeable. *)
EXTENDS SessionLease, TLC

Symmetry == Permutations(Handle)
=============================================================================
