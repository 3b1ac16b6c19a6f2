-------------------------- MODULE MCVolumeCutover --------------------------
(* A migration of one volume for TLC, from its final sync to the end. *)
EXTENDS MigrationCleanup, TLC

CONSTANTS src, tmp, act, pv1, pv2

MCClaims == {src, tmp, ActiveClaim}

MCVolumes == {pv1, pv2}

MCPolicy == [v \in MCVolumes |-> "Delete"]

=============================================================================
