--------------------------- MODULE MCVolumeRename ---------------------------
(* Instances of VolumeRename for TLC: the two claims and their volume. *)
EXTENDS VolumeRename, TLC

CONSTANTS src, dst, pv1

MCClaims == {src, dst}

MCVolumes == {pv1}

MCPolicy == [v \in MCVolumes |-> "Delete"]

=============================================================================
