--------------------------- MODULE ReservedStorage ---------------------------
(***************************************************************************)
(* The storage a reservation or a copy owns: the source claim and volume   *)
(* it borrows, the destination claim it creates with the volume            *)
(* provisioned for it, the consumer Pod that forces the provisioning and   *)
(* the transfer tools.  The operators are the single writes of             *)
(* internal/kube/ownership.go, internal/kube/reserver.go and               *)
(* internal/app/source_release.go; the actions are Kubernetes'.            *)
(*                                                                         *)
(* Claims are told apart by UID: destination claim n is the n-th one       *)
(* created under the planned name, and volume n is provisioned for it.     *)
(***************************************************************************)
EXTENDS Naturals

CONSTANTS Me,           \* the workflow: name of both its records, and the owner label
          None,
          MaxClaims     \* bound on the claims created under the destination's name

ASSUME StorageAssumption == Me # None /\ MaxClaims \in Nat \ {0}

VARIABLES srcPVC, srcPV,    \* the planned source claim and volume
          dstPVC,           \* the claim under the destination's name
          dstPV,            \* the volumes provisioned for its successive claims
          pod,              \* the reservation's consumer Pod
          tool,             \* whether transfer tools mount both claims
          class             \* reclaim policy of the destination's storage class

storage == <<srcPVC, srcPV, dstPVC, dstPV, pod, tool, class>>

Claims == 1..MaxClaims
Policies == {"Delete", "Retain"}
Owners == {None, Me}

SourceClaim == [state : {"Bound", "Terminating", "Gone"}, owner : Owners]
Claim == [uid : 0..MaxClaims, bound : BOOLEAN, terminating : BOOLEAN, owner : Owners]
Volume == [state : {"Bound", "Released", "Gone"}, owner : Owners,
           policy : Policies, orig : Policies \cup {None}]

NoClaim == [uid |-> 0, bound |-> FALSE, terminating |-> FALSE, owner |-> None]
NoVolume == [state |-> "Gone", owner |-> None, policy |-> "Delete", orig |-> None]

StorageTypeOK ==
    /\ srcPVC \in SourceClaim
    /\ srcPV \in Volume
    /\ dstPVC \in Claim
    /\ dstPV \in [Claims -> Volume]
    /\ pod \in {"None", "Pending", "Ready", "Terminating"}
    /\ tool \in BOOLEAN
    /\ class \in Policies

-----------------------------------------------------------------------------
(* Single writes.  Each is retried on a conflict by the code and is atomic *)
(* here.                                                                   *)

\* The session and role labels of a PersistentVolume: one role per volume here.
markPVSession(v) == [v EXCEPT !.owner = Me]

\* The original policy is noted once: a second pass finds Retain and must not note that.
retainPV(v) ==
    [markPVSession(v) EXCEPT !.orig = IF v.orig = None THEN v.policy ELSE v.orig,
                             !.policy = "Retain"]

AcquirePVC(c) == [c EXCEPT !.owner = Me]

ReleasePVC(c) == [c EXCEPT !.owner = IF c.owner = Me THEN None ELSE c.owner]

FinalizePVC(c) == [c EXCEPT !.owner = None]

\* finalizeActivePV: restore the policy and drop labels and annotations.
finalizeActivePV(v, policy) == [v EXCEPT !.owner = None, !.orig = None, !.policy = policy]

\* What finalizeActivePV and validateFinalizablePV accept: ours, or already finalized.
validateFinalizablePV(v, policy) ==
    v.owner = Me \/ (v.owner = None /\ v.orig = None /\ v.policy = policy)

-----------------------------------------------------------------------------
(* Kubernetes *)

\* The provisioner binds the pending claim to a new volume of the storage class.
Provision ==
    /\ dstPVC.uid # 0 /\ ~dstPVC.bound /\ ~dstPVC.terminating
    /\ dstPVC' = [dstPVC EXCEPT !.bound = TRUE]
    /\ dstPV' = [dstPV EXCEPT ![dstPVC.uid] =
                    [state |-> "Bound", owner |-> None, policy |-> class, orig |-> None]]
    /\ UNCHANGED <<srcPVC, srcPV, pod, tool, class>>

\* The consumer Pod starts once its claim is bound.
PodStarts ==
    /\ pod = "Pending" /\ dstPVC.bound
    /\ pod' = "Ready"
    /\ UNCHANGED <<srcPVC, srcPV, dstPVC, dstPV, tool, class>>

PodEnds ==
    /\ pod = "Terminating"
    /\ pod' = "None"
    /\ UNCHANGED <<srcPVC, srcPV, dstPVC, dstPV, tool, class>>

\* PVC protection: a claim goes when no Pod uses it, and its volume is released.
ClaimRemoved ==
    /\ dstPVC.terminating /\ pod = "None" /\ ~tool
    /\ dstPVC' = NoClaim
    /\ dstPV' = IF dstPVC.bound /\ dstPV[dstPVC.uid].state = "Bound"
                THEN [dstPV EXCEPT ![dstPVC.uid].state = "Released"] ELSE dstPV
    /\ UNCHANGED <<srcPVC, srcPV, pod, tool, class>>

SourceRemoved ==
    /\ srcPVC.state = "Terminating" /\ ~tool
    /\ srcPVC' = [state |-> "Gone", owner |-> None]
    /\ srcPV' = [srcPV EXCEPT !.state = "Released"]
    /\ UNCHANGED <<dstPVC, dstPV, pod, tool, class>>

\* A released volume whose policy is Delete is deleted with its data.
VolumeReclaimed ==
    /\ \/ /\ srcPV.state = "Released" /\ srcPV.policy = "Delete"
          /\ srcPV' = NoVolume
          /\ UNCHANGED dstPV
       \/ \E c \in Claims :
            /\ dstPV[c].state = "Released" /\ dstPV[c].policy = "Delete"
            /\ dstPV' = [dstPV EXCEPT ![c] = NoVolume]
            /\ UNCHANGED srcPV
    /\ UNCHANGED <<srcPVC, dstPVC, pod, tool, class>>

=============================================================================
