---------------------------- MODULE VolumeReclaim ----------------------------
(***************************************************************************)
(* Cleanup of reserved storage: recovery of what a lost checkpoint did not *)
(* record (internal/app/reservation_recovery.go), the validation before    *)
(* anything is touched and the choice between deleting and releasing the   *)
(* destination (internal/app/volume_reclaim.go), and the release of the    *)
(* source (internal/app/source_release.go).                                *)
(***************************************************************************)
EXTENDS Reserver

\* A volume provisioned for the claim that no checkpoint and no label knows of yet.
uncheckpointedDestinationPVMatches(v, claim) ==
    /\ claim # 0 /\ v.state # "Gone"
    /\ v.owner = None /\ v.orig = None /\ v.policy = "Delete"

-----------------------------------------------------------------------------
(* Recovery *)

reservationPVCRecoveryIdentityMatches(cp) == cp.pvc = 0 \/ cp.pvc = dstPVC.uid

\* A claim whose UID is recorded may have lost its labels to an earlier finalization.
reservationPVCRecoveryOwned(known) ==
    IF known THEN dstPVC.owner \in Owners ELSE dstPVC.owner = Me

reservationPVCRecoveryAllowed(cp, terminal) ==
    \/ reservationPVCRecoveryOwned(cp.pvc # 0)
    \/ terminal /\ dstPVC.owner = None

reservationPVRecoveryOwned(v, uid, cp) ==
    \/ v.owner = Me
    \/ /\ cp.pv = uid /\ v.owner = None /\ v.orig = None
       /\ cp.policy # None /\ v.policy = cp.policy

OriginalPolicy(v) == IF v.orig # None THEN v.orig ELSE v.policy

\* The volume the claim binds is one this workflow may take over.
recoverReservationPV(uid, cp) ==
    LET v == dstPV[uid] IN
    /\ cp.pv # 0 => cp.pv = uid
    /\ v.state # "Gone" =>
         /\ \/ reservationPVRecoveryOwned(v, uid, cp)
            \/ ~cp.reserved /\ uncheckpointedDestinationPVMatches(v, uid)
         /\ cp.policy # None => cp.policy = OriginalPolicy(v)
         /\ v.policy \in {"Retain", OriginalPolicy(v)}

\* Mutant: what is bound behind an unrecorded claim is not looked up.
recoverReservationVolumeClaim(cp, terminal) ==
    IF dstPVC.uid = 0 THEN [ok |-> TRUE, cp |-> cp]
    ELSE [ok |-> reservationPVCRecoveryIdentityMatches(cp)
                 /\ reservationPVCRecoveryAllowed(cp, terminal),
          cp |-> [cp EXCEPT !.pvc = dstPVC.uid]]

\* recoverReservationVolume: the checkpoint completed with what the cluster shows.
recoverReservationVolume(cp, terminal) ==
    IF dstPVC.uid = 0 THEN [ok |-> TRUE, cp |-> cp]
    ELSE LET uid == dstPVC.uid
             found == dstPVC.bound /\ dstPV[uid].state # "Gone"
         IN [ok |-> /\ reservationPVCRecoveryIdentityMatches(cp)
                    /\ reservationPVCRecoveryAllowed(cp, terminal)
                    /\ dstPVC.bound => recoverReservationPV(uid, cp),
             cp |-> [cp EXCEPT !.pvc = uid,
                               !.pv = IF found THEN uid ELSE @,
                               !.policy = IF found THEN OriginalPolicy(dstPV[uid]) ELSE @]]

-----------------------------------------------------------------------------
(* What is to be reclaimed *)

\* reclaimVolume: open marks a destination whose reservation was not recorded as finished.
Reclaim == [pvc : 0..MaxClaims, pv : 0..MaxClaims, policy : Policies \cup {None},
            open : BOOLEAN, delete : BOOLEAN]

\* A released volume stays Retain when its claim is gone or on its way out.
protectRetainedPVs(v) ==
    IF v.delete \/ v.pv = 0 \/ v.policy = None THEN v
    ELSE IF v.pvc = 0 \/ dstPVC.uid = 0 \/ dstPVC.terminating
         THEN [v EXCEPT !.policy = "Retain"]
         ELSE v

prepareReservedDestination(cp, delete) ==
    protectRetainedPVs([pvc |-> cp.pvc, pv |-> cp.pv, policy |-> cp.policy,
                        open |-> cp.pvc # 0 /\ ~cp.reserved, delete |-> delete])

\* No tool and no other Pod mounts the claim; the consumer Pod does not count.
inspectPVCUnusedWithOperations == ~tool

validateReclaimPVC(v) ==
    (v.pvc # 0 /\ dstPVC.uid # 0) =>
        /\ dstPVC.uid = v.pvc
        /\ dstPVC.owner \in Owners
        /\ v.delete => dstPVC.owner = Me /\ inspectPVCUnusedWithOperations

\* The volume an open reclaim may treat as its own without labels.
Uncheckpointed(v) == v.open /\ uncheckpointedDestinationPVMatches(dstPV[v.pv], v.pvc)

validateReclaimPV(v) ==
    v.pv # 0 =>
        /\ v.policy # None
        /\ dstPV[v.pv].state # "Gone" =>
             /\ validateFinalizablePV(dstPV[v.pv], v.policy) \/ Uncheckpointed(v)
             /\ v.delete => dstPV[v.pv].owner = Me \/ Uncheckpointed(v)
             /\ dstPV[v.pv].state = "Bound" => v.pvc # 0 /\ v.pv = v.pvc

validateReclaimVolume(v, finalize) ==
    (v.delete \/ finalize) => validateReclaimPVC(v) /\ validateReclaimPV(v)

\* deleteManagedPVC: UID and label are read again for the delete.
deleteManagedPVC(v) == dstPVC.uid = v.pvc /\ dstPVC.owner = Me

cleanupPVIdentityMatches(v) == dstPV[v.pv].owner = Me \/ Uncheckpointed(v)

reclaimPVPolicyMatches(v) ==
    IF Uncheckpointed(v) THEN v.policy = "Delete"
    ELSE dstPV[v.pv].orig = v.policy /\ dstPV[v.pv].policy \in {"Retain", v.policy}

\* A bound volume is waited for only while its claim is going away.
validateDeletingPVClaim(v) ==
    dstPVC.uid = 0 \/ (dstPVC.uid = v.pv /\ dstPVC.terminating)

\* reclaimedPVReleased: released, or nothing left to wait for.
reclaimedPVReleased(v) == dstPV[v.pv].state \in {"Released", "Gone"}

-----------------------------------------------------------------------------
(* The source *)

\* A source that is unlabelled was never acquired or is already released.
validateSourceOwnershipRelease ==
    (srcPV.state # "Gone" /\ srcPV.owner = Me) => srcPVC.owner \in Owners

\* The annotation of the first protection outranks the plan; a released volume stays Retain.
sourcePolicy ==
    IF srcPVC.state # "Bound" THEN "Retain" ELSE OriginalPolicy(srcPV)

=============================================================================
