------------------------------ MODULE Reserver ------------------------------
(***************************************************************************)
(* What the reserver of internal/kube/reserver.go checks before each of    *)
(* its writes, and what it notes of the destination in the checkpoint it   *)
(* was given.  Capacities, access modes and topology are fixed by the plan *)
(* and are not told apart.                                                 *)
(***************************************************************************)
EXTENDS ReservedStorage

\* ClusterVolumeReservationStatus: 0 and None stand for what is not recorded.
Checkpoint == [pvc : 0..MaxClaims, pv : 0..MaxClaims, policy : Policies \cup {None},
               reserved : BOOLEAN]
NoCheckpoint == [pvc |-> 0, pv |-> 0, policy |-> None, reserved |-> FALSE]

\* Labels of a volume: none at all unless required, or ours.
validateReservationPVOwnership(v, requireOwned) ==
    v.owner = Me \/ (v.owner = None /\ ~requireOwned)

\* A source claim that is terminating is still Bound and passes.
verifySourceIdentity ==
    /\ srcPVC.state # "Gone"
    /\ srcPVC.owner \in Owners
    /\ srcPV.state = "Bound"
    /\ validateReservationPVOwnership(srcPV, FALSE)

prepareReservation == verifySourceIdentity

\* Nothing of the destination may be recorded when the claim is absent.
validateMissingReservationDestination(cp) == ~cp.reserved /\ cp.pvc = 0 /\ cp.pv = 0

\* The claim under the destination's name is the one this workflow created.
validateDestinationPVC(uid) ==
    /\ dstPVC.uid # 0 /\ ~dstPVC.terminating
    /\ dstPVC.owner = Me
    /\ uid # 0 => dstPVC.uid = uid

verifyDestinationIdentity(cp, requireOwned) ==
    /\ cp.pvc # 0 => dstPVC.uid = cp.pvc
    /\ dstPVC.bound
    /\ cp.pv # 0 => cp.pv = dstPVC.uid
    /\ dstPV[dstPVC.uid].state = "Bound"
    /\ validateReservationPVOwnership(dstPV[dstPVC.uid], requireOwned)

reserveVolumeDryRun(cp) ==
    IF dstPVC.uid = 0
    THEN validateMissingReservationDestination(cp)
    ELSE /\ validateDestinationPVC(cp.pvc)
         /\ cp.reserved => cp.pvc # 0 /\ cp.pv # 0
         /\ (cp.reserved \/ cp.pv # 0 \/ dstPVC.bound)
                => verifyDestinationIdentity(cp, cp.reserved)

\* ValidateVolumeReservation: what every run, retry and copy attempt re-checks.
ValidateVolumeReservation(cp) == prepareReservation /\ reserveVolumeDryRun(cp)

\* loadOrCreateReservationPVC creates the claim only when nothing is recorded of it.
loadOrCreateReservationPVC(cp) ==
    dstPVC.uid = 0 /\ validateMissingReservationDestination(cp)

\* The claim as reserveVolumeLive reads it again before it finishes.
BoundDestination(cp) == validateDestinationPVC(cp.pvc) /\ dstPVC.bound

\* The volume that finalizeLiveReservation retains.
finalizableReservation(cp) ==
    /\ cp.pv # 0 => cp.pv = dstPVC.uid
    /\ dstPV[dstPVC.uid].state = "Bound"
    /\ dstPV[dstPVC.uid].owner \in Owners

\* Read again after retainPV: still bound to the claim, ours and retained.
validateRetainedDestinationPV(v) ==
    v.state # "Gone" /\ validateReservationPVOwnership(v, TRUE) /\ v.policy = "Retain"

\* What a finished reservation notes: the policy the storage class gave the volume.
Finalized(cp, uid) ==
    [cp EXCEPT !.pv = uid, !.reserved = TRUE,
               !.policy = IF dstPV[uid].orig # None THEN dstPV[uid].orig
                          ELSE dstPV[uid].policy]

=============================================================================
