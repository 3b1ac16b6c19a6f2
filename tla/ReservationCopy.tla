--------------------------- MODULE ReservationCopy ---------------------------
(***************************************************************************)
(* A reservation and the copy it may become, from the first record to the  *)
(* last: cleanup and deletion (internal/app/reservation_executor_cleanup   *)
(* .go, copy_executor_cleanup.go), the reconcilers that start every pass   *)
(* (internal/controller/reservation_controller.go, copy_controller.go),    *)
(* users, crashes and faults.                                              *)
(***************************************************************************)
EXTENDS ReservationExecutors

-----------------------------------------------------------------------------
(* Cleanup *)

\* A deleted record converges: note the deletion, abort what is not finished, clean up.
FinalizeDeleted(k) ==
    /\ w.pc = "idle" /\ rec[k].here /\ rec[k].deleting /\ ~rec[k].pending
    /\ k = "R" => ~rec["C"].pending
    /\ w' = [Idle EXCEPT !.pc = IF Phase(rec[k]) \in Terminal(k) THEN "prepare" ELSE "aborting",
                         !.kind = k, !.op = "delete", !.obj = rec[k], !.cp = rec[k].cp,
                         !.finalize = TRUE, !.forget = TRUE]
    /\ UNCHANGED <<storage, rec, crd, left>>

\* The cleanup command: keep the labels, finalize, or finalize and forget the record.
Cleanup(k, finalize, forget) ==
    /\ left.users > 0 /\ Lockable(k)
    /\ rec[k].phase # "" => Phase(rec[k]) \in Terminal(k)
    /\ forget => finalize
    /\ w' = [Idle EXCEPT !.pc = "prepare", !.kind = k, !.op = "cleanup", !.obj = rec[k],
                         !.cp = rec[k].cp, !.finalize = finalize, !.forget = forget]
    /\ left' = [left EXCEPT !.users = @ - 1]
    /\ UNCHANGED <<storage, rec, crd>>

\* RetryStaleWorkflowWrite: a cleanup command whose record changed takes it up again.  (Three
\* times in the code; fewer changes than that happen here.)
RetryStaleWorkflowWrite ==
    IF w.op = "cleanup" /\ rec[w.kind].here
    THEN w' = [w EXCEPT !.pc = "prepare", !.obj = rec[w.kind], !.cp = rec[w.kind].cp,
                        !.vol = Idle.vol]
    ELSE Stop

\* Mutant: a destination is unused whenever the policy says Delete.
deleteUnusedAlways(r) == ~r.keep

\* A reservation that holds and a completed copy keep their destination.
deleteUnused(r) == ~r.keep /\ Phase(r) = "Aborted"

\* prepareCleanup reads and validates everything before anything is written.
prepareCleanup ==
    /\ w.pc = "prepare"
    /\ IF w.obj.phase = ""
       THEN w' = [w EXCEPT !.pc = "forget"]
       ELSE IF Phase(w.obj) \notin Terminal(w.kind) THEN Stop
       ELSE LET found == recoverReservationVolume(w.obj.cp, w.finalize)
                vol == prepareReservedDestination(found.cp, deleteUnused(w.obj))
            IN IF /\ validateSourceOwnershipRelease
                  /\ found.ok
                  /\ validateReclaimVolume(vol, w.finalize)
               THEN w' = [w EXCEPT !.cp = found.cp, !.vol = vol, !.pc = "preview"]
               ELSE Stop
    /\ UNCHANGED <<storage, rec, crd, left>>

\* What was recovered is saved before the first write to the cluster.
savePreview ==
    /\ w.pc = "preview"
    /\ IF w.cp = w.obj.cp THEN Goto("consumers") /\ UNCHANGED rec
       ELSE IF Current THEN Save([w.obj EXCEPT !.cp = w.cp], "consumers")
       ELSE RetryStaleWorkflowWrite /\ UNCHANGED rec
    /\ UNCHANGED <<storage, crd, left>>

deleteReservationConsumers ==
    /\ w.pc = "consumers"
    /\ pod' = IF pod \in {"Pending", "Ready"} THEN "Terminating" ELSE pod
    /\ Goto("source")
    /\ UNCHANGED <<srcPVC, srcPV, dstPVC, dstPV, tool, class, rec, crd, left>>

\* Without finalization a finished reservation keeps its source protected.
releaseSourceClaim ==
    /\ w.pc = "source" /\ pod = "None"
    /\ IF ~w.finalize /\ w.obj.cp.reserved
       THEN Goto("reclaim") /\ UNCHANGED srcPVC
       ELSE IF validateSourceOwnershipRelease
       THEN srcPVC' = ReleasePVC(srcPVC) /\ Goto("sourceVolume")
       ELSE Stop /\ UNCHANGED srcPVC
    /\ UNCHANGED <<srcPV, dstPVC, dstPV, pod, tool, class, rec, crd, left>>

releaseSourceVolume ==
    /\ w.pc = "sourceVolume"
    /\ srcPV' = IF srcPV.state # "Gone" /\ srcPV.owner = Me
                THEN finalizeActivePV(srcPV, sourcePolicy) ELSE srcPV
    /\ Goto("reclaim")
    /\ UNCHANGED <<srcPVC, dstPVC, dstPV, pod, tool, class, rec, crd, left>>

\* reclaimStorageVolume validates again and chooses between deleting and releasing.
reclaimStorageVolume ==
    /\ w.pc = "reclaim"
    /\ IF ~w.vol.delete /\ ~w.finalize THEN Goto("forget")
       ELSE IF validateReclaimVolume(w.vol, w.finalize)
       THEN Goto(IF w.vol.delete THEN "deleteClaim" ELSE "finalizeClaim")
       ELSE Stop
    /\ UNCHANGED <<storage, rec, crd, left>>

deleteClaim ==
    /\ w.pc = "deleteClaim"
    /\ IF w.vol.pvc = 0 \/ dstPVC.uid = 0
       THEN Goto("releasing") /\ UNCHANGED dstPVC
       ELSE IF deleteManagedPVC(w.vol)
       THEN dstPVC' = [dstPVC EXCEPT !.terminating = TRUE] /\ Goto("releasing")
       ELSE Stop /\ UNCHANGED dstPVC
    /\ UNCHANGED <<srcPVC, srcPV, dstPV, pod, tool, class, rec, crd, left>>

\* deleteReclaimedPV waits for the volume to be released by its deleted claim ...
waitForPVRelease ==
    /\ w.pc = "releasing"
    /\ IF w.vol.pv = 0 \/ dstPV[w.vol.pv].state = "Gone" THEN Goto("forget")
       ELSE IF ~cleanupPVIdentityMatches(w.vol) \/
               (dstPV[w.vol.pv].state = "Bound" /\ ~validateDeletingPVClaim(w.vol))
       THEN Stop
       ELSE reclaimedPVReleased(w.vol) /\ Goto("restorePolicy")
    /\ UNCHANGED <<storage, rec, crd, left>>

\* ... gives it its own policy back, so that deleting it deletes the data or keeps it ...
restoreReclaimedPVPolicy ==
    /\ w.pc = "restorePolicy"
    /\ LET v == dstPV[w.vol.pv] IN
       IF v.state = "Gone" THEN Goto("forget") /\ UNCHANGED dstPV
       ELSE IF cleanupPVIdentityMatches(w.vol) /\ reclaimPVPolicyMatches(w.vol)
       THEN /\ dstPV' = [dstPV EXCEPT ![w.vol.pv].policy = w.vol.policy]
            /\ Goto("deleteVolume")
       ELSE Stop /\ UNCHANGED dstPV
    /\ UNCHANGED <<srcPVC, srcPV, dstPVC, pod, tool, class, rec, crd, left>>

\* ... and deletes it.
deleteReclaimedPV ==
    /\ w.pc = "deleteVolume"
    /\ dstPV' = [dstPV EXCEPT ![w.vol.pv] = NoVolume]
    /\ Goto("forget")
    /\ UNCHANGED <<srcPVC, srcPV, dstPVC, pod, tool, class, rec, crd, left>>

finalizeClaim ==
    /\ w.pc = "finalizeClaim"
    /\ IF w.vol.pvc # 0 /\ dstPVC.uid # 0
       THEN IF dstPVC.uid = w.vol.pvc
            THEN dstPVC' = FinalizePVC(dstPVC) /\ Goto("finalizeVolume")
            ELSE Stop /\ UNCHANGED dstPVC
       ELSE Goto("finalizeVolume") /\ UNCHANGED dstPVC
    /\ UNCHANGED <<srcPVC, srcPV, dstPV, pod, tool, class, rec, crd, left>>

finalizeVolume ==
    /\ w.pc = "finalizeVolume"
    /\ IF w.vol.pv = 0 \/ dstPV[w.vol.pv].state = "Gone"
       THEN Goto("forget") /\ UNCHANGED dstPV
       ELSE IF validateFinalizablePV(dstPV[w.vol.pv], w.vol.policy)
       THEN dstPV' = [dstPV EXCEPT ![w.vol.pv] = finalizeActivePV(@, w.vol.policy)]
            /\ Goto("forget")
       ELSE Stop /\ UNCHANGED dstPV
    /\ UNCHANGED <<srcPVC, srcPV, dstPVC, pod, tool, class, rec, crd, left>>

\* The record goes last.  A deletion that has started is finished whatever changed.
forget ==
    /\ w.pc = "forget"
    /\ IF ~w.forget THEN Stop /\ UNCHANGED rec
       ELSE IF rec[w.kind].deleting \/ Current THEN Stop /\ DeleteRecord(w.kind)
       ELSE RetryStaleWorkflowWrite /\ UNCHANGED rec
    /\ UNCHANGED <<storage, crd, left>>

-----------------------------------------------------------------------------
(* Planning, users and faults *)

\* The controller plans a protected record; the CLI stores a planned one.
Plan(k) ==
    /\ Lockable(k) /\ rec[k].phase = "" /\ (crd => rec[k].fin) /\ ~rec[k].abort
    /\ srcPVC.state = "Bound"
    /\ rec' = [rec EXCEPT ![k].phase = "Planned"]
    /\ UNCHANGED <<storage, w, crd, left>>

\* Kubernetes keeps a deleted record while it has the finalizer.
UserDeletesRecord(k) ==
    /\ crd /\ left.users > 0 /\ rec[k].here /\ ~rec[k].deleting
    /\ IF rec[k].fin THEN rec' = [rec EXCEPT ![k].deleting = TRUE] ELSE DeleteRecord(k)
    /\ left' = [left EXCEPT !.users = @ - 1]
    /\ UNCHANGED <<storage, w, crd>>

\* Somebody deletes the destination claim or the source claim.
OutsiderDeletes ==
    /\ left.outside > 0
    /\ \/ /\ dstPVC.uid # 0 /\ ~dstPVC.terminating
          /\ dstPVC' = [dstPVC EXCEPT !.terminating = TRUE]
          /\ UNCHANGED srcPVC
       \/ /\ srcPVC.state = "Bound"
          /\ srcPVC' = [srcPVC EXCEPT !.state = "Terminating"]
          /\ UNCHANGED dstPVC
    /\ left' = [left EXCEPT !.outside = @ - 1]
    /\ UNCHANGED <<srcPV, dstPV, pod, tool, class, rec, w, crd>>

\* The process dies, or it loses its Lease and stops.
Crash ==
    /\ left.crashes > 0 /\ w.pc # "idle"
    /\ Stop
    /\ left' = [left EXCEPT !.crashes = @ - 1]
    /\ UNCHANGED <<storage, rec, crd>>

\* A call fails or a wait times out inside a run: the failure is recorded.
Fault ==
    /\ left.crashes > 0
    /\ \/ w.pc \in {"retain", "claim", "provision", "ready", "podgone", "podwait", "record"}
          /\ ReserveFails
       \/ w.pc \in {"attempt", "release"} /\ w.op = "run" /\ Fail
    /\ left' = [left EXCEPT !.crashes = @ - 1]
    /\ UNCHANGED <<storage, rec, crd>>

-----------------------------------------------------------------------------

\* One record at first, created by a user or by the CLI, with or without finalizer.
Init ==
    /\ srcPVC = [state |-> "Bound", owner |-> None]
    /\ \E p \in Policies :
         srcPV = [state |-> "Bound", owner |-> None, policy |-> p, orig |-> None]
    /\ dstPVC = NoClaim
    /\ dstPV = [c \in Claims |-> NoVolume]
    /\ pod = "None" /\ tool = FALSE
    /\ class \in Policies
    /\ crd \in BOOLEAN
    /\ \E b \in Budgets : left = [users |-> b.users, outside |-> b.outside,
                                  crashes |-> b.crashes, claims |-> MaxClaims,
                                  outsiders |-> b.outside, policy |-> srcPV.policy]
    /\ \E k \in Kinds, keep \in BOOLEAN :
         rec = [j \in Kinds |-> IF j = k THEN NewRecord(keep, FALSE) ELSE NoRecord]
    /\ w = Idle

Pass == reserve \/ ReserveVolume \/ retainSourcePV \/ reserveVolumeLive \/ provisionOnTarget
        \/ waitForReservationPod \/ cleanupReservationPod \/ finalizeLiveReservation
        \/ recordReservation \/ saveReservation \/ finishReservation \/ fail \/ ValidateRun
        \/ copyVolumes \/ copyWithRetry \/ startTools \/ cleanupCopyToolPods
        \/ checkpointWarmCopy \/ finishCopy
        \/ abort \/ cleanupInterrupted \/ aborted \/ finishAbortRequest
        \/ prepareCleanup \/ savePreview \/ deleteReservationConsumers \/ releaseSourceClaim
        \/ releaseSourceVolume \/ reclaimStorageVolume \/ deleteClaim \/ waitForPVRelease
        \/ restoreReclaimedPVPolicy \/ deleteReclaimedPV \/ finalizeClaim \/ finalizeVolume
        \/ forget

Cluster == \/ Provision /\ UNCHANGED records
           \/ PodStarts /\ UNCHANGED records
           \/ PodEnds /\ UNCHANGED records
           \/ ClaimRemoved /\ UNCHANGED records
           \/ SourceRemoved /\ UNCHANGED records
           \/ VolumeReclaimed /\ UNCHANGED records

Reconcile(k) == EnsureProtection(k) \/ Plan(k) \/ Run(k) \/ FinalizeDeleted(k)

User == \/ RequestHandoff \/ RequestCopyPass
        \/ \E k \in Kinds : RequestAbort(k) \/ UserDeletesRecord(k)
        \/ \E k \in Kinds, f, g \in BOOLEAN : Cleanup(k, f, g)

Next == \/ Pass \/ Handoff \/ recoverReservation \/ recoverCopy \/ ReconcileAbort
        \/ \E k \in Kinds : Reconcile(k)
        \/ User \/ OutsiderDeletes \/ Crash \/ Fault
        \/ Cluster

\* Kubernetes acts, a pass that holds the Lease goes on, and the controllers are asked
\* again for every record that is being deleted or is in a handoff.
Fairness ==
    /\ WF_vars(Pass \/ Handoff)
    /\ WF_vars(Cluster)
    /\ \A k \in Kinds : SF_vars(FinalizeDeleted(k))
    /\ SF_vars(recoverReservation) /\ SF_vars(recoverCopy)

Spec == Init /\ [][Next]_vars /\ Fairness

-----------------------------------------------------------------------------
(* Properties *)

\* The objects of the cluster, both records and the worker have their shapes.
TypeOK == StorageTypeOK /\ rec \in [Kinds -> Record] /\ w.vol \in Reclaim /\ w.cp \in Checkpoint

\* Nobody from outside has deleted a claim in this behaviour.
Undisturbed == left.outside = left.outsiders

\* Something in the cluster still belongs to the workflow; a deleted claim is on its way.
Labelled == \/ srcPVC.owner = Me \/ srcPV.owner = Me
            \/ dstPVC.owner = Me /\ ~dstPVC.terminating
            \/ tool \/ pod # "None"
            \/ Undisturbed /\ \E c \in Claims : dstPV[c].owner = Me

NoRecords == \A k \in Kinds : ~rec[k].here

\* As long as anything carries the workflow's label, or a Pod of it runs, a record is
\* there from which it can be found; and when the last record goes the source has its own
\* reclaim policy back.  (A volume whose claim somebody else deletes before it is recorded
\* is left to the orphan cleanup.)
NothingLeftBehind ==
    NoRecords => /\ ~Labelled
                 /\ srcPVC.state = "Bound" => srcPV.policy = left.policy

\* The two records never act at the same time: while both exist the copy is behind its
\* barrier, has attempted nothing and no tool runs.
OneAuthority ==
    rec["R"].here /\ rec["C"].here =>
        rec["C"].pending /\ ~rec["C"].tried /\ ~tool /\ (w.kind = "C" => w.op = "activate")

\* Whoever asked for the volume gets it: a record that ends without having been aborted
\* leaves the destination claim bound, unlabelled, with the policy of its class.
Delivered ==
    /\ dstPVC.bound /\ ~dstPVC.terminating /\ dstPVC.owner = None
    /\ dstPV[dstPVC.uid] = [state |-> "Bound", owner |-> None, policy |-> class, orig |-> None]
DeliveredWhole ==
    [][\A k \in Kinds :
         rec[k].here /\ ~rec[k].pending /\ Phase(rec[k]) \in {"Reserved", "WarmCopied"}
         /\ (\A j \in Kinds : ~rec'[j].here) /\ Undisturbed
         => Delivered]_vars

\* Every record that is stored passes the validation of the next pass, and every change of
\* phase the executors make is one their transition check allows: otherwise the workflow
\* could be neither resumed nor aborted nor deleted.
Accepts(k, old, new) ==
    IF k = "R"
    THEN /\ ReservationCheckpointValid(new)
         /\ old.here /\ old.phase # "" =>
              ReservationTransitionValid(Phase(old), Phase(new), old.phase # "")
    ELSE /\ CopyCheckpointValid(new)
         /\ old.here /\ old.phase # "" =>
              CopyTransitionValid(old.phase, Phase(new), old.phase # "")
RecordsAccepted ==
    [][\A k \in Kinds : rec'[k].here => Accepts(k, rec[k], rec'[k])]_vars

\* A volume provisioned with policy Retain that was not labelled yet: the recovery takes
\* an unlabelled volume for the workflow's own only when its policy is Delete.
Unrecognized == /\ dstPVC.bound /\ dstPV[dstPVC.uid].owner = None
                /\ dstPV[dstPVC.uid].policy = "Retain"
                /\ \A k \in Kinds : ~rec[k].cp.reserved

\* A deleted record goes away, after whatever was interrupted and however often the
\* deletion itself is, unless its destination volume cannot be recognized.
DeletionFinishes == \A k \in Kinds : rec[k].deleting ~> (~rec[k].here \/ Unrecognized)

\* A handoff ends with one record that is not behind the barrier, forwards or backwards.
HandoffSettles == Undisturbed /\ (rec["R"].pending \/ rec["C"].pending) ~>
                    (~Undisturbed \/ (~rec["R"].pending /\ ~rec["C"].pending))

\* What a record promises is kept by whoever takes it up: the next pass accepts
\* it, and the last one delivers the volume.
Delivers == DeliveredWhole /\ RecordsAccepted

\* Handoffs and deletions end.
Settles == HandoffSettles /\ DeletionFinishes

=============================================================================
