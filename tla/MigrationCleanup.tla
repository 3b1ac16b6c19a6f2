-------------------------- MODULE MigrationCleanup --------------------------
(***************************************************************************)
(* What follows the cutover of VolumeCutover: an abort before it, the      *)
(* cleanup of a finished migration (internal/app/migration_executor_       *)
(* cleanup.go, migration_reclaim_volume.go), which keeps the copy in use   *)
(* and deletes or gives up the other one, and the deletion of the workflow *)
(* object, which first brings the migration to an end (FinalizeDeleted).   *)
(* A rollback is still accepted after a cleanup, so cleanup and cutover    *)
(* are explored together.  The cleanup works on the list of volumes that   *)
(* volume_reclaim.go calls reclaimVolume, one API write per step.          *)
(***************************************************************************)
EXTENDS VolumeCutover, Sequences

CONSTANTS
    DeletesUnused,  \* the plan's unusedStoragePolicy is Delete
    MaxCleanups,    \* bound: cleanup commands
    MaxRemovals     \* bound: claims of the application a user deletes

ASSUME CleanupAssumption ==
    DeletesUnused \in BOOLEAN /\ MaxCleanups \in Nat /\ MaxRemovals \in Nat

VARIABLES
    record,     \* the workflow object: "here", "deleting" or "gone"
    job,        \* the cleanup pass that holds the Lease
    cleanups,   \* cleanup commands so far
    removals,   \* claims a user deleted so far
    removed     \* what the volume of such a claim was at that time

cleanupVars == <<record, job, cleanups, removals, removed>>
allVars == <<vars, cleanupVars>>

NoJob == [pc |-> "idle", finalize |-> FALSE, delete |-> FALSE, forget |-> FALSE,
          volumes |-> <<>>]

Finished == {"Completed", "RolledBack", "Aborted"}

\* withStoredWorkflowLock: nobody else works for this migration.
Locked == pc = "idle" /\ job.pc = "idle"

Step(next) == job' = [job EXCEPT !.pc = next]

\* A cleanup pass that fails leaves no trace in the record.
Stop == job' = NoJob

Reads == UNCHANGED <<vars, record, cleanups, removals, removed>>
Writes == UNCHANGED <<passVars, crashes, restores, record, cleanups, removals, removed>>

-----------------------------------------------------------------------------
(* What is to be reclaimed: a claim (uid 0: none) and a volume, the policy  *)
(* the volume is left with, and whether both are deleted.                   *)

\* The annotation of the first protection outranks the plan.
resolvedSourcePolicy ==
    IF Live(SourcePV) /\ pv[SourcePV].original # "none"
    THEN pv[SourcePV].original ELSE InitialPolicy[SourcePV]

\* Mutant: a volume that is kept always gets its own policy back.
ProtectedNever(v) == v

\* protectRetainedPVs: a volume whose claim is gone or going stays Retain.
Protected(v) ==
    IF ~v.delete /\ (v.uid = 0 \/ ~Exists(v.claim) \/ pvc[v.claim].deleting)
    THEN [v EXCEPT !.policy = "Retain"] ELSE v

\* The destination serves a completed migration, the source any other.
prepareMigrationReclaimVolume(delete) ==
    LET Entry(v, role, l, u, policy, d) ==
            Protected([pv |-> v, role |-> role, claim |-> l, uid |-> u,
                       policy |-> policy, delete |-> d])
        inUse(u) == Entry(SourcePV, "any", SourceClaim, u, resolvedSourcePolicy, FALSE)
        staged(role, d) == Entry(DestinationPV, role, TemporaryClaim, TemporaryUID,
                                 InitialPolicy[DestinationPV], d)
    IN CASE phase = "Completed" ->
              << Entry(SourcePV, "rollback", SourceClaim, 0, resolvedSourcePolicy, delete),
                 Entry(DestinationPV, "active", ActiveClaim, status.activePVC,
                       InitialPolicy[DestinationPV], FALSE) >>
         [] phase = "RolledBack" ->
              << inUse(status.activePVC), staged("rollback", delete) >>
         [] OTHER ->
              << inUse(SourceUID), staged("destination", delete /\ Exists(SourceClaim)) >>

\* The staged pair of an aborted migration is still the one it reserved.
recoverReservationVolume ==
    phase = "Aborted" /\ Exists(TemporaryClaim) =>
        /\ pvc[TemporaryClaim].uid = TemporaryUID
        /\ LET v == pv[DestinationPV] IN
           Live(DestinationPV) =>
             /\ v.claim = TemporaryClaim /\ v.claimUID = TemporaryUID
             /\ \/ v.session /\ v.role = "destination"
                \/ /\ ~v.session /\ v.original = "none"
                   /\ v.policy = InitialPolicy[DestinationPV]

\* Ours, or given up already with this policy.
validateFinalizablePV(v) ==
    \/ pv[v.pv].session
    \/ pv[v.pv].original = "none" /\ pv[v.pv].policy = v.policy

validateReclaimPVC(v) ==
    (v.uid # 0 /\ Exists(v.claim)) =>
        /\ pvc[v.claim].uid = v.uid
        /\ v.delete => /\ pvc[v.claim].session
                       /\ NoConsumers(v.claim) /\ Detached(pvc[v.claim].volume)

validateReclaimPV(v) ==
    Live(v.pv) =>
        /\ validateFinalizablePV(v)
        /\ pv[v.pv].session => v.role \in {"any", pv[v.pv].role}
        /\ v.delete => pv[v.pv].session
        /\ pv[v.pv].phase = "Bound" =>
             v.uid # 0 /\ pv[v.pv].claim = v.claim /\ pv[v.pv].claimUID = v.uid

\* An aborted migration does not insist on a source volume that is gone.
skipMissingReclaimPV(v) == phase = "Aborted" /\ v.pv = SourcePV /\ ~Live(SourcePV)

validateReclaimVolume(v, finalize) ==
    \/ skipMissingReclaimPV(v)
    \/ ~v.delete /\ ~finalize
    \/ validateReclaimPVC(v) /\ validateReclaimPV(v)

-----------------------------------------------------------------------------
(* The passes *)

\* The cleanup command; its flags may override the recorded policy.
Cleanup(delete, finalize, forget) ==
    /\ Locked /\ record = "here" /\ phase \in Finished
    /\ forget => finalize
    /\ cleanups < MaxCleanups /\ cleanups' = cleanups + 1
    /\ job' = [NoJob EXCEPT !.pc = "prepare", !.delete = delete,
                            !.finalize = finalize, !.forget = forget]
    /\ UNCHANGED <<vars, record, removals, removed>>

\* The deletion pass of a migration that came to its end.
FinalizeDeleted ==
    /\ Locked /\ record = "deleting" /\ phase \in Finished
    /\ job' = [NoJob EXCEPT !.pc = "prepare", !.delete = DeletesUnused,
                            !.finalize = TRUE, !.forget = TRUE]
    /\ Reads

\* Before the cutover the migration is aborted, by a user or by its deletion.
Abort ==
    /\ Locked /\ record # "gone" /\ phase \in {"FinalSynced", "Aborting"}
    /\ VerifyIdentity(SourceClaim, SourceUID, SourcePV)
    /\ Transition("Aborting")
    /\ job' = [NoJob EXCEPT !.pc = "aborting"]
    /\ UNCHANGED <<pc, current, at, record, cleanups, removals, removed>>

\* The tools of a completed final sync are gone already.
Aborted ==
    /\ job.pc = "aborting"
    /\ Transition("Aborted")
    /\ Stop
    /\ UNCHANGED <<pc, current, at, record, cleanups, removals, removed>>

\* Everything is read and validated before anything is written.
prepareCleanup ==
    /\ job.pc = "prepare"
    /\ LET volumes == prepareMigrationReclaimVolume(job.delete)
       IN IF /\ recoverReservationVolume
             /\ \A i \in DOMAIN volumes : validateReclaimVolume(volumes[i], job.finalize)
          THEN job' = [job EXCEPT !.pc = "reclaim", !.volumes = volumes]
          ELSE Stop
    /\ Reads

V == Head(job.volumes)

NextVolume == job' = [job EXCEPT !.pc = "reclaim", !.volumes = Tail(@)]

\* Mutant: a volume that is kept is left as it is.
ReclaimDeletesOnly ==
    /\ job.pc = "reclaim" /\ job.volumes # <<>>
    /\ IF skipMissingReclaimPV(V) \/ ~V.delete THEN NextVolume
       ELSE IF ~validateReclaimVolume(V, job.finalize) THEN Stop
       ELSE Step("deleteClaim")
    /\ Reads

\* Each volume is validated once more, then deleted or given up.
reclaimStorageVolume ==
    /\ job.pc = "reclaim" /\ job.volumes # <<>>
    /\ IF skipMissingReclaimPV(V) \/ (~V.delete /\ ~job.finalize) THEN NextVolume
       ELSE IF ~validateReclaimVolume(V, job.finalize) THEN Stop
       ELSE Step(IF V.delete THEN "deleteClaim" ELSE "finalizeClaim")
    /\ Reads

\* deleteManagedPVC, by its UID and the session label.
deleteManagedPVC ==
    /\ job.pc = "deleteClaim"
    /\ LET c == pvc[V.claim]
           absent == V.uid = 0 \/ ~Exists(V.claim)
           owned == c.uid = V.uid /\ c.session
       IN /\ pvc' = IF ~absent /\ owned THEN [pvc EXCEPT ![V.claim].deleting = TRUE] ELSE pvc
          /\ IF absent \/ owned THEN Step("release") ELSE Stop
    /\ UNCHANGED <<pv, lastUID, pod, attached, pods, intrusions>> /\ Writes

cleanupPVIdentityMatches(v) == pv[v.pv].session /\ pv[v.pv].role = v.role

\* A bound volume is waited for only while its claim is going.
validateDeletingPVClaim(v) ==
    LET c == pv[v.pv].claim
    IN /\ c # NoClaim /\ pv[v.pv].claimUID # 0
       /\ Exists(c) => pvc[c].uid = pv[v.pv].claimUID /\ pvc[c].deleting

waitForPVRelease ==
    /\ job.pc = "release"
    /\ \/ ~Live(V.pv) /\ NextVolume
       \/ /\ Live(V.pv)
          /\ \/ ~cleanupPVIdentityMatches(V)
             \/ pv[V.pv].phase = "Bound" /\ ~validateDeletingPVClaim(V)
          /\ Stop
       \/ /\ Live(V.pv) /\ cleanupPVIdentityMatches(V)
          /\ pv[V.pv].phase \in {"Released", "Available"}
          /\ Step("restore")
    /\ Reads

\* Its own policy decides whether the data goes with the volume.
restoreReclaimedPVPolicy ==
    /\ job.pc = "restore"
    /\ LET ok == /\ cleanupPVIdentityMatches(V)
                 /\ pv[V.pv].phase \in {"Released", "Available"}
                 /\ pv[V.pv].original = V.policy
                 /\ pv[V.pv].policy \in {"Retain", V.policy}
       IN /\ pv' = IF Live(V.pv) /\ ok THEN [pv EXCEPT ![V.pv].policy = V.policy] ELSE pv
          /\ IF ~Live(V.pv) THEN NextVolume ELSE IF ok THEN Step("delete") ELSE Stop
    /\ UNCHANGED <<pvc, lastUID, pod, attached, pods, intrusions>> /\ Writes

\* Deleted as it was read: a volume that was bound meanwhile is a conflict.
deleteReclaimedPV ==
    /\ job.pc = "delete"
    /\ LET bound == pv[V.pv].phase = "Bound"
       IN /\ pv' = IF bound THEN pv ELSE [pv EXCEPT ![V.pv].phase = "Gone"]
          /\ IF bound THEN Stop ELSE NextVolume
    /\ UNCHANGED <<pvc, lastUID, pod, attached, pods, intrusions>> /\ Writes

FinalizePVC ==
    /\ job.pc = "finalizeClaim"
    /\ LET absent == V.uid = 0 \/ ~Exists(V.claim)
           ours == pvc[V.claim].uid = V.uid
       IN /\ pvc' = IF ~absent /\ ours THEN [pvc EXCEPT ![V.claim].session = FALSE] ELSE pvc
          /\ IF absent \/ ours THEN Step("finalizeVolume") ELSE Stop
    /\ UNCHANGED <<pv, lastUID, pod, attached, pods, intrusions>> /\ Writes

finalizeActivePV ==
    /\ job.pc = "finalizeVolume"
    /\ LET ok == validateFinalizablePV(V)
       IN /\ pv' = IF Live(V.pv) /\ ok
                   THEN [pv EXCEPT ![V.pv] = [@ EXCEPT !.session = FALSE, !.role = "none",
                                                 !.original = "none", !.policy = V.policy]]
                   ELSE pv
          /\ IF ~Live(V.pv) \/ ok THEN NextVolume ELSE Stop
    /\ UNCHANGED <<pvc, lastUID, pod, attached, pods, intrusions>> /\ Writes

\* The record goes last.
DeleteSession ==
    /\ job.pc = "reclaim" /\ job.volumes = <<>>
    /\ record' = IF job.forget THEN "gone" ELSE record
    /\ Stop
    /\ UNCHANGED <<vars, cleanups, removals, removed>>

-----------------------------------------------------------------------------
(* The other passes, users and faults *)

\* A deleted migration that is in the middle of its cutover is run to its end.
deletionRequiresConvergence == phase \in {"Activating", "Activated", "RollingBack"}

\* run, resume and rollback of VolumeCutover under the Lease.
Run ==
    /\ Locked
    /\ record = "here" \/ (record = "deleting" /\ deletionRequiresConvergence)
    /\ phase \notin {"Aborting", "Aborted"}
    /\ \/ StartActivate
       \/ Complete
       \/ record = "here" /\ StartRollback
    /\ UNCHANGED cleanupVars

\* Mutant: the deletion pass insists on the objects like any other.
NotTolerated(l, u, v) == VerifyIdentity(l, u, v)

\* The deletion pass accepts objects that are gone (deletionTolerantRead) and
\* an activated claim that is going.  Before the migration has ended only a
\* rollback meets them.
Tolerated(l, u, v) ==
    Exists(l) =>
        /\ pvc[l].uid = u /\ pvc[l].bound /\ pvc[l].volume = v
        /\ u = SourceUID \/ pvc[l].session
        /\ Live(v) => pv[v].claim = l /\ pv[v].claimUID = u

RestoredOrGone == Tolerated(SourceClaim, status.activePVC, SourcePV)

ConvergeRollback ==
    /\ Locked /\ record = "deleting" /\ phase = "RollingBack"
    /\ IF status.rolledBackAt THEN RestoredOrGone
       ELSE \/ ValidateRollback
            \/ /\ Exists(SourceClaim) /\ pvc[SourceClaim].volume # SourcePV
               /\ status.activePVC # 0
               /\ Tolerated(ActiveClaim, status.activePVC, DestinationPV)
    /\ Transition("RollingBack")
    /\ pc' = IF status.rolledBackAt THEN "restoreFinish" ELSE "retireActive"
    /\ job' = [NoJob EXCEPT !.pc = "converge"]
    /\ UNCHANGED <<current, at, record, cleanups, removals, removed>>

\* A step of a cutover pass, under the rules of the pass.
CutoverStep ==
    /\ IF job.pc = "converge" /\ pc = "restoreFinish" /\ RestoredOrGone
       THEN Transition("RolledBack") /\ EndPass
       ELSE ActivateStep \/ RollbackStep
    /\ job' = IF pc' = "idle" THEN NoJob ELSE job
    /\ UNCHANGED <<record, cleanups, removals, removed>>

CleanupStep ==
    \/ prepareCleanup \/ reclaimStorageVolume \/ deleteManagedPVC \/ waitForPVRelease
    \/ restoreReclaimedPVPolicy \/ deleteReclaimedPV \/ FinalizePVC \/ finalizeActivePV
    \/ DeleteSession \/ Aborted

CutoverDies ==
    Crash /\ job' = NoJob /\ UNCHANGED <<record, cleanups, removals, removed>>

CleanupDies ==
    /\ job.pc \notin {"idle", "converge"} /\ crashes < MaxCrashes
    /\ crashes' = crashes + 1
    /\ Stop
    /\ UNCHANGED <<storageVars, passVars, restores, record, cleanups, removals, removed>>

UserDeletesRecord ==
    /\ record = "here"
    /\ record' = "deleting"
    /\ UNCHANGED <<vars, job, cleanups, removals, removed>>

\* Once the migration has ended, somebody deletes the application's claim.
UserDeletesClaim(l) ==
    /\ removals < MaxRemovals /\ phase \in Finished
    /\ Exists(l) /\ ~pvc[l].deleting /\ pvc[l].volume \in Volumes
    /\ pvc' = [pvc EXCEPT ![l].deleting = TRUE]
    /\ removals' = removals + 1
    /\ removed' = IF job.pc # "idle" \/ ~pvc[l].session THEN "late"
                  ELSE IF pv[pvc[l].volume].policy = "Retain" THEN "retained" ELSE "loose"
    /\ UNCHANGED <<pv, lastUID, pod, attached, pods, intrusions, passVars, crashes, restores,
                   record, job, cleanups>>

MigrationInit ==
    /\ Init
    /\ record = "here" /\ job = NoJob /\ cleanups = 0 /\ removals = 0 /\ removed = "no"

MigrationNext ==
    \/ Run \/ ConvergeRollback \/ CutoverStep \/ CutoverDies
    \/ (RestorePolicy \/ Environment) /\ UNCHANGED cleanupVars
    \/ Abort \/ FinalizeDeleted \/ CleanupStep \/ CleanupDies \/ UserDeletesRecord
    \/ \E d, f, g \in BOOLEAN : Cleanup(d, f, g)
    \/ \E l \in {SourceClaim, ActiveClaim} : UserDeletesClaim(l)

MigrationSpec == MigrationInit /\ [][MigrationNext]_allVars

\* A process that works goes on, the cluster's controllers work, a migration
\* that is not at its end is run again, and a deleted one is reconciled until
\* its finalizer goes.
MigrationFairness ==
    LET Others == UNCHANGED <<passVars, crashes, restores, cleanupVars>>
    IN /\ WF_allVars(CutoverStep)
       /\ WF_allVars(deletionRequiresConvergence /\ (Run \/ ConvergeRollback))
       /\ WF_allVars(CleanupStep)
       /\ WF_allVars(record = "deleting" /\ (Abort \/ FinalizeDeleted))
       /\ WF_allVars(Controllers /\ Others)

MigrationFairSpec == MigrationSpec /\ MigrationFairness

-----------------------------------------------------------------------------
(* Properties *)

InUse == IF phase = "Completed" THEN DestinationPV ELSE SourcePV

\* The copy that serves the application is never deleted, by a cutover, a
\* rollback, a cleanup, the deletion of the workflow or any sequence of them;
\* while the migration is on its way back one copy is there.  When somebody
\* else has deleted the claim in use before a cleanup began, its volume stays
\* if it was retained.
InUseKept ==
    /\ removed = "no" /\ phase # "RollingBack" => Live(InUse)
    /\ phase = "RollingBack" /\ restores = 0 => Live(SourcePV) \/ Live(DestinationPV)
    /\ removed = "retained" /\ restores = 0 => Live(InUse)

\* When the record is gone, nothing in the cluster refers to it any more: no
\* volume and no claim that stays carries its marks, and the volume in use of
\* a completed migration has its own reclaim policy again.
NothingLeft ==
    record = "gone" =>
        /\ \A v \in Volumes : Live(v) => ~pv[v].session /\ pv[v].original = "none"
        /\ \A l \in Claims : Exists(l) /\ pvc[l].session => pvc[l].deleting
        /\ phase = "Completed" /\ removed = "no" =>
              pv[DestinationPV].policy = InitialPolicy[DestinationPV]

\* What the record says of a finished stage is what the cluster shows, also
\* after cleanups: which volume serves the claim, and which role each volume
\* carries as long as it is marked.
StillServed ==
    /\ removed = "no" =>
         /\ status.activatedAt /\ phase \in {"Activating", "Activated", "Completed"} =>
              /\ VerifyIdentity(ActiveClaim, status.activePVC, DestinationPV)
              /\ ~pvc[ActiveClaim].deleting
         /\ phase = "Aborted" => VerifyIdentity(SourceClaim, SourceUID, SourcePV)
    /\ \A v \in {SourcePV, DestinationPV} :
         phase \in {"Activated", "Completed", "RolledBack"} /\ Live(v) /\ pv[v].session =>
            pv[v].role = (IF (v = SourcePV) = (phase = "RolledBack")
                          THEN "active" ELSE "rollback")

\* What the record says, and what its absence says, is what the cluster shows.
RecordTrue == StillServed /\ NothingLeft

\* A cleanup that kept the copy out of use has given it up.
UnusedGivenUp ==
    \/ \E v \in {SourcePV, DestinationPV} : v # InUse /\ Live(v) /\ ~pv[v].session
    \/ Exists(TemporaryClaim) /\ ~pvc[TemporaryClaim].session

\* A rollback marks the source anew that a cleanup had given up.
OriginalLost ==
    \/ pv[SourcePV].original \notin {"none", InitialPolicy[SourcePV]}
    \/ /\ phase = "RolledBack" /\ ~pv[SourcePV].session
       /\ pv[SourcePV].policy # InitialPolicy[SourcePV]

\* A cutover that started gets through in the direction it was sent, and a
\* deleted migration comes to its end and its record goes, whatever its phase
\* and however many passes die.  Not so when a foreign claim took the name, the
\* provisioner undid the retention, or somebody deleted a claim; when the plan
\* says to delete a copy that an earlier cleanup kept and gave up; when a
\* rollback follows an activation that is not recorded (RollbackFinishes) or a
\* cleanup (RollbackHasSource), which may also cost the source its policy.
MigrationFinishes ==
    (record = "deleting" \/ deletionRequiresConvergence) ~>
        \/ record # "deleting" /\ phase \in Finished
        \/ intrusions > 0 \/ removals > 0 \/ restores > 0
        \/ DeletesUnused /\ UnusedGivenUp
        \/ /\ phase = "RollingBack"
           /\ \/ cleanups > 0
              \/ ~(status.activatedAt \/ (status.rolledBackAt /\ record = "deleting"))
        \/ OriginalLost

\* A rollback of a completed migration starts only while there is a source
\* volume to go back to.
RollbackHasSource ==
    [][phase = "Completed" /\ phase' = "RollingBack" => Live(SourcePV)]_allVars

\* The staged copy of an aborted migration is deleted only while the source
\* claim is the one that was migrated.
StagedCopyKept ==
    [][phase = "Aborted" /\ Live(DestinationPV) /\ ~Live(DestinationPV)'
         => removed = "late" \/ pvc[SourceClaim].uid = SourceUID]_allVars

=============================================================================
