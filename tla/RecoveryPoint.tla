---------------------------- MODULE RecoveryPoint ----------------------------
(***************************************************************************)
(* Backups into a recovery point and restores from it, under users,        *)
(* crashes, lost answers and time.                                         *)
(***************************************************************************)
EXTENDS RestoreWorkflow

CONSTANT Scenarios   \* which workflows exist, and what may happen to them

\* Published recovery points exist before a restore is asked for, one at each location.
Publisher == CHOOSE f \in [Location -> Backup] : \A l, m \in Location : l # m => f[l] # f[m]
PublishedAt(l) == [by |-> Publisher[l], inventory |-> [k \in Keys |-> <<Publisher[l], 0>>]]

Init ==
    /\ lock = [l \in Location |-> NoLock]
    /\ etag = [l \in Location |-> {}]
    /\ run = [b \in Backup |-> Idle(0)]
    /\ tool = [a \in Attempt |-> NoTool]
    /\ shared = [b \in Backup |-> FALSE]
    /\ repo = [b \in Backup |-> 1]
    /\ stray = {}
    /\ rrun = [r \in Restore |-> RIdle(0)]
    /\ rtool = [a \in RAttempt |-> NoRTool]
    /\ \E s \in Scenarios :
         /\ left = [users |-> s.users, blips |-> s.blips, crashes |-> s.crashes,
                    edits |-> s.edits, outside |-> s.outside, claims |-> MaxClaims]
         /\ rec = [b \in Backup |-> [NewRecord EXCEPT !.here = b \in s.backups]]
         /\ online \in [Backup -> s.online]
         /\ IF s.restores = {}
            THEN /\ manifest = [l \in Location |-> None]
                 /\ objects = [l \in Location |-> Empty]
            ELSE /\ manifest = [l \in Location |-> PublishedAt(l)]
                 /\ objects = [l \in Location |-> PublishedAt(l).inventory]
         /\ \E create, delete \in BOOLEAN :
              /\ delete => create
              /\ rrec = [r \in Restore |-> [NewRestore(create, delete) EXCEPT !.here = r \in s.restores]]
              /\ IF create
                 THEN claim = NoClaim
                 ELSE claim = [NoClaim EXCEPT !.uid = MaxClaims + 1, !.bound = TRUE]
         /\ rrepo \in {f \in [Restore -> Location] :
                         \A r, q \in s.restores : r # q => f[r] # f[q]}
    /\ \A r \in Restore : ~rrec[r].here => rrepo[r] = 1

BackupPass(b) ==
    \/ PinRepository(b) \/ runTransfer(b) \/ startCopying(b) \/ prepareBackupSharedMounts(b)
    \/ EnableShared(b) \/ sourcePrepared(b) \/ AcquireLock(b) \/ verifyLock(b) \/ inspectLock(b)
    \/ replaceLock(b) \/ renewObjectStoreLock(b) \/ renewalPut(b) \/ recheckManifest(b)
    \/ launchTool(b) \/ toolReturns(b)
    \/ renewNow(b, "renew1", "put1") \/ renewNowPut(b, "put1", "inventory")
    \/ takeInventory(b)
    \/ renewNow(b, "renew2", "put2") \/ renewNowPut(b, "put2", "publish")
    \/ publish(b) \/ stopRenewal(b) \/ finalizeBackupOperation(b) \/ releaseLock(b)
    \/ complete(b) \/ compensate(b) \/ RestoreSharedMounts(b) \/ forgetMount(b) \/ conclude(b)

Finalizing(b) == abort(b) \/ FinalizeDeleted(b)

BackupNext ==
    \/ \E b \in Backup : \/ Run(b) \/ BackupPass(b) \/ Finalizing(b) \/ CancelActive(b)
                         \/ RequestResume(b) \/ RequestAbort(b) \/ DeleteRecord(b)
                         \/ EditRepository(b) \/ Crash(b)
    \/ \E a \in Attempt : ToolCopies(a) \/ ToolEnds(a) \/ RemoveOrphan(a)

RestorePass(r) ==
    \/ pinRestoreRepository(r) \/ readRestoreManifest(r) \/ startRestore(r)
    \/ createRestorePVC(r) \/ checkpointPVC(r) \/ bindRestorePVC(r)
    \/ validateDestinationAgain(r) \/ checkpointBoundDestination(r) \/ acquireRestoreLock(r)
    \/ renewRestoreLock(r) \/ recheckDestination(r) \/ launchRestoreTool(r)
    \/ restoreToolReturns(r) \/ verifyTransfer(r) \/ finishTransfer(r)
    \/ uninstallRestoreTool(r) \/ unlockClaim(r) \/ transferCompleted(r)
    \/ completeRestore(r) \/ recordRestoreFailure(r)
    \/ pinCreated(r) \/ disposeCreated(r) \/ forgetRestore(r)

FinalizingRestore(r) == abortRestore(r) \/ FinalizeDeletedRestore(r)

RestoreNext ==
    \/ \E r \in Restore : \/ RunRestore(r) \/ RestorePass(r) \/ FinalizingRestore(r)
                          \/ UserOnRestore(r) \/ CancelActiveRestore(r) \/ CrashRestore(r)
    \/ \E a \in RAttempt : \/ RestoreToolCopies(a) \/ RestoreToolEnds(a)
                           \/ RemoveRestoreOrphan(a)
    \/ Outsider \/ ClaimRemoved

Next == \/ BackupNext /\ UNCHANGED restoreSide
        \/ RestoreNext
        \/ Tick

Passes == \/ \E b \in Backup : BackupPass(b) /\ UNCHANGED restoreSide
          \/ \E r \in Restore : RestorePass(r)
Cancellations == \/ \E b \in Backup : CancelActive(b) /\ UNCHANGED restoreSide
                 \/ \E r \in Restore : CancelActiveRestore(r)
Deletions == \/ \E b \in Backup : Finalizing(b) /\ UNCHANGED restoreSide
             \/ \E r \in Restore : FinalizingRestore(r)

\* Workers that hold their Lease go on, a cancelled context is noticed, and the controller
\* tries a deletion again and again.
Fairness == WF_vars(Passes) /\ WF_vars(Cancellations) /\ SF_vars(Deletions)

Spec == Init /\ [][Next]_vars /\ Fairness

-----------------------------------------------------------------------------
(* Properties *)

\* A tool left behind spoils a recovery point unless it writes what is there anyway: the
\* objects of an offline backup by the same backup.
Harmless(a, l) == ~online[a[1]] /\ manifest[l].by = a[1]

\* A published recovery point is one attempt's whole copy of its source, and stays so, as
\* long as no process died or gave up with its tool still running: the S3 lock, its
\* renewal, the abort at half the TTL and the order tool, inventory, manifest see to it.
PublishedWhole ==
    \A l \in Location :
        /\ manifest[l] # None
        /\ \A a \in stray : Harmless(a, l)
        => /\ VerifyInventory(l)
           /\ \E n \in 1..MaxAttempts : \A k \in Keys :
                manifest[l].inventory[k] = Data(<<manifest[l].by, n>>)

\* A backup is completed only by its own published manifest, in the repository it pinned.
CompletedPublished ==
    \A b \in Backup : rec[b].here /\ rec[b].phase = "Completed" =>
        manifest[rec[b].repo] # None /\ manifest[rec[b].repo].by = b

\* Shared mode is on while a tool mounts a volume in use, and off again when the backup is
\* over: it is recorded before it is enabled and forgotten after it is taken back.
SharedWhileUsed ==
    \A b \in Backup :
        /\ online[b] /\ Consumers(b) # {} => shared[b]
        /\ shared[b] => rec[b].here /\ rec[b].mount /\ rec[b].phase \notin Settled

\* A restore that gives up its lock without an error leaves the claim it recorded with
\* exactly what the manifest lists, whatever other restores, orphaned tools or writers of
\* the bucket did meanwhile.
RestoredFaithful ==
    \A r \in Restore :
        rrun[r].pc = "unlock" /\ ~rrun[r].err /\ claim.uid = rrec[r].pvc =>
            claim.data = rrun[r].manifest

\* No claim carries the marks of a restore whose record is gone, be it that the claim was
\* created and never recorded; one that is being deleted goes with them.
CreatedGivenUp == claim.owner # None /\ ~claim.deleting => rrec[claim.owner].here

\* A deleted workflow goes away unless somebody has to remove a tool left behind, or a
\* claim of somebody else has the name the restore would have created.
Stuck(r) == ~rtoolsStopped \/ createdDestination(r) = "conflict"
Deleting == \/ \E b \in Backup : rec[b].deleting /\ toolsStopped(b)
            \/ \E r \in Restore : rrec[r].deleting /\ ~Stuck(r)
DeletionFinishes == Deleting ~> ~Deleting

\* Who is told that a recovery point exists finds it whole.
Published == PublishedWhole /\ CompletedPublished

\* A restore leaves a claim with the recovery point in it, or no claim of its own.
Restored == RestoredFaithful /\ CreatedGivenUp

=============================================================================
