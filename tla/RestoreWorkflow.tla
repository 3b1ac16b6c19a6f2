--------------------------- MODULE RestoreWorkflow ---------------------------
(***************************************************************************)
(* Restores of recovery points into one claim (internal/backup): the       *)
(* executor and its checkpoints (restore_executor.go,                      *)
(* restore_validation.go, restore_destination.go), one transfer attempt    *)
(* under the lock annotation of the claim (restore.go,                     *)
(* restore_transfer.go), abort, cleanup and deletion                       *)
(* (restore_lifecycle.go).                                                 *)
(*                                                                         *)
(* Two restores read two recovery points and write to the same claim name. *)
(* A claim and the volume it is bound to are one object: a claim that is   *)
(* created again has another uid and another, empty volume.                *)
(***************************************************************************)
EXTENDS BackupWorkflow

CONSTANTS Restore, MaxClaims

VARIABLES rrec,     \* per restore: the stored record
          rrun,     \* per restore: the worker
          rtool,    \* per attempt of a restore: its rclone Job
          claim,    \* the destination claim
          rrepo     \* per restore: the location its repository resource names

restoreSide == <<rrec, rrun, rtool, claim, rrepo>>
vars == <<objectStore, backupSide, left, restoreSide>>

RAttempt == Restore \X (1..MaxAttempts)
Empty == [k \in Keys |-> None]
NoClaim == [uid |-> 0, bound |-> FALSE, owner |-> None, deleting |-> FALSE,
            holder |-> None, ttl |-> 0, data |-> Empty]

\* create is plan.CreatePVC, delete the policy for unused storage; pvc and pv are the
\* recorded identities.
NewRestore(create, delete) ==
    [here |-> TRUE, phase |-> "Planned", failed |-> FALSE, repo |-> None, pvc |-> 0, pv |-> 0,
     create |-> create, delete |-> delete, abort |-> FALSE, deleting |-> FALSE]

RIdle(n) == [pc |-> "idle", n |-> n, at |-> None, err |-> FALSE, quiet |-> FALSE, since |-> 0,
             tried |-> FALSE, launched |-> FALSE, manifest |-> None, uid |-> 0]

RMe(r) == <<r, rrun[r].n>>

\* Jobs and Pods of any restore that use the claim.
ClaimTools == {a \in RAttempt : rtool[a].state # "none" /\ rtool[a].uid = claim.uid}
rtoolsStopped == ClaimTools = {}
ClaimConsumers == {a \in ClaimTools : rtool[a].state = "running"}

RLocked == {"locked", "launch", "copy", "verify"}
RHolds(r) == rrun[r].pc \in RLocked

RGoto(r, pc) == rrun' = [rrun EXCEPT ![r].pc = pc]
RFailing(x) == [x EXCEPT !.err = TRUE, !.pc = IF x.pc \in RLocked THEN "finish" ELSE "conclude"]
RFail(r) == rrun' = [rrun EXCEPT ![r] = RFailing(@)]

-----------------------------------------------------------------------------
(* The executor *)

\* A record with a volume has a claim; a transferred restore has recorded both.
validateRestoreCheckpoints(r) ==
    /\ rrec[r].pv # 0 => rrec[r].pvc # 0
    /\ rrec[r].phase \in {"WarmCopied", "Completed"} => rrec[r].pv # 0

\* run: a transferred restore only has to be completed.
RunRestore(r) ==
    /\ rrun[r].pc = "idle" /\ rrun[r].n < MaxAttempts
    /\ rrec[r].here /\ ~rrec[r].deleting /\ ~rrec[r].abort /\ ~rrec[r].failed
    /\ rrec[r].phase \notin Settled \cup {"Aborting"} /\ validateRestoreCheckpoints(r)
    /\ rrun' = [rrun EXCEPT ![r] = [RIdle(@.n) EXCEPT
                  !.pc = IF rrec[r].phase = "WarmCopied" THEN "complete" ELSE "pin"]]
    /\ UNCHANGED <<objectStore, backupSide, left, rrec, rtool, claim, rrepo>>

pinRestoreRepository(r) ==
    /\ rrun[r].pc = "pin"
    /\ IF validateRepositoryMatch(rrepo[r], rrec[r].repo)
       THEN /\ rrec' = [rrec EXCEPT ![r].repo = rrepo[r]]
            /\ rrun' = [rrun EXCEPT ![r].at = rrepo[r], ![r].pc = "manifest"]
       ELSE RFail(r) /\ UNCHANGED rrec
    /\ UNCHANGED <<objectStore, backupSide, left, rtool, claim, rrepo>>

\* readRestoreManifest: published, and every object as listed.
readRestoreManifest(r) ==
    /\ rrun[r].pc = "manifest"
    /\ LET l == rrun[r].at IN
       IF manifest[l] # None /\ VerifyInventory(l)
       THEN rrun' = [rrun EXCEPT ![r].manifest = manifest[l].inventory, ![r].pc = "destination"]
       ELSE RFail(r)
    /\ UNCHANGED <<objectStore, backupSide, left, rrec, rtool, claim, rrepo>>

\* validateRestoreCreatedPVC: a claim under the name must carry this restore's marks.
validateRestoreCreatedPVC(r) == claim.owner = r /\ ~claim.deleting

\* Claim and volume are bound to each other.
validateInspectedPV == claim.bound

\* inspectRestorePVC without AllowMounted: bound, and no active Pod uses it.
inspectRestorePVC == claim.uid # 0 /\ validateInspectedPV /\ ClaimConsumers = {}

\* The claim is the expected one, bound to the expected volume.
verifyPVCIdentity(pvc, pv) ==
    pvc # 0 /\ pv # 0 /\ claim.uid = pvc /\ claim.uid = pv /\ claim.bound

validateBoundDestination(r) == inspectRestorePVC /\ rrec[r].pv \in {0, claim.uid}

\* validateDestination: where the pass goes on, or "fail".
validateDestination(r) ==
    IF claim.uid = 0
    THEN IF rrec[r].pvc # 0 \/ ~rrec[r].create THEN "fail" ELSE "create"
    ELSE IF \/ claim.deleting
            \/ rrec[r].pvc \notin {0, claim.uid}
            \/ rrec[r].create /\ ~validateRestoreCreatedPVC(r)
    THEN "fail"
    ELSE IF rrec[r].create /\ ~claim.bound /\ rrec[r].pv = 0 THEN "create"
    ELSE IF validateBoundDestination(r) THEN "bound" ELSE "fail"

startRestore(r) ==
    /\ rrun[r].pc = "destination"
    /\ IF validateDestination(r) = "fail"
       THEN RFail(r) /\ UNCHANGED rrec
       ELSE /\ rrec' = [rrec EXCEPT ![r].phase = "WarmCopying"]
            /\ rrun' = [rrun EXCEPT ![r].pc = validateDestination(r), ![r].uid = claim.uid]
    /\ UNCHANGED <<objectStore, backupSide, left, rtool, claim, rrepo>>

NewClaim(r) == [NoClaim EXCEPT !.uid = MaxClaims - left.claims + 1, !.owner = r]

\* createRestorePVC: adopt an own claim or create it; the answer may be lost.
createRestorePVC(r) ==
    /\ rrun[r].pc = "create"
    /\ \/ /\ claim.uid # 0
          /\ IF rrec[r].pvc \in {0, claim.uid} /\ validateRestoreCreatedPVC(r)
             THEN rrun' = [rrun EXCEPT ![r].uid = claim.uid, ![r].pc = "checkpoint"]
             ELSE RFail(r)
          /\ UNCHANGED <<claim, left>>
       \/ claim.uid = 0 /\ rrec[r].pvc # 0 /\ RFail(r) /\ UNCHANGED <<claim, left>>
       \/ /\ claim.uid = 0 /\ rrec[r].pvc = 0 /\ left.claims > 0
          /\ claim' = NewClaim(r)
          /\ \/ /\ left' = [left EXCEPT !.claims = @ - 1]
                /\ rrun' = [rrun EXCEPT ![r].uid = claim'.uid, ![r].pc = "checkpoint"]
             \/ /\ left.blips > 0
                /\ left' = [left EXCEPT !.claims = @ - 1, !.blips = @ - 1]
                /\ RFail(r)
    /\ UNCHANGED <<objectStore, backupSide, rrec, rtool, rrepo>>

checkpointPVC(r) ==
    /\ rrun[r].pc = "checkpoint"
    /\ rrec' = [rrec EXCEPT ![r].pvc = rrun[r].uid]
    /\ RGoto(r, "bind")
    /\ UNCHANGED <<objectStore, backupSide, left, rtool, claim, rrepo>>

\* waitForRestorePVCBound waits on the claim it created, unless that is being deleted.
waitForRestorePVCBound(r) == claim.uid = rrun[r].uid /\ ~claim.deleting

\* bindRestorePVC: a probe Pod makes the claim bind.
bindRestorePVC(r) ==
    /\ rrun[r].pc = "bind"
    /\ IF waitForRestorePVCBound(r)
       THEN claim' = [claim EXCEPT !.bound = TRUE] /\ RGoto(r, "rebound")
       ELSE RFail(r) /\ UNCHANGED claim
    /\ UNCHANGED <<objectStore, backupSide, left, rrec, rtool, rrepo>>

validateDestinationAgain(r) ==
    /\ rrun[r].pc = "rebound"
    /\ IF validateDestination(r) = "bound" THEN RGoto(r, "bound") ELSE RFail(r)
    /\ UNCHANGED <<objectStore, backupSide, left, rrec, rtool, claim, rrepo>>

\* What was recorded before may not change ...
validateRestoreDestinationIdentity(r) ==
    rrec[r].pvc \in {0, rrun[r].uid} /\ rrec[r].pv \in {0, rrun[r].uid}

\* ... and what is recorded is what the cluster has.
checkpointRestoreDestinationIdentity(r) ==
    /\ validateRestoreDestinationIdentity(r) /\ verifyPVCIdentity(rrun[r].uid, rrun[r].uid)
    /\ rrec' = [rrec EXCEPT ![r].pvc = claim.uid, ![r].pv = claim.uid]

\* checkpointBoundDestination: claim and volume are recorded before anything is written.
checkpointBoundDestination(r) ==
    /\ rrun[r].pc = "bound"
    /\ \/ /\ checkpointRestoreDestinationIdentity(r)
          /\ rrun' = [rrun EXCEPT ![r].n = @ + 1, ![r].pc = "lock"]
       \/ /\ ~(/\ validateRestoreDestinationIdentity(r)
               /\ verifyPVCIdentity(rrun[r].uid, rrun[r].uid))
          /\ RFail(r) /\ UNCHANGED rrec
    /\ UNCHANGED <<objectStore, backupSide, left, rtool, claim, rrepo>>

-----------------------------------------------------------------------------
(* The transfer under the claim's lock annotation *)

\* Free, or expired; on the recorded claim.
restoreLockFree(r) == claim.uid = rrec[r].pvc /\ (claim.holder = None \/ claim.ttl = 0)

acquireRestoreLock(r) ==
    /\ rrun[r].pc = "lock"
    /\ IF restoreLockFree(r)
       THEN /\ claim' = [claim EXCEPT !.holder = RMe(r), !.ttl = TTL]
            /\ rrun' = [rrun EXCEPT ![r].pc = "locked", ![r].tried = TRUE]
       ELSE RFail(r) /\ UNCHANGED claim
    /\ UNCHANGED <<objectStore, backupSide, left, rrec, rtool, rrepo>>

\* renewRestoreLockOnce, and what the goroutine does about a failure.
renewRestoreLock(r) ==
    /\ RHolds(r) /\ ~rrun[r].tried
    /\ \/ /\ claim.uid = rrec[r].pvc /\ claim.holder = RMe(r)
          /\ claim' = [claim EXCEPT !.ttl = TTL]
          /\ rrun' = [rrun EXCEPT ![r].since = 0, ![r].tried = TRUE]
       \/ /\ ~(claim.uid = rrec[r].pvc /\ claim.holder = RMe(r))
          /\ RFail(r) /\ UNCHANGED claim
       \/ /\ rrun' = [rrun EXCEPT ![r] = IF @.since > TTL \div 2 THEN RFailing(@)
                                         ELSE [@ EXCEPT !.tried = TRUE]]
          /\ UNCHANGED claim
    /\ UNCHANGED <<objectStore, backupSide, left, rrec, rtool, rrepo>>

\* Identity, consumers and the inventory are checked again under the lock.
recheckDestination(r) ==
    /\ rrun[r].pc = "locked"
    /\ IF /\ claim.uid = rrec[r].pvc /\ inspectRestorePVC
          /\ Inventory(rrun[r].at) = rrun[r].manifest
       THEN RGoto(r, "launch") ELSE RFail(r)
    /\ UNCHANGED <<objectStore, backupSide, left, rrec, rtool, claim, rrepo>>

\* validateRestoreToolLaunch
validateRestoreToolLaunch(r) == claim.uid = rrec[r].pvc /\ inspectRestorePVC

launchRestoreTool(r) ==
    /\ rrun[r].pc = "launch"
    /\ IF validateRestoreToolLaunch(r)
       THEN /\ rtool' = [rtool EXCEPT ![RMe(r)] =
                           [state |-> "running", files |-> 0, at |-> rrun[r].at, uid |-> claim.uid]]
            /\ rrun' = [rrun EXCEPT ![r].launched = TRUE, ![r].pc = "copy"]
       ELSE RFail(r) /\ UNCHANGED rtool
    /\ UNCHANGED <<objectStore, backupSide, left, rrec, claim, rrepo>>

\* The Job copies on its own.
RestoreToolCopies(a) ==
    /\ rtool[a].state = "running" /\ rtool[a].files < 2
    /\ LET k == rtool[a].files + 1 IN
       claim' = IF claim.uid = rtool[a].uid
                THEN [claim EXCEPT !.data[k] = objects[rtool[a].at][k]] ELSE claim
    /\ rtool' = [rtool EXCEPT ![a].files = @ + 1]
    /\ UNCHANGED <<objectStore, backupSide, left, rrec, rrun, rrepo>>

RestoreToolEnds(a) ==
    /\ rtool[a].state = "running" /\ rtool[a].files = 2
    /\ rtool' = [rtool EXCEPT ![a].state = "ended"]
    /\ UNCHANGED <<objectStore, backupSide, left, rrec, rrun, claim, rrepo>>

NoRTool == [state |-> "none", files |-> 0, at |-> None, uid |-> 0]

restoreToolReturns(r) ==
    /\ rrun[r].pc = "copy"
    /\ \/ /\ rtool[RMe(r)].state = "ended"
          /\ rtool' = [rtool EXCEPT ![RMe(r)] = NoRTool]
          /\ RGoto(r, "verify") /\ Calm
       \/ Blip /\ RFail(r) /\ UNCHANGED rtool
    /\ UNCHANGED <<objectStore, backupSide, rrec, claim, rrepo>>

\* Mutant: what was copied is not compared with the manifest again.
verifyTransferUnread(r) ==
    /\ rrun[r].pc = "verify"
    /\ IF claim.uid = rrec[r].pvc THEN RGoto(r, "finish") ELSE RFail(r)
    /\ UNCHANGED <<objectStore, backupSide, left, rrec, rtool, claim, rrepo>>

\* The objects must still be those of the manifest when the copy has ended.
verifyTransfer(r) ==
    /\ rrun[r].pc = "verify"
    /\ IF claim.uid = rrec[r].pvc /\ Inventory(rrun[r].at) = rrun[r].manifest
       THEN RGoto(r, "finish") ELSE RFail(r)
    /\ UNCHANGED <<objectStore, backupSide, left, rrec, rtool, claim, rrepo>>

finishTransfer(r) ==
    /\ rrun[r].pc = "finish"
    /\ rrun' = [rrun EXCEPT ![r].since = 0, ![r].tried = FALSE,
                            ![r].pc = IF rrun[r].err /\ rrun[r].launched THEN "uninstall"
                                      ELSE "unlock"]
    /\ UNCHANGED <<objectStore, backupSide, left, rrec, rtool, claim, rrepo>>

uninstallRestoreTool(r) ==
    /\ rrun[r].pc = "uninstall"
    /\ \/ rtool' = [rtool EXCEPT ![RMe(r)] = NoRTool] /\ RGoto(r, "unlock") /\ Calm
       \/ Blip /\ RGoto(r, "conclude") /\ UNCHANGED rtool
    /\ UNCHANGED <<objectStore, backupSide, rrec, claim, rrepo>>

\* unlock: only the recorded claim and only the own holder.  An error, of a release that
\* may have happened, is the result of the transfer.
unlockClaim(r) ==
    LET Released == IF claim.uid = rrec[r].pvc /\ claim.holder = RMe(r)
                    THEN [claim EXCEPT !.holder = None, !.ttl = 0] ELSE claim
    IN
    /\ rrun[r].pc = "unlock"
    /\ \/ /\ claim' = Released /\ Calm
          /\ RGoto(r, IF rrun[r].err THEN "conclude" ELSE "transferred")
       \/ /\ Blip /\ claim' \in {claim, Released}
          /\ rrun' = [rrun EXCEPT ![r].err = TRUE, ![r].pc = "conclude"]
    /\ UNCHANGED <<objectStore, backupSide, rrec, rtool, rrepo>>

transferCompleted(r) ==
    /\ rrun[r].pc = "transferred"
    /\ rrec' = [rrec EXCEPT ![r].phase = "WarmCopied"]
    /\ RGoto(r, "complete")
    /\ UNCHANGED <<objectStore, backupSide, left, rtool, claim, rrepo>>

\* Tools gone, claim and volume as recorded and here to stay.
validateTransferredDestination(r) ==
    rtoolsStopped /\ verifyPVCIdentity(rrec[r].pvc, rrec[r].pv) /\ ~claim.deleting

completeRestore(r) ==
    /\ rrun[r].pc = "complete"
    /\ IF validateTransferredDestination(r)
       THEN /\ rrec' = [rrec EXCEPT ![r].phase = "Completed"]
            /\ rrun' = [rrun EXCEPT ![r] = RIdle(@.n)]
       ELSE RFail(r) /\ UNCHANGED rrec
    /\ UNCHANGED <<objectStore, backupSide, left, rtool, claim, rrepo>>

recordRestoreFailure(r) ==
    /\ rrun[r].pc = "conclude"
    /\ rrec' = [rrec EXCEPT ![r].failed = ~rrun[r].quiet]
    /\ rrun' = [rrun EXCEPT ![r] = RIdle(@.n)]
    /\ UNCHANGED <<objectStore, backupSide, left, rtool, claim, rrepo>>

-----------------------------------------------------------------------------
(* Abort, cleanup and deletion *)

\* abort: the destination keeps its data.
abortRestore(r) ==
    /\ rrun[r].pc = "idle" /\ rrec[r].here
    /\ rrec[r].abort \/ rrec[r].deleting \/ rrec[r].phase = "Aborting"
    /\ rrec[r].phase \notin Settled /\ rtoolsStopped
    /\ rrec' = [rrec EXCEPT ![r].failed = FALSE,
                            ![r].phase = IF @ = "Aborting" THEN "Aborted" ELSE "Aborting"]
    /\ UNCHANGED <<objectStore, backupSide, left, rrun, rtool, claim, rrepo>>

\* FinalizeDeleted of a settled restore: cleanup starts when no tool is left.
FinalizeDeletedRestore(r) ==
    /\ rrun[r].pc = "idle" /\ rrec[r].here /\ rrec[r].deleting
    /\ rrec[r].phase \in Settled /\ rtoolsStopped
    /\ rrun' = [rrun EXCEPT ![r] = [RIdle(@.n) EXCEPT !.pc = "created"]]
    /\ UNCHANGED <<objectStore, backupSide, left, rrec, rtool, claim, rrepo>>

\* createdDestination: the claim this restore created, recorded or not.
createdDestination(r) ==
    IF ~rrec[r].create \/ claim.uid = 0 THEN "none"
    ELSE IF rrec[r].pvc # 0
    THEN IF claim.uid = rrec[r].pvc /\ claim.owner \in {r, None} THEN "mine" ELSE "conflict"
    ELSE IF claim.owner = r THEN "mine" ELSE "conflict"

\* An unrecorded creation is recorded before its marks go; a conflict ends the pass.
pinCreated(r) ==
    /\ rrun[r].pc = "created"
    /\ CASE createdDestination(r) = "none" -> RGoto(r, "forget") /\ UNCHANGED rrec
         [] createdDestination(r) = "mine" ->
              /\ rrec' = [rrec EXCEPT ![r].pvc = claim.uid]
              /\ RGoto(r, "dispose")
         [] OTHER -> rrun' = [rrun EXCEPT ![r] = RIdle(@.n)] /\ UNCHANGED rrec
    /\ UNCHANGED <<objectStore, backupSide, left, rtool, claim, rrepo>>

\* deleteCreatedDestination of an aborted restore, or FinalizePVC.
disposeCreated(r) ==
    /\ rrun[r].pc = "dispose"
    /\ IF claim.uid \notin {0, rrec[r].pvc}
       THEN rrun' = [rrun EXCEPT ![r] = RIdle(@.n)] /\ UNCHANGED claim
       ELSE /\ claim' = IF claim.uid = 0 THEN claim
                        ELSE IF rrec[r].delete /\ rrec[r].phase = "Aborted"
                        THEN [claim EXCEPT !.deleting = TRUE]
                        ELSE [claim EXCEPT !.owner = None]
            /\ RGoto(r, "forget")
    /\ UNCHANGED <<objectStore, backupSide, left, rrec, rtool, rrepo>>

forgetRestore(r) ==
    /\ rrun[r].pc = "forget"
    /\ rrec' = [rrec EXCEPT ![r] = [NewRestore(FALSE, FALSE) EXCEPT !.here = FALSE]]
    /\ rrun' = [rrun EXCEPT ![r] = RIdle(@.n)]
    /\ UNCHANGED <<objectStore, backupSide, left, rtool, claim, rrepo>>

-----------------------------------------------------------------------------
(* Users, faults and the cluster *)

UserOnRestore(r) ==
    /\ left.users > 0 /\ rrec[r].here
    /\ \/ rrec[r].failed /\ rrun[r].pc = "idle" /\ ~rrec[r].deleting
          /\ rrec' = [rrec EXCEPT ![r].failed = FALSE]
       \/ ~rrec[r].abort /\ rrec[r].phase # "Completed"
          /\ rrec' = [rrec EXCEPT ![r].abort = TRUE]
       \/ ~rrec[r].deleting /\ rrec' = [rrec EXCEPT ![r].deleting = TRUE]
    /\ left' = [left EXCEPT !.users = @ - 1]
    /\ UNCHANGED <<objectStore, backupSide, rrun, rtool, claim, rrepo>>

CancelActiveRestore(r) ==
    /\ rrec[r].abort \/ rrec[r].deleting
    /\ ~rrun[r].quiet
    /\ rrun[r].pc \in RLocked \cup {"pin", "manifest", "destination", "create", "checkpoint",
                                    "bind", "rebound", "bound", "lock", "transferred", "complete"}
    /\ rrun' = [rrun EXCEPT ![r] = [RFailing(@) EXCEPT !.quiet = TRUE]]
    /\ UNCHANGED <<objectStore, backupSide, left, rrec, rtool, claim, rrepo>>

CrashRestore(r) ==
    /\ left.crashes > 0 /\ rrun[r].pc # "idle"
    /\ rrun' = [rrun EXCEPT ![r] = RIdle(@.n)]
    /\ left' = [left EXCEPT !.crashes = @ - 1]
    /\ UNCHANGED <<objectStore, backupSide, rrec, rtool, claim, rrepo>>

RemoveRestoreOrphan(a) ==
    /\ rtool[a].state = "ended" /\ rrun[a[1]].pc # "copy"
    /\ rtool' = [rtool EXCEPT ![a] = NoRTool]
    /\ UNCHANGED <<objectStore, backupSide, left, rrec, rrun, claim, rrepo>>

\* A tool left behind by some backup overwrites an object; somebody deletes the claim,
\* creates one of its own under the name, or points a repository resource elsewhere.
Outsider ==
    /\ left.outside > 0
    /\ \/ /\ \E l \in Location, k \in Keys, a \in Attempt :
               /\ manifest[l] # None /\ a[1] # manifest[l].by /\ a[2] = 1
               /\ objects' = [objects EXCEPT ![l][k] = Data(a)]
               /\ stray' = stray \cup {a}
          /\ left' = [left EXCEPT !.outside = @ - 1] /\ UNCHANGED <<claim, rrepo>>
       \/ /\ claim.uid # 0 /\ ~claim.deleting
          /\ claim' = [claim EXCEPT !.deleting = TRUE]
          /\ left' = [left EXCEPT !.outside = @ - 1] /\ UNCHANGED <<objects, stray, rrepo>>
       \/ /\ claim.uid = 0 /\ left.claims > 0
          /\ claim' = [NewClaim(None) EXCEPT !.bound = TRUE]
          /\ left' = [left EXCEPT !.outside = @ - 1, !.claims = @ - 1]
          /\ UNCHANGED <<objects, stray, rrepo>>
       \/ /\ \E r \in Restore :
               /\ rrec[r].here
               /\ rrepo' = [rrepo EXCEPT ![r] = CHOOSE l \in Location : l # @]
          /\ left' = [left EXCEPT !.outside = @ - 1] /\ UNCHANGED <<objects, stray, claim>>
    /\ UNCHANGED <<lock, etag, manifest, rec, run, tool, shared, repo, online, rrec, rrun, rtool>>

\* Kubernetes removes a deleted claim that no Pod uses.
ClaimRemoved ==
    /\ claim.deleting /\ ClaimConsumers = {}
    /\ claim' = NoClaim
    /\ UNCHANGED <<objectStore, backupSide, left, rrec, rrun, rtool, rrepo>>

\* A unit of time passes for every lock and every renewal goroutine.
Tick ==
    /\ claim.ttl > 0 \/ \E l \in Location : lock[l].ttl > 0
    /\ RenewalsKeepUp
    /\ \A r \in Restore : /\ RHolds(r) => rrun[r].tried
                          /\ rrun[r].pc \notin {"finish", "uninstall", "unlock"}
    /\ Expire /\ AgeRuns
    /\ claim' = [claim EXCEPT !.ttl = IF @ = 0 THEN 0 ELSE @ - 1]
    /\ rrun' = [r \in Restore |-> IF RHolds(r) THEN Aged(rrun[r]) ELSE rrun[r]]
    /\ UNCHANGED <<etag, manifest, objects, rec, tool, shared, repo, online, stray, left,
                   rrec, rtool, rrepo>>

=============================================================================
