---------------------------- MODULE BackupWorkflow ----------------------------
(***************************************************************************)
(* Backups of claims into one recovery point (internal/backup): the        *)
(* executor with its checkpoints (backup_executor.go, backup_lifecycle.go),*)
(* one transfer attempt under the S3 lock (backup_transfer.go), the        *)
(* renewal goroutine (backup.go) and the temporary shared mount of the     *)
(* source volume (shared_mounts.go).                                       *)
(*                                                                         *)
(* Two backups are in two clusters, so nothing but the S3 lock keeps them  *)
(* apart; one backup has one worker at a time (SessionLease).  A backup    *)
(* copies two files, one after the other.  An offline source does not      *)
(* change, an online source gives every attempt other contents.            *)
(***************************************************************************)
EXTENDS ObjectStore, FiniteSets

VARIABLES rec,     \* per backup: the stored record
          run,     \* per backup: the worker
          tool,    \* per attempt: its rclone Job
          shared,  \* per backup: its source volume is in shared mode
          repo,    \* per backup: the location its repository resource names
          online,  \* per backup: plan.Online, the application keeps running
          stray,   \* history: attempts whose tool was left behind running
          left     \* what is left of the bounds

backupSide == <<rec, run, tool, shared, repo, online, stray>>

Phases == {"Planned", "WarmCopying", "WarmCopied", "Completed", "Aborting", "Aborted"}
Settled == {"Completed", "Aborted"}

\* phase is the resume phase of a failed record; repo is the pinned repository.
Record == [here : BOOLEAN, phase : Phases, failed : BOOLEAN, repo : Location \cup {None},
           mount : BOOLEAN, abort : BOOLEAN, deleting : BOOLEAN]
NewRecord == [here |-> TRUE, phase |-> "Planned", failed |-> FALSE, repo |-> None,
              mount |-> FALSE, abort |-> FALSE, deleting |-> FALSE]

\* since and tried belong to the renewal goroutine, putting is its (or the worker's) write
\* of the lock under way; quiet is a cancelled context.
Idle(n) == [pc |-> "idle", n |-> n, at |-> None, err |-> FALSE, quiet |-> FALSE,
            since |-> 0, tried |-> FALSE, putting |-> FALSE, launched |-> FALSE,
            inventory |-> None, then |-> "fail"]

NoTool == [state |-> "none", files |-> 0, at |-> None]

Me(b) == <<b, run[b].n>>
\* What attempt a of a backup reads from its source.
Data(a) == IF online[a[1]] THEN a ELSE <<a[1], 0>>

\* RequireTransferToolsStopped: finished Jobs and Pods count until they are removed.
ToolsOf(b) == {a \in Attempt : a[1] = b /\ tool[a].state # "none"}
toolsStopped(b) == ToolsOf(b) = {}

\* inspectBackupPVC: Pods that are not terminal are consumers.
Consumers(b) == {a \in ToolsOf(b) : tool[a].state = "running"}
inspectBackupPVC(b) == online[b] \/ Consumers(b) = {}
validateSource(b) == inspectBackupPVC(b)

\* Consumers may have come while the pass waited for the lock.
validateOfflineBackupToolStart(b) == ~online[b] => inspectBackupPVC(b)

\* The pass holds the S3 lock and renews it.
Locked == {"locked", "launch", "copy", "renew1", "put1", "inventory", "renew2", "put2", "publish"}
Holds(b) == run[b].pc \in Locked

-----------------------------------------------------------------------------
(* Steps of a worker *)

Goto(b, pc) == run' = [run EXCEPT ![b].pc = pc]

\* An error: a pass that holds the lock finalizes the operation first.
Failing(r) == [r EXCEPT !.err = TRUE, !.pc = IF r.pc \in Locked THEN "finish" ELSE "compensate"]
Fail(b) == run' = [run EXCEPT ![b] = Failing(@)]

Blip == left.blips > 0 /\ left' = [left EXCEPT !.blips = @ - 1]
Calm == UNCHANGED left

\* run: settled and aborting records are not for this pass.
Run(b) ==
    /\ run[b].pc = "idle" /\ run[b].n < MaxAttempts
    /\ rec[b].here /\ ~rec[b].deleting /\ ~rec[b].abort /\ ~rec[b].failed
    /\ rec[b].phase \notin Settled \cup {"Aborting"}
    /\ run' = [run EXCEPT ![b] = [Idle(@.n) EXCEPT !.pc = "pin"]]
    /\ UNCHANGED <<objectStore, rec, tool, shared, repo, online, stray, left>>

\* A repository that was pinned must be the one that is resolved now.
validateRepositoryMatch(requested, current) == current \in {None, requested}

\* PinRepository: the first pass records the resolved repository, a later one must
\* resolve to the same.
PinRepository(b) ==
    /\ run[b].pc = "pin"
    /\ IF validateRepositoryMatch(repo[b], rec[b].repo)
       THEN /\ rec' = [rec EXCEPT ![b].repo = repo[b]]
            /\ run' = [run EXCEPT ![b].at = repo[b], ![b].pc = "manifest"]
       ELSE Fail(b) /\ UNCHANGED rec
    /\ UNCHANGED <<objectStore, tool, shared, repo, online, stray, left>>

\* validatePublishedBackup: this backup's manifest, and the objects it lists.
validatePublishedBackup(b, l) == manifest[l].by = b /\ VerifyInventory(l)

\* runTransfer up to the first checkpoint: an own manifest completes the backup.
runTransfer(b) ==
    /\ run[b].pc = "manifest"
    /\ LET l == run[b].at IN
       \/ manifest[l] # None /\ validatePublishedBackup(b, l) /\ Goto(b, "complete") /\ Calm
       \/ manifest[l] # None /\ ~validatePublishedBackup(b, l) /\ Fail(b) /\ Calm
       \/ manifest[l] = None /\ validateSource(b) /\ Goto(b, "prepare") /\ Calm
       \/ manifest[l] = None /\ ~validateSource(b) /\ Fail(b) /\ Calm
       \/ Blip /\ Fail(b)
    /\ UNCHANGED <<objectStore, rec, tool, shared, repo, online, stray>>

startCopying(b) ==
    /\ run[b].pc = "prepare"
    /\ rec' = [rec EXCEPT ![b].phase = IF @ = "Planned" THEN "WarmCopying" ELSE @]
    /\ Goto(b, IF online[b] /\ ~rec[b].mount /\ ~shared[b] THEN "record"
               ELSE IF online[b] /\ rec[b].mount /\ ~shared[b] THEN "reshare" ELSE "prepared")
    /\ UNCHANGED <<objectStore, tool, shared, repo, online, stray, left>>

\* Mutant: shared mode is enabled before the checkpoint says so.
enableFirst(b) ==
    /\ run[b].pc = "record"
    /\ shared' = [shared EXCEPT ![b] = TRUE]
    /\ Goto(b, "share")
    /\ UNCHANGED <<objectStore, rec, tool, repo, online, stray, left>>

\* prepareBackupSharedMounts: the checkpoint comes before the change.
prepareBackupSharedMounts(b) ==
    /\ run[b].pc = "record"
    /\ rec' = [rec EXCEPT ![b].mount = TRUE]
    /\ Goto(b, "share")
    /\ UNCHANGED <<objectStore, tool, shared, repo, online, stray, left>>

\* EnableShared.  When it fails it may have taken effect; if the volume is seen not to be
\* shared, a checkpoint made by this pass is taken back.
EnableShared(b) ==
    /\ run[b].pc \in {"share", "reshare"}
    /\ \/ /\ shared' = [shared EXCEPT ![b] = TRUE] /\ rec' = [rec EXCEPT ![b].mount = TRUE]
          /\ Goto(b, "prepared") /\ Calm
       \/ /\ Blip /\ Fail(b) /\ UNCHANGED rec
          /\ \E done \in BOOLEAN : shared' = [shared EXCEPT ![b] = done]
       \/ /\ run[b].pc = "share" /\ Blip /\ Fail(b)
          /\ rec' = [rec EXCEPT ![b].mount = FALSE] /\ UNCHANGED shared
    /\ UNCHANGED <<objectStore, tool, repo, online, stray>>

sourcePrepared(b) ==
    /\ run[b].pc = "prepared"
    /\ rec' = [rec EXCEPT ![b].phase = "WarmCopied"]
    /\ run' = [run EXCEPT ![b].n = @ + 1, ![b].pc = "acquire"]
    /\ UNCHANGED <<objectStore, tool, shared, repo, online, stray, left>>

-----------------------------------------------------------------------------
(* The S3 lock *)

\* AcquireLock: create it, and whatever the answer was, read it.
AcquireLock(b) ==
    /\ run[b].pc = "acquire"
    /\ LET l == run[b].at IN
       \/ CreateLock(l, Me(b), TRUE) /\ Goto(b, "verify") /\ Calm
       \/ Blip /\ CreateLock(l, Me(b), FALSE) /\ Goto(b, "inspect")
       \/ Blip /\ Goto(b, "inspect") /\ UNCHANGED <<lock, etag>>
       \/ lock[l].holder # None /\ Goto(b, "inspect") /\ Calm /\ UNCHANGED <<lock, etag>>
    /\ UNCHANGED <<manifest, objects, rec, tool, shared, repo, online, stray>>

\* The goroutine starts; its ticker fires after the first interval.
StartRenewal(b) == run' = [run EXCEPT ![b].pc = "locked", ![b].tried = TRUE]

verifyLock(b) ==
    /\ run[b].pc = "verify"
    /\ \/ lock[run[b].at].holder \in {Me(b), None} /\ StartRenewal(b) /\ Calm
       \/ lock[run[b].at].holder \notin {Me(b), None} /\ Fail(b) /\ Calm
       \/ Blip /\ Fail(b)
    /\ UNCHANGED <<objectStore, rec, tool, shared, repo, online, stray>>

\* Only an expired lock may be replaced.
inspectLock(b) ==
    /\ run[b].pc = "inspect"
    /\ LET l == run[b].at IN
       IF lock[l].holder # None /\ lock[l].ttl = 0
       THEN ReadLock(l, Me(b)) /\ Goto(b, "replace")
       ELSE Fail(b) /\ UNCHANGED <<lock, etag>>
    /\ UNCHANGED <<manifest, objects, rec, tool, shared, repo, online, stray, left>>

replaceLock(b) ==
    /\ run[b].pc = "replace"
    /\ LET l == run[b].at IN
       \/ ReplaceLock(l, Me(b), TRUE) /\ StartRenewal(b) /\ Calm
       \/ Blip /\ ReplaceLock(l, Me(b), FALSE) /\ Fail(b)
       \/ Me(b) \notin etag[l] /\ Fail(b) /\ Calm /\ UNCHANGED <<lock, etag>>
    /\ UNCHANGED <<manifest, objects, rec, tool, shared, repo, online, stray>>

\* Mutant: a transient failure never ends the transfer.
lockRenewalNeverAborts(b, conflict) == conflict

\* lockRenewalAborts: a conflict at once, other failures after half the TTL.
lockRenewalAborts(b, conflict) == conflict \/ run[b].since > TTL \div 2

\* One failed renewal of the goroutine.
renewalFailed(b, conflict) ==
    run' = [run EXCEPT ![b] = IF lockRenewalAborts(b, conflict)
                              THEN [Failing(@) EXCEPT !.putting = FALSE]
                              ELSE [@ EXCEPT !.tried = TRUE, !.putting = FALSE]]

\* RenewLock of the goroutine, first half: read the lock; it must still be ours.
renewObjectStoreLock(b) ==
    /\ Holds(b) /\ ~run[b].tried /\ ~run[b].putting
    /\ LET l == run[b].at IN
       \/ /\ lock[l].holder = Me(b)
          /\ ReadLock(l, Me(b)) /\ run' = [run EXCEPT ![b].putting = TRUE]
       \/ lock[l].holder # Me(b) /\ renewalFailed(b, TRUE) /\ UNCHANGED <<lock, etag>>
       \/ renewalFailed(b, FALSE) /\ UNCHANGED <<lock, etag>>
    /\ UNCHANGED <<manifest, objects, rec, tool, shared, repo, online, stray, left>>

\* Second half: write it back, conditional on what was read; the answer may be lost.
renewalPut(b) ==
    /\ Holds(b) /\ run[b].putting /\ run[b].pc \notin {"put1", "put2"}
    /\ LET l == run[b].at IN
       \/ /\ ReplaceLock(l, Me(b), TRUE)
          /\ run' = [run EXCEPT ![b].since = 0, ![b].tried = TRUE, ![b].putting = FALSE]
       \/ ReplaceLock(l, Me(b), FALSE) /\ renewalFailed(b, FALSE)
       \/ Me(b) \notin etag[l] /\ renewalFailed(b, TRUE) /\ UNCHANGED <<lock, etag>>
    /\ UNCHANGED <<manifest, objects, rec, tool, shared, repo, online, stray, left>>

-----------------------------------------------------------------------------
(* The transfer under the lock *)

\* The manifest is read again under the lock, the source inspected again.
recheckManifest(b) ==
    /\ run[b].pc = "locked"
    /\ LET l == run[b].at IN
       \/ manifest[l] # None /\ validatePublishedBackup(b, l) /\ Goto(b, "finish") /\ Calm
       \/ manifest[l] # None /\ ~validatePublishedBackup(b, l) /\ Fail(b) /\ Calm
       \/ manifest[l] = None /\ Goto(b, "launch") /\ Calm
       \/ Blip /\ Fail(b)
    /\ UNCHANGED <<objectStore, rec, tool, shared, repo, online, stray>>

\* prepareTool, validateBackupToolLaunch, RunBackup: the release exists from here on.
launchTool(b) ==
    /\ run[b].pc = "launch"
    /\ IF validateOfflineBackupToolStart(b)
       THEN /\ tool' = [tool EXCEPT ![Me(b)] = [state |-> "running", files |-> 0, at |-> run[b].at]]
            /\ run' = [run EXCEPT ![b].launched = TRUE, ![b].pc = "copy"]
       ELSE Fail(b) /\ UNCHANGED tool
    /\ UNCHANGED <<objectStore, rec, shared, repo, online, stray, left>>

\* The Job copies on its own, whoever still watches it.
ToolCopies(a) ==
    /\ tool[a].state = "running" /\ tool[a].files < 2
    /\ objects' = [objects EXCEPT ![tool[a].at][tool[a].files + 1] = Data(a)]
    /\ tool' = [tool EXCEPT ![a].files = @ + 1]
    /\ UNCHANGED <<lock, etag, manifest, rec, run, shared, repo, online, stray, left>>

ToolEnds(a) ==
    /\ tool[a].state = "running" /\ tool[a].files = 2
    /\ tool' = [tool EXCEPT ![a].state = "ended"]
    /\ UNCHANGED <<objectStore, rec, run, shared, repo, online, stray, left>>

\* RunBackup returns: the finished release is uninstalled, or the Job failed.
toolReturns(b) ==
    /\ run[b].pc = "copy"
    /\ \/ /\ tool[Me(b)].state = "ended"
          /\ tool' = [tool EXCEPT ![Me(b)] = NoTool]
          /\ Goto(b, "renew1") /\ Calm
       \/ Blip /\ Fail(b) /\ UNCHANGED tool
    /\ UNCHANGED <<objectStore, rec, shared, repo, online, stray>>

\* lease.renewNow before the inventory and again before the manifest; the mutex keeps the
\* goroutine out, and here every failure ends the attempt.
renewNow(b, from, put) ==
    /\ run[b].pc = from /\ ~run[b].putting
    /\ LET l == run[b].at IN
       \/ /\ lock[l].holder = Me(b)
          /\ ReadLock(l, Me(b))
          /\ run' = [run EXCEPT ![b].pc = put, ![b].putting = TRUE]
       \/ lock[l].holder # Me(b) /\ Fail(b) /\ UNCHANGED <<lock, etag>>
    /\ UNCHANGED <<manifest, objects, rec, tool, shared, repo, online, stray, left>>

renewNowPut(b, put, next) ==
    /\ run[b].pc = put
    /\ LET l == run[b].at IN
       \/ /\ ReplaceLock(l, Me(b), TRUE)
          /\ run' = [run EXCEPT ![b].pc = next, ![b].putting = FALSE]
          /\ Calm
       \/ /\ Blip /\ ReplaceLock(l, Me(b), FALSE)
          /\ run' = [run EXCEPT ![b] = [Failing(@) EXCEPT !.putting = FALSE]]
       \/ /\ Me(b) \notin etag[l] /\ Calm
          /\ run' = [run EXCEPT ![b] = [Failing(@) EXCEPT !.putting = FALSE]]
          /\ UNCHANGED <<lock, etag>>
    /\ UNCHANGED <<manifest, objects, rec, tool, shared, repo, online, stray>>

takeInventory(b) ==
    /\ run[b].pc = "inventory"
    /\ run' = [run EXCEPT ![b].inventory = Inventory(run[b].at), ![b].pc = "renew2"]
    /\ UNCHANGED <<objectStore, rec, tool, shared, repo, online, stray, left>>

\* The manifest is the last write; its answer may be lost.
publish(b) ==
    /\ run[b].pc = "publish"
    /\ LET l == run[b].at IN
       \/ PutManifest(l, b, run[b].inventory) /\ Goto(b, "finish") /\ Calm
       \/ Blip /\ PutManifest(l, b, run[b].inventory) /\ Fail(b)
       \/ manifest[l] # None /\ Fail(b) /\ Calm /\ UNCHANGED manifest
    /\ UNCHANGED <<lock, etag, objects, rec, tool, shared, repo, online, stray>>

\* The deferred end of an attempt: stop the goroutine (a write of it may have landed) ...
stopRenewal(b) ==
    /\ run[b].pc = "finish"
    /\ \/ run[b].putting /\ ReplaceLock(run[b].at, Me(b), FALSE)
       \/ UNCHANGED <<lock, etag>>
    /\ run' = [run EXCEPT ![b].putting = FALSE, ![b].since = 0, ![b].tried = FALSE,
                          ![b].pc = IF run[b].err /\ run[b].launched THEN "uninstall"
                                    ELSE "release"]
    /\ UNCHANGED <<manifest, objects, rec, tool, shared, repo, online, stray, left>>

\* ... converge the tool; without a confirmed removal the lock is left to expire ...
finalizeBackupOperation(b) ==
    /\ run[b].pc = "uninstall"
    /\ \/ /\ tool' = [tool EXCEPT ![Me(b)] = NoTool]
          /\ Goto(b, "release") /\ Calm /\ UNCHANGED stray
       \/ /\ Blip /\ Goto(b, "compensate") /\ UNCHANGED tool
          /\ stray' = stray \cup {Me(b)}
    /\ UNCHANGED <<objectStore, rec, shared, repo, online>>

\* ... and release it; a published backup is not failed by a lock that stays.
releaseLock(b) ==
    /\ run[b].pc = "release"
    /\ LET l == run[b].at IN
       \/ ReleaseLock(l, Me(b)) /\ Calm
       \/ Me(b) \notin etag[l] /\ lock[l].holder # None /\ Calm /\ UNCHANGED <<lock, etag>>
       \/ Blip /\ UNCHANGED <<lock, etag>>
    /\ Goto(b, IF run[b].err THEN "compensate" ELSE "complete")
    /\ UNCHANGED <<manifest, objects, rec, tool, shared, repo, online, stray>>

-----------------------------------------------------------------------------
(* The end of a pass *)

\* complete: no tool may be left before shared mode is taken back.
complete(b) ==
    /\ run[b].pc = "complete"
    /\ IF toolsStopped(b)
       THEN run' = [run EXCEPT ![b].then = "complete", ![b].pc = "unshare"]
       ELSE Fail(b)
    /\ UNCHANGED <<objectStore, rec, tool, shared, repo, online, stray, left>>

\* The deferred compensation of a failed or cancelled pass.
compensate(b) ==
    /\ run[b].pc = "compensate"
    /\ run' = [run EXCEPT ![b].then = "fail",
                          ![b].pc = IF toolsStopped(b) THEN "unshare" ELSE "conclude"]
    /\ UNCHANGED <<objectStore, rec, tool, shared, repo, online, stray, left>>

\* RestoreSharedMounts: the volume first, then the checkpoint.
RestoreSharedMounts(b) ==
    /\ run[b].pc = "unshare"
    /\ shared' = [shared EXCEPT ![b] = @ /\ ~rec[b].mount]
    /\ Goto(b, "forgetMount")
    /\ UNCHANGED <<objectStore, rec, tool, repo, online, stray, left>>

forgetMount(b) ==
    /\ run[b].pc = "forgetMount"
    /\ rec' = [rec EXCEPT ![b].mount = FALSE]
    /\ Goto(b, "conclude")
    /\ UNCHANGED <<objectStore, tool, shared, repo, online, stray, left>>

\* The last checkpoint.  A cancelled pass records no failure.
conclude(b) ==
    /\ run[b].pc = "conclude"
    /\ rec' = [rec EXCEPT ![b] =
                 CASE run[b].then = "complete" -> [@ EXCEPT !.phase = "Completed"]
                   [] run[b].then = "abort" -> [@ EXCEPT !.phase = "Aborted"]
                   [] run[b].then = "forget" -> [NewRecord EXCEPT !.here = FALSE]
                   [] OTHER -> [@ EXCEPT !.failed = ~run[b].quiet]]
    /\ run' = [run EXCEPT ![b] = Idle(@.n)]
    /\ UNCHANGED <<objectStore, tool, shared, repo, online, stray, left>>

\* abort: a completed backup is refused, a tool must be gone; then as above.
abort(b) ==
    /\ run[b].pc = "idle" /\ rec[b].here
    /\ rec[b].abort \/ rec[b].deleting \/ rec[b].phase = "Aborting"
    /\ rec[b].phase \notin Settled /\ toolsStopped(b)
    /\ rec' = [rec EXCEPT ![b].phase = "Aborting", ![b].failed = FALSE]
    /\ run' = [run EXCEPT ![b] = [Idle(@.n) EXCEPT !.pc = "unshare", !.then = "abort"]]
    /\ UNCHANGED <<objectStore, tool, shared, repo, online, stray, left>>

\* FinalizeDeleted of a settled record: clean up, then drop the record.
FinalizeDeleted(b) ==
    /\ run[b].pc = "idle" /\ rec[b].here /\ rec[b].deleting
    /\ rec[b].phase \in Settled /\ toolsStopped(b)
    /\ run' = [run EXCEPT ![b] = [Idle(@.n) EXCEPT !.pc = "unshare", !.then = "forget"]]
    /\ UNCHANGED <<objectStore, rec, tool, shared, repo, online, stray, left>>

-----------------------------------------------------------------------------
(* Users, faults and time *)

\* RequestResume: a failed record goes back to the phase it failed in.
RequestResume(b) ==
    /\ left.users > 0 /\ run[b].pc = "idle"
    /\ rec[b].here /\ rec[b].failed /\ ~rec[b].deleting
    /\ rec' = [rec EXCEPT ![b].failed = FALSE]
    /\ left' = [left EXCEPT !.users = @ - 1]
    /\ UNCHANGED <<objectStore, run, tool, shared, repo, online, stray>>

RequestAbort(b) ==
    /\ left.users > 0 /\ rec[b].here /\ ~rec[b].abort /\ rec[b].phase # "Completed"
    /\ rec' = [rec EXCEPT ![b].abort = TRUE]
    /\ left' = [left EXCEPT !.users = @ - 1]
    /\ UNCHANGED <<objectStore, run, tool, shared, repo, online, stray>>

DeleteRecord(b) ==
    /\ left.users > 0 /\ rec[b].here /\ ~rec[b].deleting
    /\ rec' = [rec EXCEPT ![b].deleting = TRUE]
    /\ left' = [left EXCEPT !.users = @ - 1]
    /\ UNCHANGED <<objectStore, run, tool, shared, repo, online, stray>>

\* Mutant: only an abort request does.
CancelActiveOnAbort(b) ==
    /\ rec[b].abort /\ ~run[b].quiet
    /\ run[b].pc \in Locked \cup {"pin", "manifest", "prepare", "record", "share", "reshare", "prepared",
                                  "acquire", "verify", "inspect", "replace", "complete"}
    /\ run' = [run EXCEPT ![b] = [Failing(@) EXCEPT !.quiet = TRUE]]
    /\ UNCHANGED <<objectStore, rec, tool, shared, repo, online, stray, left>>

\* An abort request or a deletion cancels the context of the running pass.
CancelActive(b) ==
    /\ rec[b].abort \/ rec[b].deleting
    /\ ~run[b].quiet
    /\ run[b].pc \in Locked \cup {"pin", "manifest", "prepare", "record", "share", "reshare", "prepared",
                                  "acquire", "verify", "inspect", "replace", "complete"}
    /\ run' = [run EXCEPT ![b] = [Failing(@) EXCEPT !.quiet = TRUE]]
    /\ UNCHANGED <<objectStore, rec, tool, shared, repo, online, stray, left>>

\* Somebody points the repository resource elsewhere.
EditRepository(b) ==
    /\ left.edits > 0 /\ rec[b].here
    /\ repo' = [repo EXCEPT ![b] = CHOOSE l \in Location : l # @]
    /\ left' = [left EXCEPT !.edits = @ - 1]
    /\ UNCHANGED <<objectStore, rec, run, tool, shared, online, stray>>

\* The process dies; its tool goes on.
Crash(b) ==
    /\ left.crashes > 0 /\ run[b].pc # "idle"
    /\ run' = [run EXCEPT ![b] = Idle(@.n)]
    /\ stray' = IF run[b].n > 0 /\ tool[Me(b)].state # "none" THEN stray \cup {Me(b)} ELSE stray
    /\ left' = [left EXCEPT !.crashes = @ - 1]
    /\ UNCHANGED <<objectStore, rec, tool, shared, repo, online>>

\* Somebody follows the error message and removes the release of a tool left behind.
RemoveOrphan(a) ==
    /\ tool[a].state = "ended" /\ a \in stray
    /\ tool' = [tool EXCEPT ![a] = NoTool]
    /\ UNCHANGED <<objectStore, rec, run, shared, repo, online, stray, left>>

\* A goroutine tries at least once in every unit of time, and finalizing an operation takes
\* less than one (150 seconds at most; a third of the TTL is six minutes or more).  So do,
\* it is assumed, the requests of one acquisition, whose ExpiresAt counts from the first.
RenewalsKeepUp ==
    \A b \in Backup : /\ Holds(b) => run[b].tried
                      /\ run[b].pc \notin {"verify", "inspect", "replace",
                                       "finish", "uninstall", "release"}

Aged(r) == [r EXCEPT !.since = @ + 1, !.tried = FALSE]
AgeRuns == run' = [b \in Backup |-> IF Holds(b) THEN Aged(run[b]) ELSE run[b]]

=============================================================================
