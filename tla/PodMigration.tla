----------------------------- MODULE PodMigration -----------------------------
(***************************************************************************)
(* Migrating the volumes of a running workload: internal/app's             *)
(* PodMigrationExecutor with the workload adapters of internal/controller  *)
(* and the temporary shared mounts of OpenEBS LVM volumes.  A run reserves *)
(* destination volumes, copies while the workload runs (warm passes),      *)
(* pauses the workload, copies what is left (final sync), swaps the claims *)
(* and resumes the workload.  It may be interrupted between any two        *)
(* writes, aborted before the swap and rolled back after it.               *)
(*                                                                         *)
(* One process works at a time (that is SessionLease).  What one volume    *)
(* goes through during the swap is VolumeCutover; here it is a claim that  *)
(* leads to the source, to nothing, or to the destination.                 *)
(***************************************************************************)
EXTENDS Integers, Sequences, FiniteSetsExt

CONSTANTS
    VolumeCount,     \* volumes of the plan, worked on in the order 1, 2, ...
    PrecopyPasses,   \* plan.precopyPasses
    Adapters,        \* kinds of workload: "StatefulSet", "VictoriaLogs", "Standalone"
    Drivers,         \* who runs the workflow: "session" (CLI), "controller"
    SharedChoices,   \* values of plan.openEBSLVMEnableShared (volume 1 is the LVM volume)
    ManualChoices,   \* values of spec.manualCutover
    MaxInterrupts,   \* bound: passes that die, are canceled or return an error
    MaxFailures      \* bound: failures that are recorded or retried

Volumes == 1..VolumeCount

ASSUME PodMigrationAssumption ==
    /\ VolumeCount \in Nat \ {0}
    /\ PrecopyPasses \in Nat
    /\ Adapters \subseteq {"StatefulSet", "VictoriaLogs", "Standalone"}
    /\ Drivers \subseteq {"session", "controller"}
    /\ SharedChoices \subseteq BOOLEAN /\ ManualChoices \subseteq BOOLEAN
    /\ MaxInterrupts \in Nat /\ MaxFailures \in Nat

VARIABLES
    plan,        \* what was planned and asked for; never changes
    rec,         \* the stored workflow status
    claim,       \* what the claim of a volume leads to: "src", "none" or "dst"
    sync,        \* the destination against the source: "equal", "copying", "behind"
    tools,       \* copy tools of a volume that exist: <<mode, attempt>>
    shared,      \* the LVM volume is shared and carries this session's marker
    wl,          \* the workload
    pc,          \* the next step of the running pass, "idle" without one
    ret,         \* where the pass goes on after restoring or preparing shared mounts
    interrupts, failures

vars == <<plan, rec, claim, sync, tools, shared, wl, pc, ret, interrupts, failures>>

-----------------------------------------------------------------------------
(* The workflow status *)

Terminal == {"Completed", "Aborted", "RolledBack"}

Phases ==
    {"Planned", "Reserving", "Reserved", "WarmCopying", "WarmCopied", "Pausing", "Paused",
     "FinalSyncing", "FinalSynced", "Activating", "Activated", "Resuming", "RollingBack",
     "Aborting"} \cup Terminal

Edges ==
    [p \in Phases |->
       CASE p = "Planned" -> {"Reserving", "Aborting", "Aborted"}
         [] p = "Reserving" -> {"Reserved", "Aborting"}
         [] p \in {"Reserved", "WarmCopied"} -> {"WarmCopying", "Pausing", "Aborting"}
         [] p = "WarmCopying" -> {"WarmCopied", "Aborting"}
         [] p = "Pausing" -> {"Paused", "Aborting"}
         [] p = "Paused" -> {"FinalSyncing", "Aborting"}
         [] p = "FinalSyncing" -> {"FinalSynced", "Aborting"}
         [] p = "FinalSynced" -> {"FinalSyncing", "Activating", "RollingBack", "Aborting"}
         [] p = "Activating" -> {"Activated", "RollingBack"}
         [] p = "Activated" -> {"Resuming", "RollingBack"}
         [] p = "Resuming" -> {"Completed", "RollingBack"}
         [] p = "Completed" -> {"RollingBack"}
         [] p = "RollingBack" -> {"RolledBack"}
         [] p = "Aborting" -> {"Aborted"}
         [] OTHER -> {}]

\* workflowResumePhase: a failed workflow goes on from the phase it failed in.
ResumePhase(r) == IF r.phase = "Failed" THEN r.resumeFrom ELSE r.phase

\* The readers of the history skip Failed, and a phase that is entered again
\* after a failure tells them nothing new: neither is kept.
Appended(h, p) ==
    IF p = "Failed" \/ (h # <<>> /\ h[Len(h)] = p) THEN h ELSE Append(h, p)

RecordWorkflowTransition(r, next) ==
    IF r.phase = next THEN r
    ELSE [r EXCEPT
            !.phase = next,
            !.resumeFrom = IF \/ next = "Failed"
                              \/ next \in {"Aborting", "RollingBack"} /\ r.phase # "Failed"
                           THEN r.phase ELSE @,
            !.noSpace = IF next = "Failed" THEN @ ELSE FALSE,
            !.history = Appended(@, next)]

CanTransition(r, next) ==
    ResumePhase(r) = next \/ next \in Edges[ResumePhase(r)]

\* rec goes to phase next, saved together with the change made in r.
Transition(r, next) ==
    CanTransition(rec, next) /\ rec' = RecordWorkflowTransition(r, next)

\* fail: the failure is recorded, and the reason of a full destination with it.
Failed(r, full) == RecordWorkflowTransition([r EXCEPT !.noSpace = full], "Failed")

\* phaseBefore: the phase ahead of the last run of target phases.
PhaseBefore(h, target) ==
    LET ends == {i \in DOMAIN h : h[i] = target}
        before == {i \in DOMAIN h : ends # {} /\ i < Max(ends) /\ h[i] # target}
    IN IF before = {} THEN "none" ELSE h[Max(before)]

PausedPhases == {"Pausing", "Paused", "FinalSyncing", "FinalSynced"}

AbortOriginWasPaused(h) ==
    LET others == {i \in DOMAIN h : h[i] # "Aborting"}
    IN others # {} /\ h[Max(others)] \in PausedPhases

\* Mutant: looks no further than the phase the workflow is in.
AbortNeedsResumeByPhase(r) == ResumePhase(r) \in PausedPhases

\* podAbortNeedsResume
AbortNeedsResume(r) ==
    LET first == IF r.phase \in {"Failed", "Aborting"} THEN r.resumeFrom ELSE r.phase
        previous == IF first = "Aborting" THEN PhaseBefore(r.history, "Aborting") ELSE first
    IN \/ previous \in PausedPhases
       \/ "Aborting" \in {r.phase, r.resumeFrom} /\ AbortOriginWasPaused(r.history)

\* podRollbackNeedsPause
RollbackNeedsPause(r) ==
    LET phase == ResumePhase(r)
        origin == IF phase = "RollingBack" THEN PhaseBefore(r.history, "RollingBack") ELSE phase
    IN origin \in {"Resuming", "Completed"}

\* validatePodSharedMountCheckpoints: volume 1 is recorded at most once.
ValidSharedMounts(r) == r.mounts <= 1

\* validatePodMigrationObject, as far as the stored progress can violate it.
ValidObject(r) ==
    LET phase == ResumePhase(r) IN
    /\ ValidSharedMounts(r)
    /\ phase \notin {"Planned", "Reserving", "Aborting", "Aborted"} =>
          \A v \in Volumes : r.reserved[v]
    /\ phase \in {"FinalSynced", "Activating", "Activated", "Resuming", "Completed"} =>
          \A v \in Volumes : r.finalDone[v]
    /\ phase \in {"Activated", "Resuming", "Completed"} => \A v \in Volumes : r.active[v]
    /\ phase = "RolledBack" => \A v \in Volumes : r.rolledBack[v]
    /\ phase = "WarmCopied" => \A v \in Volumes : r.warmDone[v]

-----------------------------------------------------------------------------
(* The workload *)

Every(side) == [v \in Volumes |-> side]

\* Mutant: a controller scaled to zero counts as paused.
ScaledToZero == ~wl.desired

\* VerifyPaused, and VerifyVolumesOffline, which follows it wherever it matters.
VerifyPaused ==
    /\ ~wl.desired /\ wl.pod = "down"
    /\ plan.adapter = "VictoriaLogs" => wl.owner

\* Resume and ValidateResume insist on finding what this session's pause left.
ResumeRefused ==
    \/ plan.adapter = "VictoriaLogs" /\ ~wl.owner
    \/ plan.adapter = "Standalone" /\ wl.pod # "down" /\ ~wl.marked

PausedWorkload ==
    [wl EXCEPT !.desired = FALSE,
               !.pod = IF plan.adapter = "Standalone" /\ @ = "up" THEN "stopping" ELSE @,
               !.owner = @ \/ plan.adapter = "VictoriaLogs"]

ResumedWorkload ==
    [wl EXCEPT !.desired = TRUE, !.marked = @ \/ plan.adapter = "Standalone"]

(* External: the StatefulSet controller, the scheduler and the kubelet. *)
ScaleDown ==
    /\ plan.adapter # "Standalone" /\ ~wl.desired /\ wl.pod = "up"
    /\ wl' = [wl EXCEPT !.pod = "stopping"]
    /\ UNCHANGED <<plan, rec, claim, sync, tools, shared, pc, ret, interrupts, failures>>

Terminated ==
    /\ wl.pod = "stopping"
    /\ wl' = [wl EXCEPT !.pod = "down"]
    /\ UNCHANGED <<plan, rec, claim, sync, tools, shared, pc, ret, interrupts, failures>>

\* A Pod whose claim is missing stays pending.
ScaleUp ==
    /\ wl.desired /\ wl.pod = "down" /\ \A v \in Volumes : claim[v] # "none"
    /\ wl' = [wl EXCEPT !.pod = "up", !.mount = claim]
    /\ UNCHANGED <<plan, rec, claim, sync, tools, shared, pc, ret, interrupts, failures>>

\* The application writes to the volumes it has mounted, until its Pod is gone.
Write(v) ==
    /\ wl.pod # "down" /\ wl.mount[v] = "src" /\ sync[v] # "behind"
    /\ sync' = [sync EXCEPT ![v] = "behind"]
    /\ UNCHANGED <<plan, rec, claim, tools, shared, wl, pc, ret, interrupts, failures>>

Environment == ScaleDown \/ Terminated \/ ScaleUp \/ \E v \in Volumes : Write(v)

-----------------------------------------------------------------------------
Init ==
    /\ plan \in [adapter : Adapters, driver : Drivers, shared : SharedChoices,
                 manual : ManualChoices]
    /\ rec = [phase |-> "Planned", resumeFrom |-> "none", history |-> <<"Planned">>,
              noSpace |-> FALSE, passes |-> 0, mounts |-> 0,
              attempts |-> [v \in Volumes |-> 0], reserved |-> Every(FALSE),
              warmDone |-> Every(FALSE), finalDone |-> Every(FALSE),
              active |-> Every(FALSE), rolledBack |-> Every(FALSE)]
    /\ claim = Every("src") /\ sync = Every("behind") /\ tools = Every({})
    /\ shared = FALSE
    /\ wl = [desired |-> TRUE, pod |-> "up", owner |-> FALSE, marked |-> FALSE,
             mount |-> Every("src")]
    /\ pc = "idle" /\ ret = "idle"
    /\ interrupts = 0 /\ failures = 0

All(f) == \A v \in Volumes : f[v]
Undone(f) == {v \in Volumes : ~f[v]}

Goto(label) == pc' = label /\ UNCHANGED ret

\* What a step that only saves the status leaves alone.
Cluster == <<plan, claim, sync, tools, shared, wl>>
Budget == <<interrupts, failures>>

\* restoreSharedMounts, after which the pass goes on at next.
RestoreThen(r, next) ==
    IF r.mounts = 0 THEN pc' = next /\ ret' = "idle" ELSE pc' = "restore" /\ ret' = next

CutoverPending ==
    /\ plan.manual /\ ResumePhase(rec) \in {"Reserved", "WarmCopied"}
    /\ PrecopyPasses <= rec.passes

\* run: the stage that goes on from the phase of r.
Dispatch(r) ==
    LET phase == ResumePhase(r) IN
    CASE phase \in {"Planned", "Reserving"} -> "reserve"
      [] phase \in {"Reserved", "WarmCopied"} ->
            IF PrecopyPasses > r.passes THEN "warm" ELSE "cutover"
      [] phase = "WarmCopying" -> "warm"
      [] phase = "Pausing" -> "cutover"
      [] phase \in {"Paused", "FinalSyncing"} -> "finalSync"
      [] phase \in {"FinalSynced", "Activating"} -> "activate"
      [] phase \in {"Activated", "Resuming"} -> "resume"
      [] phase = "Aborting" -> "abort"
      [] phase = "RollingBack" -> "rollback"
      [] OTHER -> "idle"

-----------------------------------------------------------------------------
(* Entries *)

\* A run.  The controller looks at the source claims first (FailSourceDeleted).
StartRun ==
    /\ pc = "idle" /\ rec.phase \notin Terminal \cup {"Failed"} /\ ValidObject(rec)
    /\ plan.driver = "controller" => \A v \in Volumes : claim[v] # "none"
    /\ Goto(Dispatch(rec))
    /\ UNCHANGED <<Cluster, rec, Budget>>

FailSourceDeleted ==
    /\ pc = "idle" /\ plan.driver = "controller"
    /\ rec.phase \notin Terminal \cup {"Failed"}
    /\ \E v \in Volumes : claim[v] = "none"
    /\ rec' = Failed(rec, FALSE)
    /\ UNCHANGED <<Cluster, pc, ret, Budget>>

StartAbort ==
    /\ pc = "idle" /\ ValidObject(rec)
    /\ ResumePhase(rec) \in {"Planned", "Reserving", "Reserved", "WarmCopying", "WarmCopied",
                             "Pausing", "Paused", "FinalSyncing", "FinalSynced", "Aborting"}
    /\ Goto("abort")
    /\ UNCHANGED <<Cluster, rec, Budget>>

StartRollback ==
    /\ pc = "idle" /\ ValidObject(rec)
    /\ ResumePhase(rec) \in {"FinalSynced", "Activating", "Activated", "Resuming", "Completed",
                             "RollingBack"}
    /\ Goto("rollback")
    /\ UNCHANGED <<Cluster, rec, Budget>>

\* RequestResume, once Validate agrees: it approves the pause of a manual cutover
\* that waits for it ...
ApprovePause ==
    /\ pc = "idle" /\ ValidObject(rec) /\ CutoverPending
    /\ Transition(rec, "Pausing")
    /\ UNCHANGED <<Cluster, pc, ret, Budget>>

\* ... or reopens a failed workflow.  Validate refuses a full destination and a
\* workload that would refuse to be resumed.
ReactivateWorkflow ==
    /\ pc = "idle" /\ ValidObject(rec) /\ ~CutoverPending
    /\ rec.phase = "Failed" /\ ~rec.noSpace
    /\ rec.resumeFrom \in {"Activated", "Resuming"} => ~ResumeRefused
    /\ rec' = [rec EXCEPT !.phase = rec.resumeFrom, !.history = Appended(@, rec.resumeFrom)]
    /\ UNCHANGED <<Cluster, pc, ret, Budget>>

Entry ==
    \/ StartRun \/ FailSourceDeleted \/ StartAbort \/ StartRollback
    \/ ApprovePause \/ ReactivateWorkflow

-----------------------------------------------------------------------------
(* Temporary shared mounts *)

\* RestoreShared: a mount that was recorded and never enabled is left as it is.
Restore ==
    /\ pc = "restore"
    /\ shared' = FALSE
    /\ Goto("restored")
    /\ UNCHANGED <<plan, rec, claim, sync, tools, wl, Budget>>

Restored ==
    /\ pc = "restored"
    /\ rec' = [rec EXCEPT !.mounts = @ - 1]
    /\ RestoreThen(rec', ret)
    /\ UNCHANGED <<Cluster, Budget>>

\* prepareWarmSharedMounts records the mount before it is enabled.  PrepareShared
\* takes no volume that carries a marker, this session's own included.
SharedNeeded == plan.shared /\ wl.pod # "down"

Prepare ==
    /\ pc = "prepare"
    /\ IF SharedNeeded
       THEN /\ ~shared
            /\ rec' = [rec EXCEPT !.mounts = @ + 1]
            /\ Goto("enable")
       ELSE pc' = ret /\ ret' = "idle" /\ UNCHANGED rec
    /\ UNCHANGED <<Cluster, Budget>>

EnableShared ==
    /\ pc = "enable"
    /\ shared' = TRUE
    /\ pc' = ret /\ ret' = "idle"
    /\ UNCHANGED <<plan, rec, claim, sync, tools, wl, Budget>>

-----------------------------------------------------------------------------
(* Reservation *)

Reserve ==
    /\ pc = "reserve"
    /\ RestoreThen(rec, "reserving")
    /\ UNCHANGED <<Cluster, rec, Budget>>

Reserving ==
    /\ pc = "reserving"
    /\ Transition(rec, "Reserving")
    /\ Goto("reserveVolume")
    /\ UNCHANGED <<Cluster, Budget>>

ReserveVolume ==
    /\ pc = "reserveVolume"
    /\ IF All(rec.reserved)
       THEN Transition(rec, "Reserved") /\ Goto(Dispatch(rec'))
       ELSE /\ rec' = [rec EXCEPT !.reserved[Min(Undone(rec.reserved))] = TRUE]
            /\ UNCHANGED <<pc, ret>>
    /\ UNCHANGED <<Cluster, Budget>>

-----------------------------------------------------------------------------
(* Copies *)

Mode == IF ResumePhase(rec) \in {"Paused", "FinalSyncing"} THEN "final" ELSE "warm"

Done(r) == IF Mode = "final" THEN r.finalDone ELSE r.warmDone

\* Mutant: an interrupted pass leaves its tools behind.
InterruptedToolsKept(copying, mode) == tools

\* cleanupInterruptedWarmCopy, cleanupInterruptedFinalSync: an interrupted pass
\* removes the tools of the last attempt on each volume it had not finished.
InterruptedTools(copying, mode) ==
    [v \in Volumes |->
       IF ResumePhase(rec) = copying /\ rec.attempts[v] # 0 /\ ~Done(rec)[v]
       THEN tools[v] \ {<<mode, rec.attempts[v]>>} ELSE tools[v]]

WarmCopy ==
    /\ pc = "warm"
    /\ tools' = InterruptedTools("WarmCopying", "warm")
    /\ RestoreThen(rec, "warmPrepare")
    /\ UNCHANGED <<plan, rec, claim, sync, shared, wl, Budget>>

WarmPrepare ==
    /\ pc = "warmPrepare"
    /\ pc' = "prepare" /\ ret' = "warmStart"
    /\ UNCHANGED <<Cluster, rec, Budget>>

\* A further pass starts over on every volume; an interrupted one goes on.
WarmStart ==
    /\ pc = "warmStart"
    /\ Transition([rec EXCEPT !.warmDone =
                       IF ResumePhase(rec) = "WarmCopied" THEN Every(FALSE) ELSE @],
                  "WarmCopying")
    /\ Goto("copy")
    /\ UNCHANGED <<Cluster, Budget>>

FinalSync ==
    /\ pc = "finalSync"
    /\ tools' = InterruptedTools("FinalSyncing", "final")
    /\ RestoreThen(rec, "finalStart")
    /\ UNCHANGED <<plan, rec, claim, sync, shared, wl, Budget>>

FinalStart ==
    /\ pc = "finalStart" /\ VerifyPaused
    /\ Transition(rec, "FinalSyncing")
    /\ Goto("copy")
    /\ UNCHANGED <<Cluster, Budget>>

\* copyWithRetry: the attempt is counted and saved before its tools exist.
CopyAttempt ==
    /\ pc = "copy" /\ ~All(Done(rec))
    /\ Mode = "final" => VerifyPaused
    /\ rec' = [rec EXCEPT !.attempts[Min(Undone(Done(rec)))] = @ + 1]
    /\ Goto("attempt")
    /\ UNCHANGED <<Cluster, Budget>>

CreateTools ==
    LET v == Min(Undone(Done(rec))) IN
    /\ pc = "attempt"
    /\ tools' = [tools EXCEPT ![v] = @ \cup {<<Mode, rec.attempts[v]>>}]
    /\ sync' = [sync EXCEPT ![v] = "copying"]
    /\ Goto("transfer")
    /\ UNCHANGED <<plan, rec, claim, shared, wl, Budget>>

\* The attempt ends; its tools are gone unless their removal failed.
EndTools(v, outcome, removed) ==
    /\ sync' = [sync EXCEPT ![v] = IF @ = "copying" THEN outcome ELSE @]
    /\ tools' = IF removed THEN [tools EXCEPT ![v] = @ \ {<<Mode, rec.attempts[v]>>}] ELSE tools

CopySucceeds ==
    /\ pc = "transfer"
    /\ EndTools(Min(Undone(Done(rec))), "equal", TRUE)
    /\ Goto("copied")
    /\ UNCHANGED <<plan, rec, claim, shared, wl, Budget>>

CopyRetries ==
    /\ pc = "transfer" /\ failures < MaxFailures
    /\ EndTools(Min(Undone(Done(rec))), "behind", TRUE)
    /\ failures' = failures + 1
    /\ Goto("copy")
    /\ UNCHANGED <<plan, rec, claim, shared, wl, interrupts>>

\* The retries are used up, the destination is full, or the tools could not be
\* removed.  A warm pass restores its shared mounts on the way out.
CopyFails ==
    /\ pc = "transfer" /\ failures < MaxFailures
    /\ \E removed, full \in BOOLEAN :
          /\ EndTools(Min(Undone(Done(rec))), "behind", removed)
          /\ rec' = Failed(rec, full)
    /\ failures' = failures + 1
    /\ RestoreThen(rec, "idle")
    /\ UNCHANGED <<plan, claim, shared, wl, interrupts>>

Copied ==
    LET v == Min(Undone(Done(rec))) IN
    /\ pc = "copied"
    /\ rec' = IF Mode = "final" THEN [rec EXCEPT !.finalDone[v] = TRUE]
              ELSE [rec EXCEPT !.warmDone[v] = TRUE]
    /\ Goto("copy")
    /\ UNCHANGED <<Cluster, Budget>>

CopiesDone ==
    /\ pc = "copy" /\ All(Done(rec))
    /\ IF Mode = "final"
       THEN Transition(rec, "FinalSynced") /\ Goto(Dispatch(rec'))
       ELSE RestoreThen(rec, "warmed") /\ UNCHANGED rec
    /\ UNCHANGED <<Cluster, Budget>>

Warmed ==
    /\ pc = "warmed"
    /\ Transition([rec EXCEPT !.passes = @ + 1], "WarmCopied")
    /\ Goto(Dispatch(rec'))
    /\ UNCHANGED <<Cluster, Budget>>

-----------------------------------------------------------------------------
(* Pause, activation, resume *)

\* cutoverGate: a manual cutover holds the workload running here.
Cutover ==
    /\ pc = "cutover"
    /\ IF CutoverPending THEN pc' = "idle" /\ ret' = "idle"
       ELSE pc' = "prepare" /\ ret' = "probe"
    /\ UNCHANGED <<Cluster, rec, Budget>>

\* The probes have run; the shared mounts go before the workload stops.
Probe ==
    /\ pc = "probe"
    /\ RestoreThen(rec, "pause")
    /\ UNCHANGED <<Cluster, rec, Budget>>

Pause ==
    /\ pc = "pause" /\ ValidObject(rec)
    /\ Transition(rec, "Pausing")
    /\ Goto("pauseWorkload")
    /\ UNCHANGED <<Cluster, Budget>>

PauseWorkload ==
    /\ pc = "pauseWorkload"
    /\ wl' = PausedWorkload
    /\ Goto("pausing")
    /\ UNCHANGED <<plan, rec, claim, sync, tools, shared, Budget>>

Paused ==
    /\ pc = "pausing" /\ VerifyPaused
    /\ IF rec.phase = "RollingBack" THEN Goto("rollbackVolume") /\ UNCHANGED rec
       ELSE Transition(rec, "Paused") /\ Goto("finalStart")
    /\ UNCHANGED <<Cluster, Budget>>

Activate ==
    /\ pc = "activate"
    /\ RestoreThen(rec, "activating")
    /\ UNCHANGED <<Cluster, rec, Budget>>

Activating ==
    /\ pc = "activating" /\ VerifyPaused
    /\ Transition(rec, "Activating")
    /\ Goto("activateVolume")
    /\ UNCHANGED <<Cluster, Budget>>

\* activateMigrationVolume: the claim is deleted, created anew, and recorded.
\* VolumeCutover has every step of it.
ActivateVolume ==
    LET v == Min(Undone(rec.active)) IN
    /\ pc = "activateVolume" /\ ~All(rec.active)
    /\ \/ claim[v] = "src" /\ VerifyPaused /\ claim' = [claim EXCEPT ![v] = "none"] /\ UNCHANGED rec
       \/ claim[v] = "none" /\ claim' = [claim EXCEPT ![v] = "dst"] /\ UNCHANGED rec
       \/ claim[v] = "dst" /\ rec' = [rec EXCEPT !.active[v] = TRUE] /\ UNCHANGED claim
    /\ UNCHANGED <<plan, sync, tools, shared, wl, pc, ret, Budget>>

Activated ==
    /\ pc = "activateVolume" /\ All(rec.active)
    /\ Transition(rec, "Activated")
    /\ Goto("resume")
    /\ UNCHANGED <<Cluster, Budget>>

Resume ==
    /\ pc = "resume" /\ ~ResumeRefused
    /\ RestoreThen(rec, "resuming")
    /\ UNCHANGED <<Cluster, rec, Budget>>

Resuming ==
    /\ pc = "resuming"
    /\ Transition(rec, "Resuming")
    /\ Goto("resumeWorkload")
    /\ UNCHANGED <<Cluster, Budget>>

ResumeWorkload ==
    /\ pc = "resumeWorkload" /\ ~ResumeRefused
    /\ wl' = ResumedWorkload
    /\ Goto("awaitReady")
    /\ UNCHANGED <<plan, rec, claim, sync, tools, shared, Budget>>

\* The Pod is ready; the pause owner is cleared (clearVictoriaLogsPauseOwner).
AwaitReady ==
    /\ pc = "awaitReady" /\ wl.pod = "up"
    /\ wl' = [wl EXCEPT !.owner = FALSE]
    /\ Goto("resumed")
    /\ UNCHANGED <<plan, rec, claim, sync, tools, shared, Budget>>

Resumed ==
    /\ pc = "resumed"
    /\ Transition(rec, CASE rec.phase = "Aborting" -> "Aborted"
                         [] rec.phase = "RollingBack" -> "RolledBack"
                         [] OTHER -> "Completed")
    /\ Goto("idle")
    /\ UNCHANGED <<Cluster, Budget>>

-----------------------------------------------------------------------------
(* Abort and rollback *)

\* Mutant: an abort that was interrupted is not taken up again.
AbortOnce ==
    /\ pc = "abort" /\ rec.phase # "Aborting"
    /\ Transition(rec, "Aborting")
    /\ pc' = "abortTools"
    /\ ret' = IF AbortNeedsResume(rec) THEN "resumeWorkload" ELSE "resumed"
    /\ UNCHANGED <<Cluster, Budget>>

Abort ==
    /\ pc = "abort"
    /\ Transition(rec, "Aborting")
    /\ pc' = "abortTools"
    /\ ret' = IF AbortNeedsResume(rec) THEN "resumeWorkload" ELSE "resumed"
    /\ UNCHANGED <<Cluster, Budget>>

\* Mutant: only the tools of the warm copy are stopped.
AbortWarmTools ==
    /\ pc = "abortTools"
    /\ tools' = [v \in Volumes |-> tools[v] \ {<<"warm", rec.attempts[v]>>}]
    /\ RestoreThen(rec, ret)
    /\ UNCHANGED <<plan, rec, claim, sync, shared, wl, Budget>>

AbortTools ==
    /\ pc = "abortTools"
    /\ tools' = [v \in Volumes |-> tools[v] \ ({"warm", "final"} \X {rec.attempts[v]})]
    /\ RestoreThen(rec, ret)
    /\ UNCHANGED <<plan, rec, claim, sync, shared, wl, Budget>>

\* ValidateRollback's checks of the volumes are in VolumeCutover.
Rollback ==
    /\ pc = "rollback"
    /\ All(rec.rolledBack) \/ RollbackNeedsPause(rec) \/ VerifyPaused
    /\ RestoreThen(rec, "rollingBack")
    /\ UNCHANGED <<Cluster, rec, Budget>>

RollingBack ==
    /\ pc = "rollingBack"
    /\ Transition(rec, "RollingBack")
    /\ Goto(IF All(rec.rolledBack) THEN "resumeWorkload"
            ELSE IF RollbackNeedsPause(rec) THEN "pauseWorkload" ELSE "pausing")
    /\ UNCHANGED <<Cluster, Budget>>

RollbackVolume ==
    LET v == Max(Undone(rec.rolledBack)) IN
    /\ pc = "rollbackVolume" /\ ~All(rec.rolledBack)
    /\ \/ claim[v] = "dst" /\ VerifyPaused /\ claim' = [claim EXCEPT ![v] = "none"] /\ UNCHANGED rec
       \/ claim[v] = "none" /\ claim' = [claim EXCEPT ![v] = "src"] /\ UNCHANGED rec
       \/ claim[v] = "src" /\ rec' = [rec EXCEPT !.rolledBack[v] = TRUE] /\ UNCHANGED claim
    /\ UNCHANGED <<plan, sync, tools, shared, wl, pc, ret, Budget>>

RolledBack ==
    /\ pc = "rollbackVolume" /\ All(rec.rolledBack)
    /\ Goto("resumeWorkload")
    /\ UNCHANGED <<Cluster, rec, Budget>>

-----------------------------------------------------------------------------
(* Errors *)

WarmPass == pc \in {"warmStart", "copy", "attempt", "transfer", "copied"} \/ ret = "warmStart"

\* The process dies, loses its Lease, is canceled or meets an error it only
\* returns.  A warm pass that returns restores its shared mounts first.
Interrupt ==
    /\ pc # "idle" /\ interrupts < MaxInterrupts
    /\ interrupts' = interrupts + 1
    /\ \/ pc' = "idle" /\ ret' = "idle"
       \/ WarmPass /\ rec.mounts > 0 /\ RestoreThen(rec, "idle")
    /\ UNCHANGED <<Cluster, rec, failures>>

\* Places whose errors are recorded (m.fail).
FailPoints ==
    {"reserveVolume", "pauseWorkload", "pausing", "activateVolume", "resumeWorkload", "awaitReady",
     "resumed", "abortTools", "rollbackVolume"}

Fail ==
    /\ failures < MaxFailures
    /\ \/ pc \in FailPoints
       \/ pc = "finalStart" /\ rec.phase = "Paused"
       \/ pc = "restore" /\ (ret \in {"warmPrepare", "warmed", "idle"} \/ rec.phase = "Aborting")
    /\ rec' = Failed(rec, rec.noSpace)
    /\ pc' = "idle" /\ ret' = "idle"
    /\ failures' = failures + 1
    /\ UNCHANGED <<Cluster, interrupts>>

\* The workload refuses to be resumed.
ResumeFails ==
    /\ pc = "resumeWorkload" /\ ResumeRefused
    /\ rec' = Failed(rec, FALSE)
    /\ pc' = "idle" /\ ret' = "idle"
    /\ UNCHANGED <<Cluster, Budget>>

\* Errors a stage meets before it has changed anything.
Refuse ==
    /\ \/ pc = "resume" /\ ResumeRefused
       \/ pc = "prepare" /\ SharedNeeded /\ shared
    /\ pc' = "idle" /\ ret' = "idle"
    /\ UNCHANGED <<Cluster, rec, Budget>>

Stage ==
    \/ Restore \/ Restored \/ Prepare \/ EnableShared
    \/ Reserve \/ Reserving \/ ReserveVolume
    \/ WarmCopy \/ WarmPrepare \/ WarmStart \/ FinalSync \/ FinalStart
    \/ CopyAttempt \/ CreateTools \/ CopySucceeds \/ Copied \/ CopiesDone \/ Warmed
    \/ Cutover \/ Probe \/ Pause \/ PauseWorkload \/ Paused
    \/ Activate \/ Activating \/ ActivateVolume \/ Activated
    \/ Resume \/ Resuming \/ ResumeWorkload \/ AwaitReady \/ Resumed
    \/ Abort \/ AbortTools \/ Rollback \/ RollingBack \/ RollbackVolume \/ RolledBack
    \/ ResumeFails \/ Refuse

Next == Entry \/ Stage \/ CopyRetries \/ CopyFails \/ Fail \/ Interrupt \/ Environment

Spec == Init /\ [][Next]_vars

\* A pass goes on until it ends, the user or the controller starts the next one
\* and asks a failed workflow to go on, and the cluster does what it is told.
\* Passes that die and failures are bounded.
FairSpec ==
    /\ Spec
    /\ WF_vars(Stage) /\ WF_vars(StartRun) /\ WF_vars(FailSourceDeleted)
    /\ WF_vars(ReactivateWorkflow)
    /\ WF_vars(ScaleDown) /\ WF_vars(Terminated) /\ WF_vars(ScaleUp)

-----------------------------------------------------------------------------
(* Properties *)

\* What is stored of a workflow.
Status ==
    [phase : Phases \cup {"Failed"}, resumeFrom : Phases \cup {"none"}, history : Seq(Phases),
     noSpace : BOOLEAN, passes : 0..PrecopyPasses, mounts : 0..2,
     attempts : [Volumes -> Nat], reserved : [Volumes -> BOOLEAN],
     warmDone : [Volumes -> BOOLEAN], finalDone : [Volumes -> BOOLEAN],
     active : [Volumes -> BOOLEAN], rolledBack : [Volumes -> BOOLEAN]]

\* What the adapters and the cluster know of the workload.
Workload ==
    [desired : BOOLEAN, pod : {"up", "stopping", "down"}, owner : BOOLEAN,
     marked : BOOLEAN, mount : [Volumes -> {"src", "dst"}]]

\* The places a pass can be at.
Labels ==
    {"idle", "restore", "restored", "prepare", "enable", "reserve", "reserving", "reserveVolume",
     "warm", "warmPrepare", "warmStart", "finalSync", "finalStart", "copy", "attempt", "transfer",
     "copied", "warmed", "cutover", "probe", "pause", "pauseWorkload", "pausing", "activate",
     "activating", "activateVolume", "resume", "resuming", "resumeWorkload", "awaitReady",
     "resumed", "abort", "abortTools", "rollback", "rollingBack", "rollbackVolume"}

\* Every variable has its type.
TypeOK ==
    /\ plan \in [adapter : Adapters, driver : Drivers, shared : SharedChoices,
                 manual : ManualChoices]
    /\ rec \in Status
    /\ claim \in [Volumes -> {"src", "none", "dst"}]
    /\ sync \in [Volumes -> {"equal", "copying", "behind"}]
    /\ tools \in [Volumes -> SUBSET ({"warm", "final"} \X Nat)]
    /\ shared \in BOOLEAN
    /\ wl \in Workload
    /\ pc \in Labels /\ ret \in Labels
    /\ interrupts \in 0..MaxInterrupts /\ failures \in 0..MaxFailures

\* A claim leads to the destination only when the destination holds everything
\* the workload ever wrote to the source (pauseAndFinalSync, activate).
NoLostWrites == \A v \in Volumes : claim[v] = "dst" => sync[v] = "equal"

\* Whatever dies, retries or is resumed, at most one copy writes to a
\* destination, and none once its claim is being swapped (copyWithRetry,
\* cleanupInterruptedWarmCopy, cleanupInterruptedFinalSync).
OneWriter ==
    \A v \in Volumes :
        Cardinality(tools[v]) <= 1 /\ (tools[v] # {} => claim[v] = "src")

\* The final copy has the source for itself: while its tools exist no Pod of the
\* workload does (finalSyncWithProbes).
FinalToolsAlone ==
    \A v \in Volumes : (\E t \in tools[v] : t[1] = "final") => wl.pod = "down"

\* A volume that was made shared is recorded for restoring, and none is left
\* shared past the pause (prepareWarmSharedMounts, restoreSharedMounts).
SharedRecorded ==
    shared => /\ rec.mounts > 0
              /\ ResumePhase(rec) \in {"Reserved", "WarmCopying", "WarmCopied", "Pausing",
                                       "Aborting"}

\* A finished workflow leaves nothing half done: the workload is asked to run,
\* on one side only, without tools, pause owner or shared mounts.
SettledWhole ==
    rec.phase \in Terminal =>
        /\ wl.desired /\ ~wl.owner /\ ~shared
        /\ tools = Every({})
        /\ claim = Every(IF rec.phase = "Completed" THEN "dst" ELSE "src")

\* The workload is started only when no copy is left running, and its Pod never
\* starts on a mixture of sources and destinations (abort, rollback, resumeWorkload).
ResumesWhole ==
    [][ /\ ~wl.desired /\ wl'.desired => tools = Every({})
        /\ wl.pod # "up" /\ wl'.pod = "up" =>
              wl'.mount \in {Every("src"), Every("dst")} ]_vars

\* "from FinalSynced onward a ... missing source is the cutover itself, not an
\* external deletion" (sourceTerminationRelevant): it is not recorded as a loss.
CutoverIsNoSourceLoss ==
    [][ pc = "idle" /\ pc' = "idle" /\ rec.phase # "Failed" /\ rec'.phase = "Failed" =>
          ResumePhase(rec) \notin {"FinalSynced", "Activating", "Activated", "Resuming"} ]_vars

\* Where a workflow may rest: finished, held for the user's approval, out of
\* space, or being aborted or rolled back (AbortSettles; VolumeCutover).
Settled ==
    \/ rec.phase \in Terminal \/ CutoverPending \/ rec.noSpace
    \/ ResumePhase(rec) \in {"Aborting", "RollingBack"}

\* "Session commands resume from their persisted phase after interruption": a
\* workflow that is run again gets through.
RunSettles == []<>Settled

\* The same of an abort: it ends, with the workload running.
AbortSettles == (ResumePhase(rec) = "Aborting") ~> (rec.phase = "Aborted" /\ wl.pod = "up")

\* Where the code keeps the first promise: under the CLI, for workloads whose
\* resume does not depend on a pause owner, without shared mounts (run).
RunSettlesUnowned ==
    plan.driver = "session" /\ plan.adapter # "VictoriaLogs" /\ ~plan.shared => RunSettles

\* Where it keeps the second: a StatefulSet is resumed by its replicas alone (abort).
AbortSettlesStatefulSet == plan.adapter = "StatefulSet" => AbortSettles

\* A copy never has to share: not its destination with another copy, and the
\* final one not its source with the workload.
CopiesExclusive == OneWriter /\ FinalToolsAlone

\* No pass leaves a change behind that nobody takes back: a shared volume is on
\* record while the workflow goes on, and nothing is left when it is finished.
NothingHalfDone == SharedRecorded /\ SettledWhole

\* Runs and aborts end where their recovery does not depend on an owner mark.
Recovers == RunSettlesUnowned /\ AbortSettlesStatefulSet

=============================================================================
