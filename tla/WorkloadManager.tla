--------------------------- MODULE WorkloadManager ---------------------------
(***************************************************************************)
(* The workload manager of internal/controller (discovery, Pause,          *)
(* VerifyPaused, ValidateResume, Resume, CurrentRollbackPods) under the    *)
(* Pod migration executors of internal/app that call it: what they store   *)
(* of the workload between the calls, and in which phases they call.  The  *)
(* volumes are left out: Activate stands for the final sync and the        *)
(* cutover, which start by verifying the pause again.                      *)
(***************************************************************************)
EXTENDS WorkloadStandalone

-----------------------------------------------------------------------------
(* Dispatch *)

Pause(s) ==
    \/ kind = "Standalone" /\ pauseStandalone(s)
    \/ kind = "Deployment" /\ pauseDeployment(s)
    \/ kind = "StatefulSet" /\ pauseStatefulSet(s)
    \/ kind = "VictoriaLogs" /\ pauseVictoriaLogs(s)
    \/ kind = "Grafana" /\ pauseGrafana(s)
    \/ kind = "VMCluster" /\ pauseVMCluster(s)
    \/ kind \in {"InstanceSet", "Cluster"} /\ pauseKubeBlocks(s)

Resume(s) ==
    \/ kind = "Standalone" /\ resumeStandalone(s)
    \/ kind = "Deployment" /\ resumeDeployment(s)
    \/ kind = "StatefulSet" /\ resumeStatefulSet(s)
    \/ kind = "VictoriaLogs" /\ resumeVictoriaLogs(s)
    \/ kind = "Grafana" /\ resumeGrafana(s)
    \/ kind = "VMCluster" /\ resumeVMCluster(s)
    \/ kind \in {"InstanceSet", "Cluster"} /\ resumeKubeBlocks(s)

verifyPauseControl(s) ==
    CASE kind = "Standalone" -> TRUE
      [] kind = "Deployment" -> verifyDeploymentPaused
      [] kind = "StatefulSet" -> verifyStatefulSetPaused(sess[s])
      [] kind = "VictoriaLogs" -> verifyVictoriaLogsPaused(s)
      [] kind = "Grafana" -> verifyGrafanaPaused(s)
      [] kind = "VMCluster" -> verifyVMClusterPaused(s)
      [] OTHER -> verifyKubeBlocksPaused(s)

ValidateResume(s) ==
    CASE kind = "Standalone" -> validateStandaloneResume(s)
      [] kind = "Deployment" -> validateDeploymentResume(sess[s])
      [] kind = "StatefulSet" -> validateStatefulSetTransitionReplicas(sess[s])
      [] kind = "VictoriaLogs" -> validateVictoriaLogsResume(s)
      [] kind = "Grafana" -> validateGrafanaResume(s)
      [] kind = "VMCluster" -> validateVMClusterResume(s)
      [] OTHER -> validateKubeBlocksResume(s)

\* currentControllerPods: those of the recorded Pods that exist.
currentControllerPods(r) == {i \in References(r) : Present(i)}

CurrentRollbackPods(s) ==
    CASE kind = "Standalone" -> currentStandaloneRollbackPods(s)
      [] kind = "Deployment" -> currentDeploymentRollbackPods(sess[s])
      [] kind = "Grafana" -> currentGrafanaRollbackPods(s)
      [] kind \in {"InstanceSet", "Cluster"} -> currentKubeBlocksRollbackPods(sess[s])
      [] OTHER -> [ok |-> validateStatefulSetTransitionReplicas(sess[s]),
                   pods |-> currentControllerPods(sess[s])]

DiscoverPod(i) ==
    CASE kind = "Standalone" -> standaloneWorkload(i)
      [] kind = "Deployment" -> deploymentWorkload(i)
      [] kind = "StatefulSet" -> statefulSetWorkload(i)
      [] kind = "VictoriaLogs" -> victoriaLogsWorkload(i)
      [] kind = "Grafana" -> grafanaWorkload(i)
      [] kind = "VMCluster" -> vmClusterWorkload(i)
      [] OTHER -> kubeBlocksWorkload(i)

-----------------------------------------------------------------------------
(* The executors *)

Idle(s) == At(s, "idle")
Active(r) == r.phase \notin {"new"} \cup Done

\* The Pods a pause answers for: all Pods of a Deployment share its claims.  Of
\* a Grafana only the selected Pod is recorded; its other Pods are found as
\* consumers of the volume by the final sync.
Writers(r) == IF kind = "Deployment" THEN Slots ELSE {r.plan.slot}

\* checkSessionOwnership: the claims of a migration stay labelled until it is
\* undone, and a plan for a labelled claim fails.
checkSessionOwnership(s, plan) ==
    \A t \in Sessions \ {s} :
       sess[t].phase \notin {"new", "Aborted", "RolledBack"} => kind \notin {"Deployment", "Grafana"} /\ sess[t].plan.slot # plan.slot

Discover(s, i) ==
    /\ sess[s].phase = "new" /\ s \in budget.sessions
    /\ \E plan \in DiscoverPod(i) :
          /\ checkSessionOwnership(s, plan)
          /\ sess' = [sess EXCEPT ![s].phase = "Planned", ![s].plan = plan]
    /\ OnlySession

\* A pass reads the stored record.
Begin(r, phase, label) ==
    LET fresh == [r EXCEPT !.phase = phase, !.mem = r.ckpt, !.pc = label]
    IN [fresh EXCEPT !.vm = Supported(fresh)]

\* pause: the planned and the pausing phase.
StartRun(s) ==
    /\ Idle(s) /\ sess[s].phase \in {"Planned", "Pausing"}
    /\ sess' = [sess EXCEPT ![s] = Begin(@, "Pausing", "pause")]
    /\ OnlySession

\* saveWorkloadCheckpoint: a checkpoint that was returned is stored at once.
saveWorkloadCheckpoint(r) ==
    IF r.renewed THEN [r EXCEPT !.ckpt = r.mem, !.renewed = FALSE] ELSE r

PauseReturned(s) ==
    /\ At(s, "paused")
    /\ sess' = [sess EXCEPT ![s] = [saveWorkloadCheckpoint(WithProbe(@)) EXCEPT !.pc = "verify"]]
    /\ OnlySession

\* VerifyPaused, first its control part, then the wait for the Pods.
VerifyPaused(s) ==
    \/ At(s, "verify") /\ Step(s, verifyPauseControl(s), "names") /\ OnlySession
    \/ /\ At(s, "names") /\ waitForPodNameGone(sess[s])
       /\ sess' = [sess EXCEPT ![s] =
             IF @.phase = "Pausing"
             THEN [@ EXCEPT !.phase = "Paused", !.ckpt = sess[s].mem, !.pc = "idle"]
             ELSE [@ EXCEPT !.restored = TRUE, !.vm = Supported(sess[s]), !.pc = "resume"]]
       /\ OnlySession

PauseVerified(s) == verifyPauseControl(s) /\ waitForPodNameGone(sess[s])

\* The final sync and the cutover of the volumes.
Activate(s) ==
    /\ Idle(s) /\ sess[s].phase = "Paused"
    /\ PauseVerified(s)
    /\ sess' = [sess EXCEPT ![s].phase = "Activated"]
    /\ OnlySession

\* resumeWorkload
StartResume(s) ==
    /\ Idle(s) /\ sess[s].phase \in {"Activated", "Resuming"}
    /\ ValidateResume(s)
    /\ sess' = [sess EXCEPT ![s] = Begin(@, "Resuming", "resume")]
    /\ OnlySession

\* abort, podAbortNeedsResume: before the pause there is nothing to resume.
StartAbort(s) ==
    /\ Idle(s) /\ sess[s].phase \in {"Planned", "Pausing", "Paused", "Aborting"}
    /\ sess' = [sess EXCEPT ![s] =
          IF @.phase = "Planned" THEN [@ EXCEPT !.phase = "Aborted"]
          ELSE [Begin(@, "Aborting", "resume") EXCEPT
                   !.from = IF sess[s].phase = "Aborting" THEN @ ELSE sess[s].phase]]
    /\ OnlySession

\* podRollbackNeedsPause
podRollbackNeedsPause(from) == from \in {"Resuming", "Completed"}

\* rollbackWorkloadCheckpoint, refreshRollbackPodReferences: the Pods as they
\* are now; nothing is stored when nothing changed.
refreshRollbackPodReferences(r, current) ==
    IF current = {} THEN Affected(r)
    ELSE IF kind \in {"Deployment", "Grafana"} THEN current
    ELSE IF Affected(r) = {} THEN current
    ELSE Affected(r) \cup (current \ References(r))

rollbackWorkloadCheckpoint(s) ==
    LET r == [sess[s] EXCEPT !.mem = sess[s].ckpt]
        current == CurrentRollbackPods(s).pods
        refs == refreshRollbackPodReferences(r, current)
    IN IF refs = Affected(r) /\ current \cap r.stale = {} THEN r
       ELSE [r EXCEPT !.ckpt = [set |-> TRUE, vm |-> None, pods |-> refs],
                      !.stale = @ \ current]

StartRollback(s) ==
    LET r == sess[s]
        from == IF r.phase = "RollingBack" THEN r.from ELSE r.phase
    IN
    /\ Idle(s) /\ r.phase \in {"Activated", "Resuming", "Completed", "RollingBack"}
    /\ r.restored \/ (CurrentRollbackPods(s).ok /\ (podRollbackNeedsPause(from) \/ PauseVerified(s)))
    /\ sess' = [sess EXCEPT ![s] =
          [Begin(IF podRollbackNeedsPause(from) /\ ~r.restored
                 THEN rollbackWorkloadCheckpoint(s) ELSE @,
                 "RollingBack",
                 IF r.restored THEN "resume"
                 ELSE IF podRollbackNeedsPause(from) THEN "pause" ELSE "verify")
             EXCEPT !.from = from]]
    /\ OnlySession

\* The workload runs again: the identities found are stored and the phase ends.
ResumeReturned(s) ==
    /\ At(s, "resumed")
    /\ sess' = [sess EXCEPT ![s] =
          [@ EXCEPT !.phase = [Resuming |-> "Completed", Aborting |-> "Aborted",
                               RollingBack |-> "RolledBack"][@],
                    !.ckpt = sess[s].mem, !.renewed = FALSE, !.vm = FALSE, !.pc = "idle"]]
    /\ OnlySession

\* A pass dies, or gives up waiting.
Crash(s) ==
    /\ ~Idle(s) /\ crashes < budget.crashes
    /\ crashes' = crashes + 1
    /\ sess' = [sess EXCEPT ![s] =
          [@ EXCEPT !.pc = "idle", !.mem = sess[s].ckpt, !.vm = FALSE, !.renewed = FALSE,
                    !.stale = IF sess[s].renewed THEN @ \cup Slots ELSE @]]
    /\ UNCHANGED <<kind, budget, scale, pods, cr, kb, hpa, outside>>

Waits == {"gone", "ready", "operational", "names", "deleting", "running", "replacement", "replaced",
          "switching", "stopping", "starting", "reconciling", "moved"}

\* waitFor has a deadline.
TimesOut(s) ==
    /\ sess[s].pc \in Waits /\ crashes < budget.crashes
    /\ crashes' = crashes + 1
    /\ Fail(s)
    /\ UNCHANGED <<kind, budget, scale, pods, cr, kb, hpa, outside>>

-----------------------------------------------------------------------------

Fresh == [phase |-> "new", from |-> "new", plan |-> NoSpec, ckpt |-> NoStatus, mem |-> NoStatus,
          vm |-> FALSE, pc |-> "idle", stale |-> {}, restored |-> FALSE, renewed |-> FALSE]

Init ==
    /\ budget \in Budgets /\ kind \in budget.kinds
    /\ scale = IF kind \in Scaled THEN Replicas ELSE 0
    /\ pods = [i \in Slots |-> IF kind = "Standalone" /\ i > 0 THEN "gone" ELSE "ready"]
    /\ \E kept \in IF kind = "VMCluster" THEN FieldKept ELSE {FALSE}, count \in IF kind = "VMCluster" THEN {None, Replicas} ELSE {None},
          top \in IF kind = "VMCluster" THEN BOOLEAN ELSE {FALSE} :
          cr = [owner |-> None, paused |-> FALSE, count |-> count, top |-> top, kept |-> kept]
    /\ kb = [phase |-> "Running", leader |-> 0, ops |-> [s \in Sessions |-> [n \in OpNames |-> None]]]
    /\ hpa = FALSE
    /\ sess = [s \in Sessions |-> Fresh]
    /\ crashes = 0 /\ outside = 0

Works(s) ==
    \/ Pause(s) \/ Resume(s)
    \/ PauseReturned(s) \/ VerifyPaused(s) \/ ResumeReturned(s)

Manages(s) ==
    \/ \E i \in Slots : Discover(s, i)
    \/ StartRun(s) \/ Activate(s) \/ StartResume(s) \/ StartAbort(s) \/ StartRollback(s)

Next ==
    \/ \E s \in Sessions : Works(s) \/ Manages(s) \/ Crash(s) \/ TimesOut(s)
    \/ Cluster \/ Outsider
    \/ \E s \in Sessions, name \in OpNames : OpsFails(s, name)


\* The retry of what a session is doing.
Retries(s) ==
    \/ sess[s].phase = "Resuming" /\ StartResume(s)
    \/ sess[s].phase = "Aborting" /\ StartAbort(s)
    \/ sess[s].phase = "RollingBack" /\ StartRollback(s)

Fairness ==
    /\ \A s \in Sessions : WF_vars(Works(s)) /\ WF_vars(Retries(s))
    /\ WF_vars(Cluster)

Spec == Init /\ [][Next]_vars /\ Fairness

-----------------------------------------------------------------------------
(* Properties *)

SessionRecord ==
    [phase : Phases, from : Phases, plan : WorkloadSpec, ckpt : WorkloadStatus, mem : WorkloadStatus,
     vm : BOOLEAN, pc : STRING, stale : SUBSET Slots, restored : BOOLEAN, renewed : BOOLEAN]

\* Every variable has its type.
TypeOK ==
    /\ kind \in budget.kinds /\ scale \in 0 .. Replicas
    /\ pods \in [Slots -> {"gone", "starting", "ready", "stopping"}]
    /\ cr.owner \in {None} \cup Sessions /\ cr.count \in {None} \cup 0 .. Replicas
    /\ kb.leader \in Slots
    /\ \A s \in Sessions : sess[s] \in SessionRecord

\* While a migration holds a workload for its final copy and its cutover, no
\* Pod that mounts the volume is there, unless somebody else interferes.
PauseHeld ==
    \A s \in Sessions :
       /\ sess[s].phase \in {"Paused", "Activated"} /\ outside = 0
       /\ kind = "Cluster" => crashes = 0
       =>
          \A i \in Writers(sess[s]) : ~Present(i)

\* The outcome of the VMCluster probe is stored with the pausing phase only: a
\* pass that died before, and the pause of a rollback, resume without it.
ProbeLost ==
    kind = "VMCluster" /\ cr.kept /\ (crashes > 0 \/ \E s \in Sessions : sess[s].phase = "RolledBack")

\* When no migration is under way any more and nobody else interfered, the
\* workload has its replica count, its pause switch and its owner annotation as
\* they were found, and the Pods of the migrations run.  Two cases are left
\* out: the switch of a VMCluster whose probe outcome was lost, and the Pods of
\* a VMCluster that is paused as a whole or of a legacy Cluster whose Stop
\* request was left open by a pass that died.
GivenBack ==
    outside = 0 /\ (\A s \in Sessions : ~Active(sess[s])) =>
       /\ kind \in Scaled => scale = Replicas
       /\ cr.count # None => cr.count = Replicas
       /\ ~cr.paused \/ ProbeLost
       /\ kind # "Standalone" => cr.owner = None
       /\ ~cr.top /\ (kind = "Cluster" => crashes = 0) =>
             \A s \in Sessions : sess[s].phase # "new" => pods[sess[s].plan.slot] = "ready"

\* A leader that was to be switched away first is never deleted, also when the request
\* for the switchover fails, ends without one or is repeated after a crash.  (A single
\* session, and nobody else who takes the Pod or the role: the code reads the role once.)
LeaderSpared ==
    [][\A s \in Sessions :
         /\ At(s, "delete") /\ sess'[s].pc = "deleting"
         /\ sess[s].phase = "Pausing" /\ sess[s].plan.candidate # None /\ outside = 0
         /\ \A t \in Sessions \ {s} : sess[t].phase = "new"
         => kb.leader # sess[s].plan.slot]_vars

Alone(s) == outside = 0 /\ \A t \in Sessions \ {s} : sess[t].phase = "new"

\* A resume, an abort or a rollback that is retried ends, however its passes
\* died, as long as nobody else changes the workload.  The adapters that keep an
\* owner mark promise it only without a crash: a pass that died after it cleared
\* the mark is refused by its own check of the owner ever after.
Settles ==
    \A s \in Sessions :
       (/\ kind \in {"Deployment", "StatefulSet", "Grafana", "InstanceSet"} \/ [](crashes = 0 /\ ~cr.kept)
        /\ sess[s].phase \in {"Resuming", "Aborting", "RollingBack"} /\ [](Alone(s)))
          ~> sess[s].phase \in Done

=============================================================================
