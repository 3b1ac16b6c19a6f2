-------------------------- MODULE WorkloadKubeBlocks --------------------------
(***************************************************************************)
(* The KubeBlocks adapters: kubeblocks_pause.go, kubeblocks_discovery.go   *)
(* and kubeblocks_database.go of internal/controller.  An InstanceSet is   *)
(* paused by its own switch and only the selected Pod is deleted, after    *)
(* the leader role was moved away where that was asked for.  A legacy      *)
(* Cluster is stopped and started as a whole by OpsRequests, which keep    *)
(* their names over reruns; the Cluster carries the pause annotation.      *)
(***************************************************************************)
EXTENDS WorkloadOperators

OnlyKubeBlocks == UNCHANGED <<kind, budget, scale, pods, cr, hpa, crashes, outside>>
OnlyPods == UNCHANGED <<kind, budget, scale, cr, kb, hpa, crashes, outside>>

-----------------------------------------------------------------------------
(* OpsRequests *)

\* kubeBlocksOperationName: one name per session, operation and action.
kubeBlocksOperationName(r, action) ==
    CASE r.phase = "RollingBack" -> [pause |-> "rollback-pause", resume |-> "rollback-resume",
                                     reconcile |-> "rollback-reconcile"][action]
      [] r.phase = "Aborting" -> [pause |-> "abort-pause", resume |-> "abort-resume"][action]
      [] OTHER -> action

\* kubeBlocksOpsFailed
kubeBlocksOpsFailed(phase) == phase = "Failed"

\* createAndWaitOps: a failed request of that name is deleted and made again, any
\* other one is waited for, a succeeded one included.
createOps(s, label, name, wait) ==
    /\ At(s, label)
    /\ kb' = [kb EXCEPT !.ops[s][name] = IF @ = None \/ kubeBlocksOpsFailed(@) THEN "Running" ELSE @]
    /\ Goto(s, wait)
    /\ OnlyKubeBlocks

waitOps(s, wait, name, next) ==
    /\ At(s, wait)
    /\ \/ kb.ops[s][name] = "Succeed" /\ Goto(s, next)
       \/ kubeBlocksOpsFailed(kb.ops[s][name]) /\ Fail(s)
    /\ OnlySession

createAndWaitOps(s, label, name, wait, next) ==
    createOps(s, label, name, wait) \/ waitOps(s, wait, name, next)

-----------------------------------------------------------------------------
(* InstanceSet *)

\* Mutant: the switch has to be on, marked or not.
validateInstanceSetPauseStateOn(r) == cr.paused

\* validateInstanceSetPauseState, after the owner was found to be nobody else:
\* the switch is as discovered or, with this session's mark, on.
validateInstanceSetPauseState(r) ==
    IF cr.owner = None THEN cr.paused = r.plan.paused ELSE cr.paused

updateKubeBlocksInstanceSet(s, label, paused, next) ==
    /\ At(s, label)
    /\ IF Available(s) /\ validateInstanceSetPauseState(sess[s])
       THEN /\ cr' = [cr EXCEPT !.paused = paused \/ sess[s].plan.paused,
                                !.owner = IF paused THEN s ELSE None]
            /\ Goto(s, next)
       ELSE Fail(s) /\ UNCHANGED cr
    /\ OnlyObject

verifyKubeBlocksInstanceSetPaused(s) == cr.owner = s /\ cr.paused

\* The leader role is moved only in the pausing phase, and only with a candidate.
NeedsSwitchover(r) ==
    /\ r.phase = "Pausing" /\ kind = "InstanceSet"
    /\ kb.leader = r.plan.slot /\ r.plan.candidate # None

\* Mutant: a request that succeeded is taken for a role that moved.
verifySwitchoverTrusting(s) ==
    /\ At(s, "switched") /\ Goto(s, "pausing") /\ OnlySession

\* After an OpsRequest the Pod must have lost the role.
verifySwitchover(s) ==
    /\ At(s, "switched")
    /\ Step(s, Present(sess[s].plan.slot) /\ kb.leader # sess[s].plan.slot, "pausing")
    /\ OnlySession

\* runMongoDBNativeSwitchover: a command in the Pod, and a wait for both roles.
runMongoDBNativeSwitchover(s) ==
    LET r == sess[s] IN
    \/ /\ At(s, "exec")
       /\ IF Present(r.plan.slot) /\ r.plan.slot \notin r.stale /\ pods[r.plan.candidate] = "ready"
          THEN kb' = [kb EXCEPT !.leader = r.plan.candidate] /\ Goto(s, "moved")
          ELSE Fail(s) /\ UNCHANGED kb
       /\ OnlyKubeBlocks
    \/ /\ At(s, "moved")
       /\ \/ kb.leader = r.plan.candidate /\ Goto(s, "pausing")
          \/ ~Present(r.plan.slot) /\ Fail(s)
       /\ OnlySession

-----------------------------------------------------------------------------
(* The legacy Cluster *)

kubeBlocksStopped == kb.phase = "Stopped"
kubeBlocksLegacyResumeConverged == kb.phase = "Running"

\* verifyKubeBlocksPauseOperation: the request of this phase, then the first one;
\* one that is still going decides against it.
verifyKubeBlocksPauseOperation(s) ==
    LET now == kb.ops[s][kubeBlocksOperationName(sess[s], "pause")]
        first == kb.ops[s]["pause"]
    IN /\ now = "Succeed" \/ (now \in {None, "Failed"} /\ first = "Succeed")
       /\ kubeBlocksStopped

verifyKubeBlocksPaused(s) ==
    IF kind = "InstanceSet" THEN verifyKubeBlocksInstanceSetPaused(s)
    ELSE cr.owner = s /\ verifyKubeBlocksPauseOperation(s)

\* updateKubeBlocksPauseOwner(true)
markKubeBlocksCluster(s) ==
    /\ At(s, "mark")
    /\ IF Available(s) THEN cr' = [cr EXCEPT !.owner = s] /\ Goto(s, "stop")
       ELSE Fail(s) /\ UNCHANGED cr
    /\ OnlyObject

\* updateKubeBlocksPauseOwner(false)
unmarkKubeBlocksCluster(s) ==
    /\ At(s, "unmark")
    /\ IF Available(s)
       THEN cr' = [cr EXCEPT !.owner = None] /\ Goto(s, "resumed")
       ELSE Fail(s) /\ UNCHANGED cr
    /\ OnlyObject

\* The selected Pod's identity is renewed.
recoveredWorkloadPod(r) ==
    [r EXCEPT !.mem = [set |-> TRUE, vm |-> None, pods |-> Affected(r)],
              !.stale = {}, !.renewed = TRUE]

\* recoverLegacyKubeBlocksStoppedWithPod: a Cluster that was stopped (or failed)
\* while its Pod stayed is started again and the Pod replaced.
recoverable(s) == cr.owner = s /\ (kubeBlocksStopped \/ kb.phase = "Failed")

\* waitForKubeBlocksRunning
waitForKubeBlocksRunning ==
    IF kind = "Cluster" THEN kb.phase = "Running" ELSE \A i \in Slots : pods[i] = "ready"

replaceLegacyKubeBlocksPod(s) ==
    LET i == sess[s].plan.slot IN
    \/ /\ At(s, "replace")
       /\ IF Present(i) /\ i \notin sess[s].stale
          THEN pods' = [pods EXCEPT ![i] = "stopping"] /\ Goto(s, "replacement")
          ELSE Fail(s) /\ UNCHANGED pods
       /\ OnlyPods
    \/ /\ At(s, "replacement") /\ pods[i] = "ready" /\ i \in sess[s].stale
       /\ sess' = [sess EXCEPT ![s] = [recoveredWorkloadPod(@) EXCEPT !.pc = "replaced"]]
       /\ OnlySession
    \/ /\ At(s, "replaced") /\ waitForKubeBlocksRunning
       /\ Goto(s, "pausing") /\ OnlySession

recoverLegacyKubeBlocksStoppedWithPod(s) ==
    \/ createAndWaitOps(s, "reconcile", kubeBlocksOperationName(sess[s], "reconcile"),
                        "reconciling", "replace")
    \/ replaceLegacyKubeBlocksPod(s)

-----------------------------------------------------------------------------
(* Pause and resume *)

\* Where pauseKubeBlocks goes after reading the Pod.
afterRead(s) ==
    LET r == sess[s] IN
    IF ~Present(r.plan.slot) THEN "pausing"
    ELSE IF r.plan.slot \in r.stale THEN "failed"
    ELSE IF kind = "Cluster" /\ ~kubeBlocksLegacyResumeConverged
         THEN IF recoverable(s) THEN "reconcile" ELSE "failed"
    ELSE IF NeedsSwitchover(r) THEN IF r.plan.native THEN "exec" ELSE "switch"
    ELSE "pausing"

\* setKubeBlocksPaused(true)
setKubeBlocksPaused(s) ==
    \/ /\ kind = "InstanceSet"
       /\ updateKubeBlocksInstanceSet(s, "pausing", TRUE, "delete")
    \/ /\ kind = "Cluster" /\ At(s, "pausing")
       /\ IF kubeBlocksStopped THEN Step(s, cr.owner = s, "delete") ELSE Goto(s, "mark")
       /\ OnlySession
    \/ markKubeBlocksCluster(s)
    \/ createAndWaitOps(s, "stop", kubeBlocksOperationName(sess[s], "pause"), "stopping", "delete")

deleteKubeBlocksPod(s) ==
    LET i == sess[s].plan.slot IN
    \/ /\ At(s, "delete")
       /\ IF Present(i) /\ i \in sess[s].stale
          THEN Fail(s) /\ UNCHANGED pods
          ELSE /\ pods' = [pods EXCEPT ![i] = IF Present(i) THEN "stopping" ELSE @]
               /\ Goto(s, "deleting")
       /\ OnlyPods
    \/ /\ At(s, "deleting") /\ waitForPodDeletion(s, {i}, "paused")
       /\ OnlySession

pauseKubeBlocks(s) ==
    \/ /\ At(s, "pause")
       /\ Step(s, afterRead(s) # "failed", afterRead(s))
       /\ OnlySession
    \/ recoverLegacyKubeBlocksStoppedWithPod(s)
    \/ createAndWaitOps(s, "switch", "switchover", "switching", "switched")
    \/ verifySwitchover(s)
    \/ runMongoDBNativeSwitchover(s)
    \/ setKubeBlocksPaused(s)
    \/ deleteKubeBlocksPod(s)

\* kubeBlocksResumeOperationStarted
kubeBlocksResumeOperationStarted(s) ==
    kb.ops[s][kubeBlocksOperationName(sess[s], "resume")] \in {"Running", "Succeed"}

\* validateKubeBlocksLegacyResume: running already, being started by this
\* session, or stopped by it.
validateKubeBlocksLegacyResume(s) ==
    /\ cr.owner = s
    /\ \/ kubeBlocksLegacyResumeConverged
       \/ kubeBlocksResumeOperationStarted(s)
       \/ verifyKubeBlocksPauseOperation(s)

validateKubeBlocksResume(s) ==
    IF kind = "InstanceSet"
    THEN ~sess[s].plan.paused /\ Available(s) /\ validateInstanceSetPauseState(sess[s])
    ELSE validateKubeBlocksLegacyResume(s)

\* legacyKubeBlocksPauseNotStarted: an abort of a pause that never marked the
\* Cluster leaves it alone.
legacyKubeBlocksPauseNotStarted(r) ==
    r.phase = "Aborting" /\ r.from = "Pausing" /\ kind = "Cluster" /\ cr.owner = None

resumeKubeBlocks(s) ==
    LET r == sess[s] IN
    \/ /\ At(s, "resume")
       /\ IF legacyKubeBlocksPauseNotStarted(r) THEN Goto(s, "resumed")
          ELSE Step(s, validateKubeBlocksResume(s), "unpause")
       /\ OnlySession
    \/ /\ kind = "InstanceSet"
       /\ updateKubeBlocksInstanceSet(s, "unpause", FALSE, "ready")
    \/ /\ kind = "Cluster" /\ At(s, "unpause")
       /\ Goto(s, IF kubeBlocksLegacyResumeConverged THEN "ready" ELSE "start")
       /\ OnlySession
    \/ createAndWaitOps(s, "start", kubeBlocksOperationName(r, "resume"), "starting", "ready")
    \/ /\ At(s, "ready") /\ waitForResumedPods({r.plan.slot})
       /\ sess' = [sess EXCEPT ![s] = [recoveredWorkloadPod(@) EXCEPT !.pc = "running"]]
       /\ OnlySession
    \/ /\ At(s, "running") /\ waitForKubeBlocksRunning
       /\ Goto(s, IF kind = "InstanceSet" THEN "resumed" ELSE "unmark")
       /\ OnlySession
    \/ unmarkKubeBlocksCluster(s)

currentKubeBlocksRollbackPods(r) ==
    [ok |-> TRUE, pods |-> {i \in {r.plan.slot} : Present(i)}]

-----------------------------------------------------------------------------
(* Discovery *)

\* discoverKubeBlocksCandidate, resolveKubeBlocksSwitchover: another Pod of the
\* component that is ready and not the leader.
discoverKubeBlocksCandidate(i) == {j \in Slots \ {i} : pods[j] = "ready" /\ j # kb.leader}

\* kubeBlocksWorkload: a leader of an InstanceSet needs a candidate, or the
\* permission to lose the leader for a while.
kubeBlocksWorkload(i) ==
    LET base == Selected(i, 0, {})
        leader == kind = "InstanceSet" /\ kb.leader = i
    IN IF pods[i] # "ready" \/ (kind = "InstanceSet" /\ cr.paused) THEN {}
       ELSE IF ~leader THEN {base}
       ELSE {[base EXCEPT !.downtime = TRUE]}
            \cup {[base EXCEPT !.candidate = j, !.native = n] :
                    j \in discoverKubeBlocksCandidate(i), n \in BOOLEAN}

=============================================================================
