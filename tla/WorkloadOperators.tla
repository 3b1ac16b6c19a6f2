-------------------------- MODULE WorkloadOperators --------------------------
(***************************************************************************)
(* The adapters of workloads an operator reconciles: grafana.go and        *)
(* vmcluster.go of internal/controller.  The operator object is suspended  *)
(* or paused and marked with the session first, so that the operator does  *)
(* not undo the replica count the adapter sets below it.                   *)
(***************************************************************************)
EXTENDS WorkloadReplicas

OnlyObject == UNCHANGED <<kind, budget, scale, pods, kb, hpa, crashes, outside>>

\* The operator object belongs to nobody else.
Available(s) == cr.owner \in {None, s}

-----------------------------------------------------------------------------
(* Grafana *)

setGrafanaPaused(s) ==
    /\ At(s, "pause")
    /\ IF /\ rejectHorizontalPodAutoscaler /\ Available(s)
          /\ IF cr.owner = s THEN cr.paused ELSE cr.paused = sess[s].plan.paused
       THEN cr' = [cr EXCEPT !.paused = TRUE, !.owner = s] /\ Goto(s, "scale")
       ELSE Fail(s) /\ UNCHANGED cr
    /\ OnlyObject

\* validateGrafanaSuspendState: may the suspension be undone (or is it already)?
validateGrafanaSuspendState(s) ==
    /\ Available(s)
    /\ IF cr.owner = s THEN cr.paused ELSE cr.paused = sess[s].plan.paused

\* Mutant: the mark goes, the switch stays.
restoredGrafanaMark(s) ==
    IF cr.owner = s THEN [cr EXCEPT !.owner = None] ELSE cr

\* restoreGrafanaPause; nothing is left to do when the owner is absent.
restoredGrafana(s) ==
    IF cr.owner = s THEN [cr EXCEPT !.paused = sess[s].plan.paused, !.owner = None] ELSE cr

restoreGrafanaPause(s, label, next) ==
    /\ At(s, label)
    /\ IF validateGrafanaSuspendState(s)
       THEN cr' = restoredGrafana(s) /\ (IF next = "idle" THEN Fail(s) ELSE Goto(s, next))
       ELSE Fail(s) /\ UNCHANGED cr
    /\ OnlyObject

pauseGrafana(s) ==
    LET r == sess[s]
        ok == rejectHorizontalPodAutoscaler /\ Scalable(0, {r.plan.orig}) IN
    \/ setGrafanaPaused(s)
    \/ At(s, "scale") /\ ok /\ ScaleTo(s, 0, "gone")
    \/ At(s, "scale") /\ ~ok /\ Goto(s, "undo") /\ OnlySession
    \/ restoreGrafanaPause(s, "undo", "idle")
    \/ At(s, "gone") /\ waitForNamesGone(s, Affected(r), "paused") /\ OnlySession

verifyGrafanaPaused(s) ==
    /\ cr.owner = s /\ cr.paused
    /\ rejectHorizontalPodAutoscaler /\ scale = 0

validateGrafanaResume(s) ==
    /\ validateGrafanaSuspendState(s)
    /\ rejectHorizontalPodAutoscaler
    /\ validateResumeReplicas(sess[s].plan.orig, 0)

resumeGrafana(s) ==
    LET r == sess[s]
        ok == rejectHorizontalPodAutoscaler /\ Scalable(r.plan.orig, {0}) IN
    \/ At(s, "resume") /\ ok /\ ScaleTo(s, r.plan.orig, "release")
    \/ At(s, "resume") /\ ~ok /\ Fail(s) /\ OnlySession
    \/ restoreGrafanaPause(s, "release", "ready")
    \/ /\ At(s, "ready")
       /\ IF scale # r.plan.orig \/ ~rejectHorizontalPodAutoscaler
          THEN Fail(s)
          ELSE /\ readyDeploymentPods
               /\ sess' = [sess EXCEPT ![s] = [Recovered(@, {r.plan.slot}) EXCEPT !.pc = "resumed"]]
       /\ OnlySession

currentGrafanaRollbackPods(s) ==
    [ok |-> validateGrafanaResume(s), pods |-> observeDeploymentPods]

\* grafanaWorkload: only the selected Pod is recorded.
grafanaWorkload(i) ==
    IF rejectHorizontalPodAutoscaler /\ scale > 0 /\ pods[i] = "ready"
    THEN {Selected(i, 0, {i})} ELSE {}

-----------------------------------------------------------------------------
(* VMCluster *)

\* setVMClusterPausedOnce: what must hold before the switch is written.  A
\* replica count that is absent from the object is recorded as None.
pausableVMCluster(s) ==
    LET r == sess[s] IN
    /\ Available(s)
    /\ cr.owner = None => cr.paused = r.plan.paused /\ cr.count = r.plan.count
    /\ cr.owner = s => cr.paused \/ ~r.vm

\* The probe reads the switch back: an old CRD drops it.  When the read fails
\* the session keeps what it knew; such a failure is counted with the crashes.
probed(r) == {cr.kept} \cup (IF crashes < budget.crashes THEN {r.vm} ELSE {})

setVMClusterPaused(s) ==
    /\ At(s, "pause")
    /\ IF rejectHorizontalPodAutoscaler /\ pausableVMCluster(s)
       THEN /\ cr' = [cr EXCEPT !.paused = cr.kept, !.owner = s]
            /\ \E stuck \in IF cr.owner = s /\ cr.paused THEN {TRUE} ELSE probed(sess[s]) :
                  /\ sess' = [sess EXCEPT ![s].vm = stuck, ![s].pc = "count"]
                  /\ crashes' = IF stuck = cr.kept THEN crashes ELSE crashes + 1
       ELSE Fail(s) /\ UNCHANGED <<cr, crashes>>
    /\ UNCHANGED <<kind, budget, scale, pods, kb, hpa, outside>>

\* setVMClusterReplicaCount: nothing to do for a count that is not configured.
settableVMClusterCount(s, replicas, allowed) ==
    /\ (cr.count = None) = (sess[s].plan.count = None)
    /\ cr.count # None => cr.owner = s /\ cr.count \in {replicas, allowed}

setVMClusterReplicaCount(s, label, replicas, allowed, next, otherwise) ==
    /\ At(s, label)
    /\ IF settableVMClusterCount(s, replicas, allowed)
       THEN /\ cr' = [cr EXCEPT !.count = IF @ = None THEN None ELSE replicas]
            /\ Goto(s, next)
       ELSE UNCHANGED cr /\ (IF otherwise = "idle" THEN Fail(s) ELSE Goto(s, otherwise))
    /\ OnlyObject

\* validateVMClusterPauseRestoreState
validateVMClusterPauseRestoreState(s, supported) ==
    LET plan == sess[s].plan IN
    \/ /\ cr.owner = None
       /\ supported => cr.paused = plan.paused
       /\ cr.count = plan.count
    \/ /\ cr.owner = s
       /\ supported => cr.paused
       /\ IF plan.count = None THEN cr.count = None ELSE cr.count \in {plan.count, plan.ordinal}

\* restoreVMClusterPauseOnce: the switch is written back only where the probe
\* found that it exists.
restoredVMCluster(s) ==
    IF cr.owner = None THEN cr
    ELSE [cr EXCEPT !.owner = None, !.count = sess[s].plan.count,
                    !.paused = IF sess[s].vm THEN sess[s].plan.paused ELSE @]

restoreVMClusterPause(s, label, next) ==
    /\ At(s, label)
    /\ IF validateVMClusterPauseRestoreState(s, sess[s].vm)
       THEN cr' = restoredVMCluster(s) /\ (IF next = "idle" THEN Fail(s) ELSE Goto(s, next))
       ELSE UNCHANGED cr /\ (IF next = "idle" THEN Fail(s) ELSE ReturnsError(s))
    /\ OnlyObject

pauseVMCluster(s) ==
    LET r == sess[s] IN
    \/ setVMClusterPaused(s)
    \/ setVMClusterReplicaCount(s, "count", r.plan.ordinal, r.plan.count, "scale", "undo")
    \/ /\ At(s, "scale") /\ Scalable(r.plan.ordinal, {r.plan.orig})
       /\ ScaleTo(s, r.plan.ordinal, "gone")
    \/ /\ At(s, "scale") /\ ~Scalable(r.plan.ordinal, {r.plan.orig})
       /\ Goto(s, "undo") /\ OnlySession
    \/ restoreVMClusterPause(s, "undo", "idle")
    \/ /\ At(s, "gone") /\ waitForPodDeletion(s, Affected(r), "paused")
       /\ OnlySession

\* verifyVMClusterPaused: without the switch the reduced count has to hold the
\* component.
verifyVMClusterPaused(s) ==
    /\ rejectHorizontalPodAutoscaler /\ cr.owner = s
    /\ IF Supported(sess[s]) THEN cr.paused
       ELSE cr.count # None /\ cr.count <= sess[s].plan.ordinal

validateVMClusterResume(s) ==
    /\ validateStatefulSetTransitionReplicas(sess[s])
    /\ sess[s].plan.count # None => cr.owner = s
    /\ validateVMClusterPauseRestoreState(s, Supported(sess[s]))

\* waitForVMClusterOperational: a VMCluster paused as a whole is not waited for.
waitForVMClusterOperational ==
    cr.top \/ \A i \in Slots : pods[i] = IF i < scale THEN "ready" ELSE "gone"

resumeVMCluster(s) ==
    LET r == sess[s] IN
    \/ /\ rejectHorizontalPodAutoscaler
       /\ setVMClusterReplicaCount(s, "resume", r.plan.count, r.plan.ordinal, "scaleback", "idle")
    \/ /\ At(s, "resume") /\ ~rejectHorizontalPodAutoscaler
       /\ Fail(s) /\ OnlySession
    \/ At(s, "scaleback") /\ Scalable(r.plan.orig, {r.plan.ordinal}) /\ ScaleTo(s, r.plan.orig, "ready")
    \/ /\ At(s, "scaleback") /\ ~Scalable(r.plan.orig, {r.plan.ordinal})
       /\ Fail(s) /\ OnlySession
    \/ /\ At(s, "ready") /\ waitForResumedPods(Affected(r))
       /\ IF validateStatefulSetResumed(r) THEN Goto(s, "release") ELSE ReturnsError(s)
       /\ OnlySession
    \/ restoreVMClusterPause(s, "release", "operational")
    \/ /\ At(s, "operational") /\ waitForVMClusterOperational
       /\ IF validateStatefulSetResumed(r) THEN Returns(s) ELSE ReturnsError(s)
       /\ OnlySession

\* vmClusterWorkload: a configured count has to be the one that runs.
vmClusterWorkload(i) ==
    IF cr.count = None \/ (cr.count > 0 /\ cr.count = scale) THEN statefulSetWorkload(i) ELSE {}

=============================================================================
