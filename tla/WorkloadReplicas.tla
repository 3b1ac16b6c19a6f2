--------------------------- MODULE WorkloadReplicas ---------------------------
(***************************************************************************)
(* The adapters that stop a workload by its replica count alone:           *)
(* deployment.go and statefulset.go of internal/controller.  A plain       *)
(* StatefulSet is scaled down to the ordinal of the selected Pod, a        *)
(* Deployment and a VictoriaLogs StatefulSet to zero; VictoriaLogs also    *)
(* carries the pause annotation.                                           *)
(***************************************************************************)
EXTENDS Workload

Unscaled == UNCHANGED <<kind, budget, pods, cr, kb, hpa, crashes, outside>>
OnlySession == UNCHANGED <<kind, budget, scale, pods, cr, kb, hpa, crashes, outside>>

\* updateDeploymentReplicas, patchStatefulSetReplicas: nothing to do when the
\* count is there already, a conflict when it is none of the expected ones.
Scalable(replicas, allowed) == scale = replicas \/ scale \in allowed

ScaleTo(s, replicas, next) ==
    /\ scale' = replicas /\ Goto(s, next)
    /\ Unscaled

-----------------------------------------------------------------------------
(* Deployment *)

\* readUnmanagedDeployment: no controller owner (the same for the whole life of
\* the object here) and no autoscaler.
readUnmanagedDeployment == rejectHorizontalPodAutoscaler

\* readyDeploymentPods: the status agrees and every owned Pod is ready.
readyDeploymentPods == \A i \in Slots : pods[i] = IF i < scale THEN "ready" ELSE "gone"

\* observeDeploymentPods: the Pods the Deployment owns now.
observeDeploymentPods == {i \in Slots : Present(i)}

\* samePodIdentitySet, against the Pods recorded at discovery.
samePodIdentitySet(r) == Affected(r) = observeDeploymentPods /\ r.stale \cap Affected(r) = {}

\* A rollback takes the Pods it finds instead of the recorded ones.
rollbackPods(r) == IF r.phase = "RollingBack" /\ scale = r.plan.orig
                   THEN observeDeploymentPods ELSE {}

pauseDeployment(s) ==
    LET r == sess[s] IN
    \/ /\ At(s, "pause")
       /\ IF /\ readUnmanagedDeployment
             /\ Scalable(0, {r.plan.orig})
             /\ scale = r.plan.orig /\ r.phase # "RollingBack"
                   => readyDeploymentPods /\ samePodIdentitySet(r)
          THEN /\ scale' = 0
               /\ sess' = [sess EXCEPT ![s] = [Recovered(@, rollbackPods(@)) EXCEPT !.pc = "gone"]]
          ELSE Fail(s) /\ UNCHANGED scale
       /\ Unscaled
    \/ /\ At(s, "gone")
       /\ waitForNamesGone(s, Affected(r), "paused")
       /\ OnlySession

verifyDeploymentPaused == readUnmanagedDeployment /\ scale = 0 /\ observeDeploymentPods = {}

validateDeploymentResume(r) ==
    readUnmanagedDeployment /\ validateResumeReplicas(r.plan.orig, 0)

\* waitForDeploymentReady gives up when the count is changed under it.
waitForDeploymentReady(s) ==
    \/ /\ scale # sess[s].plan.orig \/ ~rejectHorizontalPodAutoscaler
       /\ sess' = [sess EXCEPT ![s] = Failed(Recovered(@, observeDeploymentPods))]
    \/ /\ scale = sess[s].plan.orig /\ rejectHorizontalPodAutoscaler
       /\ readyDeploymentPods
       /\ sess' = [sess EXCEPT ![s] = [Recovered(@, observeDeploymentPods) EXCEPT !.pc = "resumed"]]

resumeDeployment(s) ==
    \/ /\ At(s, "resume")
       /\ IF readUnmanagedDeployment /\ Scalable(sess[s].plan.orig, {0})
          THEN scale' = sess[s].plan.orig /\ Goto(s, "ready")
          ELSE Fail(s) /\ UNCHANGED scale
       /\ Unscaled
    \/ /\ At(s, "ready") /\ waitForDeploymentReady(s) /\ OnlySession

currentDeploymentRollbackPods(r) ==
    [ok |-> validateDeploymentResume(r), pods |-> observeDeploymentPods]

-----------------------------------------------------------------------------
(* StatefulSet *)

pauseStatefulSet(s) ==
    LET r == sess[s] IN
    \/ /\ At(s, "pause")
       /\ rejectHorizontalPodAutoscaler /\ Scalable(r.plan.ordinal, {r.plan.orig})
       /\ ScaleTo(s, r.plan.ordinal, "gone")
    \/ /\ At(s, "pause")
       /\ ~(rejectHorizontalPodAutoscaler /\ Scalable(r.plan.ordinal, {r.plan.orig}))
       /\ Fail(s) /\ OnlySession
    \/ /\ At(s, "gone")
       /\ waitForPodDeletion(s, Affected(r), "paused")
       /\ OnlySession

verifyStatefulSetPaused(r) == rejectHorizontalPodAutoscaler /\ scale = r.plan.ordinal

\* validateStatefulSetResumed
validateStatefulSetResumed(r) == rejectHorizontalPodAutoscaler /\ scale = r.plan.orig

\* The Pods found ready are returned whether or not the last steps succeed.
Returns(s) == sess' = [sess EXCEPT ![s] = [Recovered(@, Affected(@)) EXCEPT !.pc = "resumed"]]
ReturnsError(s) == sess' = [sess EXCEPT ![s] = Failed(Recovered(@, Affected(@)))]

resumeStatefulSet(s) ==
    LET r == sess[s] IN
    \/ /\ At(s, "resume")
       /\ rejectHorizontalPodAutoscaler /\ Scalable(r.plan.orig, {r.plan.ordinal})
       /\ ScaleTo(s, r.plan.orig, "ready")
    \/ /\ At(s, "resume")
       /\ ~(rejectHorizontalPodAutoscaler /\ Scalable(r.plan.orig, {r.plan.ordinal}))
       /\ Fail(s) /\ OnlySession
    \/ /\ At(s, "ready") /\ waitForResumedPods(Affected(r))
       /\ IF validateStatefulSetResumed(r) THEN Returns(s) ELSE ReturnsError(s)
       /\ OnlySession

-----------------------------------------------------------------------------
(* VictoriaLogs *)

\* patchVictoriaLogsReplicas: who may write which count.
patchVictoriaLogsReplicas(s, replicas, resuming) ==
    /\ cr.owner \in {None, s}
    /\ IF resuming THEN cr.owner = s /\ scale \in {0, replicas}
       ELSE cr.owner = None => scale = sess[s].plan.orig

pauseVictoriaLogs(s) ==
    LET ok == rejectHorizontalPodAutoscaler /\ patchVictoriaLogsReplicas(s, 0, FALSE) IN
    \/ /\ At(s, "pause") /\ ok
       /\ scale' = 0 /\ cr' = [cr EXCEPT !.owner = s] /\ Goto(s, "gone")
       /\ UNCHANGED <<kind, budget, pods, kb, hpa, crashes, outside>>
    \/ /\ At(s, "pause") /\ ~ok
       /\ Fail(s) /\ OnlySession
    \/ /\ At(s, "gone")
       /\ waitForPodDeletion(s, Affected(sess[s]), "paused")
       /\ OnlySession

verifyVictoriaLogsPaused(s) == rejectHorizontalPodAutoscaler /\ cr.owner = s /\ scale = 0

validateVictoriaLogsResume(s) ==
    /\ rejectHorizontalPodAutoscaler /\ cr.owner = s
    /\ validateResumeReplicas(sess[s].plan.orig, 0)

clearVictoriaLogsPauseOwner(s) ==
    /\ At(s, "release")
    /\ IF cr.owner = s /\ scale = sess[s].plan.orig
       THEN cr' = [cr EXCEPT !.owner = None] /\ Returns(s)
       ELSE ReturnsError(s) /\ UNCHANGED cr
    /\ UNCHANGED <<kind, budget, scale, pods, kb, hpa, crashes, outside>>

resumeVictoriaLogs(s) ==
    LET r == sess[s]
        ok == rejectHorizontalPodAutoscaler /\ patchVictoriaLogsReplicas(s, r.plan.orig, TRUE) IN
    \/ At(s, "resume") /\ ok /\ ScaleTo(s, r.plan.orig, "ready")
    \/ At(s, "resume") /\ ~ok /\ Fail(s) /\ OnlySession
    \/ /\ At(s, "ready") /\ waitForResumedPods(Affected(r))
       /\ IF validateStatefulSetResumed(r) THEN Goto(s, "release") ELSE ReturnsError(s)
       /\ OnlySession
    \/ clearVictoriaLogsPauseOwner(s)

-----------------------------------------------------------------------------
(* Discovery *)

Selected(slot, ordinal, affected) ==
    [slot |-> slot, ordinal |-> ordinal, orig |-> scale, affected |-> affected,
     paused |-> cr.paused, count |-> cr.count, candidate |-> None, native |-> FALSE, downtime |-> FALSE]

deploymentWorkload(i) ==
    IF rejectHorizontalPodAutoscaler /\ scale > 0 /\ readyDeploymentPods /\ i < scale
    THEN {Selected(i, 0, observeDeploymentPods)} ELSE {}

\* statefulSetWorkload: every Pod from the selected ordinal up goes with it.
statefulSetWorkload(i) ==
    LET affected == {j \in Slots : i <= j /\ j < scale}
    IN IF /\ rejectHorizontalPodAutoscaler /\ i < scale
          /\ \A j \in affected : pods[j] = "ready"
       THEN {Selected(i, i, affected)} ELSE {}

\* victoriaLogsWorkload: all Pods, whichever was selected.
victoriaLogsWorkload(i) ==
    LET affected == {j \in Slots : j < scale}
    IN IF rejectHorizontalPodAutoscaler /\ Present(i) /\ \A j \in affected : pods[j] = "ready"
       THEN {Selected(i, 0, affected)} ELSE {}

=============================================================================
