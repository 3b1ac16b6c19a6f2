------------------------------- MODULE Workload -------------------------------
(***************************************************************************)
(* The workload a Pod migration stops and starts, and what every adapter   *)
(* of internal/controller shares.  One controller (a Deployment, a         *)
(* StatefulSet, a KubeBlocks InstanceSet or Cluster) runs the Pods of      *)
(* Slots; an operator object above it may carry a pause switch and the     *)
(* annotation that names the session that holds it.                        *)
(*                                                                         *)
(* A Pod is known to a session by its UID.  UIDs are not counted: stale    *)
(* holds the slots whose Pod was replaced since the session recorded it.   *)
(*                                                                         *)
(* A read followed by an update of the same object is one step, because    *)
(* the update carries the resource version it read.  Everything else that  *)
(* waits for or reads another object is a step of its own.                 *)
(***************************************************************************)
EXTENDS Integers, FiniteSets

CONSTANTS
    Sessions,      \* Pod migrations of Pods of this workload
    None,
    FieldKept,     \* does the VMCluster CRD keep the per-component paused field?
    Budgets        \* bounds: adapters, sessions, passes that die, changes made by somebody else

Replicas == 2
Slots == 0 .. Replicas - 1
Owned == {"VictoriaLogs", "Grafana", "VMCluster", "InstanceSet", "Cluster", "Standalone"}
Scaled == {"Deployment", "StatefulSet", "VictoriaLogs", "Grafana", "VMCluster"}

ASSUME WorkloadAssumption ==
    /\ None \notin Sessions /\ None \notin BOOLEAN /\ None \notin Slots
    /\ FieldKept \subseteq BOOLEAN
    /\ Budgets \subseteq [kinds : SUBSET (Scaled \cup Owned), sessions : SUBSET Sessions,
                           crashes : Nat, outside : Nat]

VARIABLES
    kind,      \* the adapter, fixed
    budget,    \* the bounds of this behaviour, fixed
    scale,     \* spec.replicas of the Deployment or StatefulSet
    pods,      \* the Pod of a slot: "gone", "starting", "ready" or "stopping"
    cr,        \* the operator object: owner annotation, pause switch, replica count
    kb,        \* KubeBlocks: phase of the Cluster, OpsRequests, the leader's slot
    hpa,       \* a HorizontalPodAutoscaler targets the controller
    sess,      \* the sessions: stored record and running pass
    crashes, outside

vars == <<kind, budget, scale, pods, cr, kb, hpa, sess, crashes, outside>>

OpNames == {"switchover", "pause", "resume", "reconcile", "rollback-pause",
            "rollback-resume", "rollback-reconcile", "abort-pause", "abort-resume"}

\* WorkloadSpec: what discovery records of the workload, before anything is stopped.
WorkloadSpec ==
    [slot : Slots, ordinal : Slots, orig : 0 .. Replicas, affected : SUBSET Slots,
     paused : BOOLEAN, count : {None} \cup 0 .. Replicas, candidate : {None} \cup Slots,
     native : BOOLEAN, downtime : BOOLEAN]

\* PodMigrationWorkloadStatus: the checkpoint.  set is FALSE when it is absent,
\* vm the probe outcome (ComponentPausedSupported), pods the affected Pods.
WorkloadStatus == [set : BOOLEAN, vm : {None} \cup BOOLEAN, pods : SUBSET Slots]

Phases == {"new", "Planned", "Pausing", "Paused", "Activated", "Resuming", "Completed",
           "Aborting", "Aborted", "RollingBack", "RolledBack"}
Done == {"Completed", "Aborted", "RolledBack"}

NoStatus == [set |-> FALSE, vm |-> None, pods |-> {}]
NoSpec == [slot |-> 0, ordinal |-> 0, orig |-> 0, affected |-> {}, paused |-> FALSE,
           count |-> None, candidate |-> None, native |-> FALSE, downtime |-> FALSE]

-----------------------------------------------------------------------------
(* What a session knows *)

\* podWorkload: the checkpoint, when there is one, lies over the plan.
Affected(r) == IF r.mem.set THEN r.mem.pods ELSE r.plan.affected
Supported(r) == r.mem.set /\ r.mem.vm = TRUE

\* Mutant: without recorded Pods there is nothing to wait for.
ReferencesRecorded(r) == Affected(r)

\* The affected Pods, or the selected one when none is recorded.
References(r) == IF Affected(r) = {} THEN {r.plan.slot} ELSE Affected(r)

At(s, label) == sess[s].pc = label
Goto(s, label) == sess' = [sess EXCEPT ![s].pc = label]

\* The pause-probe outcome is copied into the checkpoint when Pause returns to
\* the pausing phase, whatever it returns; a missing checkpoint is created empty.
WithProbe(r) ==
    IF kind = "VMCluster" /\ r.phase = "Pausing"
    THEN [r EXCEPT !.mem = [set |-> TRUE, vm |-> r.vm, pods |-> IF @.set THEN @.pods ELSE {}]]
    ELSE r

\* fail: the pass ends and the record is stored with the failure.
Failed(r) == [r EXCEPT !.pc = "idle", !.ckpt = r.mem, !.vm = FALSE, !.renewed = FALSE]
Fail(s) == sess' = [sess EXCEPT ![s] = Failed(WithProbe(@))]

\* An adapter step that goes on at a label, or fails without touching anything.
Step(s, ok, label) == IF ok THEN Goto(s, label) ELSE Fail(s)

\* Pod identities found ready replace the recorded ones.  They are stored when
\* the adapter returns.
Recovered(r, found) ==
    IF found = {} THEN r
    ELSE [r EXCEPT !.mem = [set |-> TRUE, vm |-> None, pods |-> found],
                   !.stale = {}, !.renewed = TRUE]

-----------------------------------------------------------------------------
(* Checks and waits the adapters share *)

rejectHorizontalPodAutoscaler == ~hpa

\* validateResumeReplicas: the count is one this session left behind.
validateResumeReplicas(original, paused) == scale \in {original, paused}

\* validateStatefulSetTransitionReplicas
validateStatefulSetTransitionReplicas(r) ==
    rejectHorizontalPodAutoscaler /\ validateResumeReplicas(r.plan.orig, r.plan.ordinal)

Present(i) == pods[i] # "gone"

\* waitForPodDeletion: a Pod of the same name with another UID is a conflict.
waitForPodDeletion(s, wanted, next) ==
    \/ /\ \E i \in wanted : Present(i) /\ i \in sess[s].stale
       /\ Fail(s)
    \/ /\ \A i \in wanted : ~Present(i)
       /\ Goto(s, next)

\* Deployment Pods have generated names: a Pod that was replaced is gone.
waitForNamesGone(s, wanted, next) ==
    /\ \A i \in wanted : ~Present(i) \/ i \in sess[s].stale
    /\ Goto(s, next)

\* waitForPodNameGone: any Pod of that name has to go.
waitForPodNameGone(r) ==
    \A i \in References(r) :
       ~Present(i) \/ (kind \in {"Deployment", "Grafana"} /\ i \in r.stale)

\* waitForResumedPod, waitForResumedPods
waitForResumedPods(wanted) == \A i \in wanted : pods[i] = "ready"

-----------------------------------------------------------------------------
(* The cluster: controllers, operators and kubelets *)

Session(r) == r.phase \notin {"new"} \cup {"Aborted", "RolledBack"}

Replaced(i) ==
    [s \in Sessions |-> IF Session(sess[s]) THEN [sess[s] EXCEPT !.stale = @ \cup {i}]
                        ELSE sess[s]]

\* A Pod the controller wants to run.
Desired(i) ==
    CASE kind \in {"InstanceSet", "Standalone"} -> TRUE
      [] kind = "Cluster" -> kb.phase # "Stopped"
      [] OTHER -> i < scale

PodCreated(i) ==
    /\ pods[i] = "gone" /\ Desired(i) /\ kind # "Standalone"
    /\ ~(kind = "InstanceSet" /\ cr.paused) /\ kb.phase # "Failed"
    /\ pods' = [pods EXCEPT ![i] = "starting"]
    /\ sess' = Replaced(i)
    /\ UNCHANGED <<kind, budget, scale, cr, kb, hpa, crashes, outside>>

PodStarted(i) ==
    /\ pods[i] = "starting"
    /\ pods' = [pods EXCEPT ![i] = "ready"]
    /\ UNCHANGED <<kind, budget, scale, cr, kb, hpa, sess, crashes, outside>>

PodDeleted(i) ==
    /\ pods[i] \in {"starting", "ready"} /\ ~Desired(i)
    /\ pods' = [pods EXCEPT ![i] = "stopping"]
    /\ UNCHANGED <<kind, budget, scale, cr, kb, hpa, sess, crashes, outside>>

PodStopped(i) ==
    /\ pods[i] = "stopping"
    /\ pods' = [pods EXCEPT ![i] = "gone"]
    /\ UNCHANGED <<kind, budget, scale, cr, kb, hpa, sess, crashes, outside>>

\* The Grafana and VictoriaMetrics operators put the replica count back unless
\* they are suspended; a VMCluster paused as a whole is left alone.
OperatorReconciles ==
    /\ \/ kind = "Grafana" /\ ~cr.paused /\ scale # Replicas /\ scale' = Replicas
       \/ /\ kind = "VMCluster" /\ ~cr.paused /\ ~cr.top
          /\ cr.count # None /\ scale # cr.count /\ scale' = cr.count
    /\ UNCHANGED <<kind, budget, pods, cr, kb, hpa, sess, crashes, outside>>

\* The leader of an InstanceSet fails over when its Pod is gone.
FailsOver(i) ==
    /\ kind = "InstanceSet" /\ pods[kb.leader] = "gone" /\ pods[i] = "ready"
    /\ kb' = [kb EXCEPT !.leader = i]
    /\ UNCHANGED <<kind, budget, scale, pods, cr, hpa, sess, crashes, outside>>

StartOps == {"resume", "reconcile", "rollback-resume", "rollback-reconcile", "abort-resume"}
StopOps == {"pause", "rollback-pause"}

\* An OpsRequest is carried out: Stop and Start move the Cluster, and a Switchover
\* may move the leader.
OpsSucceeds(s, name) ==
    /\ kb.ops[s][name] = "Running"
    /\ \/ /\ name \in StopOps /\ kind = "Cluster"
          /\ kb' = [kb EXCEPT !.ops[s][name] = "Succeed", !.phase = "Stopped"]
       \/ /\ name \in StartOps /\ kind = "Cluster"
          /\ kb' = [kb EXCEPT !.ops[s][name] = "Succeed", !.phase = "Starting"]
       \/ /\ name = "switchover"
          /\ \E leader \in {kb.leader} \cup {i \in {sess[s].plan.candidate} : pods[i] = "ready"} :
                kb' = [kb EXCEPT !.ops[s][name] = "Succeed", !.leader = leader]
    /\ UNCHANGED <<kind, budget, scale, pods, cr, hpa, sess, crashes, outside>>

\* ... or fails, and a Cluster may fail with it.
OpsFails(s, name) ==
    /\ outside < budget.outside
    /\ kb.ops[s][name] = "Running"
    /\ \E phase \in IF name \in StopOps THEN {kb.phase, "Failed"} ELSE {kb.phase} :
          kb' = [kb EXCEPT !.ops[s][name] = "Failed", !.phase = phase]
    /\ outside' = outside + 1
    /\ UNCHANGED <<kind, budget, scale, pods, cr, hpa, sess, crashes>>

ClusterRuns ==
    /\ kb.phase = "Starting" /\ \A i \in Slots : pods[i] = "ready"
    /\ kb' = [kb EXCEPT !.phase = "Running"]
    /\ UNCHANGED <<kind, budget, scale, pods, cr, hpa, sess, crashes, outside>>

\* Somebody else scales the controller, adds or removes an autoscaler, flips the
\* pause switch or makes a standalone Pod of that name.
Outsider ==
    /\ outside < budget.outside /\ outside' = outside + 1
    /\ \/ /\ kind \in Scaled
          /\ \E n \in (0 .. Replicas) \ {scale} : scale' = n
          /\ UNCHANGED <<cr, hpa, pods, sess>>
       \/ /\ kind \in Scaled /\ hpa' = ~hpa
          /\ UNCHANGED <<scale, cr, pods, sess>>
       \/ /\ kind \in {"Grafana", "InstanceSet"} \/ (kind = "VMCluster" /\ cr.kept)
          /\ cr' = [cr EXCEPT !.paused = ~@]
          /\ UNCHANGED <<scale, hpa, pods, sess>>
       \/ /\ kind = "Standalone" /\ pods[0] = "gone"
          /\ pods' = [pods EXCEPT ![0] = "starting"]
          /\ cr' = [cr EXCEPT !.owner = None]
          /\ sess' = Replaced(0)
          /\ UNCHANGED <<scale, hpa>>
    /\ UNCHANGED <<kind, budget, kb, crashes>>

Cluster ==
    \/ \E i \in Slots : PodCreated(i) \/ PodStarted(i) \/ PodDeleted(i) \/ PodStopped(i) \/ FailsOver(i)
    \/ OperatorReconciles \/ ClusterRuns
    \/ \E s \in Sessions, name \in OpNames : OpsSucceeds(s, name)

=============================================================================
