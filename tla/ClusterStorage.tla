--------------------------- MODULE ClusterStorage ---------------------------
(***************************************************************************)
(* The claims (PersistentVolumeClaims) and volumes (PersistentVolumes) of  *)
(* a Kubernetes cluster as the Switcher of internal/kube sees them, with   *)
(* the controllers that work on them beside the workflow: the PV binder,   *)
(* PVC protection, the reclaimer, attach/detach, a stray Pod that mounts a *)
(* claim and an operator that recreates a claim under a name that is free. *)
(* None of this is code of the repository; it is the environment that      *)
(* every wait loop and every conflict error of the Switcher is about.      *)
(***************************************************************************)
EXTENDS Naturals

CONSTANTS
    Claims,         \* claim locations, a namespace and a name each
    Volumes,        \* the PersistentVolumes of the workflow
    NoClaim,        \* no claim location
    NoVolume,       \* a claim without spec.volumeName
    OtherVolume,    \* any volume that is not the workflow's
    InitialPolicy,  \* the reclaim policy of each volume before the workflow
    MaxPods,        \* bound: how often a stray Pod starts
    MaxIntrusions   \* bound: how many foreign claims are created

Policies == {"Delete", "Retain"}

ASSUME StorageAssumption ==
    /\ NoClaim \notin Claims
    /\ NoVolume \notin Volumes /\ OtherVolume \notin Volumes
    /\ NoVolume # OtherVolume
    /\ InitialPolicy \in [Volumes -> Policies]
    /\ MaxPods \in Nat /\ MaxIntrusions \in Nat

VARIABLES
    pvc,        \* claim location -> the claim there
    pv,         \* volume -> the PersistentVolume
    lastUID,    \* the UID given to the newest claim
    pod,        \* the claim a Pod mounts, or NoClaim
    attached,   \* the volumes with an attached VolumeAttachment
    pods,       \* Pods started so far
    intrusions  \* foreign claims created so far

storageVars == <<pvc, pv, lastUID, pod, attached, pods, intrusions>>

Roles == {"none", "source", "destination", "active", "rollback", "rename"}

\* A claim; uid 0 means that there is none. "session" is the ownership
\* annotation and labels of the workflow.
ClaimObject ==
    [uid: Nat, volume: Volumes \cup {NoVolume, OtherVolume}, session: BOOLEAN,
     bound: BOOLEAN, deleting: BOOLEAN]

\* A claim that was just created.
NewClaim(u, v, s) ==
    [uid |-> u, volume |-> v, session |-> s, bound |-> FALSE, deleting |-> FALSE]

NoObject == NewClaim(0, NoVolume, FALSE)

\* A volume: reclaim policy, the recorded original policy annotation, the
\* session label, the role label, claimRef (claimUID 0: without UID), phase.
VolumeObject ==
    [policy: Policies, original: Policies \cup {"none"}, session: BOOLEAN,
     role: Roles, claim: Claims \cup {NoClaim}, claimUID: Nat,
     phase: {"Bound", "Released", "Available", "Gone"}]

StorageTypeOK ==
    /\ pvc \in [Claims -> ClaimObject]
    /\ pv \in [Volumes -> VolumeObject]
    /\ lastUID \in Nat
    /\ pod \in Claims \cup {NoClaim}
    /\ attached \in SUBSET (Volumes \cup {NoVolume, OtherVolume})
    /\ pods \in 0..MaxPods
    /\ intrusions \in 0..MaxIntrusions

Exists(l) == pvc[l].uid # 0

Live(v) == pv[v].phase # "Gone"

NoConsumers(l) == pod # l

Detached(v) == v \notin attached

-----------------------------------------------------------------------------
(* The controllers of the cluster *)

\* Volume p with its claimRef naming claim (l, u).
BoundTo(p, l, u) == [p EXCEPT !.claim = l, !.claimUID = u, !.phase = "Bound"]

\* The binder completes a claim that names its volume, unless the volume's
\* claimRef names another claim.
BindNamed(l, v) ==
    /\ Exists(l) /\ ~pvc[l].bound
    /\ pvc[l].volume = v
    /\ Live(v)
    /\ pv[v].claim = NoClaim
       \/ (pv[v].claim = l /\ pv[v].claimUID \in {0, pvc[l].uid})
    /\ pvc' = [pvc EXCEPT ![l].bound = TRUE]
    /\ pv' = [pv EXCEPT ![v] = BoundTo(@, l, pvc[l].uid)]
    /\ UNCHANGED <<lastUID, pod, attached, pods, intrusions>>

\* A claim that names no volume gets the volume reserved for its name, if
\* there is one, and a freshly provisioned one otherwise.
BindAny(l) ==
    /\ Exists(l) /\ ~pvc[l].bound
    /\ pvc[l].volume = NoVolume
    /\ LET reserved == {v \in Volumes : /\ Live(v)
                                        /\ pv[v].claim = l
                                        /\ pv[v].claimUID = 0}
       IN IF reserved = {}
          THEN /\ pvc' = [pvc EXCEPT ![l].bound = TRUE, ![l].volume = OtherVolume]
               /\ pv' = pv
          ELSE \E v \in reserved :
                 /\ pvc' = [pvc EXCEPT ![l].bound = TRUE, ![l].volume = v]
                 /\ pv' = [pv EXCEPT ![v] = BoundTo(@, l, pvc[l].uid)]
    /\ UNCHANGED <<lastUID, pod, attached, pods, intrusions>>

\* The claim of a bound volume is gone (or was replaced).
Release(v) ==
    /\ pv[v].phase = "Bound"
    /\ pv[v].claimUID # 0
    /\ pv[v].claim # NoClaim
    /\ pvc[pv[v].claim].uid # pv[v].claimUID
    /\ pv' = [pv EXCEPT ![v].phase = "Released"]
    /\ UNCHANGED <<pvc, lastUID, pod, attached, pods, intrusions>>

\* A claimRef without UID makes a volume available to that claim.
MakeAvailable(v) ==
    /\ pv[v].phase \in {"Bound", "Released"}
    /\ pv[v].claimUID = 0
    /\ pv' = [pv EXCEPT ![v].phase = "Available"]
    /\ UNCHANGED <<pvc, lastUID, pod, attached, pods, intrusions>>

\* The provisioner deletes a released volume, with its data, whose policy
\* is Delete.
Reclaim(v) ==
    /\ pv[v].phase = "Released"
    /\ pv[v].policy = "Delete"
    /\ pv' = [pv EXCEPT ![v].phase = "Gone"]
    /\ UNCHANGED <<pvc, lastUID, pod, attached, pods, intrusions>>

\* PVC protection lets a deleted claim go once no Pod mounts it.
FinishDelete(l) ==
    /\ pvc[l].deleting
    /\ NoConsumers(l)
    /\ pvc' = [pvc EXCEPT ![l] = NoObject]
    /\ UNCHANGED <<pv, lastUID, pod, attached, pods, intrusions>>

\* Some Pod mounts a claim; its volume is attached until some time after
\* the Pod is gone.
StartPod(l) ==
    /\ pods < MaxPods
    /\ pod = NoClaim
    /\ Exists(l) /\ pvc[l].bound /\ ~pvc[l].deleting
    /\ pod' = l
    /\ attached' = attached \cup {pvc[l].volume}
    /\ pods' = pods + 1
    /\ UNCHANGED <<pvc, pv, lastUID, intrusions>>

StopPod ==
    /\ pod # NoClaim
    /\ pod' = NoClaim
    /\ UNCHANGED <<pvc, pv, lastUID, attached, pods, intrusions>>

Detach(v) ==
    /\ v \in attached
    /\ ~(pod # NoClaim /\ pvc[pod].volume = v)
    /\ attached' = attached \ {v}
    /\ UNCHANGED <<pvc, pv, lastUID, pod, pods, intrusions>>

\* Another operator (a StatefulSet controller, a user) creates a claim
\* under a name that is free.
Intrude(l) ==
    /\ intrusions < MaxIntrusions
    /\ ~Exists(l)
    /\ pvc' = [pvc EXCEPT ![l] = NewClaim(lastUID + 1, NoVolume, FALSE)]
    /\ lastUID' = lastUID + 1
    /\ intrusions' = intrusions + 1
    /\ UNCHANGED <<pv, pod, attached, pods>>

\* The controllers that always get round to their work.
Controllers ==
    \/ \E l \in Claims, v \in Volumes : BindNamed(l, v)
    \/ \E l \in Claims : BindAny(l) \/ FinishDelete(l)
    \/ \E v \in Volumes : Release(v) \/ MakeAvailable(v)
    \/ \E v \in Volumes \cup {OtherVolume} : Detach(v)
    \/ StopPod

=============================================================================
