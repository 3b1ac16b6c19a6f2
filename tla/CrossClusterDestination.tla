---------------------- MODULE CrossClusterDestination ----------------------
(***************************************************************************)
(* The objects a cross-cluster session touches: in the destination cluster *)
(* one claim, one reservation Pod and the provisioned volumes of each      *)
(* volume of the session, in the source cluster the claim to copy.  The    *)
(* actions are the ones of the clusters and of their users; the session's  *)
(* own passes are in CrossCluster.                                         *)
(*                                                                         *)
(* A claim gets a UID when it is created and the volume provisioned for it *)
(* is named after that UID, so a volume whose name is its claim's UID has  *)
(* the claimRef the code asks for.                                         *)
(***************************************************************************)
EXTENDS Naturals, FiniteSets

CONSTANTS N,          \* volumes of the session
          MaxClaims,  \* claims ever created under the destination names
          MaxPods,    \* reservation Pods ever created
          Sites,      \* the pairs of clusters considered, each with its number of faults
          None

ASSUME DestinationAssumption ==
    /\ N \in Nat \ {0}
    /\ MaxClaims \in Nat
    /\ MaxPods \in Nat
    /\ Sites \subseteq [waits : BOOLEAN, keeps : BOOLEAN, shared : BOOLEAN,
                        online : SUBSET BOOLEAN, faults : Nat]

Volumes == 1 .. N
Claims  == 1 .. MaxClaims
Pods    == 1 .. MaxPods

VARIABLES
    claim,    \* per volume: None, or the claim under the destination's name
    pod,      \* per volume: None, or the reservation Pod
    pv,       \* per claim UID: the state of the volume provisioned for it
    retain,   \* the volumes whose reclaim policy is Retain
    user,     \* the volumes whose destination claim a user's Pod mounts
    moved,    \* the volumes whose source claim was replaced or rebound since the plan
    busy,     \* the volumes whose source claim has an active consumer
    filled,   \* the provisioned volumes a copy filled from the recorded source, and whether it was in use
    nclaims, npods,
    site      \* the pair of clusters, which never changes: whether the StorageClass
              \* waits for a first consumer and keeps released volumes, whether the
              \* sources have a shared access mode, how the callers set --online, and
              \* how many crashes, failed Pods and acts of users there are

destVars == <<claim, pod, pv, retain, user, moved, busy, filled, nclaims, npods, site>>

Live(v)    == claim[v] # None
Owned(v)   == Live(v) /\ claim[v].owner = "us"
PodUp(v)   == pod[v] # None /\ pod[v].st \in {"pending", "running"}

(* No claim has the destination's name yet; a shared source may be in use  *)
(* from the start.  The StorageClass reclaims with Delete or with Retain.  *)
DestInit ==
    /\ site \in Sites
    /\ claim = [v \in Volumes |-> None]
    /\ pod = [v \in Volumes |-> None]
    /\ pv = [c \in Claims |-> "none"]
    /\ retain = IF site.keeps THEN Claims ELSE {}
    /\ busy \in (IF site.shared THEN SUBSET Volumes ELSE {{}})
    /\ user = {} /\ moved = {} /\ filled = {}
    /\ nclaims = 0 /\ npods = 0

-----------------------------------------------------------------------------
(* The clusters.                                                           *)

(* The scheduler places the Pod and with it binds a claim that waits for   *)
(* its first consumer.                                                     *)
ScheduleAndBind(v) ==
    /\ pod[v] # None /\ pod[v].st = "pending"
    /\ Owned(v) /\ ~claim[v].term
    /\ pod' = [pod EXCEPT ![v].st = "running"]
    /\ claim' = [claim EXCEPT ![v].bound = TRUE]
    /\ pv' = [pv EXCEPT ![claim[v].uid] = "Bound"]
    /\ UNCHANGED <<retain, user, moved, busy, filled, nclaims, npods, site>>

(* A class that binds at once needs no Pod.                                *)
BindImmediately(v) ==
    /\ ~site.waits
    /\ Owned(v) /\ ~claim[v].bound /\ ~claim[v].term
    /\ claim' = [claim EXCEPT ![v].bound = TRUE]
    /\ pv' = [pv EXCEPT ![claim[v].uid] = "Bound"]
    /\ UNCHANGED <<pod, retain, user, moved, busy, filled, nclaims, npods, site>>

(* The Pod's sleep ends, or the Pod fails.                                 *)
EndPod(v) ==
    /\ PodUp(v)
    /\ \/ pod[v].st = "running" /\ pod' = [pod EXCEPT ![v].st = "done"]
       \/ pod' = [pod EXCEPT ![v].st = "failed"]
    /\ UNCHANGED <<claim, pv, retain, user, moved, busy, filled, nclaims, npods, site>>

(* A deleted claim goes once no Pod mounts it; its volume is released.     *)
CollectClaim(v) ==
    /\ Live(v) /\ claim[v].term
    /\ ~PodUp(v) /\ v \notin user
    /\ claim' = [claim EXCEPT ![v] = None]
    /\ pv' = IF claim[v].owner # "other" /\ claim[v].bound
             THEN [pv EXCEPT ![claim[v].uid] = "Released"] ELSE pv
    /\ UNCHANGED <<pod, retain, user, moved, busy, filled, nclaims, npods, site>>

(* The provisioner deletes a released volume unless its policy is Retain.  *)
Reclaim(c) ==
    /\ pv[c] = "Released" /\ c \notin retain
    /\ pv' = [pv EXCEPT ![c] = "none"]
    /\ UNCHANGED <<claim, pod, retain, user, moved, busy, filled, nclaims, npods, site>>

(* The users of both clusters: a Pod takes up or leaves the destination    *)
(* claim; somebody deletes it, or creates a claim of their own under its   *)
(* name; the source gets or loses consumers, or is replaced.               *)
UserOf(v) ==
    /\ v \notin user /\ Live(v) /\ claim[v].bound
    /\ user' = user \union {v}
    /\ UNCHANGED <<claim, pod, pv, retain, moved, busy, filled, nclaims, npods, site>>

UserLeaves(v) ==
    /\ \/ v \in user /\ user' = user \ {v} /\ busy' = busy
       \/ v \in busy /\ busy' = busy \ {v} /\ user' = user
    /\ UNCHANGED <<claim, pod, pv, retain, moved, filled, nclaims, npods, site>>

DeletedByUser(v) ==
    /\ Live(v) /\ ~claim[v].term
    /\ claim' = [claim EXCEPT ![v].term = TRUE]
    /\ UNCHANGED <<pod, pv, retain, user, moved, busy, filled, nclaims, npods, site>>

ForeignClaim(v) ==
    /\ ~Live(v) /\ nclaims < MaxClaims
    /\ nclaims' = nclaims + 1
    /\ claim' = [claim EXCEPT ![v] =
                   [uid |-> nclaims', owner |-> "other", bound |-> TRUE, term |-> FALSE]]
    /\ UNCHANGED <<pod, pv, retain, user, moved, busy, filled, npods, site>>

SourceChanges(v) ==
    /\ \/ v \notin busy /\ busy' = busy \union {v} /\ moved' = moved
       \/ v \notin moved /\ moved' = moved \union {v} /\ busy' = busy
    /\ UNCHANGED <<claim, pod, pv, retain, user, filled, nclaims, npods, site>>
=============================================================================
