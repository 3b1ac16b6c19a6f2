------------------------ MODULE CrossClusterSession ------------------------
(***************************************************************************)
(* The record of a cross-cluster session (one ConfigMap in the source      *)
(* cluster), what its Validate accepts, and the checks a pass makes of the *)
(* cluster against the record it loaded.                                   *)
(***************************************************************************)
EXTENDS CrossClusterDestination

VARIABLES rec,    \* None or the stored session
          fresh   \* the processes whose loaded resourceVersion is the stored one

Kinds  == {"Reservation", "Copy"}
Phases == {"Planned", "Reserving", "Reserved", "Transferring", "Completed",
           "Failed", "Cleaning", "Cleaned"}
Ended    == {"Cleaning", "Cleaned"}
Provided == {"Reserved", "Transferring", "Completed"}

(* pvc and pv are the recorded UID of the claim and name of the volume (0  *)
(* for none), known says that the volume's UID is recorded too, ready that *)
(* the reservation of the volume was completed, pod the UID of the         *)
(* reservation Pod, tried that a transfer was attempted, done that the     *)
(* volume was transferred.                                                 *)
VolumeStatus == [pvc : 0 .. MaxClaims, pv : 0 .. MaxClaims, known : BOOLEAN,
                 ready : BOOLEAN, pod : 0 .. MaxPods, tried : BOOLEAN, done : BOOLEAN]
Session == [kind : Kinds, phase : Phases, online : BOOLEAN, completed : BOOLEAN,
            vol : [Volumes -> VolumeStatus]]

(* The planned source is recorded, nothing of the destination yet.         *)
NewVolume == [pvc |-> 0, pv |-> 0, known |-> FALSE,
              ready |-> FALSE, pod |-> 0, tried |-> FALSE, done |-> FALSE]

NewSession(kind, online) ==
    [kind |-> kind, phase |-> "Planned", online |-> online, completed |-> FALSE,
     vol |-> [v \in Volumes |-> NewVolume]]

(* A source is recorded only if it is still the planned one.               *)
buildSessionVolume(v) == v \notin moved

(* PromoteReservation copies the reservation into a copy session.          *)
Promoted(s) == [s EXCEPT !.kind = "Copy"]

validateReservationCheckpoints(s) ==
    \A v \in Volumes : s.vol[v].ready /\ s.vol[v].pv # 0 /\ s.vol[v].pvc # 0

validateCrossClusterVolume(s, v) == (s.vol[v].pv # 0) = s.vol[v].known

ValidateReservation(s) ==
    /\ s.phase = "Reserved" => validateReservationCheckpoints(s)
    /\ \A v \in Volumes : validateCrossClusterVolume(s, v)

ValidateCopy(s) == \A v \in Volumes : validateCrossClusterVolume(s, v)

Validate(s) == IF s.kind = "Copy" THEN ValidateCopy(s) ELSE ValidateReservation(s)

-----------------------------------------------------------------------------
(* The plan of a new session reads both clusters, without a Lease.  A      *)
(* request is what the caller asks for and what the clusters offer at that *)
(* moment: the namespaces exist, the class and a node that fits are there, *)
(* which sources are bound, writable file systems the class can provide,   *)
(* how the capacity asked for compares and with which flags, and what the  *)
(* quotas and limits of the namespaces still permit.                       *)
Scopes == {"session", "source", "destination", "claims"}

Requests == [apart : BOOLEAN, namespaces : BOOLEAN, class : BOOLEAN, node : BOOLEAN,
             eligible : SUBSET Volumes, smaller : BOOLEAN, allowVolumeShrink : BOOLEAN,
             skipSourceUsageCheck : BOOLEAN, permits : SUBSET Scopes]

planCrossClusterEnvironment(kind, r) ==
    /\ r.apart /\ r.namespaces /\ r.class
    /\ (kind = "Copy" \/ site.waits) => r.node

resolveCrossClusterCapacity(r) ==
    r.smaller => r.allowVolumeShrink /\ r.skipSourceUsageCheck

(* A source in use is copied only online and only if a second Pod can      *)
(* mount it.                                                               *)
ConsumersAllow(online, v) == v \in busy => online /\ site.shared

(* A reservation leaves the source in use.                                 *)
checkCrossClusterConsumers(kind, online, v) ==
    kind = "Reservation" \/ ConsumersAllow(online, v)

(* Bound to a volume that refers back to it, with a writable file system.  *)
SourceEligible(r, v) == v \in r.eligible

planCrossClusterVolume(kind, online, r, v) ==
    /\ ~Live(v)
    /\ SourceEligible(r, v)
    /\ resolveCrossClusterCapacity(r)
    /\ checkCrossClusterConsumers(kind, online, v)

planCrossClusterVolumes(kind, online, r) ==
    \A v \in Volumes : planCrossClusterVolume(kind, online, r, v)

addCrossClusterPolicyChecks(r, scope) == scope \in r.permits

(* Only a copy runs tools in both clusters and asks the quotas first.      *)
planCrossClusterPolicies(r) == \A scope \in Scopes : addCrossClusterPolicyChecks(r, scope)

planCrossCluster(kind, online, r) ==
    /\ planCrossClusterEnvironment(kind, r)
    /\ planCrossClusterVolumes(kind, online, r)
    /\ kind = "Copy" => planCrossClusterPolicies(r)

-----------------------------------------------------------------------------
(* Before a volume is copied its source must still be the recorded claim   *)
(* and idle, and its destination the recorded claim, still labelled and    *)
(* bound to the recorded volume.                                           *)
validateDestinationVolume(s, v) ==
    /\ Owned(v)
    /\ claim[v].uid = s.vol[v].pvc
    /\ claim[v].bound /\ claim[v].uid = s.vol[v].pv
    /\ pv[s.vol[v].pv] # "none"

(* Mutant: the consumers of the source are not looked at again.            *)
TransferWhileUsed(s, v) == v \notin moved /\ validateDestinationVolume(s, v)

validateTransferVolume(s, v) ==
    /\ v \notin moved
    /\ ConsumersAllow(s.online, v)
    /\ validateDestinationVolume(s, v)

(* How a copy may change the settings of a session it finds: not once a    *)
(* transfer was started or a cleanup begun.                                *)
Started(s) == \/ s.phase \in {"Transferring", "Completed"}
              \/ \E v \in Volumes : s.vol[v].tried \/ s.vol[v].done

configureExistingCrossClusterCopy(s) ==
    IF Started(s) \/ s.phase \in Ended THEN {s}
    ELSE {[s EXCEPT !.online = online] : online \in {s.online} \union site.online}

(* Mutant: only the phase tells a completed copy, which Cleaning hides.    *)
DeletesUnlessPhaseCompleted(s, policy) ==
    policy = "Delete" /\ (s.kind = "Copy" => s.phase # "Completed")

(* A completed copy delivered its destination; it is kept whatever the     *)
(* policy says.  A reservation's policy decides alone.                     *)
cleanupDeletesDestination(s, policy) ==
    /\ policy = "Delete"
    /\ s.kind = "Copy" => s.phase # "Completed" /\ ~s.completed

(* The claim found by a cleanup is the recorded one, or none is recorded,  *)
(* and it still carries the session's labels or (when it is to be kept)    *)
(* carries none any more; the volume is the one provisioned for it.        *)
InspectedClaim(s, v, deleting) ==
    Live(v) => /\ s.vol[v].pvc \in {0, claim[v].uid}
               /\ \/ claim[v].owner = "us"
                  \/ ~deleting /\ claim[v].owner = "free" /\ s.vol[v].pvc = claim[v].uid

VolumeName(s, v) ==
    IF s.vol[v].pv # 0 THEN s.vol[v].pv
    ELSE IF Live(v) /\ claim[v].bound THEN claim[v].uid ELSE 0

InspectedVolume(s, v) ==
    LET pvc == IF Live(v) THEN claim[v].uid ELSE s.vol[v].pvc
        name == VolumeName(s, v)
    IN  (name # 0 /\ pv[name] # "none") => name = pvc

inspectCleanupDestination(s, v, deleting) ==
    InspectedClaim(s, v, deleting) /\ InspectedVolume(s, v)

(* The reservation's version of that inspection writes what it found into  *)
(* the session in memory: the claim's UID and the volume's name.           *)
inspectReservationCleanupDestination(s, v) ==
    IF ~Live(v) THEN s.vol[v]
    ELSE [s.vol[v] EXCEPT !.pvc = claim[v].uid, !.pv = VolumeName(s, v)]

(* Mutant: the inspection of a copy writes into its session too.           *)
InspectedInPlace(s) ==
    [s EXCEPT !.vol = [v \in Volumes |-> inspectReservationCleanupDestination(s, v)]]

Inspected(s) ==
    IF s.kind = "Copy" THEN s
    ELSE [s EXCEPT !.vol = [v \in Volumes |-> inspectReservationCleanupDestination(s, v)]]

(* Nobody uses the claim to be deleted.                                    *)
ensureNoActiveConsumers(v) == v \notin user /\ ~PodUp(v)

(* Only the recorded reservation Pod may still use a claim to be deleted.  *)
validateCleanupConsumers(s, v) ==
    Live(v) => v \notin user /\ (PodUp(v) => pod[v].uid = s.vol[v].pod)

ValidateCleanup(s, policy) ==
    LET deleting == cleanupDeletesDestination(s, policy)
    IN  \A v \in Volumes : /\ inspectCleanupDestination(s, v, deleting)
                           /\ deleting => validateCleanupConsumers(s, v)
=============================================================================
