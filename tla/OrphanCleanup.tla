--------------------------- MODULE OrphanCleanup ---------------------------
(***************************************************************************)
(* `recovery cleanup-orphan`: what a migration left in the cluster when    *)
(* its record was lost is taken down one source claim at a time, from the  *)
(* labels and annotations alone (internal/app/orphan_cleanup.go).          *)
(*                                                                         *)
(* Every volume v of the session has a source claim, its first PV "S" and  *)
(* the PV "D" of its destination claim.  A cleanup pass holds the session  *)
(* Lease, plans under it and then makes the writes of its plan one by one, *)
(* each fenced by the identity and the resourceVersion the plan read; the  *)
(* snapshots in job stand for them.  Passes die at any point.  Around them *)
(* run the Kubernetes controllers, Pods that use a destination claim, an   *)
(* operator's own deletions and patches (bounded by MaxHands), and a       *)
(* workflow of the same name whose record is applied again.                *)
(***************************************************************************)
EXTENDS FiniteSets, Naturals

CONSTANTS
  Volumes,     \* the source claims of the lost session
  MaxCrashes,  \* cleanup passes that die between two writes
  MaxHands,    \* deletions and patches an operator makes meanwhile
  MayRevive    \* whether a record of the same name is applied again

ASSUME VolumesFinite == IsFiniteSet(Volumes)

VARIABLES
  claim,    \* v -> the claim under the source name
  dclaim,   \* v -> the destination claim
  pv,       \* v -> "S", "D" -> the volume
  pods,     \* v -> what mounts the destination claim: "none", "tool" (a reservation Pod) or "user"
  record,   \* "none", "stale" (a kind this build does not serve) or "live"
  lease,    \* "absent", "free", "cleanup" or "workflow"
  job,      \* the pass in progress: where it is and the plan it follows
  lost,     \* where the record was lost: the step of each volume, the class of its destination
  hands,    \* operator interventions so far
  handled,  \* volumes an operator touched
  crashes,
  wrote     \* whether the revived workflow has written

vars == <<claim, dclaim, pv, pods, record, lease, job, lost, hands, handled, crashes, wrote>>
storage == <<claim, dclaim, pv, pods>>

PVs == {"S", "D"}
Policies == {"Retain", "Delete"}
Idle == [at |-> "idle"]

(* What a workflow that got as far as `stage` leaves of one volume; `class` *)
(* is the reclaim policy its PVs were provisioned with.                     *)
Stages == <<"acquired", "marked", "claimed", "bound", "reserved", "detached",
            "switching", "created", "paired", "activated">>
Reached(stage, s) ==
  \E i, j \in DOMAIN Stages: Stages[i] = s /\ Stages[j] = stage /\ i <= j

Volume(is, role, policy, orig, paired, phase, ref) ==
  [is |-> is, role |-> role, policy |-> policy, orig |-> orig, paired |-> paired,
   phase |-> phase, ref |-> ref]
NoVolume == Volume(FALSE, "none", "Retain", "none", FALSE, "Released", "none")

LeftClaim(stage) ==
  [is |-> stage # "switching", owner |-> "session",
   at |-> IF Reached(stage, "created") THEN "D" ELSE "S",
   rollback |-> Reached(stage, "created")]
LeftDclaim(stage) ==
  [is |-> Reached(stage, "claimed") /\ ~Reached(stage, "detached"),
   bound |-> Reached(stage, "bound"), term |-> FALSE]
LeftSource(stage, class) ==
  IF ~Reached(stage, "marked") THEN Volume(TRUE, "none", class, "none", FALSE, "Bound", "claim")
  ELSE Volume(TRUE, IF stage = "activated" THEN "rollback" ELSE "source", "Retain", class,
              stage = "activated", IF Reached(stage, "switching") THEN "Released" ELSE "Bound", "claim")
LeftDestination(stage, class) ==
  CASE ~Reached(stage, "bound") -> NoVolume
    [] stage = "bound" -> Volume(TRUE, "none", class, "none", FALSE, "Bound", "dclaim")
    [] OTHER -> Volume(TRUE, IF Reached(stage, "paired") THEN "active" ELSE "destination",
                       "Retain", class, Reached(stage, "paired"),
                       IF stage \in {"detached", "switching"} THEN "Released" ELSE "Bound",
                       IF Reached(stage, "switching") THEN "claim" ELSE "dclaim")

(* All volumes are reserved before the first is activated, and they are *)
(* activated one after the other.                                       *)
Together(stages) ==
  \/ \A v \in Volumes: ~Reached(stages[v], "detached")
  \/ \E v \in Volumes: \A u \in Volumes \ {v}: stages[u] \in {"reserved", "activated"}

Init ==
  /\ lost \in [stage: {s \in [Volumes -> {Stages[i]: i \in DOMAIN Stages}]: Together(s)}, class: Policies]
  /\ claim = [v \in Volumes |-> LeftClaim(lost.stage[v])]
  /\ dclaim = [v \in Volumes |-> LeftDclaim(lost.stage[v])]
  /\ pv = [v \in Volumes |-> [x \in PVs |->
             IF x = "S" THEN LeftSource(lost.stage[v], "Delete")
             ELSE LeftDestination(lost.stage[v], lost.class)]]
  /\ pods = [v \in Volumes |-> IF lost.stage[v] \in {"claimed", "bound"} THEN "tool" ELSE "none"]
  /\ record \in {"none", "stale"}
  /\ lease = "free" /\ job = Idle
  /\ hands = 0 /\ handled = {} /\ crashes = 0 /\ wrote = FALSE

---------------------------------------------------------------------------
(* The plan. *)

PVsOf(role) == {p \in Volumes \X PVs: pv[p[1]][p[2]].is /\ pv[p[1]][p[2]].role = role}
Labelled == {p \in Volumes \X PVs: pv[p[1]][p[2]].is /\ pv[p[1]][p[2]].role # "none"}
destinationPVCs == {u \in Volumes: dclaim[u].is}
NoPV == <<>>
At(p) == IF p = NoPV THEN NoVolume ELSE pv[p[1]][p[2]]

(* Mutant: the record of a workflow is not looked for. *)
RecordIgnored == TRUE

checkOrphanSessionRecord == record # "live"

(* matchPreActivationDestinationPVC: the volumes some destination claim names. *)
pvToPVC == {<<u, "D">> : u \in {w \in destinationPVCs: dclaim[w].bound}}
orphanPVs == PVsOf("destination") \ pvToPVC

destinationPVForPVC(v) == IF dclaim[v].bound /\ pv[v]["D"].is THEN <<v, "D">> ELSE NoPV

(* Mutant: any unclaimed destination is taken for v's. *)
ResolveAnyOrphan(v) ==
  IF dclaim[v].is
  THEN destinationPVForPVC(v)
  ELSE IF orphanPVs # {} THEN CHOOSE p \in orphanPVs: TRUE ELSE NoPV

(* The PV to delete with v's destination: the one its claim is bound to, or *)
(* the only unclaimed one of a session with only one source left.           *)
resolvePreActivationDestinationPV(v) ==
  IF dclaim[v].is
  THEN destinationPVForPVC(v)
  ELSE IF Cardinality(orphanPVs) = 1 /\ Cardinality(PVsOf("source")) = 1
       THEN CHOOSE p \in orphanPVs: TRUE ELSE NoPV

(* The claim that goes with the PV: v's own, or the one the PV still names. *)
DestinationClaim(v) ==
  LET p == resolvePreActivationDestinationPV(v)
  IN IF dclaim[v].is THEN <<v, "dclaim">> ELSE IF p = NoPV THEN <<>> ELSE <<p[1], At(p).ref>>

PolicyKnown(p) == p.orig # "none" /\ p.policy \in {"Retain", p.orig}

validatePreActivationDestinationPV(v, p) ==
  /\ At(p).role = "destination" /\ PolicyKnown(At(p))
  /\ dclaim[v].is => At(p).ref = "dclaim"

(* Reservation Pods of the session do not count as users. *)
ensurePVCUnused(u) == ~dclaim[u].is \/ pods[u] # "user"

planPreActivationOrphan(v) ==
  LET p == resolvePreActivationDestinationPV(v)
  IN /\ ~claim[v].rollback /\ ~pv[v]["S"].paired
     /\ (~dclaim[v].is /\ orphanPVs # {}) => p # NoPV
     /\ p # NoPV => validatePreActivationDestinationPV(v, p)
     /\ ensurePVCUnused(v)
     /\ (destinationPVCs \ {v} # {}) => Cardinality(PVsOf("source")) # 1

(* Mutant: a rollback volume already gone blocks the plan. *)
RollbackRequired(v) ==
  /\ pv[v]["D"].paired
  /\ LET r == pv[v]["S"]
     IN r.is /\ r.role = "rollback" /\ r.paired /\ PolicyKnown(r) /\ r.phase = "Released"

planPostActivationOrphan(v) ==
  /\ pv[v]["D"].paired
  /\ LET r == pv[v]["S"]
     IN r.is => /\ r.role = "rollback" /\ r.paired /\ PolicyKnown(r) /\ r.phase = "Released"

planDeletedSourceOrphan == Labelled = {} /\ destinationPVCs = {}

(* PlanOrphanCleanup: the mode of a plan without failed checks, or "blocked". *)
PlanOrphanCleanup(v) ==
  LET current == pv[v][claim[v].at]
  IN IF ~checkOrphanSessionRecord THEN "blocked"
     ELSE IF ~claim[v].is THEN IF planDeletedSourceOrphan THEN "records" ELSE "blocked"
     ELSE IF claim[v].owner = "other" \/ ~current.is \/ ~PolicyKnown(current) THEN "blocked"
     ELSE CASE current.role = "source" /\ planPreActivationOrphan(v) -> "pre"
            [] current.role = "active" /\ planPostActivationOrphan(v) -> "post"
            [] OTHER -> "blocked"

---------------------------------------------------------------------------
(* One cleanup pass. *)

Goto(at) == job' = [job EXCEPT !.at = at]
Ends == job' = Idle /\ lease' = "free"

(* cleanup-orphan plans once without the Lease and asks the operator. *)
CleanupCommand(v) ==
  /\ job = Idle /\ PlanOrphanCleanup(v) # "blocked"
  /\ job' = [at |-> "confirm", v |-> v]
  /\ UNCHANGED <<storage, record, lease>>

(* withSessionIDLock: confirmed, it takes the session Lease or fails. *)
withSessionIDLock ==
  /\ job.at = "confirm"
  /\ IF lease \in {"free", "absent"} THEN lease' = "cleanup" /\ Goto("plan")
     ELSE job' = Idle /\ UNCHANGED lease
  /\ UNCHANGED <<storage, record>>

(* CleanupOrphan plans again under the Lease; what was planned before the *)
(* operator confirmed is not used.                                        *)
CleanupOrphan ==
  /\ job.at = "plan"
  /\ LET v == job.v
         mode == PlanOrphanCleanup(v)
         dc == DestinationClaim(v)
         plan == [at |-> "none", v |-> v, claim |-> claim[v], cur |-> claim[v].at,
                  curPV |-> pv[v][claim[v].at],
                  pv |-> IF mode = "pre" THEN resolvePreActivationDestinationPV(v)
                         ELSE IF mode = "post" /\ pv[v]["S"].is THEN <<v, "S">> ELSE NoPV,
                  oldPV |-> pv[v]["S"],
                  dc |-> IF mode = "pre" THEN dc ELSE <<>>,
                  dclaim |-> IF mode = "pre" /\ dc # <<>> THEN dclaim[dc[1]] ELSE dclaim[v]]
     IN CASE mode = "blocked" -> Ends
          [] mode = "records" -> job' = [plan EXCEPT !.at = "record"] /\ UNCHANGED lease
          [] mode = "pre" -> job' = [plan EXCEPT !.at = IF dc = <<>> THEN "pv" ELSE "pods"]
                             /\ UNCHANGED lease
          [] mode = "post" -> job' = [plan EXCEPT !.at = "rollback"] /\ UNCHANGED lease
  /\ UNCHANGED <<storage, record>>

(* The reservation Pods of the session go first. *)
deleteReservationConsumers ==
  /\ job.at = "pods"
  /\ pods' = [u \in Volumes |-> IF pods[u] = "tool" THEN "none" ELSE pods[u]]
  /\ Goto("unused") /\ UNCHANGED <<claim, dclaim, pv, record, lease>>

cleanupPreActivationOrphan ==
  /\ job.at = "unused"
  /\ IF job.dc[2] = "dclaim" /\ ~ensurePVCUnused(job.dc[1])
     THEN Ends ELSE Goto("dclaim") /\ UNCHANGED lease
  /\ UNCHANGED <<storage, record>>

(* deleteOrphanDestinationPVC: the claim the plan read, still the session's *)
(* destination for this source.  A claim in use stays terminating.          *)
deleteOrphanDestinationPVC ==
  /\ job.at = "dclaim"
  /\ LET u == job.dc[1]
         there == IF job.dc[2] = "dclaim" THEN dclaim[u].is ELSE claim[u].is
     IN IF ~there THEN Goto("pv") /\ UNCHANGED <<dclaim, lease>>
        ELSE IF job.dc = <<job.v, "dclaim">> /\ dclaim[u] = job.dclaim
        THEN Goto("pv") /\ dclaim' = [dclaim EXCEPT ![u].term = TRUE] /\ UNCHANGED lease
        ELSE Ends /\ UNCHANGED dclaim
  /\ UNCHANGED <<claim, pv, pods, record>>

ClaimDeleting(p) ==
  IF At(p).ref = "dclaim" THEN ~dclaim[p[1]].is \/ dclaim[p[1]].term ELSE ~claim[p[1]].is

(* deleteReclaimedPV: wait until the destination volume is released, give it *)
(* its policy back and delete it.                                            *)
deleteReclaimedPV ==
  /\ job.at = "pv"
  /\ \/ /\ ~At(job.pv).is
        /\ Goto("fpvc") /\ UNCHANGED <<pv, lease>>
     \/ /\ At(job.pv).is
        /\ At(job.pv).role # "destination" \/ ~PolicyKnown(At(job.pv))
           \/ (At(job.pv).phase = "Bound" /\ ~ClaimDeleting(job.pv))
        /\ Ends /\ UNCHANGED pv
     \/ /\ At(job.pv).is /\ At(job.pv).phase = "Released"
        /\ At(job.pv).role = "destination" /\ PolicyKnown(At(job.pv))
        /\ pv' = [pv EXCEPT ![job.pv[1]][job.pv[2]].policy = At(job.pv).orig]
        /\ Goto("delete") /\ UNCHANGED lease
  /\ UNCHANGED <<claim, dclaim, pods, record>>

(* The policy of the rollback volume is restored and it is deleted, as the *)
(* plan read it.                                                           *)
deleteOrphanRollbackPV ==
  /\ job.at = "rollback"
  /\ IF ~At(job.pv).is THEN Goto("fpvc") /\ UNCHANGED <<pv, lease>>
     ELSE IF pv[job.v]["S"] = job.oldPV
     THEN pv' = [pv EXCEPT ![job.v]["S"].policy = pv[job.v]["S"].orig]
          /\ Goto("delete") /\ UNCHANGED lease
     ELSE Ends /\ UNCHANGED pv
  /\ UNCHANGED <<claim, dclaim, pods, record>>

(* Delete the volume whose policy was just restored, unless it changed. *)
DeletePV ==
  /\ job.at = "delete"
  /\ IF ~At(job.pv).is \/ (At(job.pv).phase = "Released" /\ At(job.pv).policy = At(job.pv).orig)
     THEN pv' = [pv EXCEPT ![job.pv[1]][job.pv[2]] = NoVolume] /\ Goto("fpvc") /\ UNCHANGED lease
     ELSE Ends /\ UNCHANGED pv
  /\ UNCHANGED <<claim, dclaim, pods, record>>

(* finalizeOrphanPVC: the session's labels and annotations leave the claim. *)
finalizeOrphanPVC ==
  /\ job.at = "fpvc"
  /\ IF claim[job.v] = job.claim
     THEN claim' = [claim EXCEPT ![job.v].owner = "none", ![job.v].rollback = FALSE]
          /\ Goto("fpv") /\ UNCHANGED lease
     ELSE Ends /\ UNCHANGED claim
  /\ UNCHANGED <<dclaim, pv, pods, record>>

(* finalizeOrphanPV: the original policy and no labels. *)
finalizeOrphanPV ==
  /\ job.at = "fpv"
  /\ IF pv[job.v][job.cur] = job.curPV
     THEN pv' = [pv EXCEPT ![job.v][job.cur] =
                   [@ EXCEPT !.policy = job.curPV.orig, !.role = "none", !.orig = "none", !.paired = FALSE]]
          /\ Goto("record") /\ UNCHANGED lease
     ELSE Ends /\ UNCHANGED pv
  /\ UNCHANGED <<claim, dclaim, pods, record>>

(* Nothing but a pass removes a stale record here, so that finding it and  *)
(* deleting it are one step; the deletion carries no precondition.         *)
deleteStaleSessionRecord ==
  /\ job.at = "record"
  /\ record' = IF record = "stale" THEN "none" ELSE record
  /\ Goto("lease") /\ UNCHANGED <<storage, lease>>

(* Whatever still carries the session: claims, volumes and Pods. *)
hasOrphanSessionResources ==
  \/ \E v \in Volumes: (claim[v].is /\ claim[v].owner = "session") \/ dclaim[v].is \/ pods[v] = "tool"
  \/ Labelled # {}

(* The Lease goes with the last volume. *)
DeleteLease ==
  /\ job.at = "lease"
  /\ lease' = IF hasOrphanSessionResources THEN "free" ELSE "absent"
  /\ job' = Idle /\ UNCHANGED <<storage, record>>

Pass ==
  \/ withSessionIDLock \/ CleanupOrphan \/ deleteReservationConsumers \/ cleanupPreActivationOrphan
  \/ deleteOrphanDestinationPVC \/ deleteReclaimedPV \/ deleteOrphanRollbackPV \/ DeletePV
  \/ finalizeOrphanPVC \/ finalizeOrphanPV \/ deleteStaleSessionRecord \/ DeleteLease

---------------------------------------------------------------------------
(* What runs beside a pass. *)

(* The process dies, its Lease expires; or a request fails and it gives up. *)
PassDies ==
  /\ lease = "cleanup" /\ crashes < MaxCrashes
  /\ crashes' = crashes + 1 /\ Ends
  /\ UNCHANGED <<storage, record, lost, hands, handled, wrote>>

(* A terminating claim nobody mounts goes, and its volume is released. *)
ClaimRemoved(v) ==
  /\ dclaim[v].is /\ dclaim[v].term /\ pods[v] = "none"
  /\ dclaim' = [dclaim EXCEPT ![v] = [is |-> FALSE, bound |-> FALSE, term |-> FALSE]]
  /\ pv' = [pv EXCEPT ![v]["D"].phase = "Released"]
  /\ UNCHANGED <<claim, pods>>

(* A released volume is deleted when its policy says so. *)
Reclaim(v, x) ==
  /\ pv[v][x].is /\ pv[v][x].phase = "Released" /\ pv[v][x].policy = "Delete"
  /\ pv' = [pv EXCEPT ![v][x] = NoVolume]
  /\ UNCHANGED <<claim, dclaim, pods>>

(* A volume is provisioned for a destination claim its Pod waits for. *)
Provision(v) ==
  /\ dclaim[v].is /\ ~dclaim[v].bound /\ ~dclaim[v].term /\ pods[v] = "tool"
  /\ dclaim' = [dclaim EXCEPT ![v].bound = TRUE]
  /\ pv' = [pv EXCEPT ![v]["D"] = Volume(TRUE, "none", lost.class, "none", FALSE, "Bound", "dclaim")]
  /\ UNCHANGED <<claim, pods>>

UserPodEnds(v) ==
  /\ pods[v] = "user" /\ pods' = [pods EXCEPT ![v] = "none"]
  /\ UNCHANGED <<claim, dclaim, pv>>

Controllers ==
  /\ \E v \in Volumes: ClaimRemoved(v) \/ Provision(v) \/ UserPodEnds(v) \/ \E x \in PVs: Reclaim(v, x)
  /\ UNCHANGED <<record, lease, job, lost, hands, handled, crashes, wrote>>

(* An operator mounts a destination claim, deletes a claim or a released *)
(* volume, or patches the policy of a volume.                            *)
Hand(v) ==
  \/ /\ dclaim[v].is /\ dclaim[v].bound /\ ~dclaim[v].term /\ pods[v] = "none"
     /\ pods' = [pods EXCEPT ![v] = "user"] /\ UNCHANGED <<claim, dclaim, pv>>
  \/ /\ dclaim[v].is /\ ~dclaim[v].term
     /\ dclaim' = [dclaim EXCEPT ![v].term = TRUE] /\ UNCHANGED <<claim, pv, pods>>
  \/ /\ claim[v].is
     /\ claim' = [claim EXCEPT ![v].is = FALSE]
     /\ pv' = [pv EXCEPT ![v][claim[v].at].phase = "Released"] /\ UNCHANGED <<dclaim, pods>>
  \/ \E x \in PVs:
       /\ pv[v][x].is /\ pv[v][x].phase = "Released"
       /\ pv' = [pv EXCEPT ![v][x] = NoVolume] /\ UNCHANGED <<claim, dclaim, pods>>
  \/ \E x \in PVs, p \in Policies:
       /\ pv[v][x].is /\ pv[v][x].policy # p
       /\ pv' = [pv EXCEPT ![v][x].policy = p] /\ UNCHANGED <<claim, dclaim, pods>>

Operator ==
  /\ hands < MaxHands /\ hands' = hands + 1
  /\ \E v \in Volumes: Hand(v) /\ handled' = handled \cup {v}
  /\ UNCHANGED <<record, lease, job, lost, crashes, wrote>>

(* The workflow object is applied again; its passes take the Lease and write *)
(* what a reservation writes.                                                *)
Revive ==
  /\ MayRevive /\ record = "none" /\ record' = "live"
  /\ UNCHANGED <<storage, lease, job, lost, hands, handled, crashes, wrote>>

WorkflowLocks ==
  /\ record = "live" /\ lease \in {"free", "absent"} /\ lease' = "workflow"
  /\ UNCHANGED <<storage, record, job, lost, hands, handled, crashes, wrote>>

Reserves(v) ==
  LET s == pv[v]["S"]
  IN /\ claim[v].is /\ claim[v].at = "S" /\ s.is
     /\ \/ /\ claim[v].owner = "none"
           /\ claim' = [claim EXCEPT ![v].owner = "session"] /\ UNCHANGED <<dclaim, pv, pods>>
        \/ /\ claim[v].owner = "session" /\ s.role = "none"
           /\ pv' = [pv EXCEPT ![v]["S"] = [s EXCEPT !.role = "source", !.policy = "Retain", !.orig = s.policy]]
           /\ UNCHANGED <<claim, dclaim, pods>>
        \/ /\ s.role = "source" /\ ~dclaim[v].is /\ ~pv[v]["D"].is
           /\ dclaim' = [dclaim EXCEPT ![v] = [is |-> TRUE, bound |-> FALSE, term |-> FALSE]]
           /\ pods' = [pods EXCEPT ![v] = "tool"] /\ UNCHANGED <<claim, pv>>

WorkflowWrites ==
  /\ lease = "workflow" /\ \E v \in Volumes: Reserves(v)
  /\ wrote' = TRUE
  /\ UNCHANGED <<record, lease, job, lost, hands, handled, crashes>>

WorkflowYields ==
  /\ lease = "workflow" /\ lease' = "free"
  /\ UNCHANGED <<storage, record, job, lost, hands, handled, crashes, wrote>>

CleanupStarts(v) == CleanupCommand(v) /\ UNCHANGED <<lost, hands, handled, crashes, wrote>>
PassStep == Pass /\ UNCHANGED <<lost, hands, handled, crashes, wrote>>

Next ==
  \/ \E v \in Volumes: CleanupStarts(v)
  \/ PassStep \/ PassDies \/ Controllers \/ Operator
  \/ Revive \/ WorkflowLocks \/ WorkflowWrites \/ WorkflowYields

(* A pass that was started goes on, Kubernetes' controllers do their work, *)
(* and the operator calls the command again for every source claim.        *)
Fairness ==
  /\ WF_vars(PassStep) /\ WF_vars(Controllers)
  /\ \A v \in Volumes: SF_vars(CleanupStarts(v))

Spec == Init /\ [][Next]_vars /\ Fairness

---------------------------------------------------------------------------
(* Properties. *)

Served(v) == IF Reached(lost.stage[v], "created") THEN "D" ELSE "S"

(* A cleanup never costs a claim or the volume it serves: whatever was lost *)
(* and however often passes die, the claim of a volume no operator touched  *)
(* stays bound to the volume with its data, and a volume whose switch was   *)
(* cut short keeps both copies ("It never deletes the active PVC or active  *)
(* PV", CleanupOrphan; the refusals of planDeletedSourceOrphan and of       *)
(* resolvePreActivationDestinationPV).                                      *)
ServedKept ==
  \A v \in Volumes \ handled:
    IF lost.stage[v] = "switching" THEN pv[v]["S"].is /\ pv[v]["D"].is
    ELSE /\ claim[v].is /\ claim[v].at = Served(v)
         /\ pv[v][Served(v)].is /\ pv[v][Served(v)].phase = "Bound"

(* A volume that was freed is whole: once neither its claim nor its volume  *)
(* carries the session, the volume has the policy it was created with, and  *)
(* the destination or rollback copy the session kept for it is gone: no     *)
(* retained volume is left that nothing points to (the order of             *)
(* cleanupPreActivationOrphan and cleanupPostActivationOrphan).             *)
FreedWhole ==
  \A v \in Volumes \ handled:
    LET current == pv[v][claim[v].at]
        other == pv[v][IF claim[v].at = "S" THEN "D" ELSE "S"]
    IN (claim[v].is /\ claim[v].owner = "none" /\ current.role = "none")
       => /\ current.policy = IF claim[v].at = "S" THEN "Delete" ELSE lost.class
          /\ ~other.is /\ (dclaim[v].is => dclaim[v].term)

(* The Lease is the last to go: when a pass has deleted it, no claim, volume *)
(* or Pod of any volume carries the session and no stale record is left      *)
(* (hasOrphanSessionResources in CleanupOrphan).                             *)
LeaseLast ==
  lease = "absent" =>
    /\ record # "stale"
    /\ \A v \in Volumes:
         /\ claim[v].is => claim[v].owner # "session"
         /\ ~dclaim[v].is /\ pods[v] # "tool" /\ \A x \in PVs: pv[v][x].role = "none"

(* A workflow that came back is not cleaned away: once a workflow of this  *)
(* name has written under its record again, no cleanup pass changes        *)
(* storage, also not one that was confirmed from an earlier plan           *)
(* (withSessionIDLock and the plan made under the Lease).                  *)
LiveSpared == [][(job # Idle /\ wrote) => (PassStep => UNCHANGED storage)]_vars

Freed(v) == claim[v].owner = "none" /\ Labelled = {} /\ ~dclaim[v].is
Recoverable ==
  \E kind \in {{"marked"}, {"reserved", "activated"}, {"detached", "activated"}}:
    \A v \in Volumes: lost.stage[v] \in kind

(* Reruns finish: the storage of a lost session is freed when the command is *)
(* called again for each of its claims, although a pass died half way (the   *)
(* warnings of the plan that accept what is already gone: "deletion will     *)
(* remain idempotent").  Not promised where a volume whose destination claim *)
(* is gone stands beside another that still has, or never had, one: one dead *)
(* pass leaves volumes there that no plan can map.                           *)
StorageFreed ==
  (Recoverable /\ hands = 0)
    ~> (hands > 0 \/ record = "live" \/ \A v \in Volumes: Freed(v))

(* A cleanup of a lost session takes what nobody uses, all of it, and only  *)
(* that: the served copies stay, freed volumes are whole, the Lease is last.*)
CleansWhole == ServedKept /\ FreedWhole /\ LeaseLast

=============================================================================
