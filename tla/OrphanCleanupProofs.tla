------------------------- MODULE OrphanCleanupProofs -------------------------
(***************************************************************************)
(* Proofs that a cleanup of a lost session costs nobody a volume           *)
(* (OrphanCleanup), for any volumes, any number of passes that die, any    *)
(* interventions and with or without a workflow that comes back.           *)
(*                                                                         *)
(* CleansWhole alone is not inductive: that the labels leave a claim only  *)
(* after the other copy went depends on what the plan in progress read,    *)
(* and the world changes under a plan.  IInv adds                          *)
(*   - for every volume no operator touched, which volume its claim        *)
(*     serves, what the labels and the remembered policies say, and how    *)
(*     the destination claim goes with its volume (VolumeOK);              *)
(*   - for the pass in progress, what is still to be taken down at the     *)
(*     step where it stands (JobOK, PlanOK), which the controllers, an     *)
(*     operator's work on other volumes and a dead pass leave true;        *)
(*   - that a pass holds the Lease from its plan on, so that the workflow  *)
(*     that came back writes only while no pass follows a plan (LeaseOK).  *)
(* The plan's guess of an unclaimed destination volume is right because a  *)
(* session with one source volume left has no other it could belong to     *)
(* (OnlySource): the one place that needs the volumes to be finitely many. *)
(***************************************************************************)
EXTENDS OrphanCleanup, FiniteSetTheorems, TLAPS

\* The types of a source claim, a destination claim and a volume.
ClaimT == [is : BOOLEAN, owner : {"session", "none"}, at : PVs, rollback : BOOLEAN]
DestinationT == [is : BOOLEAN, bound : BOOLEAN, term : BOOLEAN]
VolumeT == [is : BOOLEAN, role : {"none", "source", "destination", "active", "rollback"},
            policy : Policies, orig : Policies \cup {"none"}, paired : BOOLEAN,
            phase : {"Bound", "Released"}, ref : {"none", "claim", "dclaim"}]

\* The steps of a pass that follows a plan for a claim, and all after the plan.
ClaimAts == {"pods", "unused", "dclaim", "pv", "rollback", "delete", "fpvc", "fpv"}
PlanAts == ClaimAts \cup {"record", "lease"}

\* A pass that has not planned under the Lease, and one that has.
Early == [at : {"confirm", "plan"}, v : Volumes]
Planned == [at : PlanAts, v : Volumes, claim : ClaimT, cur : PVs, curPV : VolumeT,
            pv : {NoPV} \cup (Volumes \X PVs), oldPV : VolumeT,
            dc : {<<>>} \cup (Volumes \X {"none", "claim", "dclaim"}), dclaim : DestinationT]

StageSet == {Stages[i] : i \in DOMAIN Stages}

TypeOK ==
    /\ claim \in [Volumes -> ClaimT]
    /\ dclaim \in [Volumes -> DestinationT]
    /\ pv \in [Volumes -> [PVs -> VolumeT]]
    /\ pods \in [Volumes -> {"none", "tool", "user"}]
    /\ record \in {"none", "stale", "live"}
    /\ lease \in {"absent", "free", "cleanup", "workflow"}
    /\ job \in {Idle} \cup Early \cup Planned
    /\ lost \in [stage : [Volumes -> StageSet], class : Policies]
    /\ wrote \in BOOLEAN

\* A pass works under the Lease, and not once the workflow is back.
LeaseOK ==
    /\ lease = "cleanup" <=> job.at \in PlanAts \cup {"plan"}
    /\ wrote => record = "live" /\ job.at \notin PlanAts
    /\ job.at = "lease" => record # "stale"
    /\ lease = "workflow" => record = "live"

\* A volume that is not there carries no label.
GoneUnlabelled == \A v \in Volumes, x \in PVs : ~pv[v][x].is => pv[v][x].role = "none"

\* A source volume S.
SourceOK(S, st) ==
    /\ S.role \in {"none", "source", "rollback"}
    /\ S.role = "rollback" => st = "activated"
    /\ S.role = "source" => S.is /\ S.policy = "Retain"
    /\ S.orig = IF S.role = "none" THEN "none" ELSE "Delete"
    /\ S.role = "none" /\ S.is => S.policy = "Delete"

\* A destination volume D.
DestinationOK(D, st, class) ==
    /\ D.role \in {"none", "destination", "active"}
    /\ D.role = "destination" =>
          /\ st \in {"reserved", "detached", "switching", "created"}
          /\ st \in {"reserved", "detached"} => D.ref = "dclaim"
    /\ D.orig = IF D.role = "none" THEN "none" ELSE class
    /\ D.role = "none" /\ D.is => D.policy = class

\* A volume no operator touched.
VolumeOK(st, class, c, d, S, D) ==
    /\ SourceOK(S, st) /\ DestinationOK(D, st, class)
    /\ c.is = (st # "switching")
    /\ c.at = IF st \in {"created", "paired", "activated"} THEN "D" ELSE "S"
    /\ D.role = "destination" => S.role = "source"
    /\ D.role = "active" => c.at = "D"
    /\ c.at = "S" /\ c.is => S.is /\ S.phase = "Bound"
    /\ c.at = "D" => D.is /\ D.phase = "Bound" /\ ~d.is
    /\ st = "switching" => /\ S.role = "source" /\ D.role = "destination" /\ D.is
                           /\ D.policy = "Retain" /\ ~d.is
    /\ d.is => (d.bound <=> D.is)
    /\ d.is /\ D.is => D.phase = "Bound" /\ (d.term => D.role # "none")
    /\ ~d.is /\ D.is => D.role # "none" \/ c.at = "D"

\* What a pass for v knows when its plan was made and no operator touched v.
JobOK(v) ==
    LET d == dclaim[v]
        S == pv[v]["S"]
        D == pv[v]["D"]
        cleared == ~D.is /\ (d.is => d.term)
    IN /\ lost.stage[v] # "switching" /\ job.cur = claim[v].at
       /\ job.cur = "S" =>
            /\ job.at # "rollback"
            /\ job.at \in {"pods", "unused", "dclaim"} /\ job.pv # <<v, "D">> =>
                  /\ D.is => d.is /\ ~d.term
                  /\ d.is => job.dc = <<v, "dclaim">> /\ ~job.dclaim.bound
            /\ job.at \in {"pods", "unused", "dclaim"} /\ job.pv = <<v, "D">> =>
                  /\ job.dc = <<v, "dclaim">>
                  /\ d.is => d.bound
                  /\ D.is => D.role # "none"
            /\ job.at \in {"pv", "delete"} => /\ d.is => d.term
                                              /\ job.pv # <<v, "D">> => ~D.is
            /\ job.at \in {"fpvc", "fpv"} => cleared
       /\ job.cur = "D" =>
            /\ job.at \in {"rollback", "delete", "fpvc", "fpv"} /\ S.role # "source"
            /\ job.at \in {"rollback", "delete"} /\ job.pv # <<v, "S">> => ~S.is
            /\ job.at \in {"fpvc", "fpv"} => ~S.is

\* What every plan says.
PlanOK ==
    /\ job.at \in ClaimAts => job.curPV.orig # "none"
    /\ job.at \in {"pods", "unused", "dclaim"} => job.dc # <<>>
    /\ job.at = "rollback" =>
          /\ job.pv \in {NoPV, <<job.v, "S">>}
          /\ job.pv # NoPV => job.oldPV.orig # "none"
    /\ job.at = "delete" => job.pv # NoPV
    /\ job.at \in ClaimAts /\ job.pv # NoPV /\ job.pv[1] \notin handled =>
          job.pv[1] = job.v /\ job.pv[2] # job.cur
    /\ job.at \in ClaimAts /\ job.v \notin handled => JobOK(job.v)

FreedWholeAt(v) ==
    LET current == pv[v][claim[v].at]
        other == pv[v][IF claim[v].at = "S" THEN "D" ELSE "S"]
    IN (claim[v].is /\ claim[v].owner = "none" /\ current.role = "none")
       => ~other.is /\ (dclaim[v].is => dclaim[v].term)

\* What holds of a volume no operator touched.
VolumeInv(v) ==
    /\ VolumeOK(lost.stage[v], lost.class, claim[v], dclaim[v], pv[v]["S"], pv[v]["D"])
    /\ FreedWholeAt(v)

IInv ==
    /\ TypeOK /\ LeaseOK /\ GoneUnlabelled /\ LeaseLast /\ PlanOK
    /\ \A v \in Volumes \ handled : VolumeInv(v)

-----------------------------------------------------------------------------
(* The stages.                                                             *)

\* The stages, in their order.
LEMMA StageTable ==
    /\ DOMAIN Stages = 1..10
    /\ Stages[1] = "acquired" /\ Stages[2] = "marked" /\ Stages[3] = "claimed"
    /\ Stages[4] = "bound" /\ Stages[5] = "reserved" /\ Stages[6] = "detached"
    /\ Stages[7] = "switching" /\ Stages[8] = "created" /\ Stages[9] = "paired"
    /\ Stages[10] = "activated"
BY DEF Stages

\* The names of the stages.
LEMMA StageNames ==
    StageSet = {"acquired", "marked", "claimed", "bound", "reserved", "detached",
                "switching", "created", "paired", "activated"}
<1>1. \A i \in 1..10 : i = 1 \/ i = 2 \/ i = 3 \/ i = 4 \/ i = 5 \/ i = 6 \/ i = 7 \/ i = 8
                     \/ i = 9 \/ i = 10
  OBVIOUS
<1> QED BY <1>1, StageTable DEF StageSet

\* A stage is reached at its own place in the order and after it.
LEMMA ReachedOrder ==
    ASSUME NEW i \in 1..10, NEW j \in 1..10
    PROVE  Reached(Stages[i], Stages[j]) <=> j <= i
<1>1. ASSUME NEW a \in 1..10, NEW b \in 1..10, Stages[a] = Stages[b]
      PROVE  a = b
  <2>1. \A k \in 1..10 : k = 1 \/ k = 2 \/ k = 3 \/ k = 4 \/ k = 5 \/ k = 6 \/ k = 7 \/ k = 8
                       \/ k = 9 \/ k = 10
    OBVIOUS
  <2> QED BY ZenonT(30), <1>1, <2>1, StageTable
<1> QED BY Zenon, <1>1, StageTable DEF Reached

\* What the model asks of the order.
LEMMA StagesReached ==
    ASSUME NEW st \in StageSet
    PROVE  /\ Reached(st, "marked") <=> st # "acquired"
           /\ Reached(st, "claimed") <=> st \notin {"acquired", "marked"}
           /\ Reached(st, "bound") <=> st \notin {"acquired", "marked", "claimed"}
           /\ Reached(st, "detached") <=>
                 st \in {"detached", "switching", "created", "paired", "activated"}
           /\ Reached(st, "switching") <=> st \in {"switching", "created", "paired", "activated"}
           /\ Reached(st, "created") <=> st \in {"created", "paired", "activated"}
           /\ Reached(st, "paired") <=> st \in {"paired", "activated"}
<1>1. PICK i \in 1..10 : st = Stages[i]
  BY Zenon, StageTable DEF StageSet
<1>2. /\ Reached(Stages[i], Stages[2]) <=> 2 <= i
      /\ Reached(Stages[i], Stages[3]) <=> 3 <= i
      /\ Reached(Stages[i], Stages[4]) <=> 4 <= i
      /\ Reached(Stages[i], Stages[6]) <=> 6 <= i
      /\ Reached(Stages[i], Stages[7]) <=> 7 <= i
      /\ Reached(Stages[i], Stages[8]) <=> 8 <= i
      /\ Reached(Stages[i], Stages[9]) <=> 9 <= i
  BY ReachedOrder
<1>3. i = 1 \/ i = 2 \/ i = 3 \/ i = 4 \/ i = 5 \/ i = 6 \/ i = 7 \/ i = 8 \/ i = 9 \/ i = 10
  OBVIOUS
<1> QED BY <1>1, <1>2, <1>3, StageTable

\* What was left of a volume, whatever its stage, satisfies the invariant.
LEMMA LeftOK ==
    ASSUME NEW st \in StageSet, NEW class \in Policies
    PROVE  /\ LeftClaim(st) \in ClaimT /\ LeftDclaim(st) \in DestinationT
           /\ LeftSource(st, "Delete") \in VolumeT /\ LeftDestination(st, class) \in VolumeT
           /\ LeftSource(st, "Delete").is
           /\ ~LeftDestination(st, class).is => LeftDestination(st, class).role = "none"
           /\ VolumeOK(st, class, LeftClaim(st), LeftDclaim(st), LeftSource(st, "Delete"),
                       LeftDestination(st, class))
           /\ LeftClaim(st).owner = "session"
<1>0. \A s : Reached(st, s) \in BOOLEAN
  BY Zenon DEF Reached
<1>1. /\ LeftClaim(st) \in ClaimT /\ LeftDclaim(st) \in DestinationT
      /\ LeftClaim(st).owner = "session"
  BY Zenon, <1>0 DEF LeftClaim, LeftDclaim, ClaimT, DestinationT, PVs
<1>2. LeftSource(st, "Delete") \in VolumeT /\ LeftSource(st, "Delete").is
  BY Zenon DEF LeftSource, VolumeT, Volume, Policies
<1>3. /\ LeftDestination(st, class) \in VolumeT
      /\ ~LeftDestination(st, class).is => LeftDestination(st, class).role = "none"
  BY Zenon, <1>0 DEF LeftDestination, VolumeT, Volume, NoVolume, Policies
<1>4. SourceOK(LeftSource(st, "Delete"), st)
  BY Zenon, StagesReached DEF LeftSource, Volume, SourceOK
<1>5. DestinationOK(LeftDestination(st, class), st, class)
  BY Zenon, StagesReached, StageNames DEF LeftDestination, Volume, NoVolume, DestinationOK
<1>6. VolumeOK(st, class, LeftClaim(st), LeftDclaim(st), LeftSource(st, "Delete"),
               LeftDestination(st, class))
  BY ZenonT(30), <1>4, <1>5, StagesReached, StageNames
     DEF VolumeOK, LeftClaim, LeftDclaim, LeftSource, LeftDestination, Volume, NoVolume
<1> QED BY Zenon, <1>1, <1>2, <1>3, <1>6

\* Init: every volume as it was left, and nobody works.
LEMMA InitIInv ==
    ASSUME Init
    PROVE  IInv
<1>1. /\ lost.stage \in [Volumes -> StageSet] /\ lost.class \in Policies
      /\ lost \in [stage : [Volumes -> StageSet], class : Policies]
  BY Zenon DEF Init, StageSet
<1>2. /\ claim = [v \in Volumes |-> LeftClaim(lost.stage[v])]
      /\ dclaim = [v \in Volumes |-> LeftDclaim(lost.stage[v])]
      /\ \A v \in Volumes : /\ pv[v]["S"] = LeftSource(lost.stage[v], "Delete")
                            /\ pv[v]["D"] = LeftDestination(lost.stage[v], lost.class)
      /\ job.at = "idle" /\ lease = "free" /\ ~wrote
  BY Zenon DEF Init, Idle, PVs
<1>3. TypeOK
  <2>1. pv \in [Volumes -> [PVs -> VolumeT]]
    BY Zenon, <1>1, LeftOK DEF Init
  <2>2. claim \in [Volumes -> ClaimT] /\ dclaim \in [Volumes -> DestinationT]
    BY Zenon, <1>1, <1>2, LeftOK
  <2>3. pods \in [Volumes -> {"none", "tool", "user"}]
    BY Zenon DEF Init
  <2> QED BY Zenon, <1>1, <1>2, <2>1, <2>2, <2>3 DEF Init, TypeOK
<1>4. LeaseOK /\ LeaseLast /\ PlanOK
  BY Zenon, <1>2 DEF LeaseOK, LeaseLast, PlanOK, PlanAts, ClaimAts
<1>5. GoneUnlabelled
  BY <1>1, <1>2, LeftOK DEF GoneUnlabelled, PVs
<1>6. \A v \in Volumes :
         /\ VolumeOK(lost.stage[v], lost.class, claim[v], dclaim[v], pv[v]["S"], pv[v]["D"])
         /\ FreedWholeAt(v)
  BY <1>1, <1>2, LeftOK DEF FreedWholeAt
<1> QED BY Zenon, <1>3, <1>4, <1>5, <1>6 DEF IInv, VolumeInv

-----------------------------------------------------------------------------
(* Steps that leave storage alone.                                         *)

\* Where a pass is says what it carries.
LEMMA JobKinds ==
    ASSUME TypeOK
    PROVE  /\ job.at \in PlanAts => job \in Planned
           /\ job.at \in {"confirm", "plan"} => job \in Early
           /\ job.at = "idle" => job = Idle
           /\ job.at \in PlanAts \cup {"confirm", "plan", "idle"}
BY DEF TypeOK, Planned, Early, Idle, PlanAts, ClaimAts

\* A pass that goes on follows the same plan.
LEMMA GotoFields ==
    ASSUME job \in Planned, NEW at \in PlanAts, job' = [job EXCEPT !.at = at]
    PROVE  /\ job' \in Planned /\ job'.at = at /\ job'.v = job.v /\ job'.claim = job.claim
           /\ job'.cur = job.cur /\ job'.curPV = job.curPV /\ job'.pv = job.pv
           /\ job'.oldPV = job.oldPV /\ job'.dc = job.dc /\ job'.dclaim = job.dclaim
BY Zenon DEF Planned

\* The volumes are as they were.
LEMMA VolumesKept ==
    ASSUME IInv, UNCHANGED <<claim, dclaim, pv, lost>>, handled \subseteq handled'
    PROVE  GoneUnlabelled' /\ \A v \in Volumes \ handled' : VolumeInv(v)'
<1>1. GoneUnlabelled'
  BY Zenon DEF IInv, GoneUnlabelled
<1>2. ASSUME NEW v \in Volumes \ handled' PROVE VolumeInv(v)'
  <2>1. VolumeInv(v)
    BY Zenon DEF IInv
  <2> QED BY Zenon, <2>1 DEF VolumeInv, FreedWholeAt
<1> QED BY Zenon, <1>1, <1>2

\* Without a pass that follows a plan there is no promise of one.
LEMMA NoPlan ==
    ASSUME job'.at \in {"idle", "confirm", "plan"}
    PROVE  PlanOK'
BY Zenon DEF PlanOK, ClaimAts

\* A pass ends, whoever or whatever ended it.
LEMMA EndsStep ==
    ASSUME IInv, UNCHANGED <<storage, record, lost, handled, wrote>>, job' = Idle,
           lease' \in {"free", "absent"} \/ (lease' = lease /\ lease # "cleanup"),
           lease' = "absent" => LeaseLast'
    PROVE  IInv'
<1>1. Idle.at = "idle"
  BY Zenon DEF Idle
<1>2. TypeOK'
  BY Zenon DEF IInv, TypeOK, storage
<1>3. LeaseOK'
  BY Zenon, <1>1 DEF IInv, LeaseOK, PlanAts, ClaimAts
<1>4. LeaseLast' /\ PlanOK'
  BY Zenon, <1>1, NoPlan DEF LeaseLast
<1> QED BY Zenon, <1>2, <1>3, <1>4, VolumesKept DEF IInv, storage

\* A pass ends and its Lease is free.
LEMMA EndsFree ==
    ASSUME IInv, UNCHANGED <<storage, record, lost, handled, wrote>>, Ends
    PROVE  IInv'
BY Zenon, EndsStep DEF Ends

\* CleanupCommand: the first plan only asks the operator.
LEMMA StartsStep ==
    ASSUME IInv, NEW v \in Volumes, CleanupStarts(v)
    PROVE  IInv'
<1>1. /\ job = Idle /\ job' = [at |-> "confirm", v |-> v]
      /\ UNCHANGED <<claim, dclaim, pv, pods, record, lease, lost, handled, wrote>>
  BY Zenon DEF CleanupStarts, CleanupCommand, storage
<1>2. job.at = "idle" /\ job'.at = "confirm" /\ job' \in Early
  BY Zenon, <1>1 DEF Idle, Early
<1>3. TypeOK'
  BY Zenon, <1>1, <1>2 DEF IInv, TypeOK
<1>4. LeaseOK' /\ LeaseLast'
  BY Zenon, <1>1, <1>2 DEF IInv, LeaseOK, LeaseLast, PlanAts, ClaimAts
<1> QED BY Zenon, <1>1, <1>2, <1>3, <1>4, NoPlan, VolumesKept DEF IInv

\* withSessionIDLock: the Lease is free, or the pass gives up.
LEMMA LockStep ==
    ASSUME IInv, withSessionIDLock, UNCHANGED <<lost, handled, wrote>>
    PROVE  IInv'
<1>1. /\ job \in Early /\ job.at = "confirm"
      /\ UNCHANGED <<claim, dclaim, pv, pods, record, lost, handled, wrote>>
  BY Zenon, JobKinds DEF withSessionIDLock, storage, IInv
<1>2. CASE lease \in {"free", "absent"}
  <2>1. lease' = "cleanup" /\ job' \in Early /\ job'.at = "plan"
    BY Zenon, <1>1, <1>2 DEF withSessionIDLock, Goto, Early
  <2>2. TypeOK'
    BY Zenon, <1>1, <2>1 DEF IInv, TypeOK
  <2>3. LeaseOK' /\ LeaseLast'
    BY <1>1, <2>1 DEF IInv, LeaseOK, LeaseLast, PlanAts, ClaimAts
  <2> QED BY Zenon, <1>1, <2>1, <2>2, <2>3, NoPlan, VolumesKept DEF IInv
<1>3. CASE lease \notin {"free", "absent"}
  <2>1. job' = Idle /\ lease' = lease
    BY Zenon, <1>3 DEF withSessionIDLock
  <2>2. lease # "cleanup"
    BY Zenon, <1>1 DEF IInv, LeaseOK, PlanAts, ClaimAts
  <2> QED BY Zenon, <1>1, <1>3, <2>1, <2>2, EndsStep DEF storage
<1> QED BY Zenon, <1>2, <1>3

\* PassDies: the pass ends where it is.
LEMMA DiesStep ==
    ASSUME IInv, PassDies
    PROVE  IInv'
BY Zenon, EndsFree DEF PassDies

\* A pass that follows a plan goes on to another step, without a write.
LEMMA GoesOn ==
    ASSUME IInv, job.at \in PlanAts, NEW at \in PlanAts, job' = [job EXCEPT !.at = at],
           UNCHANGED <<claim, dclaim, pv, lease, lost, handled, wrote>>,
           pods' \in [Volumes -> {"none", "tool", "user"}],
           record' = record \/ record' = "none",
           at = "lease" => record' # "stale",
           job'.at \in PlanAts => PlanOK'
    PROVE  IInv'
<1>1. job' \in Planned /\ job'.at = at
  BY Zenon, JobKinds, GotoFields DEF IInv
<1>2. TypeOK'
  BY Zenon, <1>1 DEF IInv, TypeOK
<1>3. LeaseOK' /\ LeaseLast'
  BY Zenon, <1>1 DEF IInv, LeaseOK, LeaseLast
<1> QED BY Zenon, <1>1, <1>2, <1>3, VolumesKept DEF IInv

-----------------------------------------------------------------------------
(* The plan.                                                               *)

\* The volumes of a role are finitely many, and a volume is one of two.
LEMMA RolesFinite ==
    ASSUME NEW r
    PROVE  IsFiniteSet(PVsOf(r)) /\ PVsOf(r) \subseteq Volumes \X PVs
<1>1. IsFiniteSet(PVs)
  <2>1. IsFiniteSet({"S"}) /\ IsFiniteSet({"D"})
    BY Zenon, FS_Singleton
  <2>2. PVs = {"S"} \cup {"D"}
    BY Zenon DEF PVs
  <2> QED BY Zenon, <2>1, <2>2, FS_Union
<1>2. IsFiniteSet(Volumes \X PVs)
  BY Zenon, <1>1, VolumesFinite, FS_Product
<1>3. PVsOf(r) \subseteq Volumes \X PVs
  BY Zenon DEF PVsOf
<1> QED BY Zenon, <1>2, <1>3, FS_Subset

\* What is resolved is a volume, of the claim or unclaimed.
LEMMA Resolved ==
    ASSUME TypeOK, NEW v \in Volumes
    PROVE  LET p == resolvePreActivationDestinationPV(v)
           IN  \/ p = NoPV
               \/ dclaim[v].is /\ dclaim[v].bound /\ pv[v]["D"].is /\ p = <<v, "D">>
               \/ /\ ~dclaim[v].is /\ p \in orphanPVs /\ orphanPVs = {p}
                  /\ Cardinality(PVsOf("source")) = 1
<1>1. CASE dclaim[v].is
  BY Zenon, <1>1 DEF resolvePreActivationDestinationPV, destinationPVForPVC
<1>2. CASE ~dclaim[v].is /\ Cardinality(orphanPVs) = 1 /\ Cardinality(PVsOf("source")) = 1
  <2>1. IsFiniteSet(orphanPVs)
    BY Zenon, RolesFinite, FS_Subset DEF orphanPVs
  <2>2. PICK q : orphanPVs = {q}
    BY Zenon, <1>2, <2>1, FS_Singleton
  <2>3. resolvePreActivationDestinationPV(v) = CHOOSE p \in orphanPVs : TRUE
    BY Zenon, <1>2 DEF resolvePreActivationDestinationPV
  <2> QED BY Zenon, <1>2, <2>2, <2>3
<1>3. CASE ~dclaim[v].is /\ ~(Cardinality(orphanPVs) = 1 /\ Cardinality(PVsOf("source")) = 1)
  BY Zenon, <1>3 DEF resolvePreActivationDestinationPV
<1> QED BY Zenon, <1>1, <1>2, <1>3

\* The only source volume of the session is one: a destination without a claim
\* goes with it.
LEMMA OnlySource ==
    ASSUME IInv, NEW v \in Volumes, claim[v].at \in PVs, pv[v][claim[v].at].is,
           pv[v][claim[v].at].role = "source", Cardinality(PVsOf("source")) = 1,
           NEW w \in Volumes \ handled, NEW x \in PVs, pv[w][x].is, pv[w][x].role = "destination"
    PROVE  w = v /\ x = "D" /\ claim[v].at = "S"
<1>1. VolumeOK(lost.stage[w], lost.class, claim[w], dclaim[w], pv[w]["S"], pv[w]["D"])
  BY Zenon DEF IInv, VolumeInv
<1>2. x = "D" /\ pv[w]["S"].role = "source" /\ pv[w]["S"].is
  BY Zenon, <1>1 DEF VolumeOK, SourceOK, PVs
<1>3. <<w, "S">> \in PVsOf("source") /\ <<v, claim[v].at>> \in PVsOf("source")
  BY Zenon, <1>2 DEF PVsOf, PVs
<1>4. PICK q : PVsOf("source") = {q}
  BY Zenon, RolesFinite, FS_Singleton
<1>5. <<w, "S">> = <<v, claim[v].at>>
  BY Zenon, <1>3, <1>4
<1> QED BY Zenon, <1>2, <1>5

\* What a plan before the activation says.
LEMMA PreFacts ==
    ASSUME IInv, NEW v \in Volumes, claim[v].is, pv[v][claim[v].at].is,
           pv[v][claim[v].at].role = "source", planPreActivationOrphan(v),
           NEW p, p = resolvePreActivationDestinationPV(v), NEW dc, dc = DestinationClaim(v)
    PROVE  /\ p \in {NoPV} \cup (Volumes \X PVs)
           /\ dc \in {<<>>} \cup (Volumes \X {"none", "claim", "dclaim"})
           /\ p # NoPV /\ p[1] \notin handled => p[1] = v /\ p[2] # claim[v].at
           /\ dc = <<>> => p = NoPV /\ ~dclaim[v].is
           /\ v \notin handled =>
                /\ claim[v].at = "S" /\ lost.stage[v] # "switching"
                /\ p # <<v, "D">> =>
                     /\ pv[v]["D"].is => dclaim[v].is /\ ~dclaim[v].term
                     /\ dclaim[v].is => dc = <<v, "dclaim">> /\ ~dclaim[v].bound
                /\ p = <<v, "D">> => /\ dc = <<v, "dclaim">> /\ (dclaim[v].is => dclaim[v].bound)
                                    /\ pv[v]["D"].role = "destination"
<1>0. /\ TypeOK /\ claim[v].at \in PVs /\ pv \in [Volumes -> [PVs -> VolumeT]]
  BY Zenon DEF IInv, TypeOK, ClaimT
<1>1. \/ p = NoPV
      \/ dclaim[v].is /\ dclaim[v].bound /\ pv[v]["D"].is /\ p = <<v, "D">>
      \/ /\ ~dclaim[v].is /\ p \in orphanPVs /\ orphanPVs = {p}
         /\ Cardinality(PVsOf("source")) = 1
  BY Zenon, <1>0, Resolved
<1>2. p \in {NoPV} \cup (Volumes \X PVs)
  BY <1>1, RolesFinite DEF orphanPVs, PVs
<1>3. p # NoPV => At(p) \in VolumeT /\ At(p) = pv[p[1]][p[2]]
  BY Zenon, <1>0, <1>2 DEF At
<1>4. /\ dclaim[v].is => dc = <<v, "dclaim">>
      /\ ~dclaim[v].is /\ p = NoPV => dc = <<>>
      /\ ~dclaim[v].is /\ p # NoPV => dc = <<p[1], At(p).ref>>
  BY Zenon DEF DestinationClaim
<1>5. dc \in {<<>>} \cup (Volumes \X {"none", "claim", "dclaim"})
  BY <1>2, <1>3, <1>4 DEF VolumeT
<1>6. dc = <<>> => p = NoPV /\ ~dclaim[v].is
  BY <1>4
<1>7. v \notin handled =>
        VolumeOK(lost.stage[v], lost.class, claim[v], dclaim[v], pv[v]["S"], pv[v]["D"])
  BY Zenon DEF IInv, VolumeInv
<1>8. v \notin handled => claim[v].at = "S" /\ lost.stage[v] # "switching"
  BY Zenon, <1>0, <1>7 DEF VolumeOK, DestinationOK, PVs
<1>9. p # NoPV => At(p).role = "destination"
  BY Zenon DEF planPreActivationOrphan, validatePreActivationDestinationPV
<1>10. ASSUME p # NoPV, p[1] \notin handled PROVE p[1] = v /\ p[2] # claim[v].at
  <2>1. CASE dclaim[v].is /\ p = <<v, "D">>
    BY <1>8, <1>10, <2>1
  <2>2. CASE p \in orphanPVs /\ Cardinality(PVsOf("source")) = 1
    <3>1. /\ p[1] \in Volumes \ handled /\ p[2] \in PVs /\ pv[p[1]][p[2]].is
          /\ pv[p[1]][p[2]].role = "destination"
      BY Zenon, <1>2, <1>10, <2>2 DEF orphanPVs, PVsOf
    <3>2. p[1] = v /\ p[2] = "D" /\ claim[v].at = "S"
      BY <1>0, <2>2, <3>1, OnlySource
    <3> QED BY Zenon, <3>2
  <2> QED BY Zenon, <1>1, <1>10, <2>1, <2>2
<1>11. ASSUME v \notin handled, p # <<v, "D">>
       PROVE  /\ pv[v]["D"].is => dclaim[v].is /\ ~dclaim[v].term
              /\ dclaim[v].is => dc = <<v, "dclaim">> /\ ~dclaim[v].bound
  <2>1. CASE dclaim[v].is
    <3>1. ~(dclaim[v].bound /\ pv[v]["D"].is)
      BY Zenon, <1>11, <2>1 DEF resolvePreActivationDestinationPV, destinationPVForPVC
    <3> QED BY Zenon, <1>4, <1>7, <1>11, <2>1, <3>1 DEF VolumeOK
  <2>2. CASE ~dclaim[v].is
    <3> SUFFICES ASSUME pv[v]["D"].is PROVE FALSE
      BY Zenon, <2>2
    <3>1. pv[v]["D"].role = "destination"
      BY Zenon, <1>7, <1>8, <1>11, <2>2 DEF VolumeOK, DestinationOK
    <3>2. <<v, "D">> \in orphanPVs
      BY Zenon, <2>2, <3>1 DEF orphanPVs, PVsOf, pvToPVC, destinationPVCs, PVs
    <3>3. p # NoPV
      BY Zenon, <2>2, <3>2 DEF planPreActivationOrphan
    <3> QED BY Zenon, <1>1, <1>11, <2>2, <3>2, <3>3
  <2> QED BY Zenon, <2>1, <2>2
<1>12. ASSUME v \notin handled, p = <<v, "D">>
       PROVE  /\ dc = <<v, "dclaim">> /\ (dclaim[v].is => dclaim[v].bound)
              /\ pv[v]["D"].role = "destination"
  <2>0. /\ p # NoPV /\ p[1] = v /\ p[2] = "D"
        /\ At(p) = pv[v]["D"] /\ pv[v]["D"].role = "destination"
    <3>1. p # NoPV /\ p[1] = v /\ p[2] = "D"
      BY <1>12 DEF NoPV
    <3> QED BY Zenon, <1>3, <1>9, <3>1
  <2>1. CASE dclaim[v].is
    BY Zenon, <1>1, <1>4, <2>0, <2>1
  <2>2. CASE ~dclaim[v].is
    <3>1. pv[v]["D"].ref = "dclaim"
      BY Zenon, <1>7, <1>8, <1>12, <2>0 DEF VolumeOK, DestinationOK
    <3> QED BY Zenon, <1>4, <2>0, <2>2, <3>1
  <2> QED BY Zenon, <2>1, <2>2
<1> QED BY Zenon, <1>2, <1>5, <1>6, <1>8, <1>10, <1>11, <1>12

\* A pass that starts to follow a plan, whose promises hold.
LEMMA PlansStep ==
    ASSUME IInv, job.at = "plan", record # "live", job' \in Planned, job'.at # "lease",
           UNCHANGED <<claim, dclaim, pv, pods, record, lease, lost, handled, wrote>>, PlanOK'
    PROVE  IInv'
<1>1. job'.at \in PlanAts
  BY Zenon DEF Planned
<1>2. TypeOK'
  BY Zenon DEF IInv, TypeOK
<1>3. LeaseOK' /\ LeaseLast'
  BY Zenon, <1>1 DEF IInv, LeaseOK, LeaseLast
<1> QED BY Zenon, <1>2, <1>3, VolumesKept DEF IInv

\* CleanupOrphan, no plan for a claim: the labels are all gone, or it is refused.
LEMMA RecordsPlan ==
    ASSUME IInv, job.at = "plan", CleanupOrphan, UNCHANGED <<lost, handled, wrote>>,
           PlanOrphanCleanup(job.v) \in {"blocked", "records"}
    PROVE  IInv'
<1>0. /\ TypeOK /\ job \in Early /\ job.v \in Volumes
      /\ UNCHANGED <<claim, dclaim, pv, pods, record, lost, handled, wrote>>
  BY Zenon, JobKinds DEF IInv, Early, CleanupOrphan, storage
<1>1. CASE PlanOrphanCleanup(job.v) = "blocked"
  <2>1. Ends
    BY Zenon, <1>1 DEF CleanupOrphan
  <2> QED BY Zenon, <1>0, <2>1, EndsFree DEF storage
<1>2. CASE PlanOrphanCleanup(job.v) = "records"
  <2> DEFINE v == job.v
             plan == [at |-> "none", v |-> v, claim |-> claim[v], cur |-> claim[v].at,
                      curPV |-> pv[v][claim[v].at], pv |-> NoPV, oldPV |-> pv[v]["S"],
                      dc |-> <<>>, dclaim |-> dclaim[v]]
  <2>1. job' = [plan EXCEPT !.at = "record"] /\ lease' = lease
    BY Zenon, <1>2 DEF CleanupOrphan
  <2>2. /\ claim[v] \in ClaimT /\ claim[v].at \in PVs /\ pv[v][claim[v].at] \in VolumeT
        /\ pv[v]["S"] \in VolumeT /\ dclaim[v] \in DestinationT
    BY ZenonT(60), <1>0 DEF TypeOK, ClaimT, PVs
  <2>3. job' \in Planned /\ job'.at = "record"
    BY Zenon, <1>0, <2>1, <2>2 DEF Planned, PlanAts
  <2>4. record # "live"
    BY Zenon, <1>2 DEF PlanOrphanCleanup, checkOrphanSessionRecord
  <2>5. PlanOK'
    BY Zenon, <2>3 DEF PlanOK, ClaimAts
  <2> QED BY Zenon, <1>0, <2>1, <2>3, <2>4, <2>5, PlansStep
<1> QED BY Zenon, <1>1, <1>2

\* CleanupOrphan, the session never switched the claim.
LEMMA PrePlan ==
    ASSUME IInv, job.at = "plan", CleanupOrphan, UNCHANGED <<lost, handled, wrote>>,
           PlanOrphanCleanup(job.v) = "pre"
    PROVE  IInv'
<1>v. PICK v \in Volumes : v = job.v
  BY Zenon, JobKinds DEF IInv, Early
<1> DEFINE p == resolvePreActivationDestinationPV(v)
           dc == DestinationClaim(v)
           q == IF dc # <<>> THEN dclaim[dc[1]] ELSE dclaim[v]
           at == IF dc = <<>> THEN "pv" ELSE "pods"
           plan == [at |-> "none", v |-> v, claim |-> claim[v], cur |-> claim[v].at,
                    curPV |-> pv[v][claim[v].at], pv |-> p, oldPV |-> pv[v]["S"],
                    dc |-> dc, dclaim |-> q]
<1>0. /\ TypeOK
      /\ UNCHANGED <<claim, dclaim, pv, pods, record, lost, handled, wrote>>
  BY Zenon DEF IInv, CleanupOrphan, storage
<1>1. /\ record # "live" /\ claim[v].is /\ pv[v][claim[v].at].is
      /\ PolicyKnown(pv[v][claim[v].at])
      /\ pv[v][claim[v].at].role = "source" /\ planPreActivationOrphan(v)
  BY Zenon, <1>v DEF PlanOrphanCleanup, checkOrphanSessionRecord
<1>2. /\ p \in {NoPV} \cup (Volumes \X PVs)
      /\ dc \in {<<>>} \cup (Volumes \X {"none", "claim", "dclaim"})
      /\ p # NoPV /\ p[1] \notin handled => p[1] = v /\ p[2] # claim[v].at
      /\ dc = <<>> => p = NoPV /\ ~dclaim[v].is
      /\ v \notin handled =>
           /\ claim[v].at = "S" /\ lost.stage[v] # "switching"
           /\ p # <<v, "D">> =>
                /\ pv[v]["D"].is => dclaim[v].is /\ ~dclaim[v].term
                /\ dclaim[v].is => dc = <<v, "dclaim">> /\ ~dclaim[v].bound
           /\ p = <<v, "D">> => /\ dc = <<v, "dclaim">> /\ (dclaim[v].is => dclaim[v].bound)
                               /\ pv[v]["D"].role = "destination"
  <2> HIDE DEF p, dc
  <2>1. p = resolvePreActivationDestinationPV(v) /\ dc = DestinationClaim(v)
    BY Zenon DEF p, dc
  <2> QED BY <1>0, <1>1, <2>1, PreFacts
<1>3. job' = [plan EXCEPT !.at = at] /\ lease' = lease
  BY Zenon, <1>v DEF CleanupOrphan
<1>4. /\ claim[v] \in ClaimT /\ claim[v].at \in PVs /\ pv[v][claim[v].at] \in VolumeT
      /\ pv[v]["S"] \in VolumeT /\ q \in DestinationT /\ at \in PlanAts
      /\ pv[v][claim[v].at].orig # "none"
  <2> HIDE DEF dc
  <2> QED BY <1>0, <1>1, <1>2 DEF TypeOK, ClaimT, PVs, PolicyKnown, PlanAts, ClaimAts
<1>5. dc = <<v, "dclaim">> => q = dclaim[v]
  <2> HIDE DEF dc
  <2> QED OBVIOUS
<1> HIDE DEF p, dc, q
<1>6. /\ job' \in Planned /\ job'.at = at /\ job'.v = v /\ job'.cur = claim[v].at
      /\ job'.curPV = pv[v][claim[v].at] /\ job'.pv = p /\ job'.dc = dc /\ job'.dclaim = q
  <2> HIDE DEF at
  <2> QED BY Zenon, <1>0, <1>2, <1>3, <1>4 DEF Planned
<1>7. v \notin handled => JobOK(v)'
  BY Zenon, <1>0, <1>2, <1>5, <1>6 DEF JobOK, NoPV
<1>8. PlanOK'
  BY Zenon, <1>0, <1>2, <1>4, <1>6, <1>7 DEF PlanOK, ClaimAts
<1> QED BY Zenon, <1>0, <1>1, <1>3, <1>6, <1>8, PlansStep

\* CleanupOrphan, the session switched the claim: the rollback volume goes.
LEMMA PostPlan ==
    ASSUME IInv, job.at = "plan", CleanupOrphan, UNCHANGED <<lost, handled, wrote>>,
           PlanOrphanCleanup(job.v) = "post"
    PROVE  IInv'
<1>v. PICK v \in Volumes : v = job.v
  BY Zenon, JobKinds DEF IInv, Early
<1> DEFINE p == IF pv[v]["S"].is THEN <<v, "S">> ELSE NoPV
           plan == [at |-> "none", v |-> v, claim |-> claim[v], cur |-> claim[v].at,
                    curPV |-> pv[v][claim[v].at], pv |-> p, oldPV |-> pv[v]["S"],
                    dc |-> <<>>, dclaim |-> dclaim[v]]
<1>0. /\ TypeOK
      /\ UNCHANGED <<claim, dclaim, pv, pods, record, lost, handled, wrote>>
  BY Zenon DEF IInv, CleanupOrphan, storage
<1>1. /\ record # "live" /\ claim[v].is /\ pv[v][claim[v].at].is
      /\ PolicyKnown(pv[v][claim[v].at])
      /\ pv[v][claim[v].at].role = "active" /\ planPostActivationOrphan(v)
  BY Zenon, <1>v DEF PlanOrphanCleanup, checkOrphanSessionRecord
<1>2. v \notin handled => claim[v].at = "D" /\ lost.stage[v] # "switching"
  <2> SUFFICES ASSUME v \notin handled PROVE claim[v].at = "D" /\ lost.stage[v] # "switching"
    BY Zenon
  <2>1. VolumeOK(lost.stage[v], lost.class, claim[v], dclaim[v], pv[v]["S"], pv[v]["D"])
    BY Zenon, <1>0 DEF IInv, VolumeInv
  <2> QED BY Zenon, <1>0, <1>1, <2>1 DEF VolumeOK, SourceOK, TypeOK, ClaimT, PVs
<1>3. job' = [plan EXCEPT !.at = "rollback"] /\ lease' = lease
  BY Zenon, <1>v DEF CleanupOrphan
<1>4. /\ claim[v] \in ClaimT /\ claim[v].at \in PVs /\ pv[v][claim[v].at] \in VolumeT
      /\ pv[v]["S"] \in VolumeT /\ dclaim[v] \in DestinationT
      /\ pv[v][claim[v].at].orig # "none" /\ p \in {NoPV} \cup (Volumes \X PVs)
      /\ p # NoPV => pv[v]["S"].is /\ pv[v]["S"].orig # "none" /\ p = <<v, "S">>
      /\ pv[v]["S"].is => p = <<v, "S">> /\ pv[v]["S"].role = "rollback"
      /\ ~pv[v]["S"].is => pv[v]["S"].role = "none"
  BY <1>0, <1>1 DEF TypeOK, ClaimT, PVs, PolicyKnown, planPostActivationOrphan,
     IInv, GoneUnlabelled
<1> HIDE DEF p
<1>5. /\ job' \in Planned /\ job'.at = "rollback" /\ job'.v = v /\ job'.cur = claim[v].at
      /\ job'.curPV = pv[v][claim[v].at] /\ job'.pv = p /\ job'.oldPV = pv[v]["S"]
  BY Zenon, <1>0, <1>3, <1>4 DEF Planned, PlanAts, ClaimAts
<1>6. v \notin handled => JobOK(v)'
  BY Zenon, <1>0, <1>2, <1>4, <1>5 DEF JobOK
<1>7. PlanOK'
  BY <1>0, <1>2, <1>4, <1>5, <1>6 DEF PlanOK, ClaimAts
<1> QED BY Zenon, <1>0, <1>1, <1>3, <1>5, <1>7, PlansStep

\* CleanupOrphan: whichever plan it makes.
LEMMA PlanStep ==
    ASSUME IInv, CleanupOrphan, UNCHANGED <<lost, handled, wrote>>
    PROVE  IInv'
<1>1. job.at = "plan"
  BY Zenon DEF CleanupOrphan
<1>2. PlanOrphanCleanup(job.v) \in {"blocked", "records", "pre", "post"}
  BY Zenon DEF PlanOrphanCleanup
<1> QED BY Zenon, <1>1, <1>2, RecordsPlan, PrePlan, PostPlan

-----------------------------------------------------------------------------
(* The steps of a plan.                                                    *)

\* deleteReservationConsumers: only Pods go.
LEMMA ConsumersStep ==
    ASSUME IInv, deleteReservationConsumers, UNCHANGED <<lost, handled, wrote>>
    PROVE  IInv'
<1>1. /\ job.at = "pods" /\ job' = [job EXCEPT !.at = "unused"] /\ TypeOK /\ PlanOK
      /\ UNCHANGED <<claim, dclaim, pv, record, lease>>
  BY Zenon DEF deleteReservationConsumers, Goto, IInv
<1>2. "unused" \in PlanAts /\ job.at \in PlanAts
  BY Zenon, <1>1 DEF PlanAts, ClaimAts
<1>3. pods' \in [Volumes -> {"none", "tool", "user"}]
  BY Zenon, <1>1 DEF deleteReservationConsumers, TypeOK
<1>4. PlanOK'
  BY <1>1, <1>2, JobKinds, GotoFields DEF PlanOK, JobOK, ClaimAts
<1> QED BY Zenon, <1>1, <1>2, <1>3, <1>4, GoesOn

\* cleanupPreActivationOrphan: a claim in use ends the pass.
LEMMA UnusedStep ==
    ASSUME IInv, cleanupPreActivationOrphan, UNCHANGED <<lost, handled, wrote>>
    PROVE  IInv'
<1>1. /\ job.at = "unused" /\ TypeOK /\ PlanOK /\ UNCHANGED <<storage, record>>
      /\ UNCHANGED <<claim, dclaim, pv, pods, record>>
  BY Zenon DEF cleanupPreActivationOrphan, IInv, storage
<1>2. CASE Ends
  BY Zenon, <1>1, <1>2, EndsFree
<1>3. CASE job' = [job EXCEPT !.at = "dclaim"] /\ lease' = lease
  <2>1. "dclaim" \in PlanAts /\ job.at \in PlanAts
    BY Zenon, <1>1 DEF PlanAts, ClaimAts
  <2>2. PlanOK'
    BY <1>1, <1>3, <2>1, JobKinds, GotoFields DEF PlanOK, JobOK, ClaimAts
  <2>3. pods' \in [Volumes -> {"none", "tool", "user"}]
    BY Zenon, <1>1 DEF TypeOK
  <2> QED BY Zenon, <1>1, <1>3, <2>1, <2>2, <2>3, GoesOn
<1> QED BY Zenon, <1>2, <1>3 DEF cleanupPreActivationOrphan, Goto

\* deleteStaleSessionRecord: the record goes before the Lease.
LEMMA RecordStep ==
    ASSUME IInv, deleteStaleSessionRecord, UNCHANGED <<lost, handled, wrote>>
    PROVE  IInv'
<1>1. /\ job.at = "record" /\ job' = [job EXCEPT !.at = "lease"] /\ TypeOK /\ PlanOK
      /\ UNCHANGED <<claim, dclaim, pv, pods, lease>>
  BY Zenon DEF deleteStaleSessionRecord, Goto, IInv, storage
<1>2. "lease" \in PlanAts /\ job.at \in PlanAts
  BY Zenon, <1>1 DEF PlanAts, ClaimAts
<1>3. PlanOK' /\ record' # "stale" /\ (record' = record \/ record' = "none")
  BY Zenon, <1>1, <1>2, JobKinds, GotoFields DEF PlanOK, ClaimAts, deleteStaleSessionRecord
<1>4. pods' \in [Volumes -> {"none", "tool", "user"}]
  BY Zenon, <1>1 DEF TypeOK
<1> QED BY Zenon, <1>1, <1>2, <1>3, <1>4, GoesOn

\* DeleteLease: it goes when nothing carries the session any more.
LEMMA LeaseStep ==
    ASSUME IInv, DeleteLease, UNCHANGED <<lost, handled, wrote>>
    PROVE  IInv'
<1>1. /\ job.at = "lease" /\ UNCHANGED <<storage, record>> /\ job' = Idle
      /\ UNCHANGED <<claim, dclaim, pv, pods, record>>
      /\ lease' = IF hasOrphanSessionResources THEN "free" ELSE "absent"
  BY Zenon DEF DeleteLease, storage
<1>2. record # "stale"
  BY Zenon, <1>1 DEF IInv, LeaseOK
<1>3. ASSUME lease' = "absent" PROVE LeaseLast'
  <2>1. ~hasOrphanSessionResources
    BY Zenon, <1>1, <1>3
  <2>2. ASSUME NEW v \in Volumes
        PROVE  /\ claim[v].is => claim[v].owner # "session"
               /\ ~dclaim[v].is /\ pods[v] # "tool" /\ \A x \in PVs : pv[v][x].role = "none"
    <3>1. \A x \in PVs : <<v, x>> \notin Labelled
      BY Zenon, <2>1 DEF hasOrphanSessionResources
    <3>2. \A x \in PVs : pv[v][x].is => pv[v][x].role = "none"
      BY Zenon, <3>1 DEF Labelled
    <3>3. \A x \in PVs : pv[v][x].role = "none"
      BY Zenon, <3>2 DEF IInv, GoneUnlabelled
    <3> QED BY Zenon, <2>1, <3>3 DEF hasOrphanSessionResources
  <2> QED BY Zenon, <1>1, <1>2, <2>2 DEF LeaseLast
<1> QED BY Zenon, <1>1, <1>3, EndsStep

\* A pass that follows a plan goes on after a write to the storage.
LEMMA GoesOnWriting ==
    ASSUME IInv, job.at \in PlanAts, NEW at \in PlanAts \ {"lease"}, job' = [job EXCEPT !.at = at],
           UNCHANGED <<pods, record, lease, lost, handled, wrote>>,
           claim' \in [Volumes -> ClaimT], dclaim' \in [Volumes -> DestinationT],
           pv' \in [Volumes -> [PVs -> VolumeT]], GoneUnlabelled', PlanOK',
           \A v \in Volumes \ handled : VolumeInv(v)'
    PROVE  IInv'
<1>1. job' \in Planned /\ job'.at = at
  BY Zenon, JobKinds, GotoFields DEF IInv
<1>2. TypeOK'
  BY Zenon, <1>1 DEF IInv, TypeOK
<1>3. LeaseOK' /\ LeaseLast'
  BY Zenon, <1>1 DEF IInv, LeaseOK, LeaseLast
<1> QED BY Zenon, <1>2, <1>3 DEF IInv

\* The volumes after a write of one, and of its policy.
WithVolume(a, x, n) == [pv EXCEPT ![a][x] = n]
WithPolicy(a, x, o) == [pv EXCEPT ![a][x].policy = o]

\* A volume is written.
LEMMA VolumeWritten ==
    ASSUME pv \in [Volumes -> [PVs -> VolumeT]], NEW a \in Volumes, NEW x \in PVs,
           NEW n \in VolumeT, pv' = WithVolume(a, x, n)
    PROVE  /\ pv' \in [Volumes -> [PVs -> VolumeT]] /\ pv'[a][x] = n
           /\ \A w \in Volumes, y \in PVs : w # a \/ y # x => pv'[w][y] = pv[w][y]
<1>1. [pv[a] EXCEPT ![x] = n] \in [PVs -> VolumeT]
  BY Zenon
<1> QED BY Zenon, <1>1 DEF WithVolume

\* The policy of a volume is written.
LEMMA PolicyWritten ==
    ASSUME pv \in [Volumes -> [PVs -> VolumeT]], NEW a \in Volumes, NEW x \in PVs,
           NEW o \in Policies, pv' = WithPolicy(a, x, o)
    PROVE  /\ pv' \in [Volumes -> [PVs -> VolumeT]]
           /\ LET n == pv'[a][x]
                  m == pv[a][x]
              IN /\ n.policy = o /\ n.is = m.is /\ n.role = m.role /\ n.orig = m.orig
                 /\ n.phase = m.phase /\ n.ref = m.ref /\ n.paired = m.paired
           /\ \A w \in Volumes, y \in PVs : w # a \/ y # x => pv'[w][y] = pv[w][y]
<1>1. PICK m \in VolumeT : m = pv[a][x]
  BY Zenon
<1>2. PICK n : n = [m EXCEPT !.policy = o]
  BY Zenon
<1>3. /\ n \in VolumeT /\ n.policy = o /\ n.is = m.is /\ n.role = m.role /\ n.orig = m.orig
      /\ n.phase = m.phase /\ n.ref = m.ref /\ n.paired = m.paired
  BY Zenon, <1>1, <1>2 DEF VolumeT
<1>4. pv' = WithVolume(a, x, n)
  BY Zenon, <1>1, <1>2 DEF WithPolicy, WithVolume
<1>5. /\ pv' \in [Volumes -> [PVs -> VolumeT]] /\ pv'[a][x] = n
      /\ \A w \in Volumes, y \in PVs : w # a \/ y # x => pv'[w][y] = pv[w][y]
  BY ZenonT(60), <1>3, <1>4, VolumeWritten
<1> QED BY Zenon, <1>1, <1>3, <1>5

\* deleteOrphanDestinationPVC: the claim goes, or was gone.
LEMMA DestinationClaimStep ==
    ASSUME IInv, deleteOrphanDestinationPVC, UNCHANGED <<lost, handled, wrote>>
    PROVE  IInv'
<1>1. /\ job.at = "dclaim" /\ TypeOK /\ PlanOK /\ UNCHANGED <<claim, pv, pods, record>>
  BY Zenon DEF deleteOrphanDestinationPVC, IInv
<1>2. "pv" \in PlanAts \ {"lease"} /\ job.at \in PlanAts /\ job \in Planned /\ job.dc # <<>>
  BY Zenon, <1>1, JobKinds DEF PlanAts, ClaimAts, PlanOK
<1>3. PICK v \in Volumes : v = job.v
  BY Zenon, <1>2 DEF Planned
<1>4. PICK u \in Volumes : u = job.dc[1] /\ job.dc[2] \in {"none", "claim", "dclaim"}
  BY Zenon, <1>2 DEF Planned
<1>5. v \notin handled => /\ JobOK(v)
                          /\ VolumeOK(lost.stage[v], lost.class, claim[v], dclaim[v], pv[v]["S"], pv[v]["D"])
  BY Zenon, <1>1, <1>3 DEF PlanOK, IInv, VolumeInv, ClaimAts
<1>6. CASE Ends /\ UNCHANGED dclaim
  BY Zenon, <1>1, <1>6, EndsFree DEF storage
<1>7. CASE /\ job' = [job EXCEPT !.at = "pv"] /\ UNCHANGED <<dclaim, lease>>
           /\ ~(IF job.dc[2] = "dclaim" THEN dclaim[u].is ELSE claim[u].is)
  <2>1. v \notin handled => JobOK(v)'
    BY <1>1, <1>2, <1>3, <1>4, <1>5, <1>7, GotoFields DEF JobOK
  <2>2. PlanOK'
    BY <1>1, <1>2, <1>3, <1>7, <2>1, GotoFields DEF PlanOK, ClaimAts
  <2>3. pods' \in [Volumes -> {"none", "tool", "user"}]
    BY Zenon, <1>1 DEF TypeOK
  <2> QED BY Zenon, <1>1, <1>2, <1>7, <2>2, <2>3, GoesOn
<1>8. CASE /\ job' = [job EXCEPT !.at = "pv"] /\ job.dc = <<v, "dclaim">> /\ dclaim[u] = job.dclaim
           /\ dclaim' = [dclaim EXCEPT ![u].term = TRUE] /\ UNCHANGED lease
  <2>1. u = v
    BY <1>4, <1>8
  <2>2. /\ dclaim' \in [Volumes -> DestinationT] /\ dclaim'[v].is = dclaim[v].is
        /\ dclaim'[v].bound = dclaim[v].bound /\ dclaim'[v].term
        /\ \A w \in Volumes : w # v => dclaim'[w] = dclaim[w]
    BY ZenonT(30), <1>1, <1>8, <2>1 DEF TypeOK, DestinationT
  <2>3. v \notin handled => JobOK(v)'
    BY ZenonT(30), <1>1, <1>2, <1>3, <1>5, <1>8, <2>1, <2>2, GotoFields DEF JobOK, VolumeOK
  <2>4. PlanOK'
    BY <1>1, <1>2, <1>3, <1>8, <2>3, GotoFields DEF PlanOK, ClaimAts
  <2>5. ASSUME NEW w \in Volumes \ handled PROVE VolumeInv(w)'
    <3>1. VolumeInv(w)
      BY Zenon DEF IInv
    <3>2. /\ dclaim'[w].is = dclaim[w].is /\ dclaim'[w].bound = dclaim[w].bound
          /\ dclaim[w].term => dclaim'[w].term
      BY Zenon, <2>2
    <3>3. VolumeOK(lost.stage[w], lost.class, claim[w], dclaim[w], pv[w]["S"], pv[w]["D"])'
      <4>1. w = v /\ dclaim[w].is /\ pv[w]["D"].is => pv[w]["D"].role # "none"
        BY Zenon, <1>1, <1>2, <1>3, <1>5, <1>8, <2>1 DEF JobOK, VolumeOK, Planned, PVs
      <4>2. w # v => dclaim'[w].term = dclaim[w].term
        BY Zenon, <2>2
      <4> QED BY Zenon, <1>1, <3>1, <3>2, <4>1, <4>2 DEF VolumeInv, VolumeOK
    <3>4. FreedWholeAt(w)'
      BY Zenon, <1>1, <3>1, <3>2 DEF VolumeInv, FreedWholeAt
    <3> QED BY Zenon, <3>3, <3>4 DEF VolumeInv
  <2>6. GoneUnlabelled' /\ claim' \in [Volumes -> ClaimT] /\ pv' \in [Volumes -> [PVs -> VolumeT]]
    BY Zenon, <1>1 DEF IInv, GoneUnlabelled, TypeOK
  <2> QED BY Zenon, <1>1, <1>2, <1>8, <2>2, <2>4, <2>5, <2>6, GoesOnWriting
<1> QED BY Zenon, <1>1, <1>3, <1>4, <1>6, <1>7, <1>8 DEF deleteOrphanDestinationPVC, Goto

\* A volume a step does not touch.
LEMMA Untouched ==
    ASSUME IInv, NEW w \in Volumes \ handled, lost' = lost, claim'[w] = claim[w],
           dclaim'[w] = dclaim[w], pv'[w]["S"] = pv[w]["S"], pv'[w]["D"] = pv[w]["D"]
    PROVE  VolumeInv(w)'
<1>1. VolumeInv(w) /\ claim[w].at \in {"S", "D"}
  BY Zenon DEF IInv, TypeOK, ClaimT, PVs
<1> QED BY Zenon, <1>1 DEF VolumeInv, FreedWholeAt

\* deleteReclaimedPV: the volume gets its policy back, or was gone.
LEMMA ReclaimedStep ==
    ASSUME IInv, deleteReclaimedPV, UNCHANGED <<lost, handled, wrote>>
    PROVE  IInv'
<1>1. /\ job.at = "pv" /\ TypeOK /\ PlanOK /\ UNCHANGED <<claim, dclaim, pods, record>>
  BY Zenon DEF deleteReclaimedPV, IInv
<1>2. /\ "fpvc" \in PlanAts \ {"lease"} /\ "delete" \in PlanAts \ {"lease"}
      /\ job.at \in PlanAts /\ job \in Planned
  BY Zenon, <1>1, JobKinds DEF PlanAts, ClaimAts
<1>3. PICK v \in Volumes : v = job.v
  BY Zenon, <1>2 DEF Planned
<1>5. v \notin handled => /\ JobOK(v) /\ FreedWholeAt(v)
                          /\ VolumeOK(lost.stage[v], lost.class, claim[v], dclaim[v], pv[v]["S"], pv[v]["D"])
  BY Zenon, <1>1, <1>3 DEF PlanOK, IInv, VolumeInv, ClaimAts
<1>6. CASE Ends /\ UNCHANGED pv
  BY Zenon, <1>1, <1>6, EndsFree DEF storage
<1>7. CASE job' = [job EXCEPT !.at = "fpvc"] /\ UNCHANGED <<pv, lease>> /\ ~At(job.pv).is
  <2>1. job.pv = <<v, "D">> => ~pv[v]["D"].is
    BY <1>7 DEF At, NoPV
  <2>2. v \notin handled => JobOK(v)'
    BY Zenon, <1>1, <1>2, <1>3, <1>5, <1>7, <2>1, GotoFields DEF JobOK
  <2>3. PlanOK'
    BY <1>1, <1>2, <1>3, <1>7, <2>2, GotoFields DEF PlanOK, ClaimAts
  <2>4. pods' \in [Volumes -> {"none", "tool", "user"}]
    BY Zenon, <1>1 DEF TypeOK
  <2> QED BY Zenon, <1>1, <1>2, <1>7, <2>3, <2>4, GoesOn
<1>8. CASE /\ job' = [job EXCEPT !.at = "delete"] /\ UNCHANGED lease
           /\ At(job.pv).is /\ At(job.pv).role = "destination" /\ PolicyKnown(At(job.pv))
           /\ pv' = [pv EXCEPT ![job.pv[1]][job.pv[2]].policy = At(job.pv).orig]
  <2>1. job.pv # NoPV
    BY Zenon, <1>8 DEF At, NoVolume, Volume
  <2>2. PICK a \in Volumes, x \in PVs : job.pv = <<a, x>>
    BY <1>2, <2>1 DEF Planned
  <2>3. PICK o \in Policies : o = pv[a][x].orig /\ pv[a][x].role = "destination"
    BY <1>1, <1>8, <2>1, <2>2 DEF At, PolicyKnown, TypeOK, VolumeT
  <2>4. pv' = WithPolicy(a, x, o)
    <3>1. job.pv[1] = a /\ job.pv[2] = x /\ At(job.pv).orig = o
      BY <2>1, <2>2, <2>3 DEF At
    <3> QED BY Zenon, <1>8, <3>1 DEF WithPolicy
  <2>5. /\ pv' \in [Volumes -> [PVs -> VolumeT]]
        /\ LET n == pv'[a][x]
               m == pv[a][x]
           IN /\ n.policy = o /\ n.is = m.is /\ n.role = m.role /\ n.orig = m.orig
              /\ n.phase = m.phase /\ n.ref = m.ref /\ n.paired = m.paired
        /\ \A w \in Volumes, y \in PVs : w # a \/ y # x => pv'[w][y] = pv[w][y]
    BY ZenonT(30), <1>1, <2>4, PolicyWritten DEF TypeOK
  <2>6. \A w \in Volumes, y \in PVs : pv'[w][y].is = pv[w][y].is /\ pv'[w][y].role = pv[w][y].role
    BY Zenon, <2>5
  <2>7. a \notin handled => a = v /\ job.cur = "S" /\ x = "D" /\ job.cur = claim[v].at
    BY <1>1, <1>2, <1>3, <1>5, <2>1, <2>2 DEF PlanOK, ClaimAts, JobOK, Planned, PVs
  <2>8. v \notin handled => JobOK(v)'
    BY Zenon, <1>1, <1>2, <1>3, <1>5, <1>8, <2>6, GotoFields DEF JobOK, PVs
  <2>9. PlanOK'
    BY <1>1, <1>2, <1>3, <1>8, <2>1, <2>8, GotoFields DEF PlanOK, ClaimAts
  <2>10. ASSUME NEW w \in Volumes \ handled PROVE VolumeInv(w)'
    <3>1. CASE w # a
      BY Zenon, <1>1, <2>5, <3>1, Untouched DEF PVs
    <3>2. CASE w = a
      <4>1. pv'[w]["S"] = pv[w]["S"]
        BY Zenon, <2>5, <2>7, <3>2 DEF PVs
      <4>2. VolumeOK(lost.stage[w], lost.class, claim[w], dclaim[w], pv[w]["S"], pv[w]["D"])'
        <5>1. DestinationOK(pv[w]["D"], lost.stage[w], lost.class)'
          <6>1. DestinationOK(pv[w]["D"], lost.stage[w], lost.class)
            BY Zenon, <1>5, <2>7, <3>2 DEF VolumeOK
          <6>2. /\ pv'[w]["D"].role = "destination" /\ pv'[w]["D"].orig = pv[w]["D"].orig
                /\ pv'[w]["D"].ref = pv[w]["D"].ref /\ pv[w]["D"].role = "destination"
            BY Zenon, <2>3, <2>5, <2>7, <3>2
          <6> QED BY Zenon, <6>1, <6>2 DEF DestinationOK
        <5> QED BY ZenonT(60), <1>1, <1>5, <2>3, <2>5, <2>7, <3>2, <4>1, <5>1 DEF VolumeOK, JobOK
      <4>3. FreedWholeAt(w)'
        BY SMTT(30), <1>1, <1>5, <2>6, <2>7, <3>2 DEF FreedWholeAt, PVs
      <4> QED BY Zenon, <4>2, <4>3 DEF VolumeInv
    <3> QED BY Zenon, <3>1, <3>2
  <2>11. GoneUnlabelled'
    BY <2>6 DEF IInv, GoneUnlabelled
  <2>12. claim' \in [Volumes -> ClaimT] /\ dclaim' \in [Volumes -> DestinationT]
    BY Zenon, <1>1 DEF TypeOK
  <2> QED BY Zenon, <1>1, <1>2, <1>8, <2>5, <2>9, <2>10, <2>11, <2>12, GoesOnWriting
<1> QED BY Zenon, <1>6, <1>7, <1>8 DEF deleteReclaimedPV, Goto

\* deleteOrphanRollbackPV: the rollback volume gets its policy back, or was gone.
LEMMA RollbackStep ==
    ASSUME IInv, deleteOrphanRollbackPV, UNCHANGED <<lost, handled, wrote>>
    PROVE  IInv'
<1>1. /\ job.at = "rollback" /\ TypeOK /\ PlanOK /\ UNCHANGED <<claim, dclaim, pods, record>>
  BY Zenon DEF deleteOrphanRollbackPV, IInv
<1>2. /\ "fpvc" \in PlanAts \ {"lease"} /\ "delete" \in PlanAts \ {"lease"}
      /\ job.at \in PlanAts /\ job \in Planned
  BY Zenon, <1>1, JobKinds DEF PlanAts, ClaimAts
<1>3. PICK v \in Volumes : v = job.v
  BY Zenon, <1>2 DEF Planned
<1>5. v \notin handled => /\ JobOK(v) /\ FreedWholeAt(v) /\ claim[v].at = "D" /\ job.cur = "D"
                          /\ VolumeOK(lost.stage[v], lost.class, claim[v], dclaim[v], pv[v]["S"], pv[v]["D"])
  BY Zenon, <1>1, <1>2, <1>3 DEF PlanOK, IInv, VolumeInv, ClaimAts, JobOK, Planned, PVs
<1>6. CASE Ends /\ UNCHANGED pv
  BY Zenon, <1>1, <1>6, EndsFree DEF storage
<1>7. CASE job' = [job EXCEPT !.at = "fpvc"] /\ UNCHANGED <<pv, lease>> /\ ~At(job.pv).is
  <2>1. job.pv = <<v, "S">> => ~pv[v]["S"].is
    BY <1>7 DEF At, NoPV
  <2>2. v \notin handled => JobOK(v)'
    BY Zenon, <1>1, <1>2, <1>3, <1>5, <1>7, <2>1, GotoFields DEF JobOK
  <2>3. PlanOK'
    BY <1>1, <1>2, <1>3, <1>7, <2>2, GotoFields DEF PlanOK, ClaimAts
  <2>4. pods' \in [Volumes -> {"none", "tool", "user"}]
    BY Zenon, <1>1 DEF TypeOK
  <2> QED BY Zenon, <1>1, <1>2, <1>7, <2>3, <2>4, GoesOn
<1>8. CASE /\ job' = [job EXCEPT !.at = "delete"] /\ UNCHANGED lease
           /\ At(job.pv).is /\ pv[v]["S"] = job.oldPV
           /\ pv' = [pv EXCEPT ![v]["S"].policy = pv[v]["S"].orig]
  <2>1. job.pv # NoPV
    BY Zenon, <1>8 DEF At, NoVolume, Volume
  <2>2. PICK o \in Policies : o = pv[v]["S"].orig
    BY <1>1, <1>8, <2>1 DEF PlanOK, TypeOK, VolumeT, PVs
  <2>4. pv' = WithPolicy(v, "S", o) /\ "S" \in PVs
    BY Zenon, <1>8, <2>2 DEF PVs, WithPolicy
  <2>5. /\ pv' \in [Volumes -> [PVs -> VolumeT]]
        /\ LET n == pv'[v]["S"]
               m == pv[v]["S"]
           IN /\ n.policy = o /\ n.is = m.is /\ n.role = m.role /\ n.orig = m.orig
              /\ n.phase = m.phase /\ n.ref = m.ref /\ n.paired = m.paired
        /\ \A w \in Volumes, y \in PVs : w # v \/ y # "S" => pv'[w][y] = pv[w][y]
    BY ZenonT(30), <1>1, <2>4, PolicyWritten DEF TypeOK
  <2>6. \A w \in Volumes, y \in PVs : pv'[w][y].is = pv[w][y].is /\ pv'[w][y].role = pv[w][y].role
    BY Zenon, <2>5
  <2>8. v \notin handled => JobOK(v)'
    BY Zenon, <1>1, <1>2, <1>3, <1>5, <1>8, <2>6, GotoFields DEF JobOK, PVs
  <2>9. PlanOK'
    BY <1>1, <1>2, <1>3, <1>8, <2>1, <2>8, GotoFields DEF PlanOK, ClaimAts
  <2>10. ASSUME NEW w \in Volumes \ handled PROVE VolumeInv(w)'
    <3>1. CASE w # v
      BY Zenon, <1>1, <2>5, <3>1, Untouched DEF PVs
    <3>2. CASE w = v
      <4>1. pv'[w]["D"] = pv[w]["D"]
        BY Zenon, <2>5 DEF PVs
      <4>2. VolumeOK(lost.stage[w], lost.class, claim[w], dclaim[w], pv[w]["S"], pv[w]["D"])'
        <5>1. SourceOK(pv[w]["S"], lost.stage[w])'
          BY Zenon, <1>1, <1>5, <2>2, <2>5, <3>2 DEF VolumeOK, JobOK, SourceOK, Policies
        <5> QED BY Zenon, <1>1, <1>5, <2>5, <3>2, <4>1, <5>1 DEF VolumeOK, JobOK
      <4>3. FreedWholeAt(w)'
        BY ZenonT(30), <1>1, <1>5, <2>6, <3>2 DEF FreedWholeAt, PVs
      <4> QED BY Zenon, <4>2, <4>3 DEF VolumeInv
    <3> QED BY Zenon, <3>1, <3>2
  <2>11. GoneUnlabelled'
    BY ZenonT(30), <2>6 DEF IInv, GoneUnlabelled
  <2>12. claim' \in [Volumes -> ClaimT] /\ dclaim' \in [Volumes -> DestinationT]
    BY Zenon, <1>1 DEF TypeOK
  <2> QED BY Zenon, <1>1, <1>2, <1>8, <2>5, <2>9, <2>10, <2>11, <2>12, GoesOnWriting
<1> QED BY Zenon, <1>3, <1>6, <1>7, <1>8 DEF deleteOrphanRollbackPV, Goto

\* DeletePV: the volume whose policy was restored goes.
LEMMA DeleteStep ==
    ASSUME IInv, DeletePV, UNCHANGED <<lost, handled, wrote>>
    PROVE  IInv'
<1>1. /\ job.at = "delete" /\ TypeOK /\ PlanOK /\ UNCHANGED <<claim, dclaim, pods, record>>
  BY Zenon DEF DeletePV, IInv
<1>2. "fpvc" \in PlanAts \ {"lease"} /\ job.at \in PlanAts /\ job \in Planned
  BY Zenon, <1>1, JobKinds DEF PlanAts, ClaimAts
<1>3. PICK v \in Volumes : v = job.v
  BY Zenon, <1>2 DEF Planned
<1>4. PICK a \in Volumes, x \in PVs : job.pv = <<a, x>> /\ job.pv # NoPV
  BY <1>1, <1>2 DEF Planned, PlanOK
<1>5. v \notin handled => /\ JobOK(v) /\ FreedWholeAt(v)
                          /\ VolumeOK(lost.stage[v], lost.class, claim[v], dclaim[v], pv[v]["S"], pv[v]["D"])
  BY Zenon, <1>1, <1>3 DEF PlanOK, IInv, VolumeInv, ClaimAts
<1>6. CASE Ends /\ UNCHANGED pv
  BY Zenon, <1>1, <1>6, EndsFree DEF storage
<1>8. CASE /\ job' = [job EXCEPT !.at = "fpvc"] /\ UNCHANGED lease
           /\ ~At(job.pv).is \/ At(job.pv).phase = "Released"
           /\ pv' = [pv EXCEPT ![job.pv[1]][job.pv[2]] = NoVolume]
  <2>1. ~pv[a][x].is \/ pv[a][x].phase = "Released"
    BY <1>4, <1>8 DEF At
  <2>2. PICK n \in VolumeT : n = NoVolume
    BY Zenon DEF NoVolume, Volume, VolumeT, Policies
  <2>3. ~n.is /\ n.role = "none" /\ n.orig = "none"
    BY Zenon, <2>2 DEF NoVolume, Volume
  <2>4. pv' = WithVolume(a, x, n)
    <3>1. job.pv[1] = a /\ job.pv[2] = x
      BY <1>4
    <3> QED BY Zenon, <1>8, <2>2, <3>1 DEF WithVolume
  <2>5. /\ pv' \in [Volumes -> [PVs -> VolumeT]] /\ pv'[a][x] = n
        /\ \A w \in Volumes, y \in PVs : w # a \/ y # x => pv'[w][y] = pv[w][y]
    BY ZenonT(60), <1>1, <2>4, VolumeWritten DEF TypeOK
  <2>6. /\ \A w \in Volumes, y \in PVs : pv'[w][y].is => pv[w][y].is
        /\ \A w \in Volumes, y \in PVs : pv'[w][y].role = pv[w][y].role \/ pv'[w][y].role = "none"
    BY Zenon, <2>3, <2>5
  <2>7. a \notin handled => a = v /\ job.cur = claim[v].at /\ x # job.cur
    BY <1>1, <1>2, <1>3, <1>4, <1>5 DEF PlanOK, ClaimAts, JobOK
  <2>8. v \notin handled => JobOK(v)'
    BY <1>1, <1>2, <1>3, <1>4, <1>5, <1>8, <2>3, <2>5, <2>6, GotoFields DEF JobOK, PVs
  <2>9. PlanOK'
    BY <1>1, <1>2, <1>3, <1>8, <2>8, GotoFields DEF PlanOK, ClaimAts
  <2>10. ASSUME NEW w \in Volumes \ handled PROVE VolumeInv(w)'
    <3>1. CASE w # a
      BY Zenon, <1>1, <2>5, <3>1, Untouched DEF PVs
    <3>2. CASE w = a /\ x = "S"
      <4>1. /\ pv'[w]["D"] = pv[w]["D"] /\ pv'[w]["S"] = n /\ claim[w].at = "D"
            /\ job.cur = "D" /\ w = v
        BY Zenon, <1>1, <2>5, <2>7, <3>2 DEF PVs, TypeOK, ClaimT
      <4>2. SourceOK(pv[w]["S"], lost.stage[w])'
        BY Zenon, <2>3, <4>1 DEF SourceOK
      <4>3. VolumeOK(lost.stage[w], lost.class, claim[w], dclaim[w], pv[w]["S"], pv[w]["D"])'
        BY Zenon, <1>1, <1>5, <2>3, <4>1, <4>2 DEF VolumeOK, JobOK
      <4>4. FreedWholeAt(w)'
        BY Zenon, <1>1, <1>5, <2>3, <4>1 DEF FreedWholeAt, VolumeOK
      <4> QED BY Zenon, <4>3, <4>4 DEF VolumeInv
    <3>3. CASE w = a /\ x = "D"
      <4>1. /\ pv'[w]["S"] = pv[w]["S"] /\ pv'[w]["D"] = n /\ claim[w].at = "S"
            /\ job.cur = "S" /\ w = v
        BY Zenon, <1>1, <2>5, <2>7, <3>3 DEF PVs, TypeOK, ClaimT
      <4>2. DestinationOK(pv[w]["D"], lost.stage[w], lost.class)'
        BY Zenon, <2>3, <4>1 DEF DestinationOK
      <4>3. VolumeOK(lost.stage[w], lost.class, claim[w], dclaim[w], pv[w]["S"], pv[w]["D"])'
        BY ZenonT(30), <1>1, <1>5, <2>1, <2>3, <3>3, <4>1, <4>2 DEF VolumeOK, JobOK
      <4>4. FreedWholeAt(w)'
        BY Zenon, <1>1, <1>5, <2>3, <4>1 DEF FreedWholeAt, JobOK
      <4> QED BY Zenon, <4>3, <4>4 DEF VolumeInv
    <3> QED BY Zenon, <3>1, <3>2, <3>3 DEF PVs
  <2>11. GoneUnlabelled'
    BY <2>3, <2>5 DEF IInv, GoneUnlabelled
  <2>12. claim' \in [Volumes -> ClaimT] /\ dclaim' \in [Volumes -> DestinationT]
    BY Zenon, <1>1 DEF TypeOK
  <2> QED BY Zenon, <1>1, <1>2, <1>8, <2>5, <2>9, <2>10, <2>11, <2>12, GoesOnWriting
<1> QED BY Zenon, <1>6, <1>8 DEF DeletePV, Goto

\* finalizeOrphanPVC: the claim loses its labels once the other copy is gone.
LEMMA FinalizeClaimStep ==
    ASSUME IInv, finalizeOrphanPVC, UNCHANGED <<lost, handled, wrote>>
    PROVE  IInv'
<1>1. /\ job.at = "fpvc" /\ TypeOK /\ PlanOK /\ UNCHANGED <<dclaim, pv, pods, record>>
  BY Zenon DEF finalizeOrphanPVC, IInv
<1>2. "fpv" \in PlanAts \ {"lease"} /\ job.at \in PlanAts /\ job \in Planned
  BY Zenon, <1>1, JobKinds DEF PlanAts, ClaimAts
<1>3. PICK v \in Volumes : v = job.v
  BY Zenon, <1>2 DEF Planned
<1>5. v \notin handled => /\ JobOK(v)
                          /\ VolumeOK(lost.stage[v], lost.class, claim[v], dclaim[v], pv[v]["S"], pv[v]["D"])
  BY Zenon, <1>1, <1>3 DEF PlanOK, IInv, VolumeInv, ClaimAts
<1>6. CASE Ends /\ UNCHANGED claim
  BY Zenon, <1>1, <1>6, EndsFree DEF storage
<1>8. CASE /\ job' = [job EXCEPT !.at = "fpv"] /\ UNCHANGED lease
           /\ claim' = [claim EXCEPT ![v].owner = "none", ![v].rollback = FALSE]
  <2>1. /\ claim' \in [Volumes -> ClaimT] /\ claim'[v].is = claim[v].is /\ claim'[v].at = claim[v].at
        /\ \A w \in Volumes : w # v => claim'[w] = claim[w]
    BY ZenonT(30), <1>1, <1>8 DEF TypeOK, ClaimT
  <2>2. v \notin handled => JobOK(v)'
    BY Zenon, <1>1, <1>2, <1>3, <1>5, <1>8, <2>1, GotoFields DEF JobOK
  <2>3. PlanOK'
    BY <1>1, <1>2, <1>3, <1>8, <2>2, GotoFields DEF PlanOK, ClaimAts
  <2>4. ASSUME NEW w \in Volumes \ handled PROVE VolumeInv(w)'
    <3>1. CASE w # v
      BY Zenon, <1>1, <2>1, <3>1, Untouched
    <3>2. CASE w = v
      <4>1. VolumeOK(lost.stage[w], lost.class, claim[w], dclaim[w], pv[w]["S"], pv[w]["D"])'
        BY Zenon, <1>1, <1>5, <2>1, <3>2 DEF VolumeOK
      <4>2. FreedWholeAt(w)'
        BY Zenon, <1>1, <1>5, <2>1, <3>2 DEF FreedWholeAt, VolumeOK, JobOK, TypeOK, ClaimT, PVs
      <4> QED BY Zenon, <4>1, <4>2 DEF VolumeInv
    <3> QED BY Zenon, <3>1, <3>2
  <2>5. GoneUnlabelled' /\ dclaim' \in [Volumes -> DestinationT]
        /\ pv' \in [Volumes -> [PVs -> VolumeT]]
    BY Zenon, <1>1 DEF IInv, GoneUnlabelled, TypeOK
  <2> QED BY Zenon, <1>1, <1>2, <1>8, <2>1, <2>3, <2>4, <2>5, GoesOnWriting
<1> QED BY Zenon, <1>3, <1>6, <1>8 DEF finalizeOrphanPVC, Goto

\* finalizeOrphanPV: the volume that stays gets its policy back and loses its labels.
LEMMA FinalizeVolumeStep ==
    ASSUME IInv, finalizeOrphanPV, UNCHANGED <<lost, handled, wrote>>
    PROVE  IInv'
<1>1. /\ job.at = "fpv" /\ TypeOK /\ PlanOK /\ UNCHANGED <<claim, dclaim, pods, record>>
  BY Zenon DEF finalizeOrphanPV, IInv
<1>2. "record" \in PlanAts \ {"lease"} /\ job.at \in PlanAts /\ job \in Planned
  BY Zenon, <1>1, JobKinds DEF PlanAts, ClaimAts
<1>3. PICK v \in Volumes, x \in PVs : v = job.v /\ x = job.cur
  BY Zenon, <1>2 DEF Planned
<1>5. v \notin handled => /\ JobOK(v) /\ claim[v].at = x
                          /\ VolumeOK(lost.stage[v], lost.class, claim[v], dclaim[v], pv[v]["S"], pv[v]["D"])
  BY Zenon, <1>1, <1>3 DEF PlanOK, IInv, VolumeInv, ClaimAts, JobOK
<1>6. CASE Ends /\ UNCHANGED pv
  BY Zenon, <1>1, <1>6, EndsFree DEF storage
<1>8. CASE /\ job' = [job EXCEPT !.at = "record"] /\ UNCHANGED lease
           /\ pv[v][x] = job.curPV
           /\ pv' = [pv EXCEPT ![v][x] =
                       [@ EXCEPT !.policy = job.curPV.orig, !.role = "none", !.orig = "none", !.paired = FALSE]]
  <2>1. PICK m \in VolumeT : m = pv[v][x] /\ m.orig \in Policies
    BY <1>1, <1>2, <1>8 DEF TypeOK, PlanOK, ClaimAts, VolumeT
  <2>2. PICK n : n = [m EXCEPT !.policy = m.orig, !.role = "none", !.orig = "none", !.paired = FALSE]
    BY Zenon
  <2>3. /\ n \in VolumeT /\ n.is = m.is /\ n.policy = m.orig /\ n.role = "none" /\ n.orig = "none"
        /\ n.phase = m.phase
    BY Zenon, <2>1, <2>2 DEF VolumeT
  <2>4. pv' = WithVolume(v, x, n)
    BY Zenon, <1>8, <2>1, <2>2 DEF WithVolume
  <2>5. /\ pv' \in [Volumes -> [PVs -> VolumeT]] /\ pv'[v][x] = n
        /\ \A w \in Volumes, y \in PVs : w # v \/ y # x => pv'[w][y] = pv[w][y]
    BY ZenonT(60), <1>1, <2>3, <2>4, VolumeWritten DEF TypeOK
  <2>6. PlanOK'
    BY Zenon, <1>2, <1>8, GotoFields DEF PlanOK, ClaimAts
  <2>7. ASSUME NEW w \in Volumes \ handled PROVE VolumeInv(w)'
    <3>1. CASE w # v
      BY Zenon, <1>1, <2>5, <3>1, Untouched DEF PVs
    <3>2. CASE w = v /\ x = "S"
      <4>1. /\ pv'[w]["D"] = pv[w]["D"] /\ pv'[w]["S"] = n /\ m = pv[w]["S"] /\ claim[w].at = "S"
            /\ job.cur = "S" /\ ~pv[w]["D"].is /\ (dclaim[w].is => dclaim[w].term)
        BY Zenon, <1>1, <1>3, <1>5, <2>1, <2>5, <3>2 DEF PVs, JobOK
      <4>2. SourceOK(pv[w]["S"], lost.stage[w])'
        BY Zenon, <1>1, <1>5, <2>1, <2>3, <3>2, <4>1 DEF SourceOK, VolumeOK, Policies
      <4>3. pv[w]["D"].role = "none"
        BY Zenon, <4>1 DEF IInv, GoneUnlabelled, PVs
      <4>4. VolumeOK(lost.stage[w], lost.class, claim[w], dclaim[w], pv[w]["S"], pv[w]["D"])'
        BY Zenon, <1>1, <1>5, <2>3, <3>2, <4>1, <4>2, <4>3 DEF VolumeOK, JobOK
      <4>5. FreedWholeAt(w)'
        BY Zenon, <1>1, <4>1 DEF FreedWholeAt
      <4> QED BY Zenon, <4>4, <4>5 DEF VolumeInv
    <3>3. CASE w = v /\ x = "D"
      <4>1. /\ pv'[w]["S"] = pv[w]["S"] /\ pv'[w]["D"] = n /\ m = pv[w]["D"] /\ claim[w].at = "D"
            /\ job.cur = "D" /\ ~pv[w]["S"].is /\ ~dclaim[w].is
        BY Zenon, <1>1, <1>3, <1>5, <2>1, <2>5, <3>3 DEF PVs, JobOK, VolumeOK
      <4>2. DestinationOK(pv[w]["D"], lost.stage[w], lost.class)'
        BY <1>5, <2>1, <2>3, <3>3, <4>1 DEF DestinationOK, VolumeOK, Policies
      <4>4. VolumeOK(lost.stage[w], lost.class, claim[w], dclaim[w], pv[w]["S"], pv[w]["D"])'
        BY Zenon, <1>1, <1>5, <2>3, <3>3, <4>1, <4>2 DEF VolumeOK, JobOK
      <4>5. FreedWholeAt(w)'
        BY Zenon, <1>1, <4>1 DEF FreedWholeAt
      <4> QED BY Zenon, <4>4, <4>5 DEF VolumeInv
    <3> QED BY Zenon, <3>1, <3>2, <3>3 DEF PVs
  <2>8. GoneUnlabelled'
    BY ZenonT(60), <2>3, <2>5 DEF IInv, GoneUnlabelled
  <2>9. claim' \in [Volumes -> ClaimT] /\ dclaim' \in [Volumes -> DestinationT]
    BY Zenon, <1>1 DEF TypeOK
  <2> QED BY Zenon, <1>1, <1>2, <1>8, <2>5, <2>6, <2>7, <2>8, <2>9, GoesOnWriting
<1> QED BY Zenon, <1>3, <1>6, <1>8 DEF finalizeOrphanPV, Goto

\* Every step of a pass.
LEMMA PassKeeps ==
    ASSUME IInv, PassStep
    PROVE  IInv'
BY Zenon, LockStep, PlanStep, ConsumersStep, UnusedStep, DestinationClaimStep, ReclaimedStep, RollbackStep,
   DeleteStep, FinalizeClaimStep, FinalizeVolumeStep, RecordStep, LeaseStep DEF PassStep, Pass

-----------------------------------------------------------------------------
(* What runs beside a pass.                                                *)

\* A pass stays where it is while a volume changes.
LEMMA PlanKept ==
    ASSUME IInv, UNCHANGED job, handled \subseteq handled',
           job.at \in ClaimAts /\ job.v \notin handled' => JobOK(job.v)'
    PROVE  PlanOK'
<1>1. job.at \in PlanAts => job \in Planned
  BY Zenon, JobKinds DEF IInv
<1> QED BY Zenon, <1>1 DEF IInv, PlanOK, PlanAts

\* What a pass knows of a volume a step does not touch.
LEMMA JobUntouched ==
    ASSUME NEW w \in Volumes, JobOK(w), UNCHANGED <<job, lost>>, claim'[w] = claim[w],
           dclaim'[w] = dclaim[w], pv'[w]["S"] = pv[w]["S"], pv'[w]["D"] = pv[w]["D"]
    PROVE  JobOK(w)'
BY Zenon DEF JobOK

\* Others write while the pass stays where it is.
LEMMA OthersWrite ==
    ASSUME IInv, UNCHANGED <<record, lease, job, lost, wrote>>, handled \subseteq handled',
           claim' \in [Volumes -> ClaimT], dclaim' \in [Volumes -> DestinationT],
           pv' \in [Volumes -> [PVs -> VolumeT]], pods' \in [Volumes -> {"none", "tool", "user"}],
           GoneUnlabelled', LeaseLast', NEW v \in Volumes,
           \A w \in Volumes \ {v} : /\ claim'[w] = claim[w] /\ dclaim'[w] = dclaim[w]
                                    /\ pv'[w]["S"] = pv[w]["S"] /\ pv'[w]["D"] = pv[w]["D"],
           v \notin handled' => VolumeInv(v)',
           job.at \in ClaimAts /\ job.v = v /\ v \notin handled' => JobOK(v)'
    PROVE  IInv'
<1>1. TypeOK' /\ LeaseOK'
  BY Zenon DEF IInv, TypeOK, LeaseOK
<1>2. \A w \in Volumes \ handled' : VolumeInv(w)'
  BY Zenon, Untouched
<1>3. ASSUME job.at \in ClaimAts, job.v \notin handled' PROVE JobOK(job.v)'
  <2>1. PICK w \in Volumes : w = job.v
    BY Zenon, <1>3, JobKinds DEF IInv, PlanAts, Planned
  <2>2. JobOK(w)
    BY Zenon, <1>3, <2>1 DEF IInv, PlanOK
  <2>3. JobOK(w)'
    BY Zenon, <1>3, <2>1, <2>2, JobUntouched
  <2>4. job'.v = w
    BY Zenon, <2>1
  <2> QED BY Zenon, <2>3, <2>4
<1>4. PlanOK'
  BY Zenon, <1>3, PlanKept
<1> QED BY Zenon, <1>1, <1>2, <1>4 DEF IInv

\* A terminating destination claim goes.
LEMMA ClaimRemovedStep ==
    ASSUME IInv, NEW v \in Volumes, ClaimRemoved(v),
           UNCHANGED <<record, lease, job, lost, handled, wrote>>
    PROVE  IInv'
<1>1. /\ TypeOK /\ UNCHANGED <<claim, pods>> /\ dclaim[v].is /\ dclaim[v].term
      /\ dclaim' = [dclaim EXCEPT ![v] = [is |-> FALSE, bound |-> FALSE, term |-> FALSE]]
      /\ pv' = [pv EXCEPT ![v]["D"].phase = "Released"]
  BY Zenon DEF ClaimRemoved, IInv
<1>2. PICK m \in VolumeT : m = pv[v]["D"]
  BY Zenon, <1>1 DEF TypeOK, PVs
<1>3. PICK n : n = [m EXCEPT !.phase = "Released"]
  BY Zenon
<1>4. /\ n \in VolumeT /\ n.is = m.is /\ n.role = m.role /\ n.policy = m.policy /\ n.orig = m.orig
      /\ n.ref = m.ref
  BY Zenon, <1>2, <1>3 DEF VolumeT
<1>5. pv' = WithVolume(v, "D", n) /\ "D" \in PVs
  BY Zenon, <1>1, <1>2, <1>3 DEF WithVolume, PVs
<1>6. /\ pv' \in [Volumes -> [PVs -> VolumeT]] /\ pv'[v]["D"] = n
      /\ \A w \in Volumes, y \in PVs : w # v \/ y # "D" => pv'[w][y] = pv[w][y]
  <2>1. pv \in [Volumes -> [PVs -> VolumeT]] /\ n \in VolumeT
    BY Zenon, <1>1, <1>4 DEF TypeOK
  <2>2. PICK x \in PVs : x = "D" /\ pv' = WithVolume(v, x, n)
    BY Zenon, <1>5
  <2>3. /\ pv' \in [Volumes -> [PVs -> VolumeT]] /\ pv'[v][x] = n
        /\ \A w \in Volumes, y \in PVs : w # v \/ y # x => pv'[w][y] = pv[w][y]
    BY Zenon, <2>1, <2>2, VolumeWritten
  <2> QED BY Zenon, <2>2, <2>3
<1>7. /\ pv'[v]["S"] = pv[v]["S"] /\ ~dclaim'[v].is
      /\ dclaim' \in [Volumes -> DestinationT]
      /\ \A w \in Volumes \ {v} : dclaim'[w] = dclaim[w]
  BY Zenon, <1>1, <1>6 DEF TypeOK, DestinationT, PVs
<1>8. \A w \in Volumes \ {v} : /\ claim'[w] = claim[w] /\ dclaim'[w] = dclaim[w]
                               /\ pv'[w]["S"] = pv[w]["S"] /\ pv'[w]["D"] = pv[w]["D"]
  BY Zenon, <1>1, <1>6, <1>7 DEF PVs
<1>9. GoneUnlabelled' /\ lease # "absent"
  <2>1. GoneUnlabelled'
    BY <1>2, <1>4, <1>6 DEF IInv, GoneUnlabelled
  <2>2. lease # "absent"
    BY Zenon, <1>1 DEF IInv, LeaseLast
  <2> QED BY Zenon, <2>1, <2>2
<1>10. ASSUME v \notin handled PROVE VolumeInv(v)'
  <2>1. VolumeInv(v)
    BY Zenon, <1>10 DEF IInv
  <2>2. DestinationOK(pv[v]["D"], lost.stage[v], lost.class)'
    BY ZenonT(30), <1>2, <1>4, <1>6, <2>1 DEF VolumeInv, VolumeOK, DestinationOK
  <2>3. VolumeOK(lost.stage[v], lost.class, claim[v], dclaim[v], pv[v]["S"], pv[v]["D"])'
    BY Zenon, <1>1, <1>2, <1>4, <1>6, <1>7, <2>1, <2>2 DEF VolumeInv, VolumeOK
  <2>4. FreedWholeAt(v)'
    BY <1>1, <1>2, <1>4, <1>6, <1>7, <2>1 DEF VolumeInv, VolumeOK, FreedWholeAt
  <2> QED BY Zenon, <2>3, <2>4 DEF VolumeInv
<1>11. ASSUME job.at \in ClaimAts, job.v = v, v \notin handled PROVE JobOK(v)'
  <2>1. JobOK(v)
    BY Zenon, <1>11 DEF IInv, PlanOK
  <2> QED BY Zenon, <1>1, <1>2, <1>4, <1>6, <1>7, <2>1 DEF JobOK
<1>12. claim' \in [Volumes -> ClaimT] /\ pods' \in [Volumes -> {"none", "tool", "user"}] /\ LeaseLast'
  BY Zenon, <1>1, <1>9 DEF TypeOK, LeaseLast
<1> QED BY Zenon, <1>6, <1>7, <1>8, <1>9, <1>10, <1>11, <1>12, OthersWrite

\* A volume is provisioned.
LEMMA ProvisionStep ==
    ASSUME IInv, NEW v \in Volumes, Provision(v),
           UNCHANGED <<record, lease, job, lost, handled, wrote>>
    PROVE  IInv'
<1>1. /\ TypeOK /\ UNCHANGED <<claim, pods>> /\ dclaim[v].is /\ ~dclaim[v].bound /\ ~dclaim[v].term
      /\ dclaim' = [dclaim EXCEPT ![v].bound = TRUE]
      /\ pv' = [pv EXCEPT ![v]["D"] = Volume(TRUE, "none", lost.class, "none", FALSE, "Bound", "dclaim")]
  BY Zenon DEF Provision, IInv
<1>2. PICK n : n = Volume(TRUE, "none", lost.class, "none", FALSE, "Bound", "dclaim")
  BY Zenon
<1>4. /\ n \in VolumeT /\ n.is /\ n.role = "none" /\ n.policy = lost.class /\ n.orig = "none"
      /\ n.phase = "Bound"
  BY Zenon, <1>1, <1>2 DEF VolumeT, Volume, TypeOK
<1>5. pv' = WithVolume(v, "D", n) /\ "D" \in PVs
  BY Zenon, <1>1, <1>2 DEF WithVolume, PVs
<1>6. /\ pv' \in [Volumes -> [PVs -> VolumeT]] /\ pv'[v]["D"] = n
      /\ \A w \in Volumes, y \in PVs : w # v \/ y # "D" => pv'[w][y] = pv[w][y]
  <2>1. pv \in [Volumes -> [PVs -> VolumeT]] /\ n \in VolumeT
    BY Zenon, <1>1, <1>4 DEF TypeOK
  <2>2. PICK x \in PVs : x = "D" /\ pv' = WithVolume(v, x, n)
    BY Zenon, <1>5
  <2>3. /\ pv' \in [Volumes -> [PVs -> VolumeT]] /\ pv'[v][x] = n
        /\ \A w \in Volumes, y \in PVs : w # v \/ y # x => pv'[w][y] = pv[w][y]
    BY Zenon, <2>1, <2>2, VolumeWritten
  <2> QED BY Zenon, <2>2, <2>3
<1>7. /\ pv'[v]["S"] = pv[v]["S"] /\ dclaim'[v].is /\ dclaim'[v].bound /\ ~dclaim'[v].term
      /\ dclaim' \in [Volumes -> DestinationT]
      /\ \A w \in Volumes \ {v} : dclaim'[w] = dclaim[w]
  BY ZenonT(60), <1>1, <1>6 DEF TypeOK, DestinationT, PVs
<1>8. \A w \in Volumes \ {v} : /\ claim'[w] = claim[w] /\ dclaim'[w] = dclaim[w]
                               /\ pv'[w]["S"] = pv[w]["S"] /\ pv'[w]["D"] = pv[w]["D"]
  BY Zenon, <1>1, <1>6, <1>7 DEF PVs
<1>9. GoneUnlabelled' /\ lease # "absent"
  <2>1. GoneUnlabelled'
    BY <1>4, <1>6 DEF IInv, GoneUnlabelled
  <2>2. lease # "absent"
    BY Zenon, <1>1 DEF IInv, LeaseLast
  <2> QED BY Zenon, <2>1, <2>2
<1>10. ASSUME v \notin handled PROVE VolumeInv(v)'
  <2>1. VolumeInv(v) /\ claim[v].at = "S"
    BY Zenon, <1>1, <1>10 DEF IInv, VolumeInv, VolumeOK
  <2>2. DestinationOK(pv[v]["D"], lost.stage[v], lost.class)'
    BY Zenon, <1>4, <1>6, <2>1 DEF DestinationOK
  <2>3. VolumeOK(lost.stage[v], lost.class, claim[v], dclaim[v], pv[v]["S"], pv[v]["D"])'
    BY Zenon, <1>1, <1>4, <1>6, <1>7, <2>1, <2>2 DEF VolumeInv, VolumeOK
  <2>4. FreedWholeAt(v)'
    BY <1>1, <1>4, <1>6, <1>7, <2>1 DEF VolumeInv, FreedWholeAt
  <2> QED BY Zenon, <2>3, <2>4 DEF VolumeInv
<1>11. ASSUME job.at \in ClaimAts, job.v = v, v \notin handled PROVE JobOK(v)'
  <2>1. JobOK(v) /\ VolumeInv(v) /\ job.cur \in PVs
    BY Zenon, <1>11, JobKinds DEF IInv, PlanOK, PlanAts, Planned
  <2>2. claim[v].at = "S"
    BY Zenon, <1>1, <2>1 DEF VolumeInv, VolumeOK
  <2> QED BY Zenon, <1>1, <1>4, <1>6, <1>7, <1>11, <2>1, <2>2 DEF JobOK, ClaimAts
<1>12. claim' \in [Volumes -> ClaimT] /\ pods' \in [Volumes -> {"none", "tool", "user"}] /\ LeaseLast'
  BY Zenon, <1>1, <1>9 DEF TypeOK, LeaseLast
<1> QED BY Zenon, <1>6, <1>7, <1>8, <1>9, <1>10, <1>11, <1>12, OthersWrite

\* A released volume is reclaimed.
LEMMA ReclaimStep ==
    ASSUME IInv, NEW v \in Volumes, NEW x \in PVs, Reclaim(v, x),
           UNCHANGED <<record, lease, job, lost, handled, wrote>>
    PROVE  IInv'
<1>1. /\ TypeOK /\ UNCHANGED <<claim, dclaim, pods>> /\ pv[v][x].is
      /\ pv[v][x].phase = "Released" /\ pv[v][x].policy = "Delete"
      /\ pv' = [pv EXCEPT ![v][x] = NoVolume]
  BY Zenon DEF Reclaim, IInv
<1>2. PICK n : n = NoVolume
  BY Zenon
<1>4. n \in VolumeT /\ ~n.is /\ n.role = "none" /\ n.orig = "none"
  BY Zenon, <1>2 DEF VolumeT, Volume, NoVolume, Policies
<1>5. pv' = WithVolume(v, x, n)
  BY Zenon, <1>1, <1>2 DEF WithVolume
<1>6. /\ pv' \in [Volumes -> [PVs -> VolumeT]] /\ pv'[v][x] = n
      /\ \A w \in Volumes, y \in PVs : w # v \/ y # x => pv'[w][y] = pv[w][y]
  <2>1. n \in VolumeT /\ pv \in [Volumes -> [PVs -> VolumeT]]
    BY Zenon, <1>1, <1>4 DEF TypeOK
  <2> QED BY ZenonT(60), <1>5, <2>1, VolumeWritten
<1>8. \A w \in Volumes \ {v} : /\ claim'[w] = claim[w] /\ dclaim'[w] = dclaim[w]
                               /\ pv'[w]["S"] = pv[w]["S"] /\ pv'[w]["D"] = pv[w]["D"]
  BY Zenon, <1>1, <1>6 DEF PVs
<1>9. GoneUnlabelled'
  BY <1>4, <1>6 DEF IInv, GoneUnlabelled
<1>10. ASSUME v \notin handled PROVE VolumeInv(v)'
  <2>1. VolumeInv(v) /\ claim[v].at \in {"S", "D"}
    BY Zenon, <1>1, <1>10 DEF IInv, TypeOK, ClaimT, PVs
  <2>2. CASE x = "S"
    <3>1. pv'[v]["S"] = n /\ pv'[v]["D"] = pv[v]["D"]
      BY Zenon, <1>6, <2>2 DEF PVs
    <3>2. pv[v]["S"].role # "source" /\ claim[v].is /\ claim[v].at = "D"
      BY Zenon, <1>1, <2>1, <2>2 DEF VolumeInv, VolumeOK, SourceOK
    <3>3. SourceOK(pv[v]["S"], lost.stage[v])'
      BY Zenon, <1>4, <3>1 DEF SourceOK
    <3>4. VolumeOK(lost.stage[v], lost.class, claim[v], dclaim[v], pv[v]["S"], pv[v]["D"])'
      BY Zenon, <1>1, <1>4, <2>1, <3>1, <3>2, <3>3 DEF VolumeInv, VolumeOK
    <3>5. FreedWholeAt(v)'
      BY Zenon, <1>1, <1>4, <2>1, <3>1, <3>2 DEF VolumeInv, FreedWholeAt, VolumeOK
    <3> QED BY Zenon, <3>4, <3>5 DEF VolumeInv
  <2>3. CASE x = "D"
    <3>1. pv'[v]["D"] = n /\ pv'[v]["S"] = pv[v]["S"]
      BY Zenon, <1>6, <2>3 DEF PVs
    <3>2. claim[v].is /\ claim[v].at = "S" /\ ~dclaim[v].is
      BY Zenon, <1>1, <2>1, <2>3 DEF VolumeInv, VolumeOK
    <3>3. DestinationOK(pv[v]["D"], lost.stage[v], lost.class)'
      BY Zenon, <1>4, <3>1 DEF DestinationOK
    <3>4. VolumeOK(lost.stage[v], lost.class, claim[v], dclaim[v], pv[v]["S"], pv[v]["D"])'
      BY Zenon, <1>1, <1>4, <2>1, <3>1, <3>2, <3>3 DEF VolumeInv, VolumeOK
    <3>5. FreedWholeAt(v)'
      BY Zenon, <1>1, <1>4, <2>1, <3>1, <3>2 DEF VolumeInv, FreedWholeAt
    <3> QED BY Zenon, <3>4, <3>5 DEF VolumeInv
  <2> QED BY Zenon, <2>2, <2>3 DEF PVs
<1>11. ASSUME job.at \in ClaimAts, job.v = v, v \notin handled PROVE JobOK(v)'
  <2>1. JobOK(v)
    BY Zenon, <1>11 DEF IInv, PlanOK
  <2>2. \A y \in PVs : (pv'[v][y].is => pv[v][y].is) /\ (pv'[v][y] = pv[v][y] \/ pv'[v][y] = n)
    BY Zenon, <1>4, <1>6
  <2>3. "S" \in PVs /\ "D" \in PVs
    BY Zenon DEF PVs
  <2>4. /\ pv'[v]["S"].is => pv[v]["S"].is
        /\ pv'[v]["D"].is => pv[v]["D"].is /\ pv'[v]["D"] = pv[v]["D"]
        /\ pv'[v]["S"].role = "source" => pv[v]["S"].role = "source"
    BY Zenon, <1>4, <2>2, <2>3
  <2> QED BY Zenon, <1>1, <2>1, <2>4 DEF JobOK
<1>12. /\ claim' \in [Volumes -> ClaimT] /\ pods' \in [Volumes -> {"none", "tool", "user"}]
       /\ dclaim' \in [Volumes -> DestinationT]
  BY Zenon, <1>1 DEF TypeOK
<1>13. LeaseLast'
  <2>1. \A w \in Volumes, y \in PVs : pv[w][y].role = "none" => pv'[w][y].role = "none"
    BY Zenon, <1>4, <1>6
  <2> QED BY Zenon, <1>1, <2>1 DEF IInv, LeaseLast
<1> QED BY Zenon, <1>6, <1>8, <1>9, <1>10, <1>11, <1>12, <1>13, OthersWrite

\* Kubernetes' controllers, and a Pod that ends.
LEMMA ControllersStep ==
    ASSUME IInv, Controllers
    PROVE  IInv'
<1>1. PICK v \in Volumes : ClaimRemoved(v) \/ Provision(v) \/ UserPodEnds(v) \/ \E x \in PVs : Reclaim(v, x)
  BY Zenon DEF Controllers
<1>2. UNCHANGED <<record, lease, job, lost, handled, wrote>>
  BY Zenon DEF Controllers
<1>3. CASE UserPodEnds(v)
  <2>1. TypeOK /\ UNCHANGED <<claim, dclaim, pv>> /\ pods' = [pods EXCEPT ![v] = "none"]
    BY Zenon, <1>3 DEF UserPodEnds, IInv
  <2>2. /\ claim' \in [Volumes -> ClaimT] /\ dclaim' \in [Volumes -> DestinationT]
        /\ pv' \in [Volumes -> [PVs -> VolumeT]] /\ pods' \in [Volumes -> {"none", "tool", "user"}]
        /\ \A w \in Volumes : pods'[w] = "tool" => pods[w] = "tool"
    BY Zenon, <2>1 DEF TypeOK
  <2>3. LeaseLast' /\ GoneUnlabelled'
    BY ZenonT(30), <1>2, <2>1, <2>2 DEF IInv, LeaseLast, GoneUnlabelled
  <2>4. v \notin handled => VolumeInv(v)'
    BY Zenon, <1>2, <2>1, Untouched
  <2>5. job.at \in ClaimAts /\ job.v = v /\ v \notin handled => JobOK(v)'
    BY Zenon, <1>2, <2>1, JobUntouched DEF IInv, PlanOK
  <2> QED BY Zenon, <1>2, <2>1, <2>2, <2>3, <2>4, <2>5, OthersWrite
<1> QED BY Zenon, <1>1, <1>2, <1>3, ClaimRemovedStep, ProvisionStep, ReclaimStep

\* An operator writes a volume: it is no longer the cleanup's to answer for.
LEMMA HandWritesVolume ==
    ASSUME IInv, NEW v \in Volumes, NEW x \in PVs, NEW n \in VolumeT, pv' = WithVolume(v, x, n),
           n.role # "none" => n.is /\ n.role = pv[v][x].role,
           claim' \in [Volumes -> ClaimT], \A w \in Volumes \ {v} : claim'[w] = claim[w],
           claim'[v].owner = claim[v].owner, claim'[v].is => claim[v].is,
           UNCHANGED <<dclaim, pods, record, lease, job, lost, wrote>>, handled' = handled \cup {v}
    PROVE  IInv'
<1>0. TypeOK
  BY Zenon DEF IInv
<1>1. /\ pv' \in [Volumes -> [PVs -> VolumeT]] /\ pv'[v][x] = n
      /\ \A w \in Volumes, y \in PVs : w # v \/ y # x => pv'[w][y] = pv[w][y]
  BY Zenon, <1>0, VolumeWritten DEF TypeOK
<1>2. \A w \in Volumes \ {v} : /\ claim'[w] = claim[w] /\ dclaim'[w] = dclaim[w]
                               /\ pv'[w]["S"] = pv[w]["S"] /\ pv'[w]["D"] = pv[w]["D"]
  BY Zenon, <1>1 DEF PVs
<1>3. GoneUnlabelled'
  BY <1>1 DEF IInv, GoneUnlabelled
<1>4. LeaseLast'
  <2>1. \A w \in Volumes, y \in PVs : pv[w][y].role = "none" => pv'[w][y].role = "none"
    BY Zenon, <1>1
  <2>2. \A w \in Volumes : claim'[w].owner = claim[w].owner /\ (claim'[w].is => claim[w].is)
    BY Zenon
  <2> QED BY Zenon, <2>1, <2>2 DEF IInv, LeaseLast
<1>5. dclaim' \in [Volumes -> DestinationT] /\ pods' \in [Volumes -> {"none", "tool", "user"}]
  BY Zenon, <1>0 DEF TypeOK
<1> QED BY Zenon, <1>1, <1>2, <1>3, <1>4, <1>5, OthersWrite

\* Operator: whatever they do, the other volumes are as they were.
LEMMA OperatorStep ==
    ASSUME IInv, Operator
    PROVE  IInv'
<1>1. PICK v \in Volumes : Hand(v) /\ handled' = handled \cup {v}
  BY Zenon DEF Operator
<1>2. TypeOK /\ UNCHANGED <<record, lease, job, lost, wrote>>
  BY Zenon DEF Operator, IInv
<1>3. CASE /\ dclaim[v].is /\ UNCHANGED <<claim, pv>>
           /\ \/ dclaim' = dclaim /\ pods' = [pods EXCEPT ![v] = "user"]
              \/ dclaim' = [dclaim EXCEPT ![v].term = TRUE] /\ pods' = pods
  <2>1. /\ dclaim' \in [Volumes -> DestinationT] /\ pods' \in [Volumes -> {"none", "tool", "user"}]
        /\ claim' \in [Volumes -> ClaimT] /\ pv' \in [Volumes -> [PVs -> VolumeT]]
        /\ \A w \in Volumes \ {v} : dclaim'[w] = dclaim[w]
    <3>1. CASE dclaim' = dclaim /\ pods' = [pods EXCEPT ![v] = "user"]
      BY Zenon, <1>2, <1>3, <3>1 DEF TypeOK
    <3>2. CASE dclaim' = [dclaim EXCEPT ![v].term = TRUE] /\ pods' = pods
      <4>1. /\ dclaim' \in [Volumes -> DestinationT]
            /\ \A w \in Volumes \ {v} : dclaim'[w] = dclaim[w]
        BY ZenonT(30), <1>2, <3>2 DEF TypeOK, DestinationT
      <4> QED BY Zenon, <1>2, <1>3, <3>2, <4>1 DEF TypeOK
    <3> QED BY Zenon, <1>3, <3>1, <3>2
  <2>2. GoneUnlabelled'
    BY Zenon, <1>3 DEF IInv, GoneUnlabelled
  <2>3. lease # "absent"
    BY Zenon, <1>3 DEF IInv, LeaseLast
  <2>4. LeaseLast'
    BY Zenon, <1>2, <2>3 DEF LeaseLast
  <2>5. \A w \in Volumes \ {v} : /\ claim'[w] = claim[w] /\ dclaim'[w] = dclaim[w]
                                 /\ pv'[w]["S"] = pv[w]["S"] /\ pv'[w]["D"] = pv[w]["D"]
    BY Zenon, <1>3, <2>1
  <2> QED BY Zenon, <1>1, <1>2, <2>1, <2>2, <2>4, <2>5, OthersWrite
<1>4. CASE /\ claim[v].is /\ claim' = [claim EXCEPT ![v].is = FALSE]
           /\ pv' = [pv EXCEPT ![v][claim[v].at].phase = "Released"] /\ UNCHANGED <<dclaim, pods>>
  <2>1. PICK x \in PVs : x = claim[v].at
    BY Zenon, <1>2 DEF TypeOK, ClaimT
  <2>2. PICK m \in VolumeT : m = pv[v][x]
    BY Zenon, <1>2 DEF TypeOK
  <2>3. PICK n : n = [m EXCEPT !.phase = "Released"]
    BY Zenon
  <2>4. n \in VolumeT /\ n.is = m.is /\ n.role = m.role /\ pv' = WithVolume(v, x, n)
    BY Zenon, <1>4, <2>1, <2>2, <2>3 DEF VolumeT, WithVolume
  <2>5. m.role # "none" => m.is
    BY Zenon, <2>2 DEF IInv, GoneUnlabelled
  <2>6. /\ claim' \in [Volumes -> ClaimT] /\ claim'[v].owner = claim[v].owner /\ ~claim'[v].is
        /\ \A w \in Volumes \ {v} : claim'[w] = claim[w]
    BY ZenonT(30), <1>2, <1>4 DEF TypeOK, ClaimT
  <2>7. UNCHANGED <<dclaim, pods, record, lease, job, lost, wrote>>
    BY Zenon, <1>2, <1>4
  <2> QED BY Zenon, <1>1, <2>2, <2>4, <2>5, <2>6, <2>7, HandWritesVolume
<1>5. ASSUME NEW x \in PVs, UNCHANGED <<claim, dclaim, pods>>, pv' = [pv EXCEPT ![v][x] = NoVolume]
      PROVE  IInv'
  <2>1. PICK n \in VolumeT : n = NoVolume /\ n.role = "none"
    <3>1. NoVolume \in VolumeT /\ NoVolume.role = "none"
      BY Zenon DEF VolumeT, Volume, NoVolume, Policies
    <3> QED BY Zenon, <3>1
  <2>2. pv' = WithVolume(v, x, n)
    BY Zenon, <1>5, <2>1 DEF WithVolume
  <2>3. claim' \in [Volumes -> ClaimT]
    BY Zenon, <1>2, <1>5 DEF TypeOK
  <2>4. UNCHANGED <<dclaim, pods, record, lease, job, lost, wrote>> /\ claim' = claim
    BY Zenon, <1>2, <1>5
  <2> QED BY Zenon, <1>1, <2>1, <2>2, <2>3, <2>4, HandWritesVolume
<1>6. ASSUME NEW x \in PVs, NEW p \in Policies, UNCHANGED <<claim, dclaim, pods>>,
             pv' = [pv EXCEPT ![v][x].policy = p]
      PROVE  IInv'
  <2>1. PICK m \in VolumeT : m = pv[v][x]
    BY Zenon, <1>2 DEF TypeOK
  <2>2. PICK n : n = [m EXCEPT !.policy = p]
    BY Zenon
  <2>3. /\ n \in VolumeT /\ n.is = m.is /\ n.role = m.role /\ pv' = WithVolume(v, x, n)
        /\ claim' \in [Volumes -> ClaimT]
    BY Zenon, <1>2, <1>6, <2>1, <2>2 DEF VolumeT, WithVolume, TypeOK
  <2>4. m.role # "none" => m.is
    BY Zenon, <2>1 DEF IInv, GoneUnlabelled
  <2> QED BY Zenon, <1>1, <1>2, <1>6, <2>1, <2>3, <2>4, HandWritesVolume
<1> QED BY Zenon, <1>1, <1>3, <1>4, <1>5, <1>6 DEF Hand

\* The workflow comes back and takes the Lease, or gives it back.
LEMMA WorkflowLease ==
    ASSUME IInv, Revive \/ WorkflowLocks \/ WorkflowYields
    PROVE  IInv'
<1>1. /\ TypeOK /\ LeaseOK /\ LeaseLast /\ PlanOK
      /\ UNCHANGED <<claim, dclaim, pv, pods, job, lost, handled, wrote>>
  BY Zenon DEF IInv, Revive, WorkflowLocks, WorkflowYields, storage
<1>2. \/ record' = "live" /\ record = "none" /\ lease' = lease
      \/ record' = record /\ record = "live" /\ lease' = "workflow" /\ lease \in {"free", "absent"}
      \/ record' = record /\ lease = "workflow" /\ lease' = "free"
  BY Zenon DEF Revive, WorkflowLocks, WorkflowYields
<1>3. TypeOK'
  BY Zenon, <1>1, <1>2 DEF TypeOK
<1>4. LeaseOK'
  BY Zenon, <1>1, <1>2 DEF LeaseOK
<1>5. LeaseLast'
  BY Zenon, <1>1, <1>2 DEF LeaseLast
<1>6. PlanOK'
  <2>1. JobOK(job.v)' <=> JobOK(job.v)
    BY Zenon, <1>1 DEF JobOK
  <2> QED BY Zenon, <1>1, <2>1 DEF PlanOK
<1> QED BY Zenon, <1>1, <1>3, <1>4, <1>5, <1>6, VolumesKept DEF IInv

\* The workflow writes what a reservation writes.
LEMMA WorkflowWritesStep ==
    ASSUME IInv, WorkflowWrites
    PROVE  IInv'
<1>1. PICK v \in Volumes : Reserves(v)
  BY Zenon DEF WorkflowWrites
<1>2. /\ TypeOK /\ LeaseOK /\ lease = "workflow" /\ wrote' = TRUE
      /\ UNCHANGED <<record, lease, job, lost, handled>>
  BY Zenon DEF WorkflowWrites, IInv
<1>3. claim[v].is /\ claim[v].at = "S" /\ pv[v]["S"].is
  BY Zenon, <1>1 DEF Reserves
<1>4. /\ claim' \in [Volumes -> ClaimT] /\ dclaim' \in [Volumes -> DestinationT]
      /\ pv' \in [Volumes -> [PVs -> VolumeT]] /\ pods' \in [Volumes -> {"none", "tool", "user"}]
      /\ GoneUnlabelled'
      /\ \A w \in Volumes \ {v} : /\ claim'[w] = claim[w] /\ dclaim'[w] = dclaim[w]
                                  /\ pv'[w]["S"] = pv[w]["S"] /\ pv'[w]["D"] = pv[w]["D"]
      /\ v \notin handled => VolumeInv(v)'
  <2>0. v \notin handled => VolumeInv(v)
    BY Zenon DEF IInv
  <2>1. CASE claim' = [claim EXCEPT ![v].owner = "session"] /\ UNCHANGED <<dclaim, pv, pods>>
    <3>1. /\ claim' \in [Volumes -> ClaimT] /\ claim'[v].is /\ claim'[v].at = "S"
          /\ claim'[v].owner = "session" /\ \A w \in Volumes \ {v} : claim'[w] = claim[w]
      BY ZenonT(30), <1>2, <1>3, <2>1 DEF TypeOK, ClaimT
    <3>2. /\ dclaim' \in [Volumes -> DestinationT] /\ pods' \in [Volumes -> {"none", "tool", "user"}]
          /\ pv' \in [Volumes -> [PVs -> VolumeT]]
      BY Zenon, <1>2, <2>1 DEF TypeOK
    <3>3. GoneUnlabelled'
      BY Zenon, <2>1 DEF IInv, GoneUnlabelled
    <3>4. v \notin handled => VolumeInv(v)'
      BY Zenon, <1>2, <1>3, <2>0, <2>1, <3>1 DEF VolumeInv, VolumeOK, FreedWholeAt
    <3> QED BY Zenon, <2>1, <3>1, <3>2, <3>3, <3>4
  <2>2. CASE /\ pv[v]["S"].role = "none" /\ UNCHANGED <<claim, dclaim, pods>>
             /\ pv' = [pv EXCEPT ![v]["S"] = [pv[v]["S"] EXCEPT !.role = "source", !.policy = "Retain",
                                                                !.orig = pv[v]["S"].policy]]
    <3>1. PICK x \in PVs, m \in VolumeT : x = "S" /\ m = pv[v]["S"]
      BY Zenon, <1>2 DEF TypeOK, PVs
    <3>2. PICK n : n = [m EXCEPT !.role = "source", !.policy = "Retain", !.orig = m.policy]
      BY Zenon
    <3>3. /\ n \in VolumeT /\ n.is = m.is /\ n.role = "source" /\ n.policy = "Retain"
          /\ n.orig = m.policy /\ n.phase = m.phase
      BY ZenonT(30), <3>1, <3>2 DEF VolumeT, Policies
    <3>4. pv' = WithVolume(v, x, n)
      BY Zenon, <2>2, <3>1, <3>2 DEF WithVolume
    <3>5. /\ pv' \in [Volumes -> [PVs -> VolumeT]] /\ pv'[v][x] = n
          /\ \A w \in Volumes, y \in PVs : w # v \/ y # x => pv'[w][y] = pv[w][y]
      BY ZenonT(30), <1>2, <3>3, <3>4, VolumeWritten DEF TypeOK
    <3>6. pv'[v]["S"] = n /\ pv'[v]["D"] = pv[v]["D"]
      BY Zenon, <3>1, <3>5 DEF PVs
    <3>7. GoneUnlabelled'
      <4>1. ASSUME NEW w \in Volumes, NEW y \in PVs, ~pv'[w][y].is PROVE pv'[w][y].role = "none"
        <5>1. w # v \/ y # x
          BY Zenon, <1>3, <3>1, <3>3, <3>5, <4>1
        <5> QED BY Zenon, <1>3, <3>5, <4>1, <5>1 DEF IInv, GoneUnlabelled
      <4> QED BY Zenon, <4>1 DEF GoneUnlabelled
    <3>8. ASSUME v \notin handled PROVE VolumeInv(v)'
      <4>1. SourceOK(pv[v]["S"], lost.stage[v])'
        BY ZenonT(30), <1>2, <1>3, <2>0, <2>2, <3>1, <3>3, <3>6, <3>8 DEF SourceOK, VolumeInv, VolumeOK
      <4>2. VolumeOK(lost.stage[v], lost.class, claim[v], dclaim[v], pv[v]["S"], pv[v]["D"])'
        BY ZenonT(30), <1>2, <1>3, <2>0, <2>2, <3>1, <3>3, <3>6, <3>8, <4>1 DEF VolumeInv, VolumeOK
      <4>3. FreedWholeAt(v)'
        BY Zenon, <1>3, <2>2, <3>3, <3>6 DEF FreedWholeAt
      <4> QED BY Zenon, <4>2, <4>3 DEF VolumeInv
    <3>9. \A w \in Volumes \ {v} : pv'[w]["S"] = pv[w]["S"] /\ pv'[w]["D"] = pv[w]["D"]
      BY Zenon, <3>5 DEF PVs
    <3>10. /\ claim' \in [Volumes -> ClaimT] /\ dclaim' \in [Volumes -> DestinationT]
           /\ pods' \in [Volumes -> {"none", "tool", "user"}]
      BY Zenon, <1>2, <2>2 DEF TypeOK
    <3> QED BY Zenon, <2>2, <3>5, <3>7, <3>8, <3>9, <3>10
  <2>3. CASE /\ pv[v]["S"].role = "source" /\ ~dclaim[v].is /\ ~pv[v]["D"].is /\ UNCHANGED <<claim, pv>>
             /\ dclaim' = [dclaim EXCEPT ![v] = [is |-> TRUE, bound |-> FALSE, term |-> FALSE]]
             /\ pods' = [pods EXCEPT ![v] = "tool"]
    <3>1. /\ dclaim' \in [Volumes -> DestinationT] /\ dclaim'[v].is /\ ~dclaim'[v].bound
          /\ \A w \in Volumes \ {v} : dclaim'[w] = dclaim[w]
      BY Zenon, <1>2, <2>3 DEF TypeOK, DestinationT
    <3>2. /\ claim' \in [Volumes -> ClaimT] /\ pods' \in [Volumes -> {"none", "tool", "user"}]
          /\ pv' \in [Volumes -> [PVs -> VolumeT]]
      BY Zenon, <1>2, <2>3 DEF TypeOK
    <3>3. GoneUnlabelled'
      BY Zenon, <2>3 DEF IInv, GoneUnlabelled
    <3>4. v \notin handled => VolumeInv(v)'
      BY Zenon, <1>2, <1>3, <2>0, <2>3, <3>1 DEF VolumeInv, VolumeOK, FreedWholeAt
    <3> QED BY Zenon, <2>3, <3>1, <3>2, <3>3, <3>4
  <2> QED BY Zenon, <1>1, <2>1, <2>2, <2>3 DEF Reserves
<1>5. TypeOK' /\ LeaseOK' /\ LeaseLast'
  <2>1. TypeOK'
    BY Zenon, <1>2, <1>4 DEF TypeOK
  <2> QED BY Zenon, <1>2, <2>1 DEF LeaseOK, LeaseLast
<1>6. PlanOK'
  BY Zenon, <1>2 DEF PlanOK, LeaseOK, PlanAts, ClaimAts
<1>7. \A w \in Volumes \ handled' : VolumeInv(w)'
  BY Zenon, <1>2, <1>4, Untouched
<1> QED BY Zenon, <1>4, <1>5, <1>6, <1>7 DEF IInv

-----------------------------------------------------------------------------
(* Theorems.                                                               *)

\* Every step keeps the invariant.
LEMMA NextIInv ==
    ASSUME IInv, [Next]_vars
    PROVE  IInv'
<1>1. CASE Next
  BY Zenon, <1>1, StartsStep, PassKeeps, DiesStep, ControllersStep, OperatorStep, WorkflowLease,
     WorkflowWritesStep DEF Next
<1>2. CASE UNCHANGED vars
  <2>1. UNCHANGED <<claim, dclaim, pv, pods, record, lease, job, lost, handled, wrote>>
    BY Zenon, <1>2 DEF vars
  <2>2. TypeOK'
    BY Zenon, <2>1 DEF IInv, TypeOK
  <2>3. LeaseOK'
    BY Zenon, <2>1 DEF IInv, LeaseOK
  <2>4. LeaseLast'
    BY Zenon, <2>1 DEF IInv, LeaseLast
  <2>5. PlanOK'
    <3>1. JobOK(job.v)' <=> JobOK(job.v)
      BY Zenon, <2>1 DEF JobOK
    <3> QED BY Zenon, <2>1, <3>1 DEF IInv, PlanOK
  <2> QED BY Zenon, <2>1, <2>2, <2>3, <2>4, <2>5, VolumesKept DEF IInv
<1> QED BY Zenon, <1>1, <1>2

\* The invariant holds of every behaviour, for any volumes, any number of dead
\* passes and of interventions, and whether or not the workflow comes back.
THEOREM Inductive == Spec => []IInv
<1>1. Init => IInv
  BY Zenon, InitIInv
<1>2. IInv /\ [Next]_vars => IInv'
  BY NextIInv
<1> QED BY <1>1, <1>2, PTL DEF Spec

\* The invariant gives what CleansWhole says.
LEMMA IInvCleansWhole ==
    ASSUME IInv
    PROVE  CleansWhole
<1>1. ServedKept
  <2> SUFFICES ASSUME NEW v \in Volumes \ handled
               PROVE  IF lost.stage[v] = "switching" THEN pv[v]["S"].is /\ pv[v]["D"].is
                      ELSE /\ claim[v].is /\ claim[v].at = Served(v)
                           /\ pv[v][Served(v)].is /\ pv[v][Served(v)].phase = "Bound"
    BY Zenon DEF ServedKept
  <2>1. VolumeOK(lost.stage[v], lost.class, claim[v], dclaim[v], pv[v]["S"], pv[v]["D"])
    BY Zenon DEF IInv, VolumeInv
  <2>2. lost.stage[v] \in StageSet
    BY Zenon DEF IInv, TypeOK
  <2>3. claim[v].at = Served(v)
    BY Zenon, <2>1, <2>2, StagesReached DEF VolumeOK, Served
  <2> QED BY Zenon, <2>1, <2>3 DEF VolumeOK, SourceOK, Served
<1>2. FreedWhole
  <2> SUFFICES ASSUME NEW v \in Volumes \ handled, claim[v].is, claim[v].owner = "none",
                      pv[v][claim[v].at].role = "none"
               PROVE  /\ pv[v][claim[v].at].policy = IF claim[v].at = "S" THEN "Delete" ELSE lost.class
                      /\ ~pv[v][IF claim[v].at = "S" THEN "D" ELSE "S"].is
                      /\ dclaim[v].is => dclaim[v].term
    BY Zenon DEF FreedWhole
  <2>1. VolumeInv(v) /\ claim[v].at \in {"S", "D"}
    BY Zenon DEF IInv, TypeOK, ClaimT, PVs
  <2>2. ~pv[v][IF claim[v].at = "S" THEN "D" ELSE "S"].is /\ (dclaim[v].is => dclaim[v].term)
    BY Zenon, <2>1 DEF VolumeInv, FreedWholeAt
  <2>3. pv[v][claim[v].at].policy = IF claim[v].at = "S" THEN "Delete" ELSE lost.class
    BY Zenon, <2>1 DEF VolumeInv, VolumeOK, SourceOK, DestinationOK
  <2> QED BY Zenon, <2>2, <2>3
<1> QED BY Zenon, <1>1, <1>2 DEF CleansWhole, IInv

\* A cleanup takes what nobody uses, all of it, and only that: the volume a
\* claim serves stays bound to it, a freed volume has its policy back and no
\* other copy is left, and the Lease goes last (CleanupOrphan).
THEOREM CleansOnlyLeftovers == Spec => []CleansWhole
<1>1. IInv => CleansWhole
  BY IInvCleansWhole
<1> QED BY <1>1, Inductive, PTL

\* A workflow that came back and wrote is not cleaned away: no step of a pass
\* changes its storage (withSessionIDLock, and the plan under the Lease).
THEOREM ReturnedWorkflowSpared == Spec => LiveSpared
<1>1. ASSUME IInv, [Next]_vars
      PROVE  [(job # Idle /\ wrote) => (PassStep => UNCHANGED storage)]_vars
  <2> SUFFICES ASSUME job # Idle, wrote, PassStep PROVE UNCHANGED storage
    BY Zenon
  <2>1. job.at \notin PlanAts
    BY Zenon, <1>1 DEF IInv, LeaseOK
  <2>2. withSessionIDLock \/ CleanupOrphan
    <3>1. ~deleteReservationConsumers
      BY Zenon, <2>1 DEF deleteReservationConsumers, PlanAts, ClaimAts
    <3>2. ~cleanupPreActivationOrphan
      BY Zenon, <2>1 DEF cleanupPreActivationOrphan, PlanAts, ClaimAts
    <3>3. ~deleteOrphanDestinationPVC
      BY Zenon, <2>1 DEF deleteOrphanDestinationPVC, PlanAts, ClaimAts
    <3>4. ~deleteReclaimedPV
      BY Zenon, <2>1 DEF deleteReclaimedPV, PlanAts, ClaimAts
    <3>5. ~deleteOrphanRollbackPV
      BY Zenon, <2>1 DEF deleteOrphanRollbackPV, PlanAts, ClaimAts
    <3>6. ~DeletePV
      BY Zenon, <2>1 DEF DeletePV, PlanAts, ClaimAts
    <3>7. ~finalizeOrphanPVC
      BY Zenon, <2>1 DEF finalizeOrphanPVC, PlanAts, ClaimAts
    <3>8. ~finalizeOrphanPV
      BY Zenon, <2>1 DEF finalizeOrphanPV, PlanAts, ClaimAts
    <3>9. ~deleteStaleSessionRecord
      BY Zenon, <2>1 DEF deleteStaleSessionRecord, PlanAts, ClaimAts
    <3>10. ~DeleteLease
      BY Zenon, <2>1 DEF DeleteLease, PlanAts, ClaimAts
    <3> QED BY ZenonT(30), <3>1, <3>2, <3>3, <3>4, <3>5, <3>6, <3>7, <3>8, <3>9, <3>10 DEF PassStep, Pass
  <2> QED BY ZenonT(30), <2>2 DEF withSessionIDLock, CleanupOrphan
<1> QED BY <1>1, Inductive, PTL DEF Spec, LiveSpared

=============================================================================
