-------------------------- MODULE VolumeRenameProofs --------------------------
(***************************************************************************)
(* The proofs of VolumeRename: the data of a renamed or moved claim stays, *)
(* the recorded claim leads to it, the volume is given back whole and only *)
(* the workflow's own claims are deleted, for every set of claims and      *)
(* volumes and every number of crashes, restores and rollbacks.            *)
(*                                                                         *)
(* The volume can be lost in one way: released while its policy is Delete. *)
(* So the invariant says that without Retain it refers to a claim which    *)
(* exists and stays (InPlace), that a reference with the UID of a claim    *)
(* which exists means Bound (RefOK), and that the only claim on its way    *)
(* out is the one RenamePVC moves away from (DyingInv), after ensureRetain *)
(* (StepInv).  The policy to give back is on the volume, in force or as    *)
(* its annotation (Whole, Marked).                                         *)
(***************************************************************************)
EXTENDS VolumeRename, TLAPS

\* The steps of RenamePVC.
RenameSteps ==
    {"probe", "retain", "delete", "sourceGone", "reserve", "create", "bound", "markActive",
     "save"}

\* Those between ensureRetain and the first write that may undo it.
RetainedSteps == {"delete", "sourceGone", "reserve", "create", "bound", "save"}

\* The old claim is known to be gone.
GoneSteps == {"reserve", "create", "bound", "markActive", "save"}

\* Claims have UIDs that were given out, and only a claim that exists is deleted.
ClaimsOK ==
    \A l \in Claims : pvc[l].uid <= lastUID /\ (pvc[l].deleting => pvc[l].uid # 0)

\* A volume that refers to a claim which exists is bound: a claim that comes
\* later under the same name has another UID.
RefOK ==
    /\ pv[SourcePV].claimUID <= lastUID
    /\ pv[SourcePV].claim \in Claims
    /\ pv[SourcePV].claimUID # 0 /\ pvc[pv[SourcePV].claim].uid = pv[SourcePV].claimUID =>
          pv[SourcePV].phase = "Bound"

\* Without the Retain policy the volume is bound to a claim that stays.
InPlace ==
    pv[SourcePV].policy # "Retain" =>
        /\ pv[SourcePV].claimUID # 0
        /\ pvc[pv[SourcePV].claim].uid = pv[SourcePV].claimUID
        /\ ~pvc[pv[SourcePV].claim].deleting

\* The volume carries nothing of the workflow and has its own policy ...
Whole ==
    /\ ~pv[SourcePV].session /\ pv[SourcePV].role = "none" /\ pv[SourcePV].original = "none"
    /\ pv[SourcePV].policy = InitialPolicy[SourcePV]

\* ... or carries the mark of the workflow with that policy on record.
Marked == pv[SourcePV].session /\ pv[SourcePV].original = InitialPolicy[SourcePV]

\* What holds of the cluster between any two steps.
StoreInv ==
    /\ StorageTypeOK /\ ClaimsOK /\ RefOK /\ InPlace /\ (Whole \/ Marked) /\ DataKept

\* The claim at l is bound to the volume and stays.
Serves(l, u) == u # 0 /\ VerifyIdentity(l, u, SourcePV) /\ ~pvc[l].deleting

\* Where a pass can be in each phase.
Control ==
    /\ pc \in RenameSteps => phase \in {"Renaming", "RollingBack"}
    /\ pc = "aborting" => phase = "Aborting"
    /\ pc \in {"finalizePVC", "finalizePV"} => phase \in {"Completed", "RolledBack", "Aborted"}
    /\ record = "gone" => pc = "idle"
    /\ ~planned => phase \in {"Planned", "Aborted"}

\* What is deleted is the claim the pass moves away from.
DyingInv ==
    /\ \A l \in Claims : pvc[l].deleting => l = From /\ phase \in {"Renaming", "RollingBack"}
    /\ pc \in GoneSteps => ~pvc[From].deleting

\* What a pass has established about the volume and the new claim.
StepInv ==
    /\ pc \in RetainedSteps => Marked /\ pv[SourcePV].policy = "Retain"
    /\ pc \in {"bound", "markActive", "save"} => current.uid # 0
    /\ pc = "markActive" =>
          /\ pvc[To].uid = current.uid /\ (current.bound => pvc[To].bound)
          /\ current.volume = SourcePV => pvc[To].volume = SourcePV
    /\ pc = "save" => Serves(To, current.uid)

\* A settled workflow's recorded claim serves the volume, and a volume that was not
\* touched yet, or whose record may go, is whole.
RecordInv ==
    /\ phase \in {"Completed", "RolledBack"} => Serves(ActiveClaim, active)
    /\ phase \in {"Planned", "Aborting", "Aborted"} => Whole
    /\ pc = "deleteRecord" \/ record = "gone" => Whole

\* What holds of the record and the running pass.
PassInv == TypeOK /\ Control /\ DyingInv /\ StepInv /\ RecordInv

\* The inductive invariant.
IInv == StoreInv /\ PassInv

-----------------------------------------------------------------------------
(* The environment *)

\* What holds a volume to the claim that it refers to.
Referred ==
    /\ pv[SourcePV].claimUID # 0
    /\ pvc[pv[SourcePV].claim].uid = pv[SourcePV].claimUID
    /\ ~pvc[pv[SourcePV].claim].deleting

\* What no step of the environment does to a claim that stays, to a volume that
\* refers to one, or to the marks on the volume.
Undisturbed ==
    /\ \A l \in Claims : pvc[l].uid # 0 /\ ~pvc[l].deleting =>
          /\ pvc'[l].uid = pvc[l].uid /\ (pvc[l].bound => pvc'[l].bound)
          /\ pvc[l].volume = SourcePV => pvc'[l].volume = SourcePV
    /\ \A l \in Claims : pvc'[l].deleting => pvc[l].deleting
    /\ pv'[SourcePV].policy = pv[SourcePV].policy
    /\ pv'[SourcePV].original = pv[SourcePV].original
    /\ pv'[SourcePV].session = pv[SourcePV].session
    /\ pv'[SourcePV].role = pv[SourcePV].role
    /\ Referred => /\ pv'[SourcePV].claim = pv[SourcePV].claim
                   /\ pv'[SourcePV].claimUID = pv[SourcePV].claimUID

\* The types, UIDs and references after the step.
WellFormed == StorageTypeOK /\ ClaimsOK /\ RefOK /\ DataKept

\* A step of the environment that leaves alone what stays keeps the invariant.
LEMMA OutsideKeeps ==
    ASSUME IInv, UNCHANGED <<passVars, bounds>>, Undisturbed, WellFormed'
    PROVE  IInv'
<1> USE StorageAssumption, RenameAssumption
<1>0. /\ UNCHANGED <<phase, failed, planned, active, record, pc, current, bounds>>
      /\ From' = From /\ To' = To /\ ActiveClaim' = ActiveClaim /\ Back' = Back
      /\ From \in Claims /\ To \in Claims /\ ActiveClaim \in Claims
  BY Zenon DEF passVars, From, To, ActiveClaim, Back
<1>1. Referred => Referred'
  BY Zenon DEF Referred, Undisturbed, IInv, StoreInv, RefOK
<1>2. StoreInv'
  BY Zenon, <1>1 DEF IInv, StoreInv, WellFormed, InPlace, Referred, Undisturbed, Whole, Marked
<1>3. ASSUME NEW l \in Claims, NEW u, Serves(l, u) PROVE Serves(l, u)'
  <2>1. Referred /\ pv[SourcePV].claim = l /\ pv[SourcePV].claimUID = u
    BY Zenon, <1>3 DEF Serves, VerifyIdentity, VerifyBinding, Referred
  <2> QED BY Zenon, <1>3, <2>1 DEF Serves, VerifyIdentity, VerifyBinding, Undisturbed, WellFormed,
            DataKept
<1>4. TypeOK' /\ Control'
  BY Zenon, <1>0, <1>2 DEF IInv, PassInv, TypeOK, Control, StoreInv
<1>5. DyingInv'
  BY Zenon, <1>0 DEF IInv, PassInv, DyingInv, Undisturbed
<1>6. StepInv'
  <2>1. pc = "markActive" => pvc[To].uid # 0 /\ ~pvc[To].deleting
    BY Zenon, <1>0 DEF IInv, PassInv, StepInv, DyingInv, From, To
  <2> QED BY Zenon, <1>0, <1>3, <2>1 DEF IInv, PassInv, StepInv, Undisturbed, Marked
<1>7. RecordInv'
  BY Zenon, <1>0, <1>3 DEF IInv, PassInv, RecordInv, Whole, Undisturbed
<1> QED BY Zenon, <1>2, <1>4, <1>5, <1>6, <1>7 DEF IInv, PassInv

\* The types that nearly every leaf needs.
LEMMA Typed ==
    ASSUME IInv
    PROVE  /\ pvc \in [Claims -> ClaimObject] /\ pv \in [Volumes -> VolumeObject]
           /\ lastUID \in Nat /\ SourcePV \in Volumes /\ pv[SourcePV] \in VolumeObject
           /\ \A l \in Claims : pvc[l] \in ClaimObject /\ pvc[l].uid \in Nat
           /\ SourceClaim \in Claims /\ DestinationClaim \in Claims
           /\ From \in Claims /\ To \in Claims /\ ActiveClaim \in Claims
BY Zenon, RenameAssumption DEF IInv, StoreInv, StorageTypeOK, ClaimObject, From, To, ActiveClaim

\* The binder completes a claim that names its volume: to the volume of the rename
\* it gives the UID of a claim that exists.
LEMMA BindNamedKeeps ==
    ASSUME IInv, UNCHANGED <<passVars, bounds>>, NEW l \in Claims, NEW v \in Volumes,
           BindNamed(l, v)
    PROVE  IInv'
<1> DEFINE b == BoundTo(pv[v], l, pvc[l].uid)
<1> USE Typed
<1>1. /\ pvc' = [pvc EXCEPT ![l].bound = TRUE] /\ pv' = [pv EXCEPT ![v] = b]
      /\ UNCHANGED <<lastUID, pod, attached, pods, intrusions>>
      /\ pvc[l].volume = v /\ ~pvc[l].bound /\ pvc[l].uid # 0 /\ pv[v].phase # "Gone"
      /\ pv[v].claim = NoClaim \/ (pv[v].claim = l /\ pv[v].claimUID \in {0, pvc[l].uid})
  BY Zenon DEF BindNamed, Exists, Live
<1>2. /\ b \in VolumeObject /\ b.policy = pv[v].policy /\ b.original = pv[v].original
      /\ b.session = pv[v].session /\ b.role = pv[v].role
      /\ b.claim = l /\ b.claimUID = pvc[l].uid /\ b.phase = "Bound"
  <2>1. pv[v] \in VolumeObject
    BY Zenon
  <2> QED BY Zenon, <2>1 DEF BoundTo, VolumeObject
<1> HIDE DEF b
<1>3. /\ pv' \in [Volumes -> VolumeObject] /\ pv'[v] = b
      /\ \A w \in Volumes : w # v => pv'[w] = pv[w]
  BY Zenon, <1>1, <1>2
<1>4. /\ pvc' \in [Claims -> ClaimObject]
      /\ \A k \in Claims : /\ pvc'[k].uid = pvc[k].uid /\ pvc'[k].volume = pvc[k].volume
                           /\ pvc'[k].deleting = pvc[k].deleting
                           /\ pvc[k].bound => pvc'[k].bound
  BY Zenon, <1>1 DEF ClaimObject
<1>5. Undisturbed
  <2>1. v = SourcePV /\ Referred => l = pv[v].claim /\ pvc[l].uid = pv[v].claimUID
    BY Zenon, <1>1, StorageAssumption DEF Referred, IInv, StoreInv, RefOK
  <2> QED BY Zenon, <1>2, <1>3, <1>4, <2>1 DEF Undisturbed
<1>6. StorageTypeOK' /\ ClaimsOK'
  BY <1>1, <1>3, <1>4 DEF StorageTypeOK, IInv, StoreInv, ClaimsOK
<1>7. RefOK' /\ DataKept'
  BY ZenonT(30), <1>1, <1>2, <1>3, <1>4 DEF IInv, StoreInv, RefOK, DataKept, Live, ClaimsOK
<1> QED BY Zenon, <1>5, <1>6, <1>7, OutsideKeeps DEF WellFormed

\* The binder gives a claim without a volume the one reserved for its name.
LEMMA BindAnyKeeps ==
    ASSUME IInv, UNCHANGED <<passVars, bounds>>, NEW l \in Claims, BindAny(l)
    PROVE  IInv'
<1> USE Typed
<1>1. /\ UNCHANGED <<lastUID, pod, attached, pods, intrusions>>
      /\ pvc[l].volume = NoVolume /\ pvc[l].uid # 0
  BY Zenon DEF BindAny, Exists
<1>2. CASE pvc' = [pvc EXCEPT ![l].bound = TRUE, ![l].volume = OtherVolume] /\ pv' = pv
  <2>1. /\ pvc' \in [Claims -> ClaimObject]
        /\ \A k \in Claims : /\ pvc'[k].uid = pvc[k].uid
                             /\ k # l => pvc'[k].volume = pvc[k].volume
                             /\ pvc'[k].deleting = pvc[k].deleting
                             /\ pvc[k].bound => pvc'[k].bound
    BY ZenonT(30), <1>2 DEF ClaimObject
  <2>2. Undisturbed
    BY <1>1, <1>2, <2>1, StorageAssumption DEF Undisturbed
  <2>3. WellFormed'
    BY <1>1, <1>2, <2>1 DEF IInv, StoreInv, WellFormed, StorageTypeOK, ClaimsOK, RefOK, DataKept,
       Live
  <2> QED BY Zenon, <2>2, <2>3, OutsideKeeps
<1>3. ASSUME NEW v \in Volumes, Live(v), pv[v].claim = l, pv[v].claimUID = 0,
             pvc' = [pvc EXCEPT ![l].bound = TRUE, ![l].volume = v],
             pv' = [pv EXCEPT ![v] = BoundTo(pv[v], l, pvc[l].uid)]
      PROVE  IInv'
  <2> DEFINE b == BoundTo(pv[v], l, pvc[l].uid)
  <2>1. /\ b \in VolumeObject /\ b.policy = pv[v].policy /\ b.original = pv[v].original
        /\ b.session = pv[v].session /\ b.role = pv[v].role
        /\ b.claim = l /\ b.claimUID = pvc[l].uid /\ b.phase = "Bound"
    <3>1. pv[v] \in VolumeObject
      BY Zenon
    <3> QED BY Zenon, <3>1 DEF BoundTo, VolumeObject
  <2>2. pv' = [pv EXCEPT ![v] = b]
    BY Zenon, <1>3
  <2> HIDE DEF b
  <2>3. /\ pv' \in [Volumes -> VolumeObject] /\ pv'[v] = b
        /\ \A w \in Volumes : w # v => pv'[w] = pv[w]
    BY Zenon, <2>1, <2>2
  <2>4. /\ pvc' \in [Claims -> ClaimObject]
        /\ \A k \in Claims : /\ pvc'[k].uid = pvc[k].uid
                             /\ k # l => pvc'[k].volume = pvc[k].volume
                             /\ pvc'[k].deleting = pvc[k].deleting
                             /\ pvc[k].bound => pvc'[k].bound
    <3> DEFINE d == [pvc[l] EXCEPT !.bound = TRUE, !.volume = v]
    <3>1. pvc[l] \in ClaimObject
      BY Zenon
    <3>2. d \in ClaimObject /\ d.uid = pvc[l].uid /\ d.deleting = pvc[l].deleting /\ d.bound
      BY Zenon, <3>1 DEF ClaimObject
    <3>3. pvc' = [pvc EXCEPT ![l] = d]
      BY Zenon, <1>3
    <3> HIDE DEF d
    <3> QED BY Zenon, <3>2, <3>3
  <2>5. Undisturbed
    BY <1>1, <1>3, <2>1, <2>3, <2>4, StorageAssumption DEF Undisturbed, Referred
  <2>6. StorageTypeOK' /\ ClaimsOK'
    BY Zenon, <1>1, <2>3, <2>4 DEF StorageTypeOK, IInv, StoreInv, ClaimsOK
  <2>7. RefOK' /\ DataKept'
    BY <1>1, <2>1, <2>3, <2>4 DEF IInv, StoreInv, RefOK, DataKept, Live, ClaimsOK
  <2> QED BY Zenon, <2>5, <2>6, <2>7, OutsideKeeps DEF WellFormed
<1> QED BY Zenon, <1>2, <1>3 DEF BindAny

\* A step that changes only the phase of a volume.
LEMMA VolumePhaseKeeps ==
    ASSUME IInv, UNCHANGED <<passVars, bounds>>, NEW v \in Volumes,
           NEW ph \in {"Released", "Available", "Gone"},
           pv' = [pv EXCEPT ![v].phase = ph],
           UNCHANGED <<pvc, lastUID, pod, attached, pods, intrusions>>,
           v = SourcePV => ph # "Gone" /\ (pv[v].claimUID = 0 \/ pvc[pv[v].claim].uid # pv[v].claimUID)
    PROVE  IInv'
<1> USE Typed
<1>1. /\ pv' \in [Volumes -> VolumeObject] /\ pv'[v].phase = ph
      /\ \A w \in Volumes : /\ pv'[w].policy = pv[w].policy /\ pv'[w].original = pv[w].original
                            /\ pv'[w].session = pv[w].session /\ pv'[w].role = pv[w].role
                            /\ pv'[w].claim = pv[w].claim /\ pv'[w].claimUID = pv[w].claimUID
                            /\ w # v => pv'[w].phase = pv[w].phase
  BY Zenon DEF VolumeObject
<1>2. Undisturbed
  BY Zenon, <1>1 DEF Undisturbed
<1>3. StorageTypeOK' /\ ClaimsOK'
  BY Zenon, <1>1 DEF StorageTypeOK, IInv, StoreInv, ClaimsOK
<1>4. RefOK' /\ DataKept'
  BY Zenon, <1>1 DEF IInv, StoreInv, RefOK, DataKept, Live
<1> QED BY Zenon, <1>2, <1>3, <1>4, OutsideKeeps DEF WellFormed

\* A volume is released only when the claim it refers to is not there.
LEMMA ReleaseKeeps ==
    ASSUME IInv, UNCHANGED <<passVars, bounds>>, NEW v \in Volumes, Release(v)
    PROVE  IInv'
BY Zenon, VolumePhaseKeeps DEF Release

\* A reservation without UID makes the volume available, never gone.
LEMMA MakeAvailableKeeps ==
    ASSUME IInv, UNCHANGED <<passVars, bounds>>, NEW v \in Volumes, MakeAvailable(v)
    PROVE  IInv'
BY Zenon, VolumePhaseKeeps DEF MakeAvailable

\* The provisioner never gets to delete the volume: one that is not retained refers
\* to a claim that exists, so it is bound and not released.
LEMMA ReclaimKeeps ==
    ASSUME IInv, UNCHANGED <<passVars, bounds>>, NEW v \in Volumes, Reclaim(v)
    PROVE  IInv'
<1>1. v # SourcePV
  BY Zenon DEF Reclaim, IInv, StoreInv, InPlace, RefOK
<1> QED BY Zenon, <1>1, VolumePhaseKeeps DEF Reclaim

\* A step that changes claims, and no volume.
LEMMA ClaimKeeps ==
    ASSUME IInv, UNCHANGED <<passVars, bounds>>, UNCHANGED <<pv, pod, attached, pods>>,
           NEW l \in Claims, NEW c \in ClaimObject, pvc' = [pvc EXCEPT ![l] = c],
           pvc[l].uid = 0 \/ pvc[l].deleting, ~c.deleting,
           c.uid = 0 \/ c.uid = lastUID + 1, lastUID' \in Nat, lastUID' >= lastUID,
           c.uid <= lastUID', intrusions' \in 0..MaxIntrusions
    PROVE  IInv'
<1> USE Typed
<1>1. /\ pvc' \in [Claims -> ClaimObject] /\ pvc'[l] = c
      /\ \A k \in Claims : k # l => pvc'[k] = pvc[k]
  BY Zenon
<1>2. Undisturbed
  BY Zenon, <1>1 DEF Undisturbed
<1>3. StorageTypeOK'
  BY Zenon, <1>1 DEF StorageTypeOK, IInv, StoreInv
<1>4. ClaimsOK'
  <2>1. \A k \in Claims : pvc[k].uid <= lastUID
    BY Zenon DEF IInv, StoreInv, ClaimsOK
  <2> QED BY <1>1, <2>1 DEF IInv, StoreInv, ClaimsOK
<1>5. RefOK' /\ DataKept'
  <2>1. pv[SourcePV].claimUID \in Nat
    BY Zenon DEF VolumeObject
  <2> QED BY <1>1, <2>1 DEF IInv, StoreInv, RefOK, DataKept, Live
<1> QED BY Zenon, <1>2, <1>3, <1>4, <1>5, OutsideKeeps DEF WellFormed

\* The absent claim is a claim object with UID 0.
LEMMA NoObjectOK ==
    NoObject \in ClaimObject /\ NoObject.uid = 0 /\ ~NoObject.deleting
BY Zenon DEF NoObject, NewClaim, ClaimObject

\* A claim that was just created is a claim object.
LEMMA NewClaimOK ==
    ASSUME NEW u \in Nat, NEW v \in Volumes \cup {NoVolume, OtherVolume}, NEW s \in BOOLEAN
    PROVE  /\ NewClaim(u, v, s) \in ClaimObject /\ NewClaim(u, v, s).uid = u
           /\ ~NewClaim(u, v, s).deleting /\ NewClaim(u, v, s).volume = v
BY Zenon DEF NewClaim, ClaimObject

\* PVC protection lets go only a claim marked for deletion, which the volume was
\* retained for.
LEMMA FinishDeleteKeeps ==
    ASSUME IInv, UNCHANGED <<passVars, bounds>>, NEW l \in Claims, FinishDelete(l)
    PROVE  IInv'
<1>1. /\ pvc' = [pvc EXCEPT ![l] = NoObject] /\ pvc[l].deleting
      /\ UNCHANGED <<pv, lastUID, pod, attached, pods, intrusions>>
  BY Zenon DEF FinishDelete
<1>2. /\ lastUID' \in Nat /\ lastUID' >= lastUID /\ intrusions' \in 0..MaxIntrusions
      /\ NoObject.uid <= lastUID'
  BY <1>1, NoObjectOK DEF IInv, StoreInv, StorageTypeOK
<1> QED BY Zenon, <1>1, <1>2, NoObjectOK, ClaimKeeps

\* A claim that somebody creates has a UID that no volume refers to.
LEMMA IntrudeKeeps ==
    ASSUME IInv, UNCHANGED <<passVars, bounds>>, NEW l \in Claims, Intrude(l)
    PROVE  IInv'
<1> DEFINE c == NewClaim(lastUID + 1, NoVolume, FALSE)
<1>1. /\ lastUID \in Nat /\ lastUID + 1 \in Nat /\ lastUID + 1 >= lastUID
      /\ intrusions' \in 0..MaxIntrusions
  BY StorageAssumption DEF IInv, StoreInv, StorageTypeOK, Intrude
<1>2. c \in ClaimObject /\ c.uid = lastUID + 1 /\ ~c.deleting
  BY Zenon, <1>1, NewClaimOK
<1>3. pvc' = [pvc EXCEPT ![l] = c] /\ lastUID' = lastUID + 1 /\ pvc[l].uid = 0
  BY Zenon DEF Intrude, Exists
<1>4. UNCHANGED <<pv, pod, attached, pods>>
  BY Zenon DEF Intrude
<1> HIDE DEF c
<1>5. c.uid <= lastUID'
  BY <1>1, <1>2, <1>3
<1> QED BY Zenon, <1>1, <1>2, <1>3, <1>4, <1>5, ClaimKeeps

\* A step of the Pods and of what is attached.
LEMMA PodKeeps ==
    ASSUME IInv, UNCHANGED <<passVars, bounds>>, UNCHANGED <<pvc, pv, lastUID, intrusions>>,
           pod' \in Claims \cup {NoClaim}, pods' \in 0..MaxPods,
           attached' \in SUBSET (Volumes \cup {NoVolume, OtherVolume})
    PROVE  IInv'
<1>1. Undisturbed
  BY Zenon DEF Undisturbed
<1>2. WellFormed'
  BY Zenon DEF WellFormed, IInv, StoreInv, StorageTypeOK, ClaimsOK, RefOK, DataKept, Live
<1> QED BY Zenon, <1>1, <1>2, OutsideKeeps

\* Every controller, Pod and operator beside the workflow keeps the invariant.
LEMMA EnvironmentKeeps == ASSUME IInv, Environment PROVE IInv'
<1>0. UNCHANGED <<passVars, bounds>>
  BY Zenon DEF Environment
<1>1. CASE \E l \in Claims : StartPod(l)
  <2>1. PICK l \in Claims : StartPod(l)
    BY Zenon, <1>1
  <2>2. /\ pod' \in Claims \cup {NoClaim} /\ pods' \in 0..MaxPods
        /\ attached' \in SUBSET (Volumes \cup {NoVolume, OtherVolume})
    BY <2>1, Typed, StorageAssumption DEF StartPod, IInv, StoreInv, StorageTypeOK, ClaimObject
  <2> QED BY Zenon, <1>0, <2>1, <2>2, PodKeeps DEF StartPod
<1>2. CASE StopPod \/ \E v \in Volumes \cup {OtherVolume} : Detach(v)
  <2>1. /\ pod' \in Claims \cup {NoClaim} /\ pods' \in 0..MaxPods
        /\ attached' \in SUBSET (Volumes \cup {NoVolume, OtherVolume})
    BY Zenon, <1>2 DEF StopPod, Detach, IInv, StoreInv, StorageTypeOK
  <2> QED BY Zenon, <1>0, <1>2, <2>1, PodKeeps DEF StopPod, Detach
<1>3. CASE \E l \in {SourceClaim, DestinationClaim} : Intrude(l)
  BY Zenon, <1>0, <1>3, IntrudeKeeps, RenameAssumption
<1>4. CASE \E v \in Volumes : Reclaim(v)
  BY Zenon, <1>0, <1>4, ReclaimKeeps
<1> QED BY Zenon, <1>0, <1>1, <1>2, <1>3, <1>4, BindNamedKeeps, BindAnyKeeps, FinishDeleteKeeps,
        ReleaseKeeps, MakeAvailableKeeps DEF Environment, Controllers

-----------------------------------------------------------------------------
(* The steps of a pass that leave the cluster alone *)

\* The counters of the bounds.
Bounds ==
    [crashes: 0..MaxCrashes, restores: 0..MaxRestores, rollbacks: 0..MaxRollbacks]

\* What depends on the cluster alone is as before when the cluster is.
LEMMA StorageSame ==
    ASSUME IInv, UNCHANGED storageVars
    PROVE  /\ StoreInv' /\ UNCHANGED <<pvc, pv, lastUID>> /\ StorageTypeOK'
           /\ Whole' = Whole /\ Marked' = Marked
           /\ \A l, u : Serves(l, u)' = Serves(l, u)
<1>1. UNCHANGED <<pvc, pv, lastUID, pod, attached, pods, intrusions>>
  BY Zenon DEF storageVars
<1>2. StoreInv' /\ StorageTypeOK'
  BY Zenon, <1>1 DEF IInv, StoreInv, StorageTypeOK, ClaimsOK, RefOK, InPlace, Whole, Marked, DataKept,
     Live
<1>3. Whole' = Whole /\ Marked' = Marked
  BY Zenon, <1>1 DEF Whole, Marked
<1>4. \A l, u : Serves(l, u)' = Serves(l, u)
  BY Zenon, <1>1 DEF Serves, VerifyIdentity, VerifyBinding, Live
<1> QED BY Zenon, <1>1, <1>2, <1>3, <1>4

\* A pass that ends, or does not begin, leaves phase and record as they are.
LEMMA IdleKeeps ==
    ASSUME IInv, UNCHANGED storageVars, pc' = "idle", current' \in ClaimObject,
           UNCHANGED <<phase, active>>, failed' \in BOOLEAN, planned' \in BOOLEAN,
           planned => planned', record' \in {"kept", "deleting", "gone"},
           record' = "gone" => Whole, bounds' \in Bounds
    PROVE  IInv'
<1> USE StorageSame
<1>0. From' = From /\ ActiveClaim' = ActiveClaim
  BY Zenon DEF From, ActiveClaim, Back
<1>1. TypeOK'
  BY Zenon DEF IInv, PassInv, TypeOK, Bounds
<1>2. Control'
  BY Zenon DEF IInv, PassInv, Control, RenameSteps
<1>3. DyingInv' /\ StepInv'
  BY Zenon, <1>0 DEF IInv, PassInv, DyingInv, StepInv, GoneSteps, RetainedSteps
<1>4. RecordInv'
  BY Zenon, <1>0 DEF IInv, PassInv, RecordInv
<1> QED BY Zenon, <1>1, <1>2, <1>3, <1>4 DEF IInv, PassInv

\* An error of a pass, wherever it happens.
LEMMA FailKeeps == ASSUME IInv, NEW c, FailIf(c) PROVE IInv'
<1>1. /\ UNCHANGED <<storageVars, phase, active, record, planned, bounds>> /\ pc' = "idle"
      /\ current' = NoObject /\ failed' \in BOOLEAN
  BY Zenon DEF FailIf, IInv, PassInv, TypeOK
<1>2. /\ record' \in {"kept", "deleting", "gone"} /\ (record' = "gone" => Whole)
      /\ bounds' \in Bounds /\ planned' \in BOOLEAN
  BY Zenon, <1>1 DEF IInv, PassInv, TypeOK, RecordInv, Bounds
<1> QED BY Zenon, <1>1, <1>2, IdleKeeps, NoObjectOK

\* The process dies between two steps, its failure recorded or not.
LEMMA CrashKeeps == ASSUME IInv, Crash PROVE IInv'
<1>1. /\ UNCHANGED <<storageVars, phase, active, record, planned>> /\ pc' = "idle"
      /\ current' = NoObject /\ failed' \in BOOLEAN
  BY Zenon DEF Crash, IInv, PassInv, TypeOK
<1>2. bounds' \in Bounds
  BY RenameAssumption DEF Crash, IInv, PassInv, TypeOK, Bounds
<1>3. /\ record' \in {"kept", "deleting", "gone"} /\ (record' = "gone" => Whole)
      /\ planned' \in BOOLEAN
  BY Zenon, <1>1 DEF IInv, PassInv, TypeOK, RecordInv
<1> QED BY Zenon, <1>1, <1>2, <1>3, IdleKeeps, NoObjectOK

\* The planner records the plan.
LEMMA PlanKeeps == ASSUME IInv, Plan PROVE IInv'
<1>1. /\ UNCHANGED <<storageVars, phase, active>> /\ pc' = "idle" /\ current' \in ClaimObject
      /\ failed' \in BOOLEAN /\ planned' /\ planned' \in BOOLEAN
  BY Zenon DEF Plan, IInv, PassInv, TypeOK
<1>2. /\ record' \in {"kept", "deleting", "gone"} /\ (record' = "gone" => Whole)
      /\ bounds' \in Bounds
  BY Zenon DEF Plan, IInv, PassInv, TypeOK, RecordInv, Bounds
<1> QED BY Zenon, <1>1, <1>2, IdleKeeps

\* A resume clears the failure after validating.
LEMMA RequestResumeKeeps == ASSUME IInv, RequestResume PROVE IInv'
<1>1. /\ UNCHANGED <<storageVars, phase, active>> /\ pc' = "idle" /\ current' \in ClaimObject
      /\ failed' \in BOOLEAN /\ planned' = planned /\ planned' \in BOOLEAN
  BY Zenon DEF RequestResume, IInv, PassInv, TypeOK
<1>2. /\ record' \in {"kept", "deleting", "gone"} /\ (record' = "gone" => Whole)
      /\ bounds' \in Bounds
  BY Zenon DEF RequestResume, IInv, PassInv, TypeOK, RecordInv, Bounds
<1> QED BY Zenon, <1>1, <1>2, IdleKeeps

\* cleanup deletes the record, or leaves it, with the volume given back.
LEMMA DeleteRecordKeeps == ASSUME IInv, DeleteRecord PROVE IInv'
<1>1. /\ UNCHANGED <<storageVars, phase, active>> /\ pc' = "idle" /\ current' \in ClaimObject
      /\ failed' \in BOOLEAN /\ planned' = planned /\ planned' \in BOOLEAN
  BY Zenon DEF DeleteRecord, IInv, PassInv, TypeOK
<1>2. /\ record' \in {"kept", "deleting", "gone"} /\ (record' = "gone" => Whole)
      /\ bounds' \in Bounds
  BY Zenon DEF DeleteRecord, IInv, PassInv, TypeOK, RecordInv, Bounds
<1> QED BY Zenon, <1>1, <1>2, IdleKeeps

\* kubectl delete of the workflow object.
LEMMA DeleteObjectKeeps == ASSUME IInv, DeleteObject PROVE IInv'
<1> USE StorageSame
<1>0. /\ UNCHANGED <<storageVars, phase, failed, planned, active, pc, current, bounds>>
      /\ record' = "deleting" /\ From' = From /\ To' = To /\ ActiveClaim' = ActiveClaim
  BY Zenon DEF DeleteObject, From, To, ActiveClaim, Back
<1>1. TypeOK' /\ Control'
  BY ZenonT(30), <1>0 DEF IInv, PassInv, TypeOK, Control
<1>2. DyingInv' /\ StepInv'
  BY Zenon, <1>0 DEF IInv, PassInv, DyingInv, StepInv
<1>3. RecordInv'
  BY Zenon, <1>0 DEF IInv, PassInv, RecordInv
<1> QED BY Zenon, <1>0, <1>1, <1>2, <1>3 DEF IInv, PassInv

\* A pass that goes on in the same phase.
LEMMA GoesOn ==
    ASSUME IInv, UNCHANGED storageVars, UNCHANGED <<phase, failed, planned, active, record, bounds>>,
           record # "gone", pc' \in RenameSteps \cup {"finalizePVC", "finalizePV", "deleteRecord"},
           current' \in ClaimObject, Control', DyingInv', StepInv', pc' = "deleteRecord" => Whole
    PROVE  IInv'
<1> USE StorageSame
<1>0. UNCHANGED <<failed, planned, active, record, phase>> /\ ActiveClaim' = ActiveClaim
  BY Zenon DEF ActiveClaim
<1>1. TypeOK'
  BY Zenon, <1>0 DEF IInv, PassInv, TypeOK, RenameSteps
<1>2. RecordInv'
  BY Zenon, <1>0 DEF IInv, PassInv, RecordInv
<1> QED BY Zenon, <1>1, <1>2 DEF IInv, PassInv

\* cleanup starts on a settled workflow; without a plan there is nothing to give back.
LEMMA StartCleanupKeeps == ASSUME IInv, StartCleanup PROVE IInv'
<1> USE StorageSame
<1>0. /\ UNCHANGED <<storageVars, phase, failed, planned, active, record, current, bounds>>
      /\ record # "gone" /\ pc' \in {"finalizePVC", "deleteRecord"} /\ From' = From
      /\ pc' = "finalizePVC" => phase \in {"Completed", "Aborted", "RolledBack"}
      /\ pc' = "deleteRecord" => ~planned
  BY Zenon DEF StartCleanup, Skip, Goto, From, Back
<1>1. Control'
  BY Zenon, <1>0 DEF IInv, PassInv, Control, RenameSteps
<1>2. DyingInv' /\ StepInv'
  BY Zenon, <1>0 DEF IInv, PassInv, DyingInv, StepInv, GoneSteps, RetainedSteps
<1>3. ~planned => Whole
  BY Zenon DEF IInv, PassInv, Control, RecordInv
<1>4. current' \in ClaimObject
  BY Zenon, <1>0 DEF IInv, PassInv, TypeOK
<1> QED BY Zenon, <1>0, <1>1, <1>2, <1>3, <1>4, GoesOn

\* A transition starts or ends a pass with an empty current claim.
LEMMA TransitionKeeps ==
    ASSUME IInv, NEW next \in Phases, NEW uid \in Nat, NEW step, Transition(next, uid, step),
           step \in {"idle", "probe", "aborting"}, record # "gone", bounds' \in Bounds,
           step = "probe" => next \in {"Renaming", "RollingBack"},
           step = "aborting" => next = "Aborting",
           ~planned => next \in {"Planned", "Aborted"},
           \A l \in Claims : pvc[l].deleting => l = From' /\ next \in {"Renaming", "RollingBack"},
           next \in {"Planned", "Aborting", "Aborted"} => Whole,
           next \in {"Completed", "RolledBack"} => Serves(ActiveClaim', uid)
    PROVE  IInv'
<1> USE StorageSame
<1>0. /\ UNCHANGED <<storageVars, planned, record>> /\ phase' = next /\ failed' = FALSE
      /\ active' = uid /\ pc' = step /\ current' = NoObject
  BY Zenon DEF Transition
<1>1. TypeOK' /\ Control'
  BY Zenon, <1>0, NoObjectOK DEF IInv, PassInv, TypeOK, Control, Bounds, RenameSteps
<1>2. DyingInv' /\ StepInv'
  BY Zenon, <1>0 DEF DyingInv, StepInv, GoneSteps, RetainedSteps
<1>3. RecordInv'
  BY Zenon, <1>0 DEF RecordInv
<1> QED BY Zenon, <1>0, <1>1, <1>2, <1>3 DEF IInv, PassInv

\* What an idle workflow's record tells.
LEMMA Settled ==
    ASSUME IInv
    PROVE  /\ active \in Nat /\ bounds \in Bounds
           /\ \A l \in Claims : pvc[l].deleting => phase \in {"Renaming", "RollingBack"}
           /\ phase \in {"Planned", "Aborting", "Aborted"} => Whole
BY Zenon DEF IInv, PassInv, TypeOK, Bounds, DyingInv, RecordInv

\* Run, and FinalizeDeleted of a change that had started.
LEMMA StartRenameKeeps == ASSUME IInv, StartRename PROVE IInv'
<1>1. CASE Transition("Renaming", active, "probe") /\ UNCHANGED bounds
  <2>1. phase \in {"Planned", "Renaming"} /\ record # "gone" /\ planned
    BY Zenon DEF StartRename
  <2>2. phase' = "Renaming" /\ "Renaming" \in Phases
    BY Zenon, <1>1 DEF Transition, Phases
  <2>3. \A l \in Claims : pvc[l].deleting => l = From'
    BY Zenon, <2>1, <2>2 DEF IInv, PassInv, DyingInv, From, Back
  <2>4. active \in Nat /\ bounds' \in Bounds
    BY Zenon, <1>1, Settled
  <2> QED BY Zenon, <1>1, <2>1, <2>2, <2>3, <2>4, TransitionKeeps
<1> QED BY Zenon, <1>1, FailKeeps DEF StartRename

\* A rollback starts from Completed, or goes on.
LEMMA StartRollbackKeeps == ASSUME IInv, StartRollback PROVE IInv'
<1>1. /\ phase \in {"Completed", "RollingBack"} /\ record # "gone" /\ planned
      /\ Transition("RollingBack", active, "probe")
  BY Zenon DEF StartRollback, ValidateRollback
<1>2. bounds' \in Bounds
  BY RenameAssumption DEF StartRollback, IInv, PassInv, TypeOK, Bounds
<1>3. phase' = "RollingBack" /\ "RollingBack" \in Phases
  BY Zenon, <1>1 DEF Transition, Phases
<1>4. \A l \in Claims : pvc[l].deleting => l = From'
  BY Zenon, <1>1, <1>3 DEF IInv, PassInv, DyingInv, From, Back
<1>5. active \in Nat
  BY Zenon, Settled
<1> QED BY Zenon, <1>1, <1>2, <1>3, <1>4, <1>5, TransitionKeeps

\* Run of a rollback that cannot proceed.
LEMMA RejectRollbackKeeps == ASSUME IInv, RejectRollback PROVE IInv'
BY Zenon, FailKeeps DEF RejectRollback

\* Abort of a change that never started.
LEMMA AbortKeeps == ASSUME IInv, Abort PROVE IInv'
<1>1. /\ phase \in {"Planned", "Aborting"} /\ record # "gone" /\ UNCHANGED bounds
      /\ {"Aborting", "Aborted"} \subseteq Phases
  BY Zenon DEF Abort, Phases
<1> QED BY Zenon, <1>1, Settled, TransitionKeeps DEF Abort

\* Abort reaches Aborted, the volume untouched.
LEMMA AbortedKeeps == ASSUME IInv, Aborted PROVE IInv'
<1>1. /\ phase = "Aborting" /\ record # "gone" /\ UNCHANGED bounds /\ "Aborted" \in Phases
      /\ Transition("Aborted", active, "idle")
  BY Zenon DEF Aborted, Phases, IInv, PassInv, Control
<1> QED BY Zenon, <1>1, Settled, TransitionKeeps

\* The claim recorded as active is the one markActive saw bound to the volume.
LEMMA SaveActiveKeeps == ASSUME IInv, SaveActive PROVE IInv'
<1> DEFINE next == IF Back THEN "RolledBack" ELSE "Completed"
<1>1. /\ pc = "save" /\ phase \in {"Renaming", "RollingBack"} /\ record # "gone" /\ planned
      /\ Transition(next, current.uid, "idle") /\ bounds' \in Bounds
  BY Zenon, Settled DEF SaveActive, IInv, PassInv, Control, RenameSteps
<1>2. /\ next \in Phases /\ next \in {"RolledBack", "Completed"} /\ phase' = next
      /\ ActiveClaim' = To
  BY Zenon, <1>1 DEF Transition, Phases, ActiveClaim, To, Back
<1>3. current.uid \in Nat
  BY Zenon DEF IInv, PassInv, TypeOK, ClaimObject
<1>4. \A l \in Claims : ~pvc[l].deleting
  BY Zenon, <1>1 DEF IInv, PassInv, DyingInv, GoneSteps
<1>5. Serves(ActiveClaim', current.uid)
  BY Zenon, <1>1, <1>2 DEF IInv, PassInv, StepInv
<1> HIDE DEF next
<1> QED BY Zenon, <1>1, <1>2, <1>3, <1>4, <1>5, TransitionKeeps

-----------------------------------------------------------------------------
(* RenamePVC *)

\* Within RenamePVC only the claim it moves away from is deleted.
LEMMA InRename ==
    ASSUME IInv, pc \in RenameSteps
    PROVE  /\ phase \in {"Renaming", "RollingBack"} /\ record # "gone" /\ planned
           /\ From \in Claims /\ To \in Claims /\ From # To
           /\ \A l \in Claims : pvc[l].deleting => l = From
BY Zenon, RenameAssumption DEF IInv, PassInv, Control, DyingInv, RenameSteps, From, To

\* The pass goes on to markActive with the new claim as it read it.
LEMMA TakeKeeps ==
    ASSUME IInv, pc \in RenameSteps, Take(To, "markActive"), pvc[To].uid # 0,
           ~pvc[From].deleting
    PROVE  IInv'
<1> USE StorageSame, Typed
<1>0. /\ UNCHANGED <<storageVars, phase, failed, planned, active, record, bounds>>
      /\ pc' = "markActive" /\ current' = pvc[To] /\ From' = From /\ To' = To
  BY Zenon DEF Take, From, To, Back
<1>1. Control'
  BY Zenon, <1>0, InRename DEF Control
<1>2. DyingInv'
  BY Zenon, <1>0, InRename DEF DyingInv
<1>3. StepInv'
  BY Zenon, <1>0 DEF StepInv, RetainedSteps
<1>4. current' \in ClaimObject
  BY Zenon, <1>0
<1> QED BY Zenon, <1>0, <1>1, <1>2, <1>3, <1>4, InRename, GoesOn DEF RenameSteps

\* A check of RenamePVC that passed.
LEMMA SkipKeeps ==
    ASSUME IInv, pc \in RenameSteps, NEW step \in {"retain", "reserve"}, Skip(step),
           step = "reserve" => ~pvc[From].deleting /\ pc \in RetainedSteps
    PROVE  IInv'
<1> USE StorageSame
<1>0. /\ UNCHANGED <<storageVars, phase, failed, planned, active, record, current, bounds>>
      /\ pc' = step /\ From' = From /\ To' = To
  BY Zenon DEF Skip, Goto, From, To, Back
<1>1. Control'
  BY Zenon, <1>0, InRename DEF Control
<1>2. DyingInv'
  BY Zenon, <1>0, InRename DEF DyingInv, GoneSteps
<1>3. StepInv'
  BY Zenon, <1>0 DEF StepInv, RetainedSteps, IInv, PassInv
<1>4. current' \in ClaimObject
  BY Zenon, <1>0 DEF IInv, PassInv, TypeOK
<1> QED BY Zenon, <1>0, <1>1, <1>2, <1>3, <1>4, InRename, GoesOn DEF RenameSteps

\* The checks at the start of RenamePVC.
LEMMA ProbeKeeps == ASSUME IInv, Probe PROVE IInv'
<1>1. pc = "probe" /\ pc \in RenameSteps
  BY Zenon DEF Probe, RenameSteps
<1>2. CASE Exists(To) /\ ~Exists(From) /\ Take(To, "markActive")
  <2>1. ~pvc[From].deleting
    BY Zenon, <1>1, <1>2, InRename DEF Exists, IInv, StoreInv, ClaimsOK
  <2> QED BY Zenon, <1>1, <1>2, <2>1, TakeKeeps DEF Exists
<1>3. CASE Skip("retain")
  BY Zenon, <1>1, <1>3, SkipKeeps
<1>4. \/ \E c \in BOOLEAN : FailIf(c)
      \/ Exists(To) /\ ~Exists(From) /\ Take(To, "markActive")
      \/ Skip("retain")
  BY Zenon DEF Probe
<1> QED BY Zenon, <1>2, <1>3, <1>4, FailKeeps

\* The wait for the old claim to go.
LEMMA SourceGoneKeeps == ASSUME IInv, SourceGone PROVE IInv'
<1>1. pc = "sourceGone" /\ pc \in RenameSteps /\ pc \in RetainedSteps
  BY Zenon DEF SourceGone, RenameSteps, RetainedSteps
<1>2. CASE ~Exists(From) /\ Skip("reserve")
  <2>1. ~pvc[From].deleting
    BY Zenon, <1>1, <1>2, InRename DEF Exists, IInv, StoreInv, ClaimsOK
  <2> QED BY Zenon, <1>1, <1>2, <2>1, SkipKeeps
<1> QED BY Zenon, <1>2, FailKeeps DEF SourceGone

\* The wait for the new claim to be bound.
LEMMA BoundKeeps == ASSUME IInv, Bound PROVE IInv'
<1>1. pc = "bound" /\ pc \in RenameSteps /\ current.uid # 0 /\ ~pvc[From].deleting
  BY Zenon DEF Bound, RenameSteps, IInv, PassInv, StepInv, DyingInv, GoneSteps
<1> QED BY Zenon, <1>1, TakeKeeps, FailKeeps DEF Bound

\* The writes of a pass keep what it does not write.
LEMMA PassWrites ==
    ASSUME IInv, pc \in RenameSteps, StoreInv',
           UNCHANGED <<phase, failed, planned, active, record, bounds>>, pc' \in RenameSteps,
           current' \in ClaimObject, DyingInv', StepInv'
    PROVE  IInv'
<1>1. TypeOK'
  BY Zenon DEF IInv, PassInv, TypeOK, StoreInv, RenameSteps
<1>2. Control' /\ RecordInv'
  BY Zenon, InRename DEF IInv, PassInv, Control, RecordInv, RenameSteps
<1> QED BY Zenon, <1>1, <1>2 DEF IInv, PassInv

\* ensureRetain leaves the volume retained, with the policy it had before the
\* workflow on record, however often it runs.
LEMMA RetainEffect ==
    ASSUME IInv, NEW role \in Roles, EnsureRetain(SourcePV, role)
    PROVE  /\ StoreInv' /\ Marked' /\ pv'[SourcePV].policy = "Retain"
           /\ UNCHANGED <<pvc, lastUID>>
           /\ pv'[SourcePV].claim = pv[SourcePV].claim
           /\ pv'[SourcePV].claimUID = pv[SourcePV].claimUID /\ Live(SourcePV)'
<1> USE Typed
<1> DEFINE p == Retained(pv[SourcePV], role)
<1>1. /\ pv' = [pv EXCEPT ![SourcePV] = p]
      /\ UNCHANGED <<pvc, lastUID, pod, attached, pods, intrusions>>
  BY Zenon DEF EnsureRetain
<1>2. /\ p \in VolumeObject /\ p.policy = "Retain" /\ p.session
      /\ p.original = IF pv[SourcePV].original = "none" THEN pv[SourcePV].policy
                                                        ELSE pv[SourcePV].original
      /\ p.claim = pv[SourcePV].claim /\ p.claimUID = pv[SourcePV].claimUID
      /\ p.phase = pv[SourcePV].phase
  BY Zenon DEF Retained, VolumeObject, Policies
<1> HIDE DEF p
<1>3. pv' \in [Volumes -> VolumeObject] /\ pv'[SourcePV] = p
  BY Zenon, <1>1, <1>2
<1>4. StorageTypeOK' /\ ClaimsOK'
  BY Zenon, <1>1, <1>3 DEF StorageTypeOK, IInv, StoreInv, ClaimsOK
<1>5. RefOK' /\ DataKept' /\ InPlace'
  BY Zenon, <1>1, <1>2, <1>3 DEF IInv, StoreInv, RefOK, DataKept, Live, InPlace
<1>6. Marked'
  <2>1. InitialPolicy[SourcePV] \in Policies
    BY Zenon, StorageAssumption
  <2> QED BY Zenon, <1>2, <1>3, <2>1 DEF IInv, StoreInv, Marked, Whole, Policies
<1> QED BY Zenon, <1>1, <1>2, <1>3, <1>4, <1>5, <1>6 DEF StoreInv, DataKept

\* A step of the pass leaves the record as it is.
LEMMA GotoEffect ==
    ASSUME IInv, NEW step, Goto(step)
    PROVE  /\ UNCHANGED <<phase, failed, planned, active, record, bounds, current>>
           /\ pc' = step /\ From' = From /\ To' = To /\ ActiveClaim' = ActiveClaim
           /\ current' \in ClaimObject
BY Zenon DEF Goto, From, To, ActiveClaim, Back, IInv, PassInv, TypeOK

\* RenamePVC retains the volume first.
LEMMA RetainKeeps == ASSUME IInv, Retain PROVE IInv'
<1>1. /\ pc \in RenameSteps /\ EnsureRetain(SourcePV, "rename") /\ Goto("delete")
      /\ "rename" \in Roles /\ "delete" \in RenameSteps
  BY Zenon DEF Retain, RenameSteps, Roles
<1>2. /\ Marked' /\ pv'[SourcePV].policy = "Retain" /\ pc' = "delete" /\ pvc' = pvc
      /\ From' = From /\ phase' = phase /\ current' \in ClaimObject /\ StoreInv'
      /\ UNCHANGED <<failed, planned, active, record, bounds>>
  BY Zenon, <1>1, RetainEffect, GotoEffect
<1>3. DyingInv'
  BY Zenon, <1>1, <1>2, InRename DEF DyingInv, GoneSteps
<1>4. StepInv'
  BY Zenon, <1>2 DEF StepInv
<1> QED BY Zenon, <1>1, <1>2, <1>3, <1>4, PassWrites

\* Once the new claim is verified against the volume it serves it.
LEMMA MarkActiveKeeps == ASSUME IInv, MarkActive PROVE IInv'
<1>1. /\ pc \in RenameSteps /\ pc = "markActive" /\ "active" \in Roles
      /\ "save" \in RenameSteps
  BY Zenon DEF MarkActive, RenameSteps, Roles
<1>2. CASE /\ VerifyBinding(To, current, SourcePV)
           /\ EnsureRetain(SourcePV, "active") /\ Goto("save")
  <2>1. /\ pvc[To].uid = current.uid /\ current.uid # 0 /\ pvc[To].bound
        /\ pvc[To].volume = SourcePV /\ ~pvc[From].deleting
        /\ pv[SourcePV].claim = To /\ pv[SourcePV].claimUID = current.uid
    BY Zenon, <1>1, <1>2 DEF IInv, PassInv, StepInv, DyingInv, GoneSteps, VerifyBinding
  <2>2. ~pvc[To].deleting
    BY Zenon, <1>1, InRename
  <2>3. Serves(To, current.uid)'
    BY Zenon, <1>1, <1>2, <2>1, <2>2, RetainEffect, GotoEffect DEF Serves, VerifyIdentity, VerifyBinding
  <2>4. DyingInv' /\ StepInv'
    BY Zenon, <1>1, <1>2, <2>1, <2>3, RetainEffect, GotoEffect, InRename DEF DyingInv, StepInv
  <2> QED BY <1>1, <1>2, <2>4, RetainEffect, GotoEffect, PassWrites
<1> QED BY Zenon, <1>2, FailKeeps DEF MarkActive

\* The old claim is deleted under the Retain policy.
LEMMA DeleteKeeps == ASSUME IInv, Delete PROVE IInv'
<1> USE Typed
<1>1. /\ pc \in RenameSteps /\ pc = "delete" /\ "sourceGone" \in RenameSteps
      /\ Marked /\ pv[SourcePV].policy = "Retain"
  BY Zenon DEF Delete, RenameSteps, IInv, PassInv, StepInv, RetainedSteps
<1>2. ASSUME NEW u, DeletePVC(From, u), Goto("sourceGone") PROVE IInv'
  <2>1. /\ UNCHANGED <<pv, lastUID, pod, attached, pods, intrusions>>
        /\ pvc' = IF pvc[From].uid # 0 THEN [pvc EXCEPT ![From].deleting = TRUE] ELSE pvc
    BY Zenon, <1>2 DEF DeletePVC, Exists
  <2>2. /\ pvc' \in [Claims -> ClaimObject]
        /\ \A k \in Claims : /\ pvc'[k].uid = pvc[k].uid
                             /\ k # From => pvc'[k].deleting = pvc[k].deleting
        /\ pvc[From].uid = 0 => pvc' = pvc
    BY ZenonT(30), <2>1 DEF ClaimObject
  <2>3. StorageTypeOK' /\ ClaimsOK'
    BY Zenon, <2>1, <2>2 DEF StorageTypeOK, IInv, StoreInv, ClaimsOK
  <2>4. RefOK' /\ DataKept' /\ InPlace' /\ Marked'
    BY Zenon, <1>1, <2>1, <2>2 DEF IInv, StoreInv, RefOK, DataKept, Live, InPlace, Marked
  <2>5. pc' = "sourceGone" /\ From' = From /\ phase' = phase
    BY Zenon, <1>2, GotoEffect
  <2>6. DyingInv'
    BY Zenon, <1>1, <2>1, <2>2, <2>5, InRename DEF DyingInv, GoneSteps
  <2>7. StepInv'
    BY Zenon, <1>1, <2>1, <2>2, <2>4, <2>5 DEF StepInv
  <2> QED BY Zenon, <1>1, <1>2, <2>3, <2>4, <2>6, <2>7, GotoEffect, PassWrites DEF StoreInv
<1> QED BY Zenon, <1>2, FailKeeps DEF Delete

\* The volume is reserved for the new name when the old claim is gone.
LEMMA ReserveKeeps == ASSUME IInv, Reserve PROVE IInv'
<1> USE Typed
<1>1. /\ pc \in RenameSteps /\ pc = "reserve" /\ "create" \in RenameSteps
      /\ Marked /\ pv[SourcePV].policy = "Retain" /\ ~pvc[From].deleting
  BY Zenon DEF Reserve, RenameSteps, IInv, PassInv, StepInv, RetainedSteps, DyingInv, GoneSteps
<1>2. CASE ReservePV(SourcePV, To) /\ Goto("create")
  <2>1. /\ UNCHANGED <<pvc, lastUID, pod, attached, pods, intrusions>>
        /\ pv' = pv \/ pv' = [pv EXCEPT ![SourcePV].claim = To, ![SourcePV].claimUID = 0]
    BY Zenon, <1>2 DEF ReservePV
  <2>2. /\ pv' \in [Volumes -> VolumeObject]
        /\ pv'[SourcePV].policy = "Retain" /\ pv'[SourcePV].session = pv[SourcePV].session
        /\ pv'[SourcePV].original = pv[SourcePV].original
        /\ pv'[SourcePV].phase = pv[SourcePV].phase
        /\ pv'[SourcePV] = pv[SourcePV]
             \/ (pv'[SourcePV].claim = To /\ pv'[SourcePV].claimUID = 0)
    BY <1>1, <2>1 DEF VolumeObject
  <2>3. StorageTypeOK' /\ ClaimsOK'
    BY Zenon, <2>1, <2>2 DEF StorageTypeOK, IInv, StoreInv, ClaimsOK
  <2>4. RefOK' /\ DataKept' /\ InPlace' /\ Marked'
    BY <1>1, <2>1, <2>2 DEF IInv, StoreInv, RefOK, DataKept, Live, InPlace, Marked
  <2>5. pc' = "create" /\ From' = From /\ phase' = phase
    BY Zenon, <1>2, GotoEffect
  <2>6. DyingInv'
    BY Zenon, <1>1, <2>1, <2>2, <2>5, InRename DEF DyingInv, GoneSteps
  <2>7. StepInv'
    BY Zenon, <1>1, <2>1, <2>2, <2>4, <2>5 DEF StepInv
  <2> QED BY <1>1, <1>2, <2>3, <2>4, <2>6, <2>7, GotoEffect, PassWrites DEF StoreInv
<1> QED BY Zenon, <1>2, FailKeeps DEF Reserve

\* The new claim gets a UID that nothing refers to.
LEMMA CreateKeeps == ASSUME IInv, Create PROVE IInv'
<1> USE Typed
<1>1. /\ pc \in RenameSteps /\ pc = "create" /\ "bound" \in RenameSteps
      /\ Marked /\ pv[SourcePV].policy = "Retain" /\ ~pvc[From].deleting
  BY Zenon DEF Create, RenameSteps, IInv, PassInv, StepInv, RetainedSteps, DyingInv, GoneSteps
<1>2. CASE /\ CreateBoundPVC(To, SourcePV) /\ pc' = "bound" /\ current' = pvc'[To]
           /\ UNCHANGED <<phase, failed, planned, active, record, bounds>>
  <2> DEFINE c == NewClaim(lastUID + 1, SourcePV, TRUE)
  <2>1. /\ UNCHANGED <<pv, pod, attached, pods, intrusions>>
        /\ \/ pvc[To].uid # 0 /\ UNCHANGED <<pvc, lastUID>>
           \/ pvc[To].uid = 0 /\ pvc' = [pvc EXCEPT ![To] = c] /\ lastUID' = lastUID + 1
    BY Zenon, <1>2 DEF CreateBoundPVC, Exists
  <2>2. lastUID + 1 \in Nat /\ lastUID + 1 > lastUID /\ lastUID + 1 # 0
    OBVIOUS
  <2>3. c \in ClaimObject /\ c.uid = lastUID + 1 /\ ~c.deleting
    BY Zenon, <2>2, NewClaimOK
  <2> HIDE DEF c
  <2>4. /\ pvc' \in [Claims -> ClaimObject] /\ lastUID' \in Nat /\ lastUID' >= lastUID
        /\ pvc'[To].uid # 0 /\ \A k \in Claims : k # To => pvc'[k] = pvc[k]
        /\ pvc'[To] = pvc[To] \/ (pvc'[To] = c /\ lastUID' = lastUID + 1)
    BY <2>1, <2>2, <2>3
  <2>5. StorageTypeOK'
    BY Zenon, <2>1, <2>4 DEF StorageTypeOK, IInv, StoreInv
  <2>6. ClaimsOK'
    BY <2>3, <2>4 DEF IInv, StoreInv, ClaimsOK
  <2>7. RefOK' /\ DataKept'
    <3>1. pv[SourcePV].claimUID \in Nat
      BY Zenon DEF VolumeObject
    <3> QED BY <2>1, <2>3, <2>4, <3>1 DEF IInv, StoreInv, RefOK, DataKept, Live
  <2>8. InPlace' /\ Marked'
    BY Zenon, <1>1, <2>1 DEF InPlace, Marked
  <2>9. From' = From /\ To' = To /\ current' \in ClaimObject /\ current'.uid # 0
    BY Zenon, <1>2, <2>4 DEF From, To, Back
  <2>10. DyingInv'
    BY Zenon, <1>1, <1>2, <2>3, <2>4, <2>9, InRename DEF DyingInv
  <2>11. StepInv'
    BY Zenon, <1>1, <1>2, <2>1, <2>8, <2>9 DEF StepInv
  <2> QED BY Zenon, <1>1, <1>2, <2>5, <2>6, <2>7, <2>8, <2>9, <2>10, <2>11, PassWrites DEF StoreInv
<1> QED BY Zenon, <1>2, FailKeeps DEF Create

-----------------------------------------------------------------------------
(* Cleanup and the provisioner *)

\* The writes of a cleanup pass, and of the provisioner, to a settled workflow.
LEMMA SettledWrites ==
    ASSUME IInv, StoreInv', UNCHANGED <<phase, failed, planned, active, record, current>>,
           record # "gone", bounds' \in Bounds,
           pc' \in {"idle", "finalizePV", "deleteRecord"},
           pc' # "idle" => phase \in {"Completed", "RolledBack", "Aborted"},
           phase \in {"Completed", "RolledBack"} => Serves(ActiveClaim, active)',
           phase \in {"Planned", "Aborting", "Aborted"} => Whole', pc' = "deleteRecord" => Whole',
           \A l \in Claims : pvc'[l].deleting = pvc[l].deleting
    PROVE  IInv'
<1>0. /\ From' = From /\ ActiveClaim' = ActiveClaim /\ phase' = phase /\ planned' = planned
      /\ record' = record
  BY Zenon DEF From, ActiveClaim, Back
<1>1. TypeOK'
  BY Zenon DEF IInv, PassInv, TypeOK, Bounds, StoreInv
<1>2. Control'
  BY <1>0 DEF IInv, PassInv, Control, RenameSteps
<1>3. DyingInv'
  BY Zenon, <1>0 DEF IInv, PassInv, DyingInv, GoneSteps
<1>4. StepInv'
  BY Zenon DEF StepInv, RetainedSteps
<1>5. RecordInv'
  BY Zenon, <1>0 DEF IInv, PassInv, RecordInv
<1> QED BY Zenon, <1>1, <1>2, <1>3, <1>4, <1>5 DEF IInv, PassInv

\* What is known when a cleanup pass is under way.
LEMMA InCleanup ==
    ASSUME IInv, pc \in {"finalizePVC", "finalizePV"}
    PROVE  /\ phase \in {"Completed", "RolledBack", "Aborted"} /\ record # "gone"
           /\ phase \in {"Completed", "RolledBack"} => Serves(ActiveClaim, active)
           /\ phase = "Aborted" => Whole
           /\ Whole \/ Marked
           /\ bounds \in Bounds /\ Live(SourcePV)
BY Zenon DEF IInv, PassInv, Control, RecordInv, TypeOK, Bounds, StoreInv, DataKept

\* Cleanup takes the ownership marks off the recorded claim.
LEMMA FinalizePVCKeeps == ASSUME IInv, FinalizePVC PROVE IInv'
<1> USE Typed
<1>1. CASE /\ pvc' = pvc \/ pvc' = [pvc EXCEPT ![ActiveClaim].session = FALSE]
           /\ UNCHANGED <<pv, lastUID, pod, attached, pods, intrusions>>
           /\ Goto("finalizePV")
  <2> DEFINE d == [pvc[ActiveClaim] EXCEPT !.session = FALSE]
  <2>1. pvc[ActiveClaim] \in ClaimObject
    BY Zenon
  <2>2. /\ d \in ClaimObject
        /\ d.uid = pvc[ActiveClaim].uid /\ d.volume = pvc[ActiveClaim].volume
        /\ d.bound = pvc[ActiveClaim].bound /\ d.deleting = pvc[ActiveClaim].deleting
    BY Zenon, <2>1 DEF ClaimObject
  <2>3. pvc' = pvc \/ pvc' = [pvc EXCEPT ![ActiveClaim] = d]
    BY Zenon, <1>1
  <2> HIDE DEF d
  <2>4. /\ pvc' \in [Claims -> ClaimObject]
        /\ \A k \in Claims : /\ pvc'[k].uid = pvc[k].uid /\ pvc'[k].volume = pvc[k].volume
                             /\ pvc'[k].bound = pvc[k].bound
                             /\ pvc'[k].deleting = pvc[k].deleting
    BY Zenon, <2>2, <2>3
  <2>5. StoreInv'
    <3>1. StorageTypeOK' /\ ClaimsOK'
      BY Zenon, <1>1, <2>4 DEF StorageTypeOK, IInv, StoreInv, ClaimsOK
    <3>2. RefOK' /\ DataKept' /\ InPlace'
      BY Zenon, <1>1, <2>4 DEF IInv, StoreInv, RefOK, DataKept, Live, InPlace
    <3>3. (Whole \/ Marked)'
      BY Zenon, <1>1 DEF IInv, StoreInv, Whole, Marked
    <3> QED BY Zenon, <3>1, <3>2, <3>3 DEF StoreInv
  <2>6. Serves(ActiveClaim, active) => Serves(ActiveClaim, active)'
    BY ZenonT(30), <1>1, <2>4, GotoEffect DEF Serves, VerifyIdentity, VerifyBinding, Live
  <2>7. Whole => Whole'
    BY Zenon, <1>1 DEF Whole
  <2>8. pc = "finalizePVC" /\ pc' = "finalizePV"
    BY Zenon, <1>1 DEF FinalizePVC, Goto
  <2>9. UNCHANGED <<phase, failed, planned, active, record, current>> /\ bounds' \in Bounds
    BY Zenon, <1>1, <2>8, InCleanup DEF Goto
  <2> QED BY Zenon, <2>4, <2>5, <2>6, <2>7, <2>8, <2>9, InCleanup, SettledWrites
<1> QED BY Zenon, <1>1, FailKeeps DEF FinalizePVC

\* The annotated policy comes back to a volume whose claim stays.
LEMMA PolicyBack ==
    ASSUME IInv, Serves(ActiveClaim, active), Marked, NEW p \in VolumeObject,
           pv' = [pv EXCEPT ![SourcePV] = p],
           UNCHANGED <<pvc, lastUID, pod, attached, pods, intrusions>>,
           p.claim = pv[SourcePV].claim, p.claimUID = pv[SourcePV].claimUID,
           p.phase = pv[SourcePV].phase, ActiveClaim' = ActiveClaim, active' = active,
           \/ p.session /\ p.original = InitialPolicy[SourcePV]
           \/ /\ ~p.session /\ p.role = "none" /\ p.original = "none"
              /\ p.policy = InitialPolicy[SourcePV]
    PROVE  StoreInv' /\ Serves(ActiveClaim, active)' /\ (~p.session => Whole')
<1> USE Typed
<1>1. pv' \in [Volumes -> VolumeObject] /\ pv'[SourcePV] = p
  BY Zenon
<1>2. /\ pv[SourcePV].claim = ActiveClaim /\ pv[SourcePV].claimUID = active /\ active # 0
      /\ pvc[ActiveClaim].uid = active /\ ~pvc[ActiveClaim].deleting
  BY Zenon DEF Serves, VerifyIdentity, VerifyBinding
<1>3. StorageTypeOK' /\ ClaimsOK'
  BY Zenon, <1>1 DEF StorageTypeOK, IInv, StoreInv, ClaimsOK
<1>4. RefOK' /\ DataKept' /\ InPlace'
  BY Zenon, <1>1, <1>2 DEF IInv, StoreInv, RefOK, DataKept, Live, InPlace
<1>5. (Whole \/ Marked)' /\ (~p.session => Whole')
  BY Zenon, <1>1 DEF Whole, Marked
<1>6. Serves(ActiveClaim, active)'
  BY Zenon, <1>1, <1>2 DEF Serves, VerifyIdentity, VerifyBinding, Live
<1> QED BY Zenon, <1>3, <1>4, <1>5, <1>6 DEF StoreInv

\* Cleanup gives the volume back with its own policy, which is safe as the recorded
\* claim serves it.
LEMMA FinalizePVKeeps == ASSUME IInv, FinalizePV PROVE IInv'
<1> USE Typed
<1>0. pc = "finalizePV"
  BY Zenon DEF FinalizePV
<1>1. CASE ~pv[SourcePV].session /\ Skip("deleteRecord")
  <2>1. Whole
    BY Zenon, <1>0, <1>1, InCleanup DEF Marked
  <2>2. UNCHANGED <<storageVars, phase, failed, planned, active, record, bounds, current>>
    BY Zenon, <1>1 DEF Skip, Goto
  <2>3. pc' = "deleteRecord" /\ From' = From /\ current' \in ClaimObject
    BY Zenon, <1>1, GotoEffect DEF Skip
  <2>4. Control'
    BY Zenon, <1>0, <2>2, <2>3, InCleanup DEF IInv, PassInv, Control, RenameSteps
  <2>5. DyingInv' /\ StepInv'
    BY Zenon, <2>2, <2>3, StorageSame DEF IInv, PassInv, DyingInv, StepInv, GoneSteps, RetainedSteps
  <2> QED BY Zenon, <1>0, <2>1, <2>2, <2>3, <2>4, <2>5, GoesOn, InCleanup
<1>2. CASE /\ pv[SourcePV].session
           /\ pv' = [pv EXCEPT ![SourcePV] = GivenBack(pv[SourcePV])]
           /\ UNCHANGED <<pvc, lastUID, pod, attached, pods, intrusions>>
           /\ Goto("deleteRecord")
  <2>1. Marked /\ phase \in {"Completed", "RolledBack"} /\ Serves(ActiveClaim, active)
    BY Zenon, <1>0, <1>2, InCleanup DEF Whole
  <2> DEFINE p == GivenBack(pv[SourcePV])
  <2>2. InitialPolicy[SourcePV] \in Policies
    BY Zenon, StorageAssumption
  <2>3. /\ p \in VolumeObject /\ p.claim = pv[SourcePV].claim
        /\ p.claimUID = pv[SourcePV].claimUID
        /\ p.phase = pv[SourcePV].phase /\ ~p.session /\ p.role = "none"
        /\ p.original = "none" /\ p.policy = InitialPolicy[SourcePV]
    BY Zenon, <2>1, <2>2 DEF GivenBack, VolumeObject, Marked, Policies, Roles
  <2> HIDE DEF p
  <2>4. pv' = [pv EXCEPT ![SourcePV] = p]
    BY Zenon, <1>2 DEF p
  <2>5. /\ UNCHANGED <<phase, failed, planned, active, record, current, bounds>>
        /\ pc' = "deleteRecord" /\ ActiveClaim' = ActiveClaim
    BY Zenon, <1>2, GotoEffect
  <2>6. StoreInv' /\ Serves(ActiveClaim, active)' /\ Whole'
    BY Zenon, <1>2, <2>1, <2>3, <2>4, <2>5, PolicyBack
  <2>7. bounds' \in Bounds
    BY Zenon, <1>0, <2>5, InCleanup
  <2> QED BY Zenon, <1>0, <1>2, <2>1, <2>5, <2>6, <2>7, InCleanup, SettledWrites
<1> QED BY Zenon, <1>0, <1>1, <1>2, FailKeeps, InCleanup DEF FinalizePV

\* The provisioner's restore of the policy finds the renamed claim in place.
LEMMA RestorePolicyKeeps == ASSUME IInv, RestorePolicy PROVE IInv'
<1> USE Typed
<1>1. /\ pc = "idle" /\ phase = "Completed" /\ pv[SourcePV].session
      /\ UNCHANGED <<pvc, lastUID, pod, attached, pods, intrusions>>
      /\ UNCHANGED <<phase, failed, planned, active, record, current>> /\ pc' = "idle"
      /\ ActiveClaim' = ActiveClaim
  BY Zenon DEF RestorePolicy, passVars, ActiveClaim
<1>2. Marked /\ record # "gone" /\ Serves(ActiveClaim, active)
  BY Zenon, <1>1 DEF IInv, StoreInv, PassInv, RecordInv, Whole
<1> DEFINE p == [pv[SourcePV] EXCEPT !.policy = pv[SourcePV].original]
<1>3. InitialPolicy[SourcePV] \in Policies
  BY Zenon, StorageAssumption
<1>4. /\ p \in VolumeObject /\ p.claim = pv[SourcePV].claim
      /\ p.claimUID = pv[SourcePV].claimUID
      /\ p.phase = pv[SourcePV].phase /\ p.session
      /\ p.original = InitialPolicy[SourcePV]
  BY Zenon, <1>1, <1>2, <1>3 DEF VolumeObject, Marked
<1>5. pv' = [pv EXCEPT ![SourcePV] = p]
  BY Zenon DEF RestorePolicy
<1> HIDE DEF p
<1>6. StoreInv' /\ Serves(ActiveClaim, active)'
  BY Zenon, <1>1, <1>2, <1>4, <1>5, PolicyBack
<1>7. bounds' \in Bounds
  BY RenameAssumption DEF RestorePolicy, IInv, PassInv, TypeOK, Bounds
<1> QED BY Zenon, <1>1, <1>2, <1>6, <1>7, SettledWrites

-----------------------------------------------------------------------------
(* The invariant and what follows from it *)

\* The invariant holds before the workflow starts.
LEMMA InitInv == Init => IInv
<1> SUFFICES ASSUME Init PROVE IInv
  BY Zenon
<1> USE StorageAssumption, RenameAssumption
<1> DEFINE c == [uid |-> SourceUID, volume |-> SourcePV, session |-> FALSE,
                 bound |-> TRUE, deleting |-> FALSE]
<1>1. c \in ClaimObject /\ NoObject \in ClaimObject /\ NoObject.uid = 0 /\ ~NoObject.deleting
  BY Zenon, NoObjectOK DEF ClaimObject, SourceUID, NoObject, NewClaim
<1>2. /\ pvc = [l \in Claims |-> IF l = SourceClaim THEN c ELSE NoObject]
      /\ c.uid = 1 /\ ~c.deleting /\ c.bound /\ c.volume = SourcePV
  BY Zenon DEF Init, SourceUID
<1> HIDE DEF c
<1>3. /\ pvc \in [Claims -> ClaimObject] /\ pvc[SourceClaim] = c
      /\ \A l \in Claims : pvc[l].uid <= 1 /\ ~pvc[l].deleting
  BY <1>1, <1>2
<1>4. /\ pv \in [Volumes -> VolumeObject]
      /\ pv[SourcePV].claim = SourceClaim /\ pv[SourcePV].claimUID = 1
      /\ pv[SourcePV].phase = "Bound" /\ ~pv[SourcePV].session /\ pv[SourcePV].role = "none"
      /\ pv[SourcePV].original = "none" /\ pv[SourcePV].policy = InitialPolicy[SourcePV]
  BY Zenon DEF Init, VolumeObject, Roles, Policies, SourceUID
<1>5. lastUID = 1 /\ pod = NoClaim /\ attached = {} /\ pods = 0 /\ intrusions = 0
  BY Zenon DEF Init, SourceUID
<1>6. StorageTypeOK
  BY <1>3, <1>4, <1>5 DEF StorageTypeOK
<1>7. StoreInv
  BY <1>2, <1>3, <1>4, <1>5, <1>6 DEF StoreInv, ClaimsOK, RefOK, InPlace, Whole, DataKept, Live
<1>8. TypeOK
  <2>1. bounds \in Bounds
    BY DEF Init, Bounds
  <2> QED BY Zenon, <1>1, <1>6, <2>1 DEF TypeOK, Init, Phases, Bounds
<1>9. Control /\ DyingInv /\ StepInv
  BY Zenon, <1>3 DEF Init, Control, DyingInv, StepInv, RenameSteps, RetainedSteps, GoneSteps
<1>10. RecordInv
  BY Zenon, <1>4 DEF Init, RecordInv, Whole
<1> QED BY Zenon, <1>7, <1>8, <1>9, <1>10 DEF IInv, PassInv

\* A step of something else keeps the invariant.
LEMMA StutterKeeps == ASSUME IInv, UNCHANGED vars PROVE IInv'
<1>1. UNCHANGED <<storageVars, phase, failed, planned, active, record, pc, current, bounds>>
  BY Zenon DEF vars, passVars
<1>2. From' = From /\ To' = To /\ ActiveClaim' = ActiveClaim
  BY Zenon, <1>1 DEF From, To, ActiveClaim, Back
<1> USE StorageSame
<1>3. TypeOK' /\ Control'
  BY ZenonT(60), <1>1 DEF IInv, PassInv, TypeOK, Control
<1>4. DyingInv' /\ StepInv' /\ RecordInv'
  BY Zenon, <1>1, <1>2 DEF IInv, PassInv, DyingInv, StepInv, RecordInv
<1> QED BY Zenon, <1>1, <1>3, <1>4 DEF IInv, PassInv

\* Every step keeps the invariant.
LEMMA NextInv == ASSUME IInv, [Next]_vars PROVE IInv'
<1>1. CASE RenameStep
  BY Zenon, <1>1, ProbeKeeps, RetainKeeps, DeleteKeeps, SourceGoneKeeps, ReserveKeeps, CreateKeeps,
     BoundKeeps, MarkActiveKeeps, SaveActiveKeeps DEF RenameStep
<1>2. CASE CleanupStep
  BY Zenon, <1>2, AbortedKeeps, FinalizePVCKeeps, FinalizePVKeeps, DeleteRecordKeeps DEF CleanupStep
<1> QED BY Zenon, <1>1, <1>2, PlanKeeps, StartRenameKeeps, RequestResumeKeeps, StartRollbackKeeps,
        RejectRollbackKeeps, AbortKeeps, StartCleanupKeeps, DeleteObjectKeeps, CrashKeeps,
        RestorePolicyKeeps, EnvironmentKeeps, StutterKeeps DEF Next

\* The inductive invariant holds throughout, for every set of claims and volumes and
\* every number of crashes, policy restores, rollbacks, Pods and foreign claims.
THEOREM Invariance == Spec => []IInv
BY InitInv, NextInv, PTL DEF Spec

\* The only copy of the data survives every rename, rollback, crash and deletion of
\* the workflow object by RenameExecutor and MoveExecutor, and a finished change
\* leaves the recorded claim bound to it.
THEOREM ServesTheData == Spec => []DataServed
<1>1. IInv => DataServed
  BY DEF IInv, StoreInv, PassInv, RecordInv, Serves, DataServed, RecordedServes
<1> QED BY <1>1, Invariance, PTL

\* Once cleanup or FinalizeDeleted has let the workflow object go, the volume has its
\* original reclaim policy and carries nothing of the workflow.
THEOREM GivesBackWhole == Spec => []GivenBackWhole
<1>1. IInv => GivenBackWhole
  BY DEF IInv, PassInv, RecordInv, Whole, GivenBackWhole
<1> QED BY <1>1, Invariance, PTL

\* Only Delete marks a claim for deletion.
LEMMA OnlyDelete ==
    ASSUME IInv, [Next]_vars, ~Delete, NEW l \in Claims, ~pvc[l].deleting
    PROVE  ~pvc'[l].deleting
<1> USE Typed
<1>1. CASE UNCHANGED storageVars
  BY Zenon, <1>1 DEF storageVars
<1>2. CASE UNCHANGED pvc
  BY Zenon, <1>2
<1>3. CASE Create
  <2>1. \/ UNCHANGED pvc \/ UNCHANGED storageVars
        \/ pvc' = [pvc EXCEPT ![To] = NewClaim(lastUID + 1, SourcePV, TRUE)]
    BY Zenon, <1>3 DEF Create, CreateBoundPVC, FailIf
  <2> QED BY <1>1, <2>1 DEF NewClaim
<1>4. CASE FinalizePVC
  <2>1. \/ UNCHANGED pvc \/ UNCHANGED storageVars
        \/ pvc' = [pvc EXCEPT ![ActiveClaim].session = FALSE]
    BY Zenon, <1>4 DEF FinalizePVC, FailIf
  <2> QED BY Zenon, <1>1, <2>1 DEF ClaimObject
<1>5. CASE Environment
  <2>1. ASSUME NEW k \in Claims, NEW v \in Volumes, BindNamed(k, v) PROVE ~pvc'[l].deleting
    BY Zenon, <2>1 DEF BindNamed, ClaimObject
  <2>2. ASSUME NEW k \in Claims, BindAny(k) PROVE ~pvc'[l].deleting
    BY <2>2 DEF BindAny, ClaimObject
  <2>3. ASSUME NEW k \in Claims, FinishDelete(k) PROVE ~pvc'[l].deleting
    BY Zenon, <2>3, NoObjectOK DEF FinishDelete
  <2>4. ASSUME NEW k \in Claims, Intrude(k) PROVE ~pvc'[l].deleting
    BY Zenon, <2>4 DEF Intrude, NewClaim
  <2> QED BY Zenon, <1>2, <1>5, <2>1, <2>2, <2>3, <2>4 DEF Environment, Controllers, Reclaim, StartPod,
            StopPod, Release, MakeAvailable, Detach
<1>6. CASE Retain \/ MarkActive \/ Reserve \/ FinalizePV \/ RestorePolicy
  BY Zenon, <1>1, <1>2, <1>6 DEF Retain, MarkActive, Reserve, FinalizePV, RestorePolicy, EnsureRetain,
     ReservePV, FailIf, Skip
<1>7. CASE Plan \/ StartRename \/ RequestResume \/ StartRollback \/ RejectRollback \/ Abort
  BY Zenon, <1>1, <1>7 DEF Plan, StartRename, RequestResume, StartRollback, RejectRollback, Abort,
     Transition, FailIf
<1>8. CASE StartCleanup \/ Probe \/ SourceGone \/ Bound \/ SaveActive \/ Aborted
  BY Zenon, <1>1, <1>8 DEF StartCleanup, Probe, SourceGone, Bound, SaveActive, Aborted, Transition,
     FailIf, Skip, Take
<1>9. CASE DeleteRecord \/ DeleteObject \/ Crash \/ UNCHANGED vars
  BY Zenon, <1>1, <1>9 DEF DeleteRecord, DeleteObject, Crash, vars
<1> QED BY Zenon, <1>3, <1>4, <1>5, <1>6, <1>7, <1>8, <1>9 DEF Next, RenameStep, CleanupStep

\* RenamePVC marks a claim for deletion only while the volume is retained with the
\* session and the policy to give back on it, and only the planned or recorded claim,
\* whoever created another under that name.
THEOREM DeletesOnlySafely == Spec => DeletesSafely
<1> DEFINE Retains == \A l \in Claims : Deletes(l) =>
                          /\ pv[SourcePV].session /\ pv[SourcePV].policy = "Retain"
                          /\ pv[SourcePV].original # "none"
           Owns == \A l \in Claims : Deletes(l) => pvc[l].uid \in {SourceUID, active}
<1>1. IInv /\ [Next]_vars => Retains /\ Owns
  <2> SUFFICES ASSUME IInv, [Next]_vars, NEW l \in Claims, Deletes(l)
               PROVE  /\ pv[SourcePV].session /\ pv[SourcePV].policy = "Retain"
                      /\ pv[SourcePV].original # "none"
                      /\ pvc[l].uid \in {SourceUID, active}
    BY Zenon
  <2> USE Typed
  <2>1. Delete
    BY Zenon, OnlyDelete DEF Deletes
  <2>2. /\ pv[SourcePV].session /\ pv[SourcePV].policy = "Retain"
        /\ pv[SourcePV].original # "none"
    <3>1. InitialPolicy[SourcePV] \in Policies
      BY Zenon, StorageAssumption, Typed
    <3> QED BY Zenon, <2>1, <3>1 DEF Delete, IInv, PassInv, StepInv, RetainedSteps, Marked, Policies
  <2>3. pvc' # pvc
    BY Zenon DEF Deletes
  <2>4. \E u \in {SourceUID, active} : DeletePVC(From, u)
    BY Zenon, <2>1, <2>3 DEF Delete, FailIf, storageVars
  <2>5. l = From
    BY Zenon, <2>4 DEF DeletePVC, Deletes
  <2> QED BY Zenon, <2>2, <2>4, <2>5 DEF DeletePVC, Deletes, Exists
<1>2. Spec => [][Retains]_vars /\ [][Owns]_vars
  BY <1>1, Invariance, PTL DEF Spec
<1> QED BY Zenon, <1>2 DEF DeletesSafely, DeletesRetained, DeletesOwn

=============================================================================
