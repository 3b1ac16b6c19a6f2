------------------------- MODULE VolumeCutoverProofs -------------------------
(***************************************************************************)
(* Proofs about VolumeCutover, for any set of claims and volumes, any      *)
(* number of crashes, of stray Pods and foreign claims, and any initial    *)
(* reclaim policies: the source volume is never reclaimed, the original    *)
(* reclaim policies stay on record, and the workflow deletes only claims   *)
(* of its own, on volumes it has retained.  The first half has the         *)
(* invariant and shows that every single write to the cluster keeps the    *)
(* part of it that is about the cluster; the second half is about passes.  *)
(***************************************************************************)
EXTENDS VolumeCutover, TLAPS

Steps == {"idle"} \cup ActivateSteps \cup RollbackSteps

\* The steps between retaining the source volume and the first step that
\* lets go of its claim or of its claimRef.
PinnedSteps ==
    {"retainDestination", "deleteTemporary", "temporaryGone", "deleteSource",
     "restoreRetainDestination", "restoreReserve"}

RetireSteps == {"retireRetain", "retireDelete"}

\* The two claims of the plan are where the plan has them, for as long as
\* they exist.
RecordedClaims ==
    \A l \in Claims :
        /\ pvc[l].uid = SourceUID => l = SourceClaim /\ pvc[l].volume = SourcePV
        /\ pvc[l].uid = TemporaryUID =>
              l = TemporaryClaim /\ pvc[l].volume = DestinationPV

\* Marks and recorded policies come and stay together.
Marked(v) ==
    IF pv[v].session THEN pv[v].original = InitialPolicy[v]
    ELSE pv[v].original = "none" /\ pv[v].policy = InitialPolicy[v]

MarkedPair ==
    /\ Marked(SourcePV) /\ Marked(DestinationPV)
    /\ pv[DestinationPV].session
    /\ pv[DestinationPV].policy = "Retain" \/ restores > 0

\* Until the source volume is retained, its claim is in place.
SourceInPlace ==
    pv[SourcePV].policy # "Retain" =>
        /\ pv[SourcePV].phase = "Bound"
        /\ pv[SourcePV].claim = SourceClaim /\ pv[SourcePV].claimUID = SourceUID
        /\ pvc[SourceClaim].uid = SourceUID /\ ~pvc[SourceClaim].deleting

\* The source volume is retained, and marked.
SourcePinned == pv[SourcePV].policy = "Retain" /\ pv[SourcePV].session

Pinned == pc \in PinnedSteps => SourcePinned

\* The claim that a rollback is about to delete is one that the session
\* created on the destination volume.
Retiring ==
    pc \in RetireSteps =>
        /\ current.uid \notin {0, SourceUID}
        /\ pvc[at].uid = current.uid =>
              pvc[at].volume = DestinationPV /\ pvc[at].session

\* The part of the invariant that is about the objects of the cluster ...
StorageInv ==
    /\ StorageTypeOK
    /\ lastUID >= TemporaryUID
    /\ \A l \in Claims : pvc[l].uid <= lastUID
    /\ RecordedClaims
    /\ MarkedPair
    /\ SourceKept
    /\ SourceInPlace

\* ... and the part that is about the running pass.
PassInv ==
    /\ phase \in Phases
    /\ failed \in BOOLEAN
    /\ status \in Checkpoint
    /\ pc \in Steps
    /\ current \in ClaimObject /\ current.uid <= lastUID
    /\ at \in Claims
    /\ crashes \in 0..MaxCrashes
    /\ restores \in 0..MaxRestores
    /\ Pinned
    /\ Retiring

IInv == StorageInv /\ PassInv

-----------------------------------------------------------------------------
(* The writes of the Switcher *)

\* Retaining a volume (ensureRetain, markPVPair) keeps the storage invariant
\* and leaves the source volume retained if it was, or is the one retained.
LEMMA RetainStep ==
    ASSUME StorageInv, restores' = restores,
           NEW v \in {SourcePV, DestinationPV}, NEW role \in Roles,
           EnsureRetain(v, role)
    PROVE  /\ StorageInv'
           /\ SourcePinned \/ v = SourcePV => SourcePinned'
           /\ pvc' = pvc /\ lastUID' = lastUID
<1> USE StorageAssumption, CutoverAssumption
<1>1. v \in Volumes /\ pv[v] \in VolumeObject
  BY Zenon DEF StorageInv, StorageTypeOK
<1>2. /\ pvc' = pvc /\ lastUID' = lastUID
      /\ UNCHANGED <<pod, attached, pods, intrusions>>
      /\ pv' = [pv EXCEPT ![v] = Retained(pv[v], role)]
  BY Zenon DEF EnsureRetain
<1>3. /\ Retained(pv[v], role) \in VolumeObject
      /\ Retained(pv[v], role).policy = "Retain"
      /\ Retained(pv[v], role).session
      /\ Retained(pv[v], role).original =
            IF pv[v].original = "none" THEN pv[v].policy ELSE pv[v].original
      /\ Retained(pv[v], role).claim = pv[v].claim
      /\ Retained(pv[v], role).claimUID = pv[v].claimUID
      /\ Retained(pv[v], role).phase = pv[v].phase
  BY Zenon, <1>1 DEF Retained, VolumeObject, Policies
<1>4. /\ pv' \in [Volumes -> VolumeObject]
      /\ pv'[v] = Retained(pv[v], role)
      /\ \A w \in Volumes : w # v => pv'[w] = pv[w]
  BY Zenon, <1>1, <1>2, <1>3 DEF StorageInv, StorageTypeOK
<1>5. StorageTypeOK'
  BY Zenon, <1>2, <1>4 DEF StorageInv, StorageTypeOK
<1>6. MarkedPair'
  BY <1>3, <1>4 DEF StorageInv, MarkedPair, Marked, Policies
<1>7. SourceKept' /\ SourceInPlace'
  BY Zenon, <1>2, <1>3, <1>4 DEF StorageInv, SourceKept, Live, SourceInPlace
<1>8. RecordedClaims'
  BY Zenon, <1>2 DEF StorageInv, RecordedClaims
<1>9. SourcePinned \/ v = SourcePV => SourcePinned'
  BY Zenon, <1>3, <1>4 DEF SourcePinned
<1> QED
  BY Zenon, <1>2, <1>5, <1>6, <1>7, <1>8, <1>9 DEF StorageInv

\* Deleting a claim (deletePVC) keeps the storage invariant, provided that
\* the original source claim goes only after its volume is retained.
LEMMA DeleteStep ==
    ASSUME StorageInv, restores' = restores,
           NEW l \in Claims, NEW u \in Nat, DeletePVC(l, u),
           l = SourceClaim /\ u = SourceUID => pv[SourcePV].policy = "Retain"
    PROVE  StorageInv' /\ pv' = pv /\ lastUID' = lastUID
<1> USE StorageAssumption, CutoverAssumption
<1>1. /\ pv' = pv /\ lastUID' = lastUID
      /\ UNCHANGED <<pod, attached, pods, intrusions>>
      /\ pvc[l].uid \in {0, u}
      /\ pvc' = IF Exists(l) THEN [pvc EXCEPT ![l].deleting = TRUE] ELSE pvc
  BY Zenon DEF DeletePVC
<1>2. /\ pvc' \in [Claims -> ClaimObject]
      /\ \A k \in Claims : /\ pvc'[k].uid = pvc[k].uid
                           /\ pvc'[k].volume = pvc[k].volume
      /\ \A k \in Claims : k # l => pvc'[k].deleting = pvc[k].deleting
  BY ZenonT(60), <1>1 DEF StorageInv, StorageTypeOK, ClaimObject
<1>3. ~Exists(l) => pvc' = pvc
  BY Zenon, <1>1
<1>4. StorageTypeOK'
  BY Zenon, <1>1, <1>2 DEF StorageInv, StorageTypeOK
<1>5. RecordedClaims'
  BY Zenon, <1>2 DEF StorageInv, RecordedClaims
<1>6. MarkedPair' /\ SourceKept'
  BY Zenon, <1>1 DEF StorageInv, MarkedPair, Marked, SourceKept, Live
<1>7. SourceInPlace'
  BY Zenon, <1>1, <1>2, <1>3 DEF StorageInv, SourceInPlace, Exists, SourceUID
<1> QED
  BY Zenon, <1>1, <1>2, <1>4, <1>5, <1>6, <1>7 DEF StorageInv

\* Changing the claimRef or the phase of a volume keeps the storage
\* invariant; of the source volume only once it is retained, and it stays.
LEMMA VolumeStep ==
    ASSUME StorageInv, restores' = restores,
           UNCHANGED <<pvc, lastUID, pod, attached, pods, intrusions>>,
           pv' \in [Volumes -> VolumeObject],
           \A w \in Volumes : /\ pv'[w].policy = pv[w].policy
                              /\ pv'[w].original = pv[w].original
                              /\ pv'[w].session = pv[w].session,
           pv'[SourcePV].phase # "Gone",
           pv[SourcePV].policy # "Retain" => pv'[SourcePV] = pv[SourcePV]
    PROVE  StorageInv'
<1> USE StorageAssumption, CutoverAssumption
<1>1. StorageTypeOK'
  BY Zenon DEF StorageInv, StorageTypeOK
<1>2. RecordedClaims' /\ SourceKept'
  BY Zenon DEF StorageInv, RecordedClaims, SourceKept, Live
<1>3. MarkedPair'
  BY Zenon DEF StorageInv, MarkedPair, Marked
<1>4. SourceInPlace'
  BY Zenon DEF StorageInv, SourceInPlace
<1> QED
  BY Zenon, <1>1, <1>2, <1>3, <1>4 DEF StorageInv

\* Reserving a volume (reservePV) for claim l.
LEMMA ReserveStep ==
    ASSUME StorageInv, restores' = restores,
           NEW v \in {SourcePV, DestinationPV}, NEW l \in Claims, ReservePV(v, l),
           v = SourcePV => pv[SourcePV].policy = "Retain"
    PROVE  /\ StorageInv'
           /\ pv'[SourcePV].policy = pv[SourcePV].policy
           /\ pvc' = pvc /\ lastUID' = lastUID
<1> USE StorageAssumption, CutoverAssumption
<1>1. UNCHANGED <<pvc, lastUID, pod, attached, pods, intrusions>>
  BY Zenon DEF ReservePV
<1>2. CASE pv' = pv
  BY Zenon, <1>1, <1>2, VolumeStep DEF StorageInv, StorageTypeOK, SourceKept, Live
<1>3. CASE pv' = [pv EXCEPT ![v].claim = l, ![v].claimUID = 0]
  <2>1. /\ pv' \in [Volumes -> VolumeObject]
        /\ \A w \in Volumes : /\ pv'[w].policy = pv[w].policy
                              /\ pv'[w].original = pv[w].original
                              /\ pv'[w].session = pv[w].session
                              /\ pv'[w].phase = pv[w].phase
        /\ \A w \in Volumes : w # v => pv'[w] = pv[w]
    BY <1>3 DEF StorageInv, StorageTypeOK, VolumeObject
  <2> QED
    BY Zenon, <1>1, <2>1, VolumeStep DEF StorageInv, SourceKept, Live
<1> QED
  BY Zenon, <1>2, <1>3 DEF ReservePV

\* A new claim under a name that is free, with the next UID.
LEMMA NewClaimStep ==
    ASSUME StorageInv, restores' = restores,
           NEW l \in Claims, NEW v \in Volumes \cup {NoVolume, OtherVolume},
           NEW s \in BOOLEAN, ~Exists(l),
           pvc' = [pvc EXCEPT ![l] = NewClaim(lastUID + 1, v, s)],
           lastUID' = lastUID + 1, pv' = pv,
           UNCHANGED <<pod, attached, pods>>,
           intrusions' \in 0..MaxIntrusions
    PROVE  StorageInv'
<1> USE StorageAssumption, CutoverAssumption
<1> DEFINE c == NewClaim(lastUID + 1, v, s)
<1>0. lastUID \in Nat /\ pvc \in [Claims -> ClaimObject]
  BY Zenon DEF StorageInv, StorageTypeOK
<1>1. c \in ClaimObject /\ c.uid = lastUID + 1
  BY <1>0 DEF NewClaim, ClaimObject
<1>2. /\ pvc' \in [Claims -> ClaimObject]
      /\ pvc'[l] = c /\ \A k \in Claims : k # l => pvc'[k] = pvc[k]
  BY Zenon, <1>0, <1>1
<1> HIDE DEF c
<1>3. StorageTypeOK'
  BY <1>1, <1>2 DEF StorageInv, StorageTypeOK
<1>4. /\ lastUID' >= TemporaryUID
      /\ \A k \in Claims : pvc'[k].uid <= lastUID'
  BY <1>1, <1>2 DEF StorageInv, StorageTypeOK, TemporaryUID, ClaimObject
<1>5. RecordedClaims'
  BY <1>1, <1>2 DEF StorageInv, StorageTypeOK, RecordedClaims, TemporaryUID, SourceUID
<1>6. MarkedPair' /\ SourceKept'
  BY Zenon DEF StorageInv, MarkedPair, Marked, SourceKept, Live
<1>7. SourceInPlace'
  BY <1>1, <1>2 DEF StorageInv, SourceInPlace, Exists, SourceUID
<1> QED
  BY Zenon, <1>3, <1>4, <1>5, <1>6, <1>7 DEF StorageInv

\* Creating a claim (createBoundPVC), or finding it created.
LEMMA CreateStep ==
    ASSUME StorageInv, restores' = restores,
           NEW l \in Claims, NEW v \in Volumes, CreateBoundPVC(l, v)
    PROVE  /\ StorageInv' /\ pv' = pv
           /\ lastUID' >= lastUID
           /\ pvc'[l] \in ClaimObject /\ pvc'[l].uid <= lastUID'
<1>1. CASE Exists(l)
  <2>1. UNCHANGED storageVars
    BY Zenon, <1>1 DEF CreateBoundPVC, storageVars
  <2>2. StorageInv'
    BY Zenon, <2>1 DEF storageVars, StorageInv, StorageTypeOK, RecordedClaims,
                MarkedPair, Marked, SourceKept, Live, SourceInPlace
  <2> QED
    BY <2>1, <2>2 DEF storageVars, StorageInv, StorageTypeOK
<1>2. CASE ~Exists(l)
  <2>1. /\ pvc' = [pvc EXCEPT ![l] = NewClaim(lastUID + 1, v, TRUE)]
        /\ lastUID' = lastUID + 1 /\ pv' = pv
        /\ UNCHANGED <<pod, attached, pods, intrusions>>
    BY Zenon, <1>2 DEF CreateBoundPVC
  <2>2. intrusions' \in 0..MaxIntrusions
    BY Zenon, <2>1 DEF StorageInv, StorageTypeOK
  <2>3. StorageInv'
    BY Zenon, <1>2, <2>1, <2>2, NewClaimStep
  <2>4. lastUID' >= lastUID
    BY <2>1 DEF StorageInv, StorageTypeOK
  <2>5. pvc'[l] \in ClaimObject /\ pvc'[l].uid <= lastUID'
    BY Zenon, <2>3 DEF StorageInv, StorageTypeOK
  <2> QED
    BY Zenon, <2>1, <2>3, <2>4, <2>5
<1> QED
  BY Zenon, <1>1, <1>2

-----------------------------------------------------------------------------
(* The environment *)

\* What no step of the environment does to a claim that stays.
ClaimsKept ==
    \A l \in Claims : pvc'[l].uid # 0 /\ pvc'[l].uid <= lastUID =>
        /\ pvc'[l].uid = pvc[l].uid
        /\ pvc'[l].session = pvc[l].session
        /\ pvc[l].volume # NoVolume => pvc'[l].volume = pvc[l].volume

EnvironmentKeeps ==
    /\ StorageInv'
    /\ ClaimsKept
    /\ lastUID' >= lastUID
    /\ pv'[SourcePV].policy = pv[SourcePV].policy
    /\ pv'[SourcePV].session = pv[SourcePV].session

\* The binder finishes binding a claim to the volume it names.
LEMMA BindNamedStep ==
    ASSUME StorageInv, restores' = restores,
           NEW l \in Claims, NEW v \in Volumes, BindNamed(l, v)
    PROVE  EnvironmentKeeps
<1> USE StorageAssumption, CutoverAssumption
<1>1. /\ pvc' = [pvc EXCEPT ![l].bound = TRUE]
      /\ pv' = [pv EXCEPT ![v] = BoundTo(pv[v], l, pvc[l].uid)]
      /\ UNCHANGED <<lastUID, pod, attached, pods, intrusions>>
      /\ pv[v].claim = NoClaim
            \/ (pv[v].claim = l /\ pv[v].claimUID \in {0, pvc[l].uid})
      /\ pvc[l].uid # 0
  BY Zenon DEF BindNamed, Exists
<1>2. /\ pvc \in [Claims -> ClaimObject] /\ pv \in [Volumes -> VolumeObject]
      /\ lastUID \in Nat
  BY Zenon DEF StorageInv, StorageTypeOK
<1>3. /\ pvc' \in [Claims -> ClaimObject]
      /\ \A k \in Claims : /\ pvc'[k].uid = pvc[k].uid
                           /\ pvc'[k].volume = pvc[k].volume
                           /\ pvc'[k].session = pvc[k].session
                           /\ pvc'[k].deleting = pvc[k].deleting
  BY ZenonT(60), <1>1, <1>2 DEF ClaimObject
<1>4. /\ pv' \in [Volumes -> VolumeObject]
      /\ \A w \in Volumes : /\ pv'[w].policy = pv[w].policy
                            /\ pv'[w].original = pv[w].original
                            /\ pv'[w].session = pv[w].session
      /\ \A w \in Volumes : w # v => pv'[w] = pv[w]
      /\ pv'[v].claim = l /\ pv'[v].claimUID = pvc[l].uid /\ pv'[v].phase = "Bound"
  <2>1. pvc[l].uid \in Nat /\ pv[v] \in VolumeObject
    BY Zenon, <1>2 DEF ClaimObject
  <2> DEFINE b == BoundTo(pv[v], l, pvc[l].uid)
  <2>2. /\ b \in VolumeObject
        /\ b.policy = pv[v].policy /\ b.original = pv[v].original
        /\ b.session = pv[v].session
        /\ b.claim = l /\ b.claimUID = pvc[l].uid /\ b.phase = "Bound"
    BY Zenon, <2>1 DEF BoundTo, VolumeObject
  <2>3. pv' = [pv EXCEPT ![v] = b]
    BY Zenon, <1>1
  <2> HIDE DEF b
  <2> QED
    BY Zenon, <1>2, <2>2, <2>3
<1>5. StorageTypeOK'
  BY Zenon, <1>1, <1>3, <1>4 DEF StorageInv, StorageTypeOK
<1>6. RecordedClaims' /\ \A k \in Claims : pvc'[k].uid <= lastUID'
  BY <1>1, <1>3 DEF StorageInv, RecordedClaims
<1>7. MarkedPair' /\ SourceKept'
  BY Zenon, <1>4 DEF StorageInv, MarkedPair, Marked, SourceKept, Live
<1>8. SourceInPlace'
  BY <1>1, <1>3, <1>4 DEF StorageInv, SourceInPlace, SourceUID
<1>9. ClaimsKept /\ lastUID' >= lastUID
  BY <1>1, <1>2, <1>3 DEF ClaimsKept
<1>10. StorageInv'
  BY Zenon, <1>1, <1>5, <1>6, <1>7, <1>8 DEF StorageInv
<1> QED
  BY Zenon, <1>4, <1>9, <1>10 DEF EnvironmentKeeps

\* The binder finds a volume for a claim that names none.
LEMMA BindAnyStep ==
    ASSUME StorageInv, restores' = restores, NEW l \in Claims, BindAny(l)
    PROVE  EnvironmentKeeps
<1> USE StorageAssumption, CutoverAssumption
<1>1. PICK x \in Volumes \cup {OtherVolume} :
        /\ pvc' = [pvc EXCEPT ![l].bound = TRUE, ![l].volume = x]
        /\ \/ pv' = pv
           \/ /\ x \in Volumes /\ pv[x].claimUID = 0
              /\ pv' = [pv EXCEPT ![x] = BoundTo(pv[x], l, pvc[l].uid)]
  BY Zenon DEF BindAny
<1>2. /\ UNCHANGED <<lastUID, pod, attached, pods, intrusions>>
      /\ pvc[l].volume = NoVolume
  BY Zenon DEF BindAny
<1>3. /\ pvc \in [Claims -> ClaimObject] /\ pv \in [Volumes -> VolumeObject]
      /\ lastUID \in Nat
  BY Zenon DEF StorageInv, StorageTypeOK
<1>4. /\ pvc' \in [Claims -> ClaimObject]
      /\ \A k \in Claims : /\ pvc'[k].uid = pvc[k].uid
                           /\ k # l => pvc'[k].volume = pvc[k].volume
                           /\ pvc'[k].session = pvc[k].session
                           /\ pvc'[k].deleting = pvc[k].deleting
  <2> DEFINE c == [pvc[l] EXCEPT !.bound = TRUE, !.volume = x]
  <2>1. /\ c \in ClaimObject
        /\ c.uid = pvc[l].uid /\ c.session = pvc[l].session /\ c.deleting = pvc[l].deleting
    BY ZenonT(30), <1>3 DEF ClaimObject
  <2>2. pvc' = [pvc EXCEPT ![l] = c]
    BY Zenon, <1>1, <1>3 DEF ClaimObject
  <2> HIDE DEF c
  <2> QED BY Zenon, <1>3, <2>1, <2>2
<1>5. /\ pv' \in [Volumes -> VolumeObject]
      /\ \A w \in Volumes : /\ pv'[w].policy = pv[w].policy
                            /\ pv'[w].original = pv[w].original
                            /\ pv'[w].session = pv[w].session
                            /\ pv'[w].phase \in {pv[w].phase, "Bound"}
                            /\ pv[w].claimUID # 0 => pv'[w] = pv[w]
  <2>a. CASE pv' = pv
    BY Zenon, <1>3, <2>a
  <2>b. CASE pv' # pv
    <3>1. pvc[l].uid \in Nat /\ x \in Volumes /\ pv[x] \in VolumeObject
      BY Zenon, <1>1, <1>3, <2>b DEF ClaimObject
    <3> DEFINE b == BoundTo(pv[x], l, pvc[l].uid)
    <3>2. /\ b \in VolumeObject
          /\ b.policy = pv[x].policy /\ b.original = pv[x].original
          /\ b.session = pv[x].session
          /\ b.claim = l /\ b.claimUID = pvc[l].uid /\ b.phase = "Bound"
      BY Zenon, <3>1 DEF BoundTo, VolumeObject
    <3>3. pv' = [pv EXCEPT ![x] = b] /\ pv[x].claimUID = 0
      BY Zenon, <1>1, <2>b
    <3> HIDE DEF b
    <3> QED
      BY Zenon, <1>3, <3>1, <3>2, <3>3
  <2> QED
    BY Zenon, <2>a, <2>b
<1>6. StorageTypeOK'
  BY Zenon, <1>2, <1>4, <1>5 DEF StorageInv, StorageTypeOK
<1>7. pvc[l].uid \notin {SourceUID, TemporaryUID}
  BY Zenon, <1>2 DEF StorageInv, RecordedClaims
<1>8. RecordedClaims' /\ \A k \in Claims : pvc'[k].uid <= lastUID'
  BY ZenonT(30), <1>2, <1>4, <1>7 DEF StorageInv, RecordedClaims
<1>9. MarkedPair' /\ SourceKept'
  BY Zenon, <1>5 DEF StorageInv, MarkedPair, Marked, SourceKept, Live
<1>10. SourceInPlace'
  BY <1>4, <1>5 DEF StorageInv, SourceInPlace, SourceUID
<1>11. ClaimsKept /\ lastUID' >= lastUID
  BY <1>2, <1>3, <1>4 DEF ClaimsKept
<1>12. StorageInv'
  BY Zenon, <1>2, <1>6, <1>8, <1>9, <1>10 DEF StorageInv
<1> QED
  BY Zenon, <1>5, <1>11, <1>12 DEF EnvironmentKeeps

\* The PV controller and the provisioner: a volume becomes Released or
\* Available, and a released one is reclaimed unless it is retained.
LEMMA VolumePhaseStep ==
    ASSUME StorageInv, restores' = restores, NEW v \in Volumes,
           Release(v) \/ MakeAvailable(v) \/ Reclaim(v)
    PROVE  EnvironmentKeeps
<1> USE StorageAssumption, CutoverAssumption
<1>1. PICK f \in {"Released", "Available", "Gone"} :
        pv' = [pv EXCEPT ![v].phase = f]
  BY Zenon DEF Release, MakeAvailable, Reclaim
<1>2. UNCHANGED <<pvc, lastUID, pod, attached, pods, intrusions>>
  BY Zenon DEF Release, MakeAvailable, Reclaim
<1>3. /\ pv \in [Volumes -> VolumeObject] /\ lastUID \in Nat
  BY Zenon DEF StorageInv, StorageTypeOK
<1>4. /\ pv' \in [Volumes -> VolumeObject]
      /\ \A w \in Volumes : /\ pv'[w].policy = pv[w].policy
                            /\ pv'[w].original = pv[w].original
                            /\ pv'[w].session = pv[w].session
                            /\ w # v => pv'[w] = pv[w]
  BY <1>1, <1>3 DEF VolumeObject
<1>5. v = SourcePV => pv[SourcePV].policy = "Retain"
  BY DEF StorageInv, SourceInPlace, Release, MakeAvailable, Reclaim, SourceUID
<1>6. pv'[SourcePV].phase # "Gone"
  <2>1. CASE v # SourcePV
    BY Zenon, <1>4, <2>1 DEF StorageInv, SourceKept, Live
  <2>2. CASE v = SourcePV
    <3>1. ~Reclaim(v)
      BY Zenon, <1>5, <2>2 DEF Reclaim
    <3>2. pv' = [pv EXCEPT ![v].phase = "Released"]
             \/ pv' = [pv EXCEPT ![v].phase = "Available"]
      BY Zenon, <3>1 DEF Release, MakeAvailable
    <3> QED
      BY <1>3, <2>2, <3>2 DEF VolumeObject
  <2> QED
    BY Zenon, <2>1, <2>2
<1>7. StorageInv'
  BY Zenon, <1>2, <1>4, <1>5, <1>6, VolumeStep
<1>8. ClaimsKept /\ lastUID' >= lastUID
  BY <1>2, <1>3 DEF ClaimsKept
<1> QED
  BY Zenon, <1>4, <1>7, <1>8 DEF EnvironmentKeeps

\* PVC protection lets a deleted claim go.
LEMMA FinishDeleteStep ==
    ASSUME StorageInv, restores' = restores, NEW l \in Claims, FinishDelete(l)
    PROVE  EnvironmentKeeps
<1> USE StorageAssumption, CutoverAssumption
<1>1. /\ pvc[l].deleting
      /\ pvc' = [pvc EXCEPT ![l] = NoObject]
      /\ UNCHANGED <<pv, lastUID, pod, attached, pods, intrusions>>
  BY Zenon DEF FinishDelete
<1>2. NoObject \in ClaimObject /\ NoObject.uid = 0
  BY Zenon DEF NoObject, NewClaim, ClaimObject
<1>3. /\ pvc' \in [Claims -> ClaimObject] /\ lastUID \in Nat
      /\ pvc'[l].uid = 0
      /\ \A k \in Claims : k # l => pvc'[k] = pvc[k]
  BY Zenon, <1>1, <1>2 DEF StorageInv, StorageTypeOK
<1>4. StorageTypeOK'
  BY Zenon, <1>1, <1>3 DEF StorageInv, StorageTypeOK
<1>5. RecordedClaims' /\ \A k \in Claims : pvc'[k].uid <= lastUID'
  BY <1>1, <1>3 DEF StorageInv, RecordedClaims, SourceUID, TemporaryUID
<1>6. MarkedPair' /\ SourceKept'
  BY Zenon, <1>1 DEF StorageInv, MarkedPair, Marked, SourceKept, Live
<1>7. SourceInPlace'
  BY Zenon, <1>1, <1>3 DEF StorageInv, SourceInPlace
<1>8. ClaimsKept /\ lastUID' >= lastUID
  BY <1>1, <1>3 DEF ClaimsKept
<1>9. StorageInv'
  BY Zenon, <1>1, <1>4, <1>5, <1>6, <1>7 DEF StorageInv
<1> QED
  BY Zenon, <1>1, <1>8, <1>9 DEF EnvironmentKeeps

\* Pods come and go; volumes are attached and detached.
LEMMA PodStep ==
    ASSUME StorageInv, restores' = restores,
           \/ \E l \in Claims : StartPod(l)
           \/ StopPod
           \/ \E v \in Volumes \cup {OtherVolume} : Detach(v)
    PROVE  EnvironmentKeeps
<1> USE StorageAssumption, CutoverAssumption
<1>1. UNCHANGED <<pvc, pv, lastUID, intrusions>>
  BY Zenon DEF StartPod, StopPod, Detach
<1>2. pod' \in Claims \cup {NoClaim} /\ pods' \in 0..MaxPods
  BY DEF StorageInv, StorageTypeOK, StartPod, StopPod, Detach
<1>3. attached' \in SUBSET (Volumes \cup {NoVolume, OtherVolume})
  <2>1. CASE \E l \in Claims : StartPod(l)
    <3>1. PICK l \in Claims : StartPod(l)
      BY Zenon, <2>1
    <3>2. pvc[l].volume \in Volumes \cup {NoVolume, OtherVolume}
      BY Zenon, <3>1 DEF StorageInv, StorageTypeOK, ClaimObject
    <3> QED
      BY Zenon, <3>1, <3>2 DEF StorageInv, StorageTypeOK, StartPod
  <2>2. CASE StopPod \/ \E v \in Volumes \cup {OtherVolume} : Detach(v)
    BY Zenon, <2>2 DEF StorageInv, StorageTypeOK, StopPod, Detach
  <2> QED
    BY Zenon, <2>1, <2>2
<1>4. StorageTypeOK'
  BY Zenon, <1>1, <1>2, <1>3 DEF StorageInv, StorageTypeOK
<1>5. RecordedClaims' /\ MarkedPair' /\ SourceKept' /\ SourceInPlace'
  BY Zenon, <1>1 DEF StorageInv, RecordedClaims, MarkedPair, Marked, SourceKept, Live,
              SourceInPlace
<1>6. StorageInv'
  BY Zenon, <1>1, <1>4, <1>5 DEF StorageInv
<1>7. ClaimsKept /\ lastUID' >= lastUID
  BY <1>1 DEF ClaimsKept, StorageInv, StorageTypeOK
<1> QED
  BY Zenon, <1>1, <1>6, <1>7 DEF EnvironmentKeeps

\* A foreign claim appears under a free name.
LEMMA IntrudeStep ==
    ASSUME StorageInv, restores' = restores, NEW l \in Claims, Intrude(l)
    PROVE  EnvironmentKeeps
<1> USE StorageAssumption, CutoverAssumption
<1>1. /\ ~Exists(l) /\ pv' = pv
      /\ pvc' = [pvc EXCEPT ![l] = NewClaim(lastUID + 1, NoVolume, FALSE)]
      /\ lastUID' = lastUID + 1
      /\ UNCHANGED <<pod, attached, pods>>
  BY Zenon DEF Intrude
<1>2. intrusions' \in 0..MaxIntrusions
  BY DEF Intrude, StorageInv, StorageTypeOK
<1>3. NoVolume \in Volumes \cup {NoVolume, OtherVolume} /\ FALSE \in BOOLEAN
  BY Zenon
<1>4. StorageInv'
  BY Zenon, <1>1, <1>2, <1>3, NewClaimStep
<1>5. lastUID \in Nat /\ pvc \in [Claims -> ClaimObject]
  BY Zenon DEF StorageInv, StorageTypeOK
<1>6. /\ pvc'[l].uid = lastUID + 1
      /\ \A k \in Claims : k # l => pvc'[k] = pvc[k]
  BY Zenon, <1>1, <1>5 DEF NewClaim
<1>7. ~(pvc'[l].uid <= lastUID) /\ lastUID' >= lastUID
  <2>1. lastUID' = lastUID + 1 /\ pvc'[l].uid = lastUID + 1
    BY Zenon, <1>1, <1>6
  <2> QED
    BY <1>5, <2>1
<1>8. ClaimsKept
  BY Zenon, <1>6, <1>7 DEF ClaimsKept
<1> QED
  BY Zenon, <1>1, <1>4, <1>7, <1>8 DEF EnvironmentKeeps

PlainSteps == Steps \ (PinnedSteps \cup RetireSteps)

-----------------------------------------------------------------------------
(* The ways a pass moves on *)

\* A step that leaves the cluster alone keeps the storage invariant.
LEMMA QuietStorage ==
    ASSUME StorageInv, UNCHANGED <<storageVars, restores>>
    PROVE  StorageInv' /\ lastUID' = lastUID /\ pvc' = pvc /\ pv' = pv
BY Zenon DEF storageVars, StorageInv, StorageTypeOK, RecordedClaims, MarkedPair,
       Marked, SourceKept, Live, SourceInPlace

\* An error or a crash ends the pass.
LEMMA EndStep ==
    ASSUME IInv, EndPass, UNCHANGED <<storageVars, restores>>,
           phase' \in Phases, failed' \in BOOLEAN, status' \in Checkpoint,
           crashes' \in 0..MaxCrashes
    PROVE  IInv'
<1> USE StorageAssumption, CutoverAssumption
<1>1. StorageInv' /\ lastUID' = lastUID
  BY Zenon, QuietStorage DEF IInv
<1>2. NoObject \in ClaimObject /\ NoObject.uid = 0
  BY Zenon DEF NoObject, NewClaim, ClaimObject
<1>3. lastUID \in Nat
  BY Zenon DEF IInv, StorageInv, StorageTypeOK
<1>4. pc' = "idle" /\ current' = NoObject /\ at' = SourceClaim
  BY Zenon DEF EndPass
<1>5. Pinned' /\ Retiring' /\ pc' \in Steps
  BY Zenon, <1>4 DEF Pinned, Retiring, PinnedSteps, RetireSteps, Steps
<1>6. current' \in ClaimObject /\ current'.uid <= lastUID'
  BY <1>1, <1>2, <1>3, <1>4
<1> QED
  BY Zenon, <1>1, <1>4, <1>5, <1>6 DEF IInv, PassInv

\* A step of the pass, with the cluster already accounted for.
LEMMA MoveStep ==
    ASSUME IInv, StorageInv', restores' = restores, lastUID' >= lastUID,
           phase' \in Phases, failed' \in BOOLEAN, status' \in Checkpoint,
           UNCHANGED <<current, at, crashes>>,
           \/ pc' \in PlainSteps
           \/ pc' \in PinnedSteps /\ SourcePinned'
    PROVE  IInv'
<1>1. /\ pc' \in Steps /\ pc' \notin RetireSteps
      /\ pc' \in PinnedSteps => SourcePinned'
  BY Zenon DEF PlainSteps, PinnedSteps, RetireSteps, Steps, ActivateSteps, RollbackSteps
<1>2. Pinned' /\ Retiring'
  BY Zenon, <1>1 DEF Pinned, Retiring
<1>3. current'.uid <= lastUID'
  BY DEF IInv, PassInv, StorageInv, StorageTypeOK, ClaimObject
<1> QED
  BY Zenon, <1>1, <1>2, <1>3 DEF IInv, PassInv

\* A step that changes only where the pass is.
LEMMA SkipStep ==
    ASSUME IInv, NEW step, Skip(step),
           \/ step \in PlainSteps
           \/ step \in PinnedSteps /\ SourcePinned
    PROVE  IInv'
<1>1. UNCHANGED <<storageVars, phase, failed, status, current, at, crashes, restores>>
  BY Zenon DEF Skip, Goto
<1>2. StorageInv' /\ lastUID' = lastUID /\ pv' = pv
  BY Zenon, <1>1, QuietStorage DEF IInv
<1>3. lastUID' >= lastUID
  BY <1>2 DEF IInv, StorageInv, StorageTypeOK
<1>4. pc' = step
  BY Zenon DEF Skip, Goto
<1> QED
  BY Zenon, <1>1, <1>2, <1>3, <1>4, MoveStep DEF IInv, PassInv, SourcePinned

\* A step that writes to the cluster and moves on.
LEMMA GotoStep ==
    ASSUME IInv, NEW step, Goto(step), StorageInv', lastUID' = lastUID,
           \/ step \in PlainSteps
           \/ step \in PinnedSteps /\ SourcePinned'
    PROVE  IInv'
<1>1. UNCHANGED <<phase, failed, status, current, at, crashes, restores>>
  BY Zenon DEF Goto
<1>2. lastUID' >= lastUID
  BY DEF IInv, StorageInv, StorageTypeOK
<1>3. pc' = step
  BY Zenon DEF Goto
<1> QED
  BY Zenon, <1>1, <1>2, <1>3, MoveStep DEF IInv, PassInv

\* A step that saves a checkpoint.
LEMMA SaveStep ==
    ASSUME IInv, NEW checkpoint \in Checkpoint, NEW step, Save(checkpoint, step),
           \/ step \in PlainSteps
           \/ step \in PinnedSteps /\ SourcePinned
    PROVE  IInv'
<1>1. /\ UNCHANGED <<storageVars, phase, failed, current, at, crashes, restores>>
      /\ status' = checkpoint /\ pc' = step
  BY Zenon DEF Save
<1>2. StorageInv' /\ lastUID' = lastUID /\ pv' = pv
  BY Zenon, <1>1, QuietStorage DEF IInv
<1>3. lastUID' >= lastUID
  BY <1>2 DEF IInv, StorageInv, StorageTypeOK
<1> QED
  BY Zenon, <1>1, <1>2, <1>3, MoveStep DEF IInv, PassInv, SourcePinned

\* A step that reads the claim it goes on with.
LEMMA TakeStep ==
    ASSUME IInv, NEW l \in Claims, NEW step \in PlainSteps, Take(l, step)
    PROVE  IInv'
<1>1. /\ UNCHANGED <<storageVars, phase, failed, status, crashes, restores>>
      /\ pc' = step /\ current' = pvc[l] /\ at' = l
  BY Zenon DEF Take
<1>2. StorageInv' /\ lastUID' = lastUID
  BY Zenon, <1>1, QuietStorage DEF IInv
<1>3. current' \in ClaimObject /\ current'.uid <= lastUID'
  BY Zenon, <1>1, <1>2 DEF IInv, StorageInv, StorageTypeOK
<1>4. Pinned' /\ Retiring' /\ pc' \in Steps
  BY Zenon, <1>1 DEF Pinned, Retiring, PlainSteps
<1> QED
  BY Zenon, <1>1, <1>2, <1>3, <1>4 DEF IInv, PassInv

\* An error of the pass is recorded.
LEMMA FailStep ==
    ASSUME IInv, NEW condition, FailIf(condition)
    PROVE  IInv'
<1>1. EndPass /\ failed' = TRUE
      /\ UNCHANGED <<storageVars, phase, status, crashes, restores>>
  BY Zenon DEF FailIf
<1> QED
  BY Zenon, <1>1, EndStep DEF IInv, PassInv

\* Which steps are plain.
LEMMA StepKinds ==
    /\ {"probe", "retainSource", "sourceGone", "reserve", "reserved", "create",
        "bound", "markActive", "markRollback", "save", "finish",
        "retireActive", "restoreProbe", "retireGone", "restoreRetainSource",
        "restoreCreate", "restoreBound", "restoreMarkActive",
        "restoreMarkRollback", "restoreSave", "restoreFinish", "idle"}
         \subseteq PlainSteps
    /\ {"source", "destination", "active", "rollback"} \subseteq Roles
BY ZenonT(30) DEF PlainSteps, PinnedSteps, RetireSteps, Steps, ActivateSteps,
       RollbackSteps, Roles

-----------------------------------------------------------------------------
(* The steps of an activation *)

\* The checks before the first change of an activation.
LEMMA ProbeKeeps == ASSUME IInv, Probe PROVE IInv'
<1>1. \/ \E condition : FailIf(condition)
      \/ Take(ActiveClaim, "markActive")
      \/ Skip("retainSource")
  BY Zenon DEF Probe
<1>2. CASE \E condition : FailIf(condition)
  BY Zenon, <1>2, FailStep
<1>3. CASE Take(ActiveClaim, "markActive")
  BY Zenon, <1>3, TakeStep, StepKinds, CutoverAssumption
<1>4. CASE Skip("retainSource")
  BY Zenon, <1>4, SkipStep, StepKinds
<1> QED
  BY Zenon, <1>1, <1>2, <1>3, <1>4

\* ensureRetain of both volumes.
LEMMA RetainKeeps == ASSUME IInv, RetainSource \/ RetainDestination PROVE IInv'
<1>1. CASE RetainSource
  <2>1. CASE EnsureRetain(SourcePV, "source") /\ Goto("retainDestination")
    <3>1. StorageInv' /\ lastUID' = lastUID /\ SourcePinned'
      BY Zenon, <2>1, RetainStep, StepKinds DEF IInv, Goto
    <3> QED
      BY Zenon, <2>1, <3>1, GotoStep DEF PinnedSteps
  <2>2. CASE FailIf(~Live(SourcePV))
    BY Zenon, <2>2, FailStep
  <2> QED
    BY Zenon, <1>1, <2>1, <2>2 DEF RetainSource
<1>2. CASE RetainDestination
  <2>1. CASE EnsureRetain(DestinationPV, "destination") /\ Goto("deleteTemporary")
    <3>1. SourcePinned
      BY Zenon, <1>2 DEF RetainDestination, IInv, PassInv, Pinned, PinnedSteps
    <3>2. StorageInv' /\ lastUID' = lastUID /\ SourcePinned'
      BY Zenon, <2>1, <3>1, RetainStep, StepKinds DEF IInv, Goto
    <3> QED
      BY Zenon, <2>1, <3>2, GotoStep DEF PinnedSteps
  <2>2. CASE FailIf(~Live(DestinationPV))
    BY Zenon, <2>2, FailStep
  <2> QED
    BY Zenon, <1>2, <2>1, <2>2 DEF RetainDestination
<1> QED
  BY Zenon, <1>1, <1>2

\* Deleting the temporary claim, and waiting for it to be gone.
LEMMA TemporaryKeeps == ASSUME IInv, DeleteTemporary \/ TemporaryGone PROVE IInv'
<1> USE CutoverAssumption
<1>0. SourcePinned /\ status \in Checkpoint
  BY Zenon DEF DeleteTemporary, TemporaryGone, IInv, PassInv, Pinned, PinnedSteps
<1>1. CASE \E condition : FailIf(condition)
  BY Zenon, <1>1, FailStep
<1>2. CASE Skip("deleteSource")
  BY Zenon, <1>0, <1>2, SkipStep DEF PinnedSteps
<1>3. CASE DeletePVC(TemporaryClaim, TemporaryUID) /\ Goto("temporaryGone")
  <2>1. StorageInv' /\ pv' = pv /\ lastUID' = lastUID
    BY Zenon, <1>3, DeleteStep DEF IInv, Goto, TemporaryUID
  <2> QED
    BY Zenon, <1>0, <1>3, <2>1, GotoStep DEF PinnedSteps, SourcePinned
<1>4. CASE Save([status EXCEPT !.temporaryPVCDeleted = TRUE], "deleteSource")
  <2>1. [status EXCEPT !.temporaryPVCDeleted = TRUE] \in Checkpoint
    BY Zenon, <1>0 DEF Checkpoint
  <2> QED
    BY Zenon, <1>0, <1>4, <2>1, SaveStep DEF PinnedSteps
<1> QED
  BY Zenon, <1>1, <1>2, <1>3, <1>4 DEF DeleteTemporary, TemporaryGone

\* Deleting the source claim, whose volume is retained by now.
LEMMA SourceKeeps == ASSUME IInv, DeleteSource \/ SourceGone PROVE IInv'
<1> USE CutoverAssumption
<1>1. CASE \E condition : FailIf(condition)
  BY Zenon, <1>1, FailStep
<1>2. CASE Skip("reserve")
  BY Zenon, <1>2, SkipStep, StepKinds
<1>3. CASE pc = "deleteSource" /\ DeletePVC(SourceClaim, SourceUID) /\ Goto("sourceGone")
  <2>1. SourcePinned
    BY Zenon, <1>3 DEF IInv, PassInv, Pinned, PinnedSteps
  <2>2. StorageInv' /\ pv' = pv /\ lastUID' = lastUID
    BY Zenon, <1>3, <2>1, DeleteStep DEF IInv, Goto, SourceUID, SourcePinned
  <2> QED
    BY Zenon, <1>3, <2>2, GotoStep, StepKinds
<1>4. CASE Save([status EXCEPT !.sourcePVCDeleted = TRUE], "reserve")
  <2>1. [status EXCEPT !.sourcePVCDeleted = TRUE] \in Checkpoint
    BY Zenon DEF IInv, PassInv, Checkpoint
  <2> QED
    BY Zenon, <1>4, <2>1, SaveStep, StepKinds
<1> QED
  BY Zenon, <1>1, <1>2, <1>3, <1>4 DEF DeleteSource, SourceGone

\* Reserving the destination volume.
LEMMA ReserveKeeps == ASSUME IInv, Reserve \/ Reserved PROVE IInv'
<1> USE CutoverAssumption
<1>1. CASE \E condition : FailIf(condition)
  BY Zenon, <1>1, FailStep
<1>2. CASE Skip("create")
  BY Zenon, <1>2, SkipStep, StepKinds
<1>3. CASE ReservePV(DestinationPV, ActiveClaim) /\ Goto("reserved")
  <2>1. StorageInv' /\ lastUID' = lastUID
    BY Zenon, <1>3, ReserveStep DEF IInv, Goto
  <2> QED
    BY Zenon, <1>3, <2>1, GotoStep, StepKinds
<1>4. CASE Save([status EXCEPT !.destinationReserved = TRUE], "create")
  <2>1. [status EXCEPT !.destinationReserved = TRUE] \in Checkpoint
    BY Zenon DEF IInv, PassInv, Checkpoint
  <2> QED
    BY Zenon, <1>4, <2>1, SaveStep, StepKinds
<1> QED
  BY Zenon, <1>1, <1>2, <1>3, <1>4 DEF Reserve, Reserved

\* createBoundPVC: the claim is created, or found, and read.
LEMMA CreatesKeeps ==
    ASSUME IInv, NEW l \in Claims, NEW v \in Volumes, NEW step \in PlainSteps,
           Creates(l, v, step)
    PROVE  IInv'
<1>1. CASE \E condition : FailIf(condition)
  BY Zenon, <1>1, FailStep
<1>2. CASE /\ CreateBoundPVC(l, v)
           /\ pc' = step /\ current' = pvc'[l] /\ at' = l
           /\ UNCHANGED <<phase, failed, status, crashes, restores>>
  <2>1. /\ StorageInv'
        /\ pvc'[l] \in ClaimObject /\ pvc'[l].uid <= lastUID'
    BY Zenon, <1>2, CreateStep DEF IInv
  <2>2. Pinned' /\ Retiring' /\ pc' \in Steps
    BY Zenon, <1>2 DEF Pinned, Retiring, PlainSteps
  <2> QED
    BY Zenon, <1>2, <2>1, <2>2 DEF IInv, PassInv
<1> QED
  BY Zenon, <1>1, <1>2 DEF Creates

\* Waiting for the binder.
LEMMA AwaitsKeeps ==
    ASSUME IInv, NEW l \in Claims, NEW v, NEW step \in PlainSteps,
           AwaitsBinding(l, v, step)
    PROVE  IInv'
<1>1. CASE \E condition : FailIf(condition)
  BY Zenon, <1>1, FailStep
<1>2. CASE Take(l, step)
  BY Zenon, <1>2, TakeStep
<1> QED
  BY Zenon, <1>1, <1>2 DEF AwaitsBinding

\* A step that marks one of the two volumes, or fails.
LEMMA MarkKeeps ==
    ASSUME IInv, NEW v \in {SourcePV, DestinationPV}, NEW role \in Roles,
           NEW step \in PlainSteps, EnsureRetain(v, role), Goto(step)
    PROVE  IInv'
<1>1. StorageInv' /\ lastUID' = lastUID
  BY Zenon, RetainStep DEF IInv, Goto
<1> QED
  BY Zenon, <1>1, GotoStep

\* The steps of an activation keep the invariant.
LEMMA ActivateKeeps == ASSUME IInv, ActivateStep PROVE IInv'
<1> USE CutoverAssumption, StepKinds
<1>1. CASE Probe \/ RetainSource \/ RetainDestination
  BY Zenon, <1>1, ProbeKeeps, RetainKeeps
<1>2. CASE DeleteTemporary \/ TemporaryGone \/ DeleteSource \/ SourceGone
  BY Zenon, <1>2, TemporaryKeeps, SourceKeeps
<1>3. CASE Reserve \/ Reserved
  BY Zenon, <1>3, ReserveKeeps
<1>4. CASE Create
  BY Zenon, <1>4, CreatesKeeps DEF Create
<1>5. CASE Bound
  BY Zenon, <1>5, AwaitsKeeps DEF Bound
<1>6. CASE MarkActive
  <2>1. CASE \E condition : FailIf(condition)
    BY Zenon, <2>1, FailStep
  <2>2. CASE EnsureRetain(DestinationPV, "active") /\ Goto("markRollback")
    BY Zenon, <2>2, MarkKeeps
  <2> QED
    BY Zenon, <1>6, <2>1, <2>2 DEF MarkActive
<1>7. CASE MarkRollback
  <2>1. CASE \E condition : FailIf(condition)
    BY Zenon, <2>1, FailStep
  <2>2. CASE EnsureRetain(SourcePV, "rollback") /\ Goto("save")
    BY Zenon, <2>2, MarkKeeps
  <2> QED
    BY Zenon, <1>7, <2>1, <2>2 DEF MarkRollback
<1>8. CASE SaveActive
  <2> DEFINE checkpoint ==
        [status EXCEPT !.activePVC = current.uid, !.activatedAt = TRUE,
                       !.temporaryPVCDeleted = TRUE, !.sourcePVCDeleted = TRUE,
                       !.destinationReserved = TRUE]
  <2>1. status \in Checkpoint /\ current.uid \in Nat
    BY Zenon DEF IInv, PassInv, ClaimObject
  <2>2. checkpoint \in Checkpoint
    BY Zenon, <2>1 DEF Checkpoint
  <2>3. Save(checkpoint, "finish")
    BY Zenon, <1>8 DEF SaveActive
  <2> HIDE DEF checkpoint
  <2> QED
    BY Zenon, <2>2, <2>3, SaveStep
<1>9. CASE FinishActivate
  BY Zenon, <1>9, EndStep DEF FinishActivate, Transition, IInv, PassInv, Phases
<1> QED
  BY Zenon, <1>1, <1>2, <1>3, <1>4, <1>5, <1>6, <1>7, <1>8, <1>9 DEF ActivateStep

-----------------------------------------------------------------------------
(* The steps of a rollback *)

\* removeActiveDestination begins: the claim is one of the session, on the
\* destination volume, and so not the original source claim.
LEMMA RetireKeeps == ASSUME IInv, NEW l \in Claims, Exists(l), Retire(l) PROVE IInv'
<1> USE CutoverAssumption
<1>1. CASE \E condition : FailIf(condition)
  BY Zenon, <1>1, FailStep
<1>2. CASE /\ pvc[l].volume = DestinationPV /\ pvc[l].session
           /\ Take(l, "retireRetain")
  <2>1. /\ UNCHANGED <<storageVars, phase, failed, status, crashes, restores>>
        /\ pc' = "retireRetain" /\ current' = pvc[l] /\ at' = l
    BY Zenon, <1>2 DEF Take
  <2>2. StorageInv' /\ lastUID' = lastUID /\ pvc' = pvc
    BY Zenon, <2>1, QuietStorage DEF IInv
  <2>3. current' \in ClaimObject /\ current'.uid <= lastUID'
    BY Zenon, <2>1, <2>2 DEF IInv, StorageInv, StorageTypeOK
  <2>4. pvc[l].uid \notin {0, SourceUID}
    BY Zenon, <1>2 DEF IInv, StorageInv, RecordedClaims, Exists
  <2>5. Pinned' /\ Retiring' /\ pc' \in Steps
    BY Zenon, <1>2, <2>1, <2>2, <2>4
       DEF Pinned, Retiring, PinnedSteps, RetireSteps, Steps, RollbackSteps
  <2> QED
    BY Zenon, <2>1, <2>2, <2>3, <2>5 DEF IInv, PassInv
<1> QED
  BY Zenon, <1>1, <1>2 DEF Retire

\* The rest of removeActiveDestination.
LEMMA RetiringKeeps ==
    ASSUME IInv, RetireRetain \/ RetireDelete \/ RetireGone PROVE IInv'
<1> USE CutoverAssumption
<1>1. CASE \E condition : FailIf(condition)
  BY Zenon, <1>1, FailStep
<1>2. CASE /\ pc = "retireRetain"
           /\ EnsureRetain(DestinationPV, "destination") /\ Goto("retireDelete")
  <2>1. StorageInv' /\ lastUID' = lastUID /\ pvc' = pvc
    BY Zenon, <1>2, RetainStep, StepKinds DEF IInv, Goto
  <2>2. /\ UNCHANGED <<phase, failed, status, current, at, crashes, restores>>
        /\ pc' = "retireDelete"
    BY Zenon, <1>2 DEF Goto
  <2>3. Retiring'
    BY Zenon, <1>2, <2>1, <2>2 DEF IInv, PassInv, Retiring, RetireSteps
  <2>4. Pinned' /\ pc' \in Steps
    BY Zenon, <2>2 DEF Pinned, PinnedSteps, Steps, RollbackSteps
  <2> QED
    BY Zenon, <2>1, <2>2, <2>3, <2>4 DEF IInv, PassInv
<1>3. CASE /\ pc = "retireDelete"
           /\ DeletePVC(at, current.uid) /\ Goto("retireGone")
  <2>1. current.uid # SourceUID
    BY Zenon, <1>3 DEF IInv, PassInv, Retiring, RetireSteps
  <2>2. at \in Claims /\ current.uid \in Nat
    BY Zenon DEF IInv, PassInv, ClaimObject
  <2>3. StorageInv' /\ lastUID' = lastUID
    BY Zenon, <1>3, <2>1, <2>2, DeleteStep DEF IInv, Goto
  <2> QED
    BY Zenon, <1>3, <2>3, GotoStep, StepKinds
<1>4. CASE Skip(IF at = SourceClaim THEN "restoreRetainSource" ELSE "restoreProbe")
  BY Zenon, <1>4, SkipStep, StepKinds
<1> QED
  BY Zenon, <1>1, <1>2, <1>3, <1>4 DEF RetireRetain, RetireDelete, RetireGone

\* Looking for what the rollback has to do.
LEMMA RestoreProbeKeeps ==
    ASSUME IInv, RetireActive \/ RestoreProbe PROVE IInv'
<1> USE CutoverAssumption, StepKinds
<1>1. CASE \E condition : FailIf(condition)
  BY Zenon, <1>1, FailStep
<1>2. CASE \E step \in {"restoreProbe", "restoreRetainSource"} : Skip(step)
  BY Zenon, <1>2, SkipStep
<1>3. CASE \E l \in {SourceClaim, ActiveClaim} : Exists(l) /\ Retire(l)
  BY Zenon, <1>3, RetireKeeps
<1>4. CASE Take(SourceClaim, "restoreMarkActive")
  BY Zenon, <1>4, TakeStep
<1> QED
  BY Zenon, <1>1, <1>2, <1>3, <1>4 DEF RetireActive, RestoreProbe

\* Retaining both volumes before the source claim is made again, and
\* reserving the source volume for it.
LEMMA RestoreKeeps ==
    ASSUME IInv,
           RestoreRetainSource \/ RestoreRetainDestination \/ RestoreReserve
    PROVE  IInv'
<1> USE CutoverAssumption, StepKinds
<1>1. CASE \E condition : FailIf(condition)
  BY Zenon, <1>1, FailStep
<1>2. CASE EnsureRetain(SourcePV, "source") /\ Goto("restoreRetainDestination")
  <2>1. StorageInv' /\ lastUID' = lastUID /\ SourcePinned'
    BY Zenon, <1>2, RetainStep DEF IInv, Goto
  <2> QED
    BY Zenon, <1>2, <2>1, GotoStep DEF PinnedSteps
<1>3. CASE /\ pc = "restoreRetainDestination"
           /\ EnsureRetain(DestinationPV, "destination") /\ Goto("restoreReserve")
  <2>1. SourcePinned
    BY Zenon, <1>3 DEF IInv, PassInv, Pinned, PinnedSteps
  <2>2. StorageInv' /\ lastUID' = lastUID /\ SourcePinned'
    BY Zenon, <1>3, <2>1, RetainStep DEF IInv, Goto
  <2> QED
    BY Zenon, <1>3, <2>2, GotoStep DEF PinnedSteps
<1>4. CASE /\ pc = "restoreReserve"
           /\ ReservePV(SourcePV, SourceClaim) /\ Goto("restoreCreate")
  <2>1. SourcePinned
    BY Zenon, <1>4 DEF IInv, PassInv, Pinned, PinnedSteps
  <2>2. StorageInv' /\ lastUID' = lastUID
    BY Zenon, <1>4, <2>1, ReserveStep DEF IInv, Goto, SourcePinned
  <2> QED
    BY Zenon, <1>4, <2>2, GotoStep
<1> QED
  BY Zenon, <1>1, <1>2, <1>3, <1>4
     DEF RestoreRetainSource, RestoreRetainDestination, RestoreReserve

\* The steps of a rollback keep the invariant.
LEMMA RollbackKeeps == ASSUME IInv, RollbackStep PROVE IInv'
<1> USE CutoverAssumption, StepKinds
<1>1. CASE RetireActive \/ RestoreProbe
  BY Zenon, <1>1, RestoreProbeKeeps
<1>2. CASE RetireRetain \/ RetireDelete \/ RetireGone
  BY Zenon, <1>2, RetiringKeeps
<1>3. CASE RestoreRetainSource \/ RestoreRetainDestination \/ RestoreReserve
  BY Zenon, <1>3, RestoreKeeps
<1>4. CASE RestoreCreate
  BY Zenon, <1>4, CreatesKeeps DEF RestoreCreate
<1>5. CASE RestoreBound
  BY Zenon, <1>5, AwaitsKeeps DEF RestoreBound
<1>6. CASE RestoreMarkActive
  <2>1. CASE \E condition : FailIf(condition)
    BY Zenon, <2>1, FailStep
  <2>2. CASE EnsureRetain(SourcePV, "active") /\ Goto("restoreMarkRollback")
    BY Zenon, <2>2, MarkKeeps
  <2> QED
    BY Zenon, <1>6, <2>1, <2>2 DEF RestoreMarkActive
<1>7. CASE RestoreMarkRollback
  <2>1. CASE Skip("restoreSave")
    BY Zenon, <2>1, SkipStep
  <2>2. CASE EnsureRetain(DestinationPV, "rollback") /\ Goto("restoreSave")
    BY Zenon, <2>2, MarkKeeps
  <2> QED
    BY Zenon, <1>7, <2>1, <2>2 DEF RestoreMarkRollback
<1>8. CASE SaveRestored
  <2> DEFINE checkpoint ==
        [status EXCEPT !.activePVC = current.uid, !.rolledBackAt = TRUE]
  <2>1. status \in Checkpoint /\ current.uid \in Nat
    BY Zenon DEF IInv, PassInv, ClaimObject
  <2>2. checkpoint \in Checkpoint
    BY Zenon, <2>1 DEF Checkpoint
  <2>3. Save(checkpoint, "restoreFinish")
    BY Zenon, <1>8 DEF SaveRestored
  <2> HIDE DEF checkpoint
  <2> QED
    BY Zenon, <2>2, <2>3, SaveStep
<1>9. CASE FinishRollback
  <2>1. CASE \E condition : FailIf(condition)
    BY Zenon, <2>1, FailStep
  <2>2. CASE Transition("RolledBack") /\ EndPass
    BY Zenon, <2>2, EndStep DEF Transition, IInv, PassInv, Phases
  <2> QED
    BY Zenon, <1>9, <2>1, <2>2 DEF FinishRollback
<1> QED
  BY Zenon, <1>1, <1>2, <1>3, <1>4, <1>5, <1>6, <1>7, <1>8, <1>9 DEF RollbackStep

-----------------------------------------------------------------------------
(* Starts, crashes and the environment *)

\* A pass begins, or the migration completes.
LEMMA StartKeeps ==
    ASSUME IInv, StartActivate \/ Complete \/ StartRollback PROVE IInv'
<1> USE CutoverAssumption, StepKinds
<1>1. CASE \E condition : FailIf(condition)
  BY Zenon, <1>1, FailStep
<1>2. CASE /\ \E next \in Phases : Transition(next)
           /\ pc' \in PlainSteps /\ UNCHANGED <<current, at>>
  <2>1. /\ UNCHANGED <<storageVars, status, crashes, restores, current, at>>
        /\ phase' \in Phases /\ failed' \in BOOLEAN
    BY Zenon, <1>2 DEF Transition
  <2>2. StorageInv' /\ lastUID' = lastUID
    BY Zenon, <2>1, QuietStorage DEF IInv
  <2>3. lastUID' >= lastUID
    BY <2>2 DEF IInv, StorageInv, StorageTypeOK
  <2> QED
    BY Zenon, <1>2, <2>1, <2>2, <2>3, MoveStep DEF IInv, PassInv
<1>3. CASE StartActivate
  BY Zenon, <1>2, <1>3 DEF StartActivate, Phases
<1>4. CASE Complete
  BY Zenon, <1>1, <1>2, <1>4 DEF Complete, Phases
<1>5. CASE StartRollback
  BY Zenon, <1>2, <1>5 DEF StartRollback, Phases
<1> QED
  BY Zenon, <1>3, <1>4, <1>5

\* The pass dies.
LEMMA CrashKeeps == ASSUME IInv, Crash PROVE IInv'
<1>1. crashes' \in 0..MaxCrashes
  BY CutoverAssumption DEF Crash, IInv, PassInv
<1>2. failed' \in BOOLEAN /\ EndPass /\ UNCHANGED <<storageVars, phase, status, restores>>
  BY Zenon DEF Crash, IInv, PassInv
<1> QED
  BY Zenon, <1>1, <1>2, EndStep DEF IInv, PassInv

\* The provisioner puts back the policy of the destination volume.
LEMMA RestorePolicyKeeps == ASSUME IInv, RestorePolicy PROVE IInv'
<1> USE StorageAssumption, CutoverAssumption
<1>1. /\ pv' = [pv EXCEPT ![DestinationPV].policy = pv[DestinationPV].original]
      /\ restores < MaxRestores /\ restores' = restores + 1
      /\ UNCHANGED <<pvc, lastUID, pod, attached, pods, intrusions>>
      /\ UNCHANGED <<phase, failed, status, pc, current, at, crashes>>
  BY Zenon DEF RestorePolicy, passVars
<1>2. /\ pv \in [Volumes -> VolumeObject] /\ restores \in 0..MaxRestores
      /\ pv[DestinationPV].original \in Policies
  BY Zenon DEF IInv, PassInv, StorageInv, StorageTypeOK, MarkedPair, Marked
<1>3. restores' \in 0..MaxRestores /\ restores' > 0
  BY <1>1, <1>2
<1>4. /\ pv' \in [Volumes -> VolumeObject]
      /\ pv'[SourcePV] = pv[SourcePV]
      /\ pv'[DestinationPV].session = pv[DestinationPV].session
      /\ pv'[DestinationPV].original = pv[DestinationPV].original
  BY ZenonT(60), <1>1, <1>2 DEF VolumeObject
<1>5. StorageTypeOK'
  BY Zenon, <1>1, <1>4 DEF IInv, StorageInv, StorageTypeOK
<1>6. RecordedClaims' /\ SourceKept' /\ SourceInPlace'
  BY Zenon, <1>1, <1>4 DEF IInv, StorageInv, RecordedClaims, SourceKept, Live, SourceInPlace
<1>7. MarkedPair'
  BY Zenon, <1>3, <1>4 DEF IInv, StorageInv, MarkedPair, Marked
<1>8. StorageInv'
  BY Zenon, <1>1, <1>5, <1>6, <1>7 DEF IInv, StorageInv
<1>9. Pinned' /\ Retiring'
  BY Zenon, <1>1, <1>4 DEF IInv, PassInv, Pinned, SourcePinned, Retiring
<1> QED
  BY Zenon, <1>1, <1>3, <1>8, <1>9 DEF IInv, PassInv

\* The controllers, the provisioner, Pods and foreign claims.
LEMMA EnvironmentKeepsInv == ASSUME IInv, Environment PROVE IInv'
<1> USE CutoverAssumption
<1>1. UNCHANGED <<phase, failed, status, pc, current, at, crashes, restores>>
  BY Zenon DEF Environment, passVars
<1>2. EnvironmentKeeps
  <2>1. CASE \E l \in Claims, v \in Volumes : BindNamed(l, v)
    BY Zenon, <1>1, <2>1, BindNamedStep DEF IInv
  <2>2. CASE \E l \in Claims : BindAny(l) \/ FinishDelete(l)
    BY Zenon, <1>1, <2>2, BindAnyStep, FinishDeleteStep DEF IInv
  <2>3. CASE \E v \in Volumes : Release(v) \/ MakeAvailable(v) \/ Reclaim(v)
    BY Zenon, <1>1, <2>3, VolumePhaseStep DEF IInv
  <2>4. CASE \/ \E l \in Claims : StartPod(l)
             \/ StopPod
             \/ \E v \in Volumes \cup {OtherVolume} : Detach(v)
    BY Zenon, <1>1, <2>4, PodStep DEF IInv
  <2>5. CASE \E l \in Claims : Intrude(l)
    BY Zenon, <1>1, <2>5, IntrudeStep DEF IInv
  <2> QED
    BY Zenon, <2>1, <2>2, <2>3, <2>4, <2>5 DEF Environment, Controllers
<1>3. current'.uid <= lastUID'
  BY <1>1, <1>2 DEF EnvironmentKeeps, IInv, PassInv, ClaimObject, StorageInv, StorageTypeOK
<1>4. Pinned'
  BY Zenon, <1>1, <1>2 DEF EnvironmentKeeps, IInv, PassInv, Pinned, SourcePinned
<1>5. Retiring'
  <2> SUFFICES ASSUME pc \in RetireSteps, pvc'[at].uid = current.uid
               PROVE  pvc'[at].volume = DestinationPV /\ pvc'[at].session
    BY Zenon, <1>1 DEF IInv, PassInv, Retiring
  <2>1. /\ at \in Claims /\ current.uid # 0 /\ current.uid <= lastUID
        /\ pvc[at].uid = current.uid =>
              pvc[at].volume = DestinationPV /\ pvc[at].session
    BY Zenon DEF IInv, PassInv, Retiring
  <2>2. /\ pvc'[at].uid = pvc[at].uid
        /\ pvc'[at].session = pvc[at].session
        /\ pvc[at].volume # NoVolume => pvc'[at].volume = pvc[at].volume
    BY Zenon, <1>2, <2>1 DEF EnvironmentKeeps, ClaimsKept
  <2> QED
    BY Zenon, <2>1, <2>2, StorageAssumption
<1> QED
  BY Zenon, <1>1, <1>2, <1>3, <1>4, <1>5 DEF EnvironmentKeeps, IInv, PassInv

-----------------------------------------------------------------------------
(* The theorems *)

\* The state after the final sync satisfies the invariant.
LEMMA InitInv == ASSUME Init PROVE IInv
<1> USE StorageAssumption, CutoverAssumption
<1>1. /\ pvc \in [Claims -> ClaimObject]
      /\ pvc[SourceClaim].uid = SourceUID /\ pvc[SourceClaim].volume = SourcePV
      /\ ~pvc[SourceClaim].deleting
      /\ pvc[TemporaryClaim].uid = TemporaryUID
      /\ pvc[TemporaryClaim].volume = DestinationPV
      /\ \A l \in Claims \ {SourceClaim, TemporaryClaim} : pvc[l].uid = 0
  <2>1. \A l \in Claims : pvc[l] \in ClaimObject
    BY Zenon DEF Init, ClaimObject, NoObject, NewClaim, SourceUID, TemporaryUID
  <2>2. pvc = [l \in Claims |-> pvc[l]]
    BY Zenon DEF Init
  <2> QED
    BY Zenon, <2>1, <2>2 DEF Init, NoObject, NewClaim
<1>2. /\ pv \in [Volumes -> VolumeObject]
      /\ pv[SourcePV].original = InitialPolicy[SourcePV] /\ pv[SourcePV].session
      /\ pv[SourcePV].phase = "Bound"
      /\ pv[SourcePV].claim = SourceClaim /\ pv[SourcePV].claimUID = SourceUID
      /\ pv[DestinationPV].policy = "Retain" /\ pv[DestinationPV].session
      /\ pv[DestinationPV].original = InitialPolicy[DestinationPV]
  <2>1. \A v \in Volumes : pv[v] \in VolumeObject
    BY DEF Init, VolumeObject, Roles, Policies, SourceUID, TemporaryUID
  <2>2. pv = [v \in Volumes |-> pv[v]]
    BY Zenon DEF Init
  <2> QED
    BY <2>1, <2>2 DEF Init
<1>3. StorageTypeOK
  <2>1. /\ lastUID \in Nat /\ pod \in Claims \cup {NoClaim}
        /\ pods \in 0..MaxPods /\ intrusions \in 0..MaxIntrusions
    BY DEF Init, TemporaryUID
  <2>2. attached \in SUBSET (Volumes \cup {NoVolume, OtherVolume})
    BY Zenon DEF Init
  <2> QED
    BY Zenon, <1>1, <1>2, <2>1, <2>2 DEF StorageTypeOK
<1>4. /\ lastUID >= TemporaryUID /\ \A l \in Claims : pvc[l].uid <= lastUID
      /\ RecordedClaims
  BY <1>1 DEF Init, RecordedClaims, SourceUID, TemporaryUID
<1>5. MarkedPair /\ SourceKept /\ SourceInPlace
  BY Zenon, <1>1, <1>2 DEF MarkedPair, Marked, SourceKept, Live, SourceInPlace
<1>6. StorageInv
  BY Zenon, <1>3, <1>4, <1>5 DEF StorageInv
<1>7. /\ current \in ClaimObject /\ current.uid <= lastUID
  BY DEF Init, NoObject, NewClaim, ClaimObject, TemporaryUID
<1>8. status \in Checkpoint
  BY Zenon DEF Init, Checkpoint
<1>9. Pinned /\ Retiring /\ pc \in Steps
  BY Zenon DEF Init, Pinned, Retiring, PinnedSteps, RetireSteps, Steps
<1>10. /\ phase \in Phases /\ failed \in BOOLEAN /\ at \in Claims
       /\ crashes \in 0..MaxCrashes /\ restores \in 0..MaxRestores
  <2>1. phase = "FinalSynced" /\ at = SourceClaim /\ crashes = 0 /\ restores = 0
    BY Zenon DEF Init
  <2>2. failed \in BOOLEAN
    BY Zenon DEF Init
  <2>3. /\ phase \in Phases /\ at \in Claims
        /\ crashes \in 0..MaxCrashes /\ restores \in 0..MaxRestores
    BY <2>1 DEF Phases
  <2> QED
    BY Zenon, <2>2, <2>3
<1>11. PassInv
  BY Zenon, <1>7, <1>8, <1>9, <1>10 DEF PassInv
<1> QED
  BY Zenon, <1>6, <1>11 DEF IInv

\* Every step, and every stuttering step, keeps it.
LEMMA NextInv == ASSUME IInv, [Next]_vars PROVE IInv'
<1>1. CASE Next
  BY Zenon, <1>1, StartKeeps, ActivateKeeps, RollbackKeeps, CrashKeeps,
     RestorePolicyKeeps, EnvironmentKeepsInv DEF Next
<1>2. CASE UNCHANGED vars
  <2>1. StorageInv' /\ lastUID' = lastUID /\ pvc' = pvc /\ pv' = pv
    BY Zenon, <1>2, QuietStorage DEF vars, IInv
  <2> QED
    BY Zenon, <1>2, <2>1 DEF vars, passVars, IInv, PassInv, Pinned, SourcePinned, Retiring
<1> QED
  BY Zenon, <1>1, <1>2

\* The inductive invariant holds in every reachable state.
THEOREM Invariance == Spec => []IInv
<1>1. Init => IInv
  BY Zenon, InitInv
<1>2. IInv /\ [Next]_vars => IInv'
  BY Zenon, NextInv
<1> QED
  BY <1>1, <1>2, PTL DEF Spec

\* Type correctness of the cutover, for every value of the constants.
THEOREM TypeCorrect == Spec => []TypeOK
<1>1. IInv => TypeOK
  BY Zenon DEF IInv, StorageInv, PassInv, TypeOK, Steps
<1> QED
  BY <1>1, Invariance, PTL

\* The volume with the source data is never reclaimed: not by an activation,
\* not by a rollback, and not by any of their passes that die half way.
THEOREM SourceSafe == Spec => []SourceKept
<1>1. IInv => SourceKept
  BY Zenon DEF IInv, StorageInv
<1> QED
  BY <1>1, Invariance, PTL

\* The reclaim policy from before the workflow stays on record for as long
\* as the workflow's own policy is in force.
THEOREM OriginalSafe == Spec => []OriginalKept
<1>1. IInv => OriginalKept
  BY Zenon DEF IInv, StorageInv, MarkedPair, Marked, OriginalKept
<1> QED
  BY <1>1, Invariance, PTL

\* What a step that deletes a claim looks like.
LEMMA Deletions ==
    ASSUME IInv, [Next]_vars, NEW l \in Claims, Deletes(l)
    PROVE  \/ pvc[l].uid = TemporaryUID
           \/ pvc[l].uid = SourceUID /\ SourcePinned
           \/ pvc[l].volume = DestinationPV /\ pvc[l].session
<1> USE StorageAssumption, CutoverAssumption
<1>1. pvc \in [Claims -> ClaimObject]
  BY Zenon DEF IInv, StorageInv, StorageTypeOK
<1>2. ~pvc[l].deleting /\ pvc'[l].deleting /\ pvc' # pvc
  BY Zenon DEF Deletes
<1>3. \A k \in Claims, u \in Nat : DeletePVC(k, u) => k = l /\ pvc[l].uid = u
  BY Zenon, <1>1, <1>2 DEF DeletePVC, Exists, ClaimObject
<1>4. \A k \in Claims, v \in Volumes : ~CreateBoundPVC(k, v)
  BY <1>1, <1>2 DEF CreateBoundPVC, NewClaim
<1>5. ~Environment
  <2>1. \A k \in Claims, v \in Volumes : ~BindNamed(k, v)
    BY <1>1, <1>2 DEF BindNamed, ClaimObject
  <2>2. \A k \in Claims : ~BindAny(k) /\ ~FinishDelete(k) /\ ~Intrude(k)
    BY <1>1, <1>2 DEF BindAny, FinishDelete, Intrude, NoObject, NewClaim, ClaimObject
  <2>3. \A v : ~Release(v) /\ ~MakeAvailable(v) /\ ~Reclaim(v) /\ ~Detach(v)
    BY Zenon, <1>2 DEF Release, MakeAvailable, Reclaim, Detach
  <2>4. ~StopPod /\ \A k \in Claims : ~StartPod(k)
    BY Zenon, <1>2 DEF StopPod, StartPod
  <2> QED
    BY Zenon, <2>1, <2>2, <2>3, <2>4 DEF Environment, Controllers
<1>6. \/ pc = "deleteTemporary" /\ DeletePVC(TemporaryClaim, TemporaryUID)
      \/ pc = "deleteSource" /\ DeletePVC(SourceClaim, SourceUID)
      \/ pc = "retireDelete" /\ DeletePVC(at, current.uid)
  <2>1. CASE Next
    <3>1. ~(StartActivate \/ Complete \/ StartRollback \/ Crash \/ RestorePolicy)
      BY Zenon, <1>2 DEF StartActivate, Complete, StartRollback, Transition, FailIf,
                  Crash, RestorePolicy, storageVars
    <3>2. CASE ActivateStep
      BY Zenon, <1>2, <1>4, <3>2
         DEF ActivateStep, Probe, RetainSource, RetainDestination,
             DeleteTemporary, TemporaryGone, DeleteSource, SourceGone,
             Reserve, Reserved, Create, Bound, MarkActive, MarkRollback,
             SaveActive, FinishActivate, Creates, AwaitsBinding, FailIf, Take,
             Skip, Save, Transition, EnsureRetain, ReservePV, storageVars
    <3>3. CASE RollbackStep
      BY Zenon, <1>2, <1>4, <3>3
         DEF RollbackStep, RetireActive, RestoreProbe, Retire, RetireRetain,
             RetireDelete, RetireGone, RestoreRetainSource,
             RestoreRetainDestination, RestoreReserve, RestoreCreate,
             RestoreBound, RestoreMarkActive, RestoreMarkRollback,
             SaveRestored, FinishRollback, Creates, AwaitsBinding, FailIf,
             Take, Skip, Save, Transition, EnsureRetain, ReservePV, storageVars
    <3> QED
      BY Zenon, <1>5, <2>1, <3>1, <3>2, <3>3 DEF Next
  <2>2. CASE UNCHANGED vars
    BY Zenon, <1>2, <2>2 DEF vars, storageVars
  <2> QED
    BY Zenon, <2>1, <2>2
<1>7. CASE pc = "deleteTemporary" /\ DeletePVC(TemporaryClaim, TemporaryUID)
  BY Zenon, <1>3, <1>7 DEF TemporaryUID
<1>8. CASE pc = "deleteSource" /\ DeletePVC(SourceClaim, SourceUID)
  BY Zenon, <1>3, <1>8 DEF SourceUID, IInv, PassInv, Pinned, PinnedSteps
<1>9. CASE pc = "retireDelete" /\ DeletePVC(at, current.uid)
  <2>1. at \in Claims /\ current.uid \in Nat
    BY Zenon DEF IInv, PassInv, ClaimObject
  <2>2. at = l /\ pvc[l].uid = current.uid
    BY Zenon, <1>3, <1>9, <2>1
  <2> QED
    BY Zenon, <1>9, <2>2 DEF IInv, PassInv, Retiring, RetireSteps
<1> QED
  BY Zenon, <1>6, <1>7, <1>8, <1>9

\* Claims are deleted only while their volumes are retained, with the
\* original policy on record.
THEOREM DeletionsRetained == Spec => DeletesRetained
<1>1. ASSUME IInv, [Next]_vars, NEW l \in Claims, Deletes(l)
      PROVE  OnRetained(pvc[l].volume)
  <2>1. /\ InitialPolicy[SourcePV] # "none" /\ InitialPolicy[DestinationPV] # "none"
    BY Zenon, StorageAssumption, CutoverAssumption DEF Policies
  <2>2. \/ pvc[l].volume = SourcePV /\ SourcePinned
        \/ pvc[l].volume = DestinationPV
    BY Zenon, <1>1, Deletions DEF IInv, StorageInv, RecordedClaims
  <2>3. /\ pv[DestinationPV].original # "none"
        /\ pv[DestinationPV].policy = "Retain" \/ restores > 0
    BY Zenon, <1>1, <2>1 DEF IInv, StorageInv, MarkedPair, Marked
  <2>4. pv[SourcePV].session => pv[SourcePV].original # "none"
    BY Zenon, <1>1, <2>1 DEF IInv, StorageInv, MarkedPair, Marked
  <2> QED
    BY Zenon, <2>2, <2>3, <2>4 DEF SourcePinned, OnRetained
<1>2. IInv /\ [Next]_vars =>
        [\A l \in Claims : Deletes(l) => OnRetained(pvc[l].volume)]_vars
  BY Zenon, <1>1
<1> QED
  BY <1>2, Invariance, PTL DEF Spec, DeletesRetained

\* Only claims of the plan and claims that the session created are deleted.
THEOREM DeletionsOwn == Spec => DeletesOwn
<1>1. IInv /\ [Next]_vars =>
        [\A l \in Claims : Deletes(l) =>
           pvc[l].uid \in {SourceUID, TemporaryUID} \/ pvc[l].session]_vars
  BY Zenon, Deletions
<1> QED
  BY <1>1, Invariance, PTL DEF Spec, DeletesOwn

=============================================================================
