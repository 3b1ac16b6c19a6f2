---------------------------- MODULE VolumeCutover ----------------------------
(***************************************************************************)
(* The cutover of one volume by an offline migration (internal/app's       *)
(* ClusterMigrationExecutor driving internal/kube's ActivatePVC and        *)
(* RollbackPVC), from FinalSynced on: the claim name of the application    *)
(* moves from the source volume to the destination volume, or back.  A     *)
(* pass over the workflow may die at any step and a later pass resumes     *)
(* from the persisted checkpoint.  The session Lease (SessionLease) keeps  *)
(* the passes from overlapping.                                            *)
(***************************************************************************)
EXTENDS Switcher

CONSTANTS
    SourceClaim,          \* the source claim
    TemporaryClaim,       \* the destination claim that was copied into
    ActiveClaim,          \* where the activated claim lands: SourceClaim, or
                          \* the same name in another namespace
    SourcePV,
    DestinationPV,
    MaxCrashes,           \* bound: passes that die or meet an API error
    MaxRestores           \* bound: provisioner restores of a reclaim policy

ASSUME CutoverAssumption ==
    /\ {SourceClaim, TemporaryClaim, ActiveClaim} \subseteq Claims
    /\ TemporaryClaim \notin {SourceClaim, ActiveClaim}
    /\ {SourcePV, DestinationPV} \subseteq Volumes /\ SourcePV # DestinationPV
    /\ MaxCrashes \in Nat /\ MaxRestores \in Nat

VARIABLES
    phase,      \* the phase to resume from (status.phase, or resumeFrom when Failed)
    failed,     \* status.phase is Failed
    status,     \* the persisted activation checkpoint
    pc,         \* the next step of the running pass, "idle" without one
    current,    \* the claim the pass works with, as it was read
    at,         \* the location of that claim
    crashes,
    restores

passVars == <<phase, failed, status, pc, current, at>>
vars == <<storageVars, passVars, crashes, restores>>

SourceUID == 1
TemporaryUID == 2

CrossNamespace == ActiveClaim # SourceClaim

Phases ==
    {"FinalSynced", "Activating", "Activated", "Completed",
     "RollingBack", "RolledBack"}

\* ClusterVolumeActivationStatus; activePVC 0 stands for nil.
Checkpoint ==
    [temporaryPVCDeleted: BOOLEAN, sourcePVCDeleted: BOOLEAN,
     destinationReserved: BOOLEAN, activePVC: Nat,
     activatedAt: BOOLEAN, rolledBackAt: BOOLEAN]

ActivateSteps ==
    {"probe", "retainSource", "retainDestination", "deleteTemporary",
     "temporaryGone", "deleteSource", "sourceGone", "reserve", "reserved",
     "create", "bound", "markActive", "markRollback", "save", "finish"}

RollbackSteps ==
    {"retireActive", "restoreProbe", "retireRetain", "retireDelete",
     "retireGone", "restoreRetainSource", "restoreRetainDestination",
     "restoreReserve", "restoreCreate", "restoreBound", "restoreMarkActive",
     "restoreMarkRollback", "restoreSave", "restoreFinish"}

TypeOK ==
    /\ StorageTypeOK
    /\ phase \in Phases
    /\ failed \in BOOLEAN
    /\ status \in Checkpoint
    /\ pc \in {"idle"} \cup ActivateSteps \cup RollbackSteps
    /\ current \in ClaimObject
    /\ at \in Claims
    /\ crashes \in 0..MaxCrashes
    /\ restores \in 0..MaxRestores

\* The state after the final sync: both claims bound and offline, both volumes
\* marked and retained by the reservation.  The provisioner may have put the
\* source volume's own policy back since.
Init ==
    /\ pvc = [l \in Claims |->
                CASE l = SourceClaim ->
                       [uid |-> SourceUID, volume |-> SourcePV, session |-> TRUE,
                        bound |-> TRUE, deleting |-> FALSE]
                  [] l = TemporaryClaim ->
                       [uid |-> TemporaryUID, volume |-> DestinationPV,
                        session |-> TRUE, bound |-> TRUE, deleting |-> FALSE]
                  [] OTHER -> NoObject]
    /\ \E policy \in {"Retain", InitialPolicy[SourcePV]} :
         pv = [v \in Volumes |->
                CASE v = SourcePV ->
                       [policy |-> policy, original |-> InitialPolicy[v],
                        session |-> TRUE, role |-> "source", claim |-> SourceClaim,
                        claimUID |-> SourceUID, phase |-> "Bound"]
                  [] v = DestinationPV ->
                       [policy |-> "Retain", original |-> InitialPolicy[v],
                        session |-> TRUE, role |-> "destination",
                        claim |-> TemporaryClaim, claimUID |-> TemporaryUID,
                        phase |-> "Bound"]
                  [] OTHER ->
                       [policy |-> InitialPolicy[v], original |-> "none",
                        session |-> FALSE, role |-> "none", claim |-> NoClaim,
                        claimUID |-> 0, phase |-> "Available"]]
    /\ lastUID = TemporaryUID
    /\ pod = NoClaim /\ attached = {} /\ pods = 0 /\ intrusions = 0
    /\ phase = "FinalSynced" /\ failed = FALSE
    /\ status = [temporaryPVCDeleted |-> FALSE, sourcePVCDeleted |-> FALSE,
                 destinationReserved |-> FALSE, activePVC |-> 0,
                 activatedAt |-> FALSE, rolledBackAt |-> FALSE]
    /\ pc = "idle" /\ current = NoObject /\ at = SourceClaim
    /\ crashes = 0 /\ restores = 0

-----------------------------------------------------------------------------
(* The preflight of a pass *)

\* The activated claim is in place, as recorded.
VerifyActive(u) ==
    /\ VerifyIdentity(ActiveClaim, u, DestinationPV)
    /\ pvc[ActiveClaim].session /\ ~pvc[ActiveClaim].deleting

\* The source claim is in place: the original one, or one of the session.
VerifyRestored(u) ==
    /\ VerifyIdentity(SourceClaim, u, SourcePV)
    /\ u = SourceUID \/ pvc[SourceClaim].session

\* A claim at the activated location that is not the original source claim.
UnrecordedActive ==
    /\ Exists(ActiveClaim)
    /\ ~(pvc[ActiveClaim].uid = SourceUID /\ pvc[ActiveClaim].volume = SourcePV)

Offline(claims, volumes) ==
    /\ \A l \in claims : NoConsumers(l)
    /\ \A v \in volumes : Detached(v)

\* Both claims as planned, or, when recovering, deleted by an earlier pass.
VerifyBindings(recovering) ==
    /\ IF recovering
       THEN /\ VerifyRecovery(SourceClaim, SourceUID, SourcePV, NoClaim)
            /\ VerifyRecovery(TemporaryClaim, TemporaryUID, DestinationPV, SourceClaim)
       ELSE /\ VerifyIdentity(SourceClaim, SourceUID, SourcePV)
            /\ VerifyIdentity(TemporaryClaim, TemporaryUID, DestinationPV)
    /\ Offline({SourceClaim, TemporaryClaim}, {SourcePV, DestinationPV})

ValidateActivation ==
    IF status.activePVC # 0
    THEN VerifyActive(status.activePVC)
    ELSE IF UnrecordedActive
    THEN /\ VerifyActive(pvc[ActiveClaim].uid)
         /\ Offline({ActiveClaim}, {DestinationPV})
    ELSE VerifyBindings(phase = "Activating" \/ failed)

\* A rollback that was interrupted after it deleted the active claim.
RecoverReversed ==
    /\ VerifyRecovery(ActiveClaim, status.activePVC, DestinationPV, NoClaim)
    /\ VerifyRecovery(SourceClaim, SourceUID, SourcePV, ActiveClaim)
    /\ Offline({ActiveClaim, SourceClaim}, {SourcePV, DestinationPV})

ValidateRollback ==
    IF status.rolledBackAt
    THEN VerifyRestored(status.activePVC)
    ELSE IF phase = "RollingBack" /\ ~Exists(SourceClaim) /\ status.activePVC # 0
    THEN RecoverReversed
    ELSE IF phase = "RollingBack" /\ Exists(SourceClaim)
                                  /\ pvc[SourceClaim].volume = SourcePV
    THEN VerifyRestored(pvc[SourceClaim].uid)
    ELSE IF status.activePVC # 0
    THEN VerifyActive(status.activePVC)
    ELSE IF phase = "Activating" /\ UnrecordedActive
    THEN VerifyActive(pvc[ActiveClaim].uid)
    ELSE VerifyBindings(phase \in {"Activating", "RollingBack"})

-----------------------------------------------------------------------------
(* The steps of a pass *)

Goto(step) ==
    /\ pc' = step
    /\ UNCHANGED <<phase, failed, status, current, at, crashes, restores>>

\* The pass goes on with the claim it reads at l.
Take(l, step) ==
    /\ pc' = step
    /\ current' = pvc[l]
    /\ at' = l
    /\ UNCHANGED <<storageVars, phase, failed, status, crashes, restores>>

Skip(step) == Goto(step) /\ UNCHANGED storageVars

\* A checkpoint that reached the store.
Save(checkpoint, step) ==
    /\ status' = checkpoint
    /\ pc' = step
    /\ UNCHANGED <<storageVars, phase, failed, current, at, crashes, restores>>

EndPass == pc' = "idle" /\ current' = NoObject /\ at' = SourceClaim

\* An error of the pass: the phase becomes Failed, to be resumed from where
\* it was.
FailIf(condition) ==
    /\ condition
    /\ EndPass
    /\ failed' = TRUE
    /\ UNCHANGED <<storageVars, phase, status, crashes, restores>>

Transition(next) ==
    /\ phase' = next
    /\ failed' = FALSE
    /\ UNCHANGED <<storageVars, status, crashes, restores>>

StartActivate ==
    /\ pc = "idle"
    /\ phase \in {"FinalSynced", "Activating"}
    /\ ValidateActivation
    /\ Transition("Activating")
    /\ pc' = IF status.activatedAt THEN "finish" ELSE "probe"
    /\ UNCHANGED <<current, at>>

\* The checks of ActivatePVC, ending with activePVC: is the claim switched
\* already by an earlier pass?
Probe ==
    /\ pc = "probe"
    /\ LET temporaryOK == Exists(TemporaryClaim) =>
                            /\ ~status.temporaryPVCDeleted
                            /\ VerifyIdentity(TemporaryClaim, TemporaryUID, DestinationPV)
           idle == NoConsumers(SourceClaim) /\ NoConsumers(TemporaryClaim)
           c == pvc[ActiveClaim]
           original == c.uid = SourceUID /\ c.volume = SourcePV
           switched == c.volume = DestinationPV /\ c.session
           conflict == /\ Exists(ActiveClaim)
                       /\ IF original THEN ~VerifyBinding(ActiveClaim, c, SourcePV)
                                      ELSE ~switched
       IN \/ FailIf(~temporaryOK \/ ~idle \/ conflict)
          \/ /\ temporaryOK /\ idle /\ ~conflict
             /\ Detached(SourcePV) /\ Detached(DestinationPV)
             /\ IF Exists(ActiveClaim) /\ ~original
                THEN Take(ActiveClaim, "markActive")
                ELSE Skip("retainSource")

RetainSource ==
    /\ pc = "retainSource"
    /\ \/ EnsureRetain(SourcePV, "source") /\ Goto("retainDestination")
       \/ FailIf(~Live(SourcePV))

RetainDestination ==
    /\ pc = "retainDestination"
    /\ \/ EnsureRetain(DestinationPV, "destination") /\ Goto("deleteTemporary")
       \/ FailIf(~Live(DestinationPV))

DeleteTemporary ==
    /\ pc = "deleteTemporary"
    /\ IF status.temporaryPVCDeleted
       THEN Skip("deleteSource")
       ELSE \/ DeletePVC(TemporaryClaim, TemporaryUID) /\ Goto("temporaryGone")
            \/ FailIf(pvc[TemporaryClaim].uid \notin {0, TemporaryUID})

\* The claim is gone and its volume detached: checkpoint.
TemporaryGone ==
    /\ pc = "temporaryGone"
    /\ \/ /\ ~Exists(TemporaryClaim) /\ Detached(DestinationPV)
          /\ Save([status EXCEPT !.temporaryPVCDeleted = TRUE], "deleteSource")
       \/ FailIf(pvc[TemporaryClaim].uid \notin {0, TemporaryUID})

DeleteSource ==
    /\ pc = "deleteSource"
    /\ IF status.sourcePVCDeleted
       THEN Skip("reserve")
       ELSE \/ DeletePVC(SourceClaim, SourceUID) /\ Goto("sourceGone")
            \/ FailIf(pvc[SourceClaim].uid \notin {0, SourceUID})

SourceGone ==
    /\ pc = "sourceGone"
    /\ \/ /\ ~Exists(SourceClaim) /\ Detached(SourcePV)
          /\ Save([status EXCEPT !.sourcePVCDeleted = TRUE], "reserve")
       \/ FailIf(pvc[SourceClaim].uid \notin {0, SourceUID})

\* A dry-run creation of the claim, then the reservation of the volume.
Reserve ==
    /\ pc = "reserve"
    /\ IF status.destinationReserved
       THEN Skip("create")
       ELSE LET conflict == \/ Exists(ActiveClaim)
                            \/ ReservationConflict(DestinationPV, ActiveClaim)
            IN \/ ~conflict /\ ReservePV(DestinationPV, ActiveClaim) /\ Goto("reserved")
               \/ FailIf(conflict)

Reserved ==
    /\ pc = "reserved"
    /\ Save([status EXCEPT !.destinationReserved = TRUE], "create")

\* Creating claim l for volume v (or finding it created), then waiting for
\* the binder.
Creates(l, v, step) ==
    \/ /\ ~CreateConflict(l, v)
       /\ CreateBoundPVC(l, v)
       /\ pc' = step
       /\ current' = pvc'[l]
       /\ at' = l
       /\ UNCHANGED <<phase, failed, status, crashes, restores>>
    \/ FailIf(CreateConflict(l, v))

AwaitsBinding(l, v, step) ==
    LET conflict == pvc[l].uid # current.uid \/ pvc[l].volume # v
    IN \/ ~conflict /\ pvc[l].bound /\ Take(l, step)
       \/ FailIf(conflict)

Create == pc = "create" /\ Creates(ActiveClaim, DestinationPV, "bound")

Bound == pc = "bound" /\ AwaitsBinding(ActiveClaim, DestinationPV, "markActive")

\* completeActivation: verify, mark the pair of volumes, checkpoint.
MarkActive ==
    /\ pc = "markActive"
    /\ LET ok == VerifyBinding(at, current, DestinationPV)
       IN \/ ok /\ EnsureRetain(DestinationPV, "active") /\ Goto("markRollback")
          \/ FailIf(~ok)

MarkRollback ==
    /\ pc = "markRollback"
    /\ \/ EnsureRetain(SourcePV, "rollback") /\ Goto("save")
       \/ FailIf(~Live(SourcePV))

SaveActive ==
    /\ pc = "save"
    /\ Save([status EXCEPT !.activePVC = current.uid, !.activatedAt = TRUE,
                           !.temporaryPVCDeleted = TRUE,
                           !.sourcePVCDeleted = TRUE,
                           !.destinationReserved = TRUE], "finish")

FinishActivate ==
    /\ pc = "finish"
    /\ Transition("Activated")
    /\ EndPass

\* The last stage of a run; a failing verification is recorded.
Complete ==
    /\ pc = "idle"
    /\ phase = "Activated"
    /\ \/ /\ VerifyActive(status.activePVC)
          /\ Transition("Completed")
          /\ UNCHANGED <<pc, current, at>>
       \/ ~failed /\ FailIf(~VerifyActive(status.activePVC))

-----------------------------------------------------------------------------
(* Rollback *)

StartRollback ==
    /\ pc = "idle"
    /\ phase # "RolledBack"
    /\ ValidateRollback
    /\ ~failed /\ phase \in {"Activated", "Completed"} => NoConsumers(ActiveClaim)
    /\ Transition("RollingBack")
    /\ pc' = IF status.rolledBackAt THEN "restoreFinish" ELSE "retireActive"
    /\ UNCHANGED <<current, at>>

\* removeActiveDestination starts with the claim at l.
Retire(l) ==
    LET ok == /\ pvc[l].volume = DestinationPV /\ pvc[l].session
              /\ VerifyBinding(l, pvc[l], DestinationPV)
    IN \/ ok /\ Take(l, "retireRetain")
       \/ FailIf(~ok)

\* Across namespaces the activated claim is retired first.
RetireActive ==
    /\ pc = "retireActive"
    /\ IF CrossNamespace /\ Exists(ActiveClaim)
       THEN Retire(ActiveClaim)
       ELSE Skip("restoreProbe")

RestoreProbe ==
    /\ pc = "restoreProbe"
    /\ LET c == pvc[SourceClaim]
           owned == c.uid = SourceUID \/ c.session
       IN \/ FailIf(~NoConsumers(SourceClaim))
          \/ /\ NoConsumers(SourceClaim)
             /\ IF ~Exists(SourceClaim) THEN Skip("restoreRetainSource")
                ELSE IF c.volume # SourcePV THEN Retire(SourceClaim)
                ELSE \/ owned /\ Take(SourceClaim, "restoreMarkActive")
                     \/ FailIf(~owned)

RetireRetain ==
    /\ pc = "retireRetain"
    /\ \/ EnsureRetain(DestinationPV, "destination") /\ Goto("retireDelete")
       \/ FailIf(~Live(DestinationPV))

RetireDelete ==
    /\ pc = "retireDelete"
    /\ \/ DeletePVC(at, current.uid) /\ Goto("retireGone")
       \/ FailIf(pvc[at].uid \notin {0, current.uid})

RetireGone ==
    /\ pc = "retireGone"
    /\ \/ /\ ~Exists(at) /\ Detached(DestinationPV)
          /\ Skip(IF at = SourceClaim THEN "restoreRetainSource" ELSE "restoreProbe")
       \/ FailIf(pvc[at].uid \notin {0, current.uid})

RestoreRetainSource ==
    /\ pc = "restoreRetainSource"
    /\ \/ EnsureRetain(SourcePV, "source") /\ Goto("restoreRetainDestination")
       \/ FailIf(~Live(SourcePV))

RestoreRetainDestination ==
    /\ pc = "restoreRetainDestination"
    /\ \/ EnsureRetain(DestinationPV, "destination") /\ Goto("restoreReserve")
       \/ FailIf(~Live(DestinationPV))

RestoreReserve ==
    /\ pc = "restoreReserve"
    /\ LET conflict == \/ Exists(SourceClaim)
                       \/ ReservationConflict(SourcePV, SourceClaim)
       IN \/ ~conflict /\ ReservePV(SourcePV, SourceClaim) /\ Goto("restoreCreate")
          \/ FailIf(conflict)

RestoreCreate ==
    pc = "restoreCreate" /\ Creates(SourceClaim, SourcePV, "restoreBound")

RestoreBound ==
    pc = "restoreBound" /\ AwaitsBinding(SourceClaim, SourcePV, "restoreMarkActive")

\* completeRollback; a destination volume that is gone is accepted here.
RestoreMarkActive ==
    /\ pc = "restoreMarkActive"
    /\ LET ok == VerifyBinding(at, current, SourcePV)
       IN \/ ok /\ EnsureRetain(SourcePV, "active") /\ Goto("restoreMarkRollback")
          \/ FailIf(~ok)

RestoreMarkRollback ==
    /\ pc = "restoreMarkRollback"
    /\ IF Live(DestinationPV)
       THEN EnsureRetain(DestinationPV, "rollback") /\ Goto("restoreSave")
       ELSE Skip("restoreSave")

SaveRestored ==
    /\ pc = "restoreSave"
    /\ Save([status EXCEPT !.activePVC = current.uid, !.rolledBackAt = TRUE],
            "restoreFinish")

FinishRollback ==
    /\ pc = "restoreFinish"
    /\ \/ /\ VerifyRestored(status.activePVC)
          /\ Transition("RolledBack")
          /\ EndPass
       \/ FailIf(~VerifyRestored(status.activePVC))

-----------------------------------------------------------------------------
(* The environment of the passes, and the specification *)

\* The process dies, loses its Lease or meets an API error; in the last case
\* the failure is recorded.
Crash ==
    /\ crashes < MaxCrashes
    /\ pc # "idle" \/ (phase = "Activated" /\ ~failed)
    /\ crashes' = crashes + 1
    /\ EndPass
    /\ failed' \in {failed, TRUE}
    /\ UNCHANGED <<storageVars, phase, status, restores>>

\* The provisioner puts back the reclaim policy of the activated volume.
RestorePolicy ==
    /\ restores < MaxRestores
    /\ status.activatedAt
    /\ pv[DestinationPV].phase = "Bound" /\ pv[DestinationPV].session
    /\ pv[DestinationPV].policy # pv[DestinationPV].original
    /\ pv' = [pv EXCEPT ![DestinationPV].policy = pv[DestinationPV].original]
    /\ restores' = restores + 1
    /\ UNCHANGED <<pvc, lastUID, pod, attached, pods, intrusions, passVars, crashes>>

ActivateStep ==
    \/ Probe \/ RetainSource \/ RetainDestination
    \/ DeleteTemporary \/ TemporaryGone \/ DeleteSource \/ SourceGone
    \/ Reserve \/ Reserved \/ Create \/ Bound
    \/ MarkActive \/ MarkRollback \/ SaveActive \/ FinishActivate

RollbackStep ==
    \/ RetireActive \/ RestoreProbe \/ RetireRetain \/ RetireDelete \/ RetireGone
    \/ RestoreRetainSource \/ RestoreRetainDestination \/ RestoreReserve
    \/ RestoreCreate \/ RestoreBound \/ RestoreMarkActive \/ RestoreMarkRollback
    \/ SaveRestored \/ FinishRollback

\* Steps of the environment leave the pass alone.
Environment ==
    /\ \/ Controllers
       \/ \E v \in Volumes : Reclaim(v)
       \/ \E l \in Claims : StartPod(l)
       \/ \E l \in {SourceClaim, ActiveClaim} : Intrude(l)
    /\ UNCHANGED <<passVars, crashes, restores>>

Next ==
    \/ StartActivate \/ Complete \/ StartRollback
    \/ ActivateStep \/ RollbackStep
    \/ Crash \/ RestorePolicy \/ Environment

Spec == Init /\ [][Next]_vars

-----------------------------------------------------------------------------
(* Properties *)

\* The source data survives every cutover and every rollback, whichever
\* steps of however many passes die: the volume it is on is never reclaimed
\* (ensureRetain before every deletePVC).
SourceKept == Live(SourcePV)

\* What the workflow changes it can put back: a volume it has marked carries
\* the reclaim policy it had before the first mark, through retries, rollback
\* and the provisioner's own changes (OriginalPolicyAnnotation).
OriginalKept ==
    \A v \in {SourcePV, DestinationPV} :
        IF pv[v].session THEN pv[v].original = InitialPolicy[v]
                         ELSE pv[v].policy = InitialPolicy[v]

Deletes(l) == ~pvc[l].deleting /\ pvc'[l].deleting

OnRetained(v) ==
    /\ v \in {SourcePV, DestinationPV}
    /\ pv[v].original # "none"
    /\ pv[v].policy = "Retain" \/ (v = DestinationPV /\ restores > 0)

\* A claim is deleted only while its volume is retained with the original
\* policy recorded, unless the provisioner has just undone that.
DeletesRetained ==
    [][\A l \in Claims : Deletes(l) => OnRetained(pvc[l].volume)]_vars

\* Only the recorded claims and claims of the session are deleted, never one
\* that somebody else created under the name in between (deletePVC's UID).
DeletesOwn ==
    [][\A l \in Claims : Deletes(l) =>
         pvc[l].uid \in {SourceUID, TemporaryUID} \/ pvc[l].session]_vars

\* Every rollback restores the source claim, also one that follows an
\* activation whose steps are not all recorded.
RollbackFinishes == phase = "RollingBack" ~> status.rolledBackAt

\* A rollback of a finished activation starts only while no Pod uses the
\* activated claim (rollbackDestinationConsumed).
RollbackSparesConsumers ==
    [][(phase \in {"Activated", "Completed"} /\ phase' = "RollingBack")
         => NoConsumers(ActiveClaim)]_vars

\* A recorded rollback left the source claim bound to the source volume.
RestoredServes ==
    status.rolledBackAt => VerifyIdentity(SourceClaim, status.activePVC, SourcePV)

=============================================================================
