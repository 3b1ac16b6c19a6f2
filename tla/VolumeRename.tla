----------------------------- MODULE VolumeRename -----------------------------
(***************************************************************************)
(* Renaming (or moving to another namespace) an offline claim while its    *)
(* volume stays: internal/app's RenameExecutor and MoveExecutor driving    *)
(* RenamePVC of internal/kube, with resume, abort, rollback, cleanup and   *)
(* the convergence of a deleted workflow object.  There is one copy of the *)
(* data, and between the deletion of the old claim and the creation of the *)
(* new one no claim refers to it.                                          *)
(***************************************************************************)
EXTENDS Switcher

CONSTANTS
    SourceClaim,        \* the claim to rename
    DestinationClaim,   \* its new name (rename) or namespace (move)
    SourcePV,
    MaxCrashes,         \* bound: passes that die or meet an API error
    MaxRestores,        \* bound: provisioner restores of the reclaim policy
    MaxRollbacks        \* bound: rollbacks that the user asks for

ASSUME RenameAssumption ==
    /\ {SourceClaim, DestinationClaim} \subseteq Claims
    /\ SourceClaim # DestinationClaim
    /\ SourcePV \in Volumes
    /\ MaxCrashes \in Nat /\ MaxRestores \in Nat /\ MaxRollbacks \in Nat

VARIABLES
    phase,      \* the phase to resume from (status.phase, or resumeFrom when Failed)
    failed,     \* status.phase is Failed
    planned,    \* status.plan is recorded
    active,     \* UID of status.activation.activePVC, 0 without one
    record,     \* the workflow object: "kept", "deleting" (deletionTimestamp), "gone"
    pc,         \* the next step of the running pass, "idle" without one
    current,    \* the claim the pass works with, as it was read
    bounds      \* crashes, restores and rollbacks so far

passVars == <<phase, failed, planned, active, record, pc, current>>
vars == <<storageVars, passVars, bounds>>

SourceUID == 1

Phases ==
    {"Planned", "Renaming", "Completed", "RollingBack", "RolledBack",
     "Aborting", "Aborted"}

TypeOK ==
    /\ StorageTypeOK
    /\ phase \in Phases
    /\ failed \in BOOLEAN /\ planned \in BOOLEAN
    /\ active \in Nat
    /\ record \in {"kept", "deleting", "gone"}
    /\ pc \in {"idle", "probe", "retain", "delete", "sourceGone", "reserve", "create",
               "bound", "markActive", "save", "aborting",
               "finalizePVC", "finalizePV", "deleteRecord"}
    /\ current \in ClaimObject
    /\ bounds \in [crashes: 0..MaxCrashes, restores: 0..MaxRestores,
                   rollbacks: 0..MaxRollbacks]

Init ==
    /\ pvc = [l \in Claims |->
                IF l = SourceClaim
                THEN [uid |-> SourceUID, volume |-> SourcePV, session |-> FALSE,
                      bound |-> TRUE, deleting |-> FALSE]
                ELSE NoObject]
    /\ pv = [v \in Volumes |->
                [policy |-> InitialPolicy[v], original |-> "none",
                 session |-> FALSE, role |-> "none",
                 claim |-> IF v = SourcePV THEN SourceClaim ELSE NoClaim,
                 claimUID |-> IF v = SourcePV THEN SourceUID ELSE 0,
                 phase |-> IF v = SourcePV THEN "Bound" ELSE "Available"]]
    /\ lastUID = SourceUID
    /\ pod = NoClaim /\ attached = {} /\ pods = 0 /\ intrusions = 0
    /\ phase = "Planned" /\ failed = FALSE /\ planned = FALSE /\ active = 0
    /\ record = "kept" /\ pc = "idle" /\ current = NoObject
    /\ bounds = [crashes |-> 0, restores |-> 0, rollbacks |-> 0]

-----------------------------------------------------------------------------
(* The identity change, forwards or (from RollingBack) backwards *)

Back == phase \in {"RollingBack", "RolledBack"}
From == IF Back THEN DestinationClaim ELSE SourceClaim
To == IF Back THEN SourceClaim ELSE DestinationClaim

\* The claim recorded as the active one, the planned one before that.
ActiveClaim == IF phase \in {"Completed", "RollingBack"} THEN DestinationClaim ELSE SourceClaim
ActiveUID == IF active = 0 THEN SourceUID ELSE active

Offline(l) == VerifyIdentity(l, pvc[l].uid, SourcePV) /\ NoConsumers(l) /\ Detached(SourcePV)

\* The old claim u is gone: its retained volume still tells this operation,
\* or the new claim is there already.
VerifyPVCRebindRecovery(from, u, to) ==
    /\ IF Exists(to)
       THEN /\ pvc[to].session /\ ~pvc[to].deleting
            /\ pv[SourcePV].session /\ pv[SourcePV].policy = "Retain"
            /\ VerifyIdentity(to, pvc[to].uid, SourcePV)
       ELSE VerifyRetained(from, u, SourcePV, to)
    /\ NoConsumers(from) /\ NoConsumers(to) /\ Detached(SourcePV)

VerifyPVCRebind(from, u, to, recovering) ==
    IF Exists(from)
    THEN pvc[from].uid = u /\ ~Exists(to) /\ Offline(from)
    ELSE recovering /\ VerifyPVCRebindRecovery(from, u, to)

VerifyPVCSourceSnapshot ==
    pvc[SourceClaim].uid = SourceUID /\ pv[SourcePV].policy = InitialPolicy[SourcePV]

ValidateResume ==
    planned =>
      /\ phase = "Planned" => VerifyPVCSourceSnapshot
      /\ phase \in {"Planned", "Renaming"} =>
            VerifyPVCRebind(SourceClaim, SourceUID, DestinationClaim, phase = "Renaming")
      /\ phase = "RollingBack" =>
            VerifyPVCRebind(DestinationClaim, active, SourceClaim, TRUE)

ValidateRollback ==
    /\ planned /\ active # 0
    /\ phase \in {"Completed", "RollingBack"}
    /\ VerifyPVCRebind(DestinationClaim, active, SourceClaim, phase = "RollingBack")

-----------------------------------------------------------------------------
(* Steps of a pass *)

Goto(step) == pc' = step /\ UNCHANGED <<phase, failed, planned, active, record, current, bounds>>

Skip(step) == Goto(step) /\ UNCHANGED storageVars

Take(l, step) ==
    /\ pc' = step /\ current' = pvc[l]
    /\ UNCHANGED <<storageVars, phase, failed, planned, active, record, bounds>>

\* An error of the pass, recorded as Failed where the lifecycle allows it.
FailIf(condition) ==
    /\ condition
    /\ pc' = "idle" /\ current' = NoObject
    /\ failed' = (failed \/ phase \notin {"Completed", "RolledBack", "Aborted"})
    /\ UNCHANGED <<storageVars, phase, planned, active, record, bounds>>

\* A transition that reached the store; "step" is what the pass does next.
Transition(next, uid, step) ==
    /\ phase' = next
    /\ failed' = FALSE
    /\ active' = uid
    /\ pc' = step
    /\ current' = NoObject
    /\ UNCHANGED <<storageVars, planned, record>>

\* The planner records the claim, its volume and its template.
Plan ==
    /\ pc = "idle" /\ record = "kept"
    /\ ~planned /\ phase = "Planned"
    /\ VerifyIdentity(SourceClaim, SourceUID, SourcePV) /\ NoConsumers(SourceClaim)
    /\ ~Exists(DestinationClaim)
    /\ planned' = TRUE
    /\ UNCHANGED <<storageVars, phase, failed, active, record, pc, current, bounds>>

\* Run, and FinalizeDeleted for a change that had started.
StartRename ==
    /\ pc = "idle" /\ planned
    /\ \/ record = "kept" /\ phase \in {"Planned", "Renaming"}
       \/ record = "deleting" /\ phase = "Renaming"
    /\ \/ ValidateResume /\ Transition("Renaming", active, "probe") /\ UNCHANGED bounds
       \/ ~failed /\ record = "kept" /\ FailIf(~ValidateResume)

RequestResume ==
    /\ pc = "idle" /\ record = "kept"
    /\ failed
    /\ ValidateResume
    /\ failed' = FALSE
    /\ UNCHANGED <<storageVars, phase, planned, active, record, pc, current, bounds>>

StartRollback ==
    /\ pc = "idle"
    /\ ValidateRollback
    /\ phase = "Completed" => record = "kept" /\ bounds.rollbacks < MaxRollbacks
    /\ record # "gone"
    /\ Transition("RollingBack", active, "probe")
    /\ bounds' = IF phase = "Completed"
                 THEN [bounds EXCEPT !.rollbacks = @ + 1] ELSE bounds

\* Run of a workflow in RollingBack records that it cannot proceed.
RejectRollback ==
    /\ pc = "idle" /\ record = "kept"
    /\ phase = "RollingBack" /\ ~failed
    /\ FailIf(~ValidateRollback)

\* The checks of RenamePVC; the new claim may have been created already.
Probe ==
    /\ pc = "probe"
    /\ LET u == IF Back THEN active ELSE SourceUID
           fromOK == Exists(From) =>
                       pvc[From].uid = u /\ VerifyBinding(From, pvc[From], SourcePV)
           toOK == Exists(To) =>
                     /\ ~Exists(From)
                     /\ pvc[To].volume = SourcePV /\ pvc[To].session
                     /\ NoConsumers(To)
           ok == NoConsumers(From) /\ fromOK /\ toOK
       IN \/ FailIf(~ok)
          \/ ok /\ IF Exists(To) THEN Take(To, "markActive") ELSE Skip("retain")

\* Mutant: the volume is known to be retained when rolling back.
RetainOnce ==
    /\ pc = "retain"
    /\ IF Back THEN Skip("delete")
               ELSE EnsureRetain(SourcePV, "rename") /\ Goto("delete")

Retain ==
    /\ pc = "retain"
    /\ EnsureRetain(SourcePV, "rename")
    /\ Goto("delete")

Delete ==
    /\ pc = "delete"
    /\ LET u == IF Back THEN active ELSE SourceUID
       IN \/ DeletePVC(From, u) /\ Goto("sourceGone")
          \/ FailIf(pvc[From].uid \notin {0, u})

SourceGone ==
    /\ pc = "sourceGone"
    /\ LET u == IF Back THEN active ELSE SourceUID
       IN \/ ~Exists(From) /\ Detached(SourcePV) /\ Skip("reserve")
          \/ FailIf(pvc[From].uid \notin {0, u})

Reserve ==
    /\ pc = "reserve"
    /\ LET conflict == Exists(To) \/ ReservationConflict(SourcePV, To)
       IN \/ ~conflict /\ ReservePV(SourcePV, To) /\ Goto("create")
          \/ FailIf(conflict)

Create ==
    /\ pc = "create"
    /\ \/ /\ ~CreateConflict(To, SourcePV)
          /\ CreateBoundPVC(To, SourcePV)
          /\ pc' = "bound" /\ current' = pvc'[To]
          /\ UNCHANGED <<phase, failed, planned, active, record, bounds>>
       \/ FailIf(CreateConflict(To, SourcePV))

Bound ==
    /\ pc = "bound"
    /\ LET conflict == pvc[To].uid # current.uid \/ pvc[To].volume # SourcePV
       IN \/ ~conflict /\ pvc[To].bound /\ Take(To, "markActive")
          \/ FailIf(conflict)

MarkActive ==
    /\ pc = "markActive"
    /\ LET ok == VerifyBinding(To, current, SourcePV)
       IN \/ ok /\ EnsureRetain(SourcePV, "active") /\ Goto("save")
          \/ FailIf(~ok)

SaveActive ==
    /\ pc = "save"
    /\ Transition(IF Back THEN "RolledBack" ELSE "Completed", current.uid, "idle")
    /\ UNCHANGED bounds

\* Abort, also as FinalizeDeleted's answer to a change that never started.
Abort ==
    /\ pc = "idle" /\ record # "gone"
    /\ phase \in {"Planned", "Aborting"}
    /\ IF planned THEN Transition("Aborting", active, "aborting")
                  ELSE Transition("Aborted", active, "idle")
    /\ UNCHANGED bounds

Aborted ==
    /\ pc = "aborting"
    /\ Transition("Aborted", active, "idle")
    /\ UNCHANGED bounds

-----------------------------------------------------------------------------
(* Cleanup *)

\* Mutant: a volume that was given back before is not the workflow's.
FinalizableOnce == pv[SourcePV].session

\* The volume is the workflow's, or was given back before.
FinalizablePV ==
    \/ pv[SourcePV].session /\ pv[SourcePV].role # "none"
    \/ /\ ~pv[SourcePV].session /\ pv[SourcePV].role = "none"
       /\ pv[SourcePV].policy = InitialPolicy[SourcePV]
       /\ pv[SourcePV].original = "none"

ValidateRetainedIdentity ==
    /\ pvc[ActiveClaim].uid \in {0, ActiveUID}
    /\ Live(SourcePV) =>
         /\ FinalizablePV
         /\ pv[SourcePV].phase = "Bound" =>
              pv[SourcePV].claim = ActiveClaim /\ pv[SourcePV].claimUID = ActiveUID

\* cleanup --finalize of a terminal workflow, with or without --delete-session;
\* a workflow without a plan has nothing to give back.
StartCleanup ==
    /\ pc = "idle" /\ record # "gone"
    /\ IF planned
       THEN /\ ~failed /\ phase \in {"Completed", "Aborted", "RolledBack"}
            /\ ValidateRetainedIdentity
            /\ Skip("finalizePVC")
       ELSE Skip("deleteRecord")

FinalizePVC ==
    /\ pc = "finalizePVC"
    /\ LET own == pvc[ActiveClaim].uid = ActiveUID
       IN \/ /\ own \/ ~Exists(ActiveClaim)
             /\ pvc' = IF own THEN [pvc EXCEPT ![ActiveClaim].session = FALSE] ELSE pvc
             /\ UNCHANGED <<pv, lastUID, pod, attached, pods, intrusions>>
             /\ Goto("finalizePV")
          \/ FailIf(Exists(ActiveClaim) /\ ~own)

\* Mutant: the policy in force is taken for the original one.
GivenBackAsIs(p) ==
    [p EXCEPT !.session = FALSE, !.role = "none", !.original = "none"]

\* The volume as finalizeActivePV gives it back, with the annotated policy.
GivenBack(p) ==
    [p EXCEPT !.session = FALSE, !.role = "none", !.original = "none",
              !.policy = IF p.original = "none" THEN InitialPolicy[SourcePV] ELSE p.original]

FinalizePV ==
    /\ pc = "finalizePV"
    /\ \/ /\ ~Live(SourcePV) \/ (FinalizablePV /\ ~pv[SourcePV].session)
          /\ Skip("deleteRecord")
       \/ /\ Live(SourcePV) /\ pv[SourcePV].session
          /\ pv' = [pv EXCEPT ![SourcePV] = GivenBack(pv[SourcePV])]
          /\ UNCHANGED <<pvc, lastUID, pod, attached, pods, intrusions>>
          /\ Goto("deleteRecord")
       \/ FailIf(Live(SourcePV) /\ ~FinalizablePV)

\* The Lease and the record are deleted if that was asked for.
DeleteRecord ==
    /\ pc = "deleteRecord"
    /\ pc' = "idle"
    /\ record' \in IF record = "deleting" THEN {"gone"} ELSE {record, "gone"}
    /\ UNCHANGED <<storageVars, phase, failed, planned, active, current, bounds>>

\* The object is deleted; the controller converges it before it goes.
DeleteObject ==
    /\ record = "kept"
    /\ pc \notin {"finalizePVC", "finalizePV", "deleteRecord"}
    /\ record' = "deleting"
    /\ UNCHANGED <<storageVars, phase, failed, planned, active, pc, current, bounds>>

-----------------------------------------------------------------------------

Crash ==
    /\ pc # "idle"
    /\ bounds.crashes < MaxCrashes
    /\ bounds' = [bounds EXCEPT !.crashes = @ + 1]
    /\ pc' = "idle" /\ current' = NoObject
    /\ failed' \in {failed, failed \/ phase \in {"Renaming", "RollingBack", "Aborting"}}
    /\ UNCHANGED <<storageVars, phase, planned, active, record>>

\* The provisioner puts back the reclaim policy of the renamed volume.
RestorePolicy ==
    /\ bounds.restores < MaxRestores
    /\ pc = "idle" /\ phase = "Completed"
    /\ pv[SourcePV].phase = "Bound" /\ pv[SourcePV].session
    /\ pv[SourcePV].policy # pv[SourcePV].original
    /\ pv' = [pv EXCEPT ![SourcePV].policy = pv[SourcePV].original]
    /\ bounds' = [bounds EXCEPT !.restores = @ + 1]
    /\ UNCHANGED <<pvc, lastUID, pod, attached, pods, intrusions, passVars>>

RenameStep ==
    \/ Probe \/ Retain \/ Delete \/ SourceGone \/ Reserve \/ Create \/ Bound
    \/ MarkActive \/ SaveActive

CleanupStep == Aborted \/ FinalizePVC \/ FinalizePV \/ DeleteRecord

Environment ==
    /\ \/ Controllers
       \/ \E v \in Volumes : Reclaim(v)
       \/ \E l \in Claims : StartPod(l)
       \/ \E l \in {SourceClaim, DestinationClaim} : Intrude(l)
    /\ UNCHANGED <<passVars, bounds>>

Next ==
    \/ Plan \/ StartRename \/ RequestResume \/ StartRollback \/ RejectRollback \/ Abort
    \/ StartCleanup \/ RenameStep \/ CleanupStep \/ DeleteObject
    \/ Crash \/ RestorePolicy \/ Environment

Spec == Init /\ [][Next]_vars

\* A started pass goes on, the command (or the reconciler) comes back until
\* the workflow rests, and the cluster's controllers do their work.
FairSpec ==
    /\ Spec
    /\ WF_vars(RenameStep) /\ WF_vars(CleanupStep)
    /\ WF_vars(StartRename) /\ WF_vars(phase = "RollingBack" /\ StartRollback)
    /\ WF_vars(record = "deleting" /\ (Abort \/ StartCleanup))
    /\ WF_vars(Controllers /\ UNCHANGED <<passVars, bounds>>)

-----------------------------------------------------------------------------
(* Properties *)

\* The only copy of the data survives every rename, rollback, deletion of the
\* workflow and crash, although its claim is deleted on the way and the
\* provisioner may have put the Delete policy back.
DataKept == Live(SourcePV)

\* A finished rename (rollback) leaves the recorded claim bound to the volume
\* under the new (old) name.
RecordedServes ==
    phase \in {"Completed", "RolledBack"} => VerifyIdentity(ActiveClaim, active, SourcePV)

Deletes(l) == Exists(l) /\ ~pvc[l].deleting /\ pvc'[l].deleting

\* RenamePVC deletes a claim only while its volume carries the session, the
\* Retain policy and a record of the policy to give back.
DeletesRetained ==
    [][\A l \in Claims : Deletes(l) =>
         /\ pv[SourcePV].session /\ pv[SourcePV].policy = "Retain"
         /\ pv[SourcePV].original # "none"]_vars

\* It deletes the planned claim or the claim it created and recorded, never
\* one that someone else created under the name.
DeletesOwn ==
    [][\A l \in Claims : Deletes(l) => pvc[l].uid \in {SourceUID, active}]_vars

\* Once the workflow object is gone the volume has its original policy and
\* nothing of the workflow is left on it, whatever the object went through.
GivenBackWhole ==
    record = "gone" =>
      /\ pv[SourcePV].policy = InitialPolicy[SourcePV]
      /\ ~pv[SourcePV].session
      /\ pv[SourcePV].original = "none" /\ pv[SourcePV].role = "none"

\* Somebody took a name of the workflow, which only they can give up.
NameTaken == intrusions > 0

\* A rename that started completes, however often its pass dies, unless one
\* of its names was taken.
RenameFinishes == phase = "Renaming" ~> (phase = "Completed" \/ NameTaken)

\* So does a rollback, also one that finds the volume without protection.
RollbackFinishes == phase = "RollingBack" ~> (phase = "RolledBack" \/ NameTaken)

\* FinalizeDeleted lets a deleted workflow object go from every phase.
DeletionFinishes == record = "deleting" ~> (record = "gone" \/ NameTaken)

\* The data stays, and the recorded claim leads to it.
DataServed == DataKept /\ RecordedServes

\* RenamePVC deletes no claim but its own, and none of an unprotected volume.
DeletesSafely == DeletesRetained /\ DeletesOwn

\* Whatever was started ends: the rename, its rollback and the deletion of the
\* workflow object.
Finishes == RenameFinishes /\ RollbackFinishes /\ DeletionFinishes

=============================================================================
