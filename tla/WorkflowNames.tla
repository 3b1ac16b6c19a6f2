--------------------------- MODULE WorkflowNames ---------------------------
(***************************************************************************)
(* One workflow name and everything that may claim it at the same time: a  *)
(* namespaced Rename object, a cluster-scoped Move object, and the session *)
(* ConfigMap of a workflow that the CLI runs by itself.  Every resource    *)
(* the workflows touch is labelled with the name alone, so the name is the *)
(* identity of their authority over it.                                    *)
(*                                                                         *)
(* What keeps the claims apart is spread over the stores (UID and          *)
(* resourceVersion), the Leases (one per name and namespace: a Move locks  *)
(* in its session namespace, a Rename in its own, a session beside its     *)
(* record), the collision checks before and during a pass, and the         *)
(* identity checks of the CLI when it submits, follows and cleans up.      *)
(* Each read of the API server is a step.                                  *)
(*                                                                         *)
(* The controllers read through an uncached client.  Planning failures,    *)
(* aborts and edited specs are in WorkflowController; the steps of the     *)
(* storage itself are in VolumeRename.                                     *)
(***************************************************************************)
EXTENDS Integers, FiniteSets

CONSTANTS
    MaxUID,      \* records ever created under the name
    MaxMishaps   \* crashes of a process, and foreign writes to the records

ASSUME NamesAssumption == MaxUID \in Nat /\ MaxMishaps \in Nat

Kinds == {"Rename", "Move"}
None == 0
Nobody == "free"

\* "app" holds the claims, "new" receives a moved claim, "ops" is where an operator
\* may keep what belongs to the workflows.
Namespaces == {"app", "new", "ops"}

\* What was asked for, told apart by where the workflow keeps its Lease and, if it is
\* a session, its record.
Specs == {"app", "ops"}

NoRecord == [uid |-> None, rv |-> None, spec |-> "none", phase |-> "none",
             protected |-> FALSE, owned |-> FALSE, deleting |-> FALSE]
NewRecord(uid, spec, phase, owned) ==
    [uid |-> uid, rv |-> 1, spec |-> spec, phase |-> phase,
     protected |-> owned, owned |-> owned, deleting |-> FALSE]

Terminal == {"Completed", "Aborted", "RolledBack"}

VARIABLES
    rec,      \* [Kinds -> record]: the workflow objects of the name
    cm,       \* the session record in its ConfigMap
    lease,    \* [Namespaces -> holder or Nobody]: the Leases of the name
    recon,    \* [Kinds -> [pc, mode, obj]]: the reconcile of each object
    session,  \* [pc, obj]: the CLI process that runs the session
    cleaner,  \* [pc, obj, uid, attempt]: the CLI process that cleans it up
    submit,   \* [pc, spec, uid, outcome]: a CLI submission of a Move
    ended,    \* <<uid, spec>> of the objects that have reached Completed
    uids, mishaps

vars == <<rec, cm, lease, recon, session, cleaner, submit, ended, uids, mishaps>>

Present(r) == r.uid # None
Same(a, b) == a.uid = b.uid /\ a.rv = b.rv

Init ==
    /\ rec = [k \in Kinds |-> NoRecord]
    /\ cm = NoRecord
    /\ lease = [n \in Namespaces |-> Nobody]
    /\ recon = [k \in Kinds |-> [pc |-> "idle", mode |-> "none", obj |-> NoRecord]]
    /\ session = [pc |-> "idle", obj |-> NoRecord]
    /\ cleaner = [pc |-> "idle", obj |-> NoRecord, uid |-> None, attempt |-> 0]
    /\ submit = [pc |-> "idle", spec |-> "none", uid |-> None, outcome |-> "none"]
    /\ ended = {} /\ uids = 0 /\ mishaps = 0

-----------------------------------------------------------------------------
(* Namespaces and collision checks.                                        *)

\* Where a workflow keeps its Lease: a Rename in its own namespace; a Move in
\* spec.sessionNamespace or, if that is empty, in the namespace of its source.
SpecsOf(k) == IF k = "Move" THEN Specs ELSE {"app"}
moveWorkflowStorageNamespace(o) == o.spec

\* The namespaces whose records may collide with the workflow.
moveWorkflowNamespaces(k, spec) == IF k = "Move" THEN {"app", "new", spec} ELSE {"app"}

\* A session record exists in one of the namespaces.
checkConfigMapNameCollision(namespaces) == Present(cm) /\ cm.spec \in namespaces

\* An object of another kind has the name: cluster-scoped kinds are looked up
\* by name, namespaced ones in the namespaces of the workflow, and "app", where
\* the Rename is, is one of them.
OtherKindPresent(k) == \E other \in Kinds \ {k} : Present(rec[other])

-----------------------------------------------------------------------------
(* A reconcile of an object: mode is "plan", "run" or "finalize".          *)

At(k, pc) == recon[k].pc = pc
Goto(k, pc) == recon' = [recon EXCEPT ![k].pc = pc]
Idle(k) == recon' = [recon EXCEPT ![k] = [pc |-> "idle", mode |-> "none", obj |-> NoRecord]]
LeaseOf(k) == moveWorkflowStorageNamespace(recon[k].obj)
Hold(k) == lease' = [lease EXCEPT ![LeaseOf(k)] = k]
Release(k) == lease' = [lease EXCEPT ![LeaseOf(k)] = Nobody]
GiveUp(k) == Idle(k) /\ Release(k)

StoreUnchanged == UNCHANGED <<rec, ended, uids>>
OthersUnchanged == UNCHANGED <<cm, session, cleaner, submit, mishaps>>

\* An object that is being deleted is finalized before any collision is looked
\* for; the others are checked first.  A settled object is left as it is.
Reconcile(k) ==
    /\ At(k, "idle") /\ Present(rec[k])
    /\ rec[k].deleting \/ rec[k].phase \notin Terminal
    /\ recon' = [recon EXCEPT ![k] =
           [pc |-> IF rec[k].deleting THEN "lock" ELSE "check",
            mode |-> IF rec[k].deleting THEN "finalize" ELSE "none", obj |-> rec[k]]]
    /\ UNCHANGED lease /\ StoreUnchanged /\ OthersUnchanged

\* CheckWorkflowIdentityCollision reads the ConfigMaps first ...
CheckConfigMaps(k) ==
    /\ At(k, "check")
    /\ IF checkConfigMapNameCollision(moveWorkflowNamespaces(k, recon[k].obj.spec))
       THEN Idle(k) ELSE Goto(k, "kinds")
    /\ UNCHANGED lease /\ StoreUnchanged /\ OthersUnchanged

\* ... and the objects of the other kinds after them.
CheckWorkflowIdentityCollision(k) ==
    /\ At(k, "kinds")
    /\ IF OtherKindPresent(k) THEN Idle(k) ELSE Goto(k, "protect")
    /\ UNCHANGED lease /\ StoreUnchanged /\ OthersUnchanged

\* What the pass does with an object that has, or has not, a plan.
Mode(o) == IF o.phase = "none" THEN "plan" ELSE "run"

\* The finalizer goes on before the object is planned; a changed object ends
\* the pass.
EnsureProtection(k) ==
    /\ At(k, "protect")
    /\ LET o == recon[k].obj
           n == IF o.protected THEN o ELSE [o EXCEPT !.protected = TRUE, !.rv = @ + 1]
       IN IF ~Same(rec[k], o) \/ rec[k].deleting
          THEN Idle(k) /\ UNCHANGED rec
          ELSE /\ rec' = [rec EXCEPT ![k] = n]
               /\ recon' = [recon EXCEPT ![k] =
                      [pc |-> "lock", mode |-> Mode(o), obj |-> n]]
    /\ UNCHANGED <<lease, ended, uids>> /\ OthersUnchanged

\* CRDWorkflowLocker: no ConfigMap before the Lease is asked for ...
LockCheck(k) ==
    /\ At(k, "lock")
    /\ IF checkConfigMapNameCollision({LeaseOf(k)}) THEN Idle(k) ELSE Goto(k, "acquire")
    /\ UNCHANGED lease /\ StoreUnchanged /\ OthersUnchanged

\* A held Lease fails the pass.
Acquire(k) ==
    /\ At(k, "acquire")
    /\ \/ lease[LeaseOf(k)] = Nobody /\ Goto(k, "locked") /\ Hold(k)
       \/ lease[LeaseOf(k)] # Nobody /\ Idle(k) /\ UNCHANGED lease
    /\ StoreUnchanged /\ OthersUnchanged

\* Mutant: the Lease is taken to mean that nobody claimed the name.
LeaseSuffices(k) ==
    /\ At(k, "locked")
    /\ Goto(k, "loaded") /\ UNCHANGED lease
    /\ StoreUnchanged /\ OthersUnchanged

\* Mutant: the Lease is kept when the record is found.
LeaseKept(k) ==
    /\ At(k, "locked")
    /\ IF checkConfigMapNameCollision({LeaseOf(k)}) THEN Idle(k) ELSE Goto(k, "loaded")
    /\ UNCHANGED lease /\ StoreUnchanged /\ OthersUnchanged

\* ... and none once it is held.
AcquireSessionLock(k) ==
    /\ At(k, "locked")
    /\ IF checkConfigMapNameCollision({LeaseOf(k)})
       THEN GiveUp(k) ELSE Goto(k, "loaded") /\ UNCHANGED lease
    /\ StoreUnchanged /\ OthersUnchanged

\* plan, under the Lease: the object must be the one the pass was admitted for.
plan(k) ==
    /\ At(k, "loaded") /\ recon[k].mode = "plan"
    /\ IF ~Same(rec[k], recon[k].obj) \/ rec[k].deleting
       THEN GiveUp(k) ELSE Goto(k, "recheck") /\ UNCHANGED lease
    /\ StoreUnchanged /\ OthersUnchanged

\* WithWorkflowLease makes the same comparison before it runs or finalizes.
WithWorkflowLease(k) ==
    /\ At(k, "loaded") /\ recon[k].mode # "plan"
    /\ IF ~Same(rec[k], recon[k].obj) \/ (rec[k].deleting /\ recon[k].mode = "run")
       THEN GiveUp(k)
       ELSE Goto(k, IF recon[k].mode = "run" THEN "work" ELSE "converge") /\ UNCHANGED lease
    /\ StoreUnchanged /\ OthersUnchanged

\* The collision is checked again under the Lease, ConfigMaps first.
RecheckConfigMaps(k) ==
    /\ At(k, "recheck")
    /\ IF checkConfigMapNameCollision(moveWorkflowNamespaces(k, recon[k].obj.spec))
       THEN GiveUp(k) ELSE Goto(k, "rekinds") /\ UNCHANGED lease
    /\ StoreUnchanged /\ OthersUnchanged

RecheckKinds(k) ==
    /\ At(k, "rekinds")
    /\ IF OtherKindPresent(k) THEN GiveUp(k) ELSE Goto(k, "plan") /\ UNCHANGED lease
    /\ StoreUnchanged /\ OthersUnchanged

\* CRDWorkflowStore.Save: a status computed from an older object is refused.
Save(k, phase) ==
    LET n == [recon[k].obj EXCEPT !.phase = phase, !.rv = @ + 1]
    IN /\ Same(rec[k], recon[k].obj)
       /\ rec' = [rec EXCEPT ![k] = n]
       /\ recon' = [recon EXCEPT ![k].obj = n]
       /\ ended' = IF phase = "Completed" THEN ended \cup {<<n.uid, n.spec>>} ELSE ended

StaleSave(k) == ~Same(rec[k], recon[k].obj) /\ GiveUp(k) /\ UNCHANGED <<rec, ended>>

savePlanning(k) ==
    /\ At(k, "plan")
    /\ \/ /\ Same(rec[k], recon[k].obj) /\ GiveUp(k)
          /\ rec' = [rec EXCEPT ![k].phase = "Planned", ![k].rv = @ + 1]
          /\ UNCHANGED ended
       \/ StaleSave(k)
    /\ UNCHANGED uids /\ OthersUnchanged

\* The planner refuses; the failure is recorded and planning is tried again.
savePlanningFailure(k) ==
    /\ At(k, "plan") /\ mishaps < MaxMishaps /\ mishaps' = mishaps + 1
    /\ Same(rec[k], recon[k].obj) /\ GiveUp(k)
    /\ rec' = [rec EXCEPT ![k].rv = @ + 1]
    /\ UNCHANGED <<ended, uids, cm, session, cleaner, submit>>

\* run: the work on the storage lies between the two transitions.
run(k) ==
    /\ At(k, "work")
    /\ \/ recon[k].obj.phase = "Planned" /\ Save(k, "Working") /\ UNCHANGED lease
       \/ recon[k].obj.phase = "Working" /\ Save(k, "Completed") /\ UNCHANGED lease
       \/ recon[k].obj.phase = "Completed" /\ GiveUp(k) /\ UNCHANGED <<rec, ended>>
       \/ recon[k].obj.phase # "Completed" /\ StaleSave(k)
    /\ UNCHANGED uids /\ OthersUnchanged

\* FinalizeDeleted records the Deleting condition under the Lease ...
SaveDeleting(k) ==
    /\ At(k, "converge")
    /\ LET n == [recon[k].obj EXCEPT !.rv = @ + 1] IN
       \/ /\ Same(rec[k], recon[k].obj)
          /\ rec' = [rec EXCEPT ![k] = n]
          /\ recon' = [recon EXCEPT ![k] = [@ EXCEPT !.pc = "settle", !.obj = n]]
          /\ UNCHANGED <<lease, ended>>
       \/ StaleSave(k)
    /\ UNCHANGED uids /\ OthersUnchanged

\* ... aborts a workflow that has not touched storage ...
abort(k) ==
    /\ At(k, "settle") /\ UNCHANGED lease
    /\ \/ recon[k].obj.phase \in {"none", "Aborting"} /\ Save(k, "Aborted")
       \/ recon[k].obj.phase = "Planned" /\ Save(k, "Aborting")
    /\ UNCHANGED uids /\ OthersUnchanged

\* ... finishes one that has, and gives up the Lease before the object.
FinalizeDeleted(k) ==
    /\ At(k, "settle")
    /\ LET phase == recon[k].obj.phase IN
       \/ phase = "Working" /\ Save(k, "Completed") /\ UNCHANGED lease
       \/ phase \notin Terminal /\ StaleSave(k)
       \/ phase \in Terminal /\ Goto(k, "remove") /\ Release(k) /\ UNCHANGED <<rec, ended>>
    /\ UNCHANGED uids /\ OthersUnchanged

\* CRDWorkflowStore.Delete of an object that is being deleted: any version of
\* it, but no other object of the name.
Delete(k) ==
    /\ At(k, "remove") /\ Idle(k)
    /\ rec' = IF rec[k].uid = recon[k].obj.uid THEN [rec EXCEPT ![k] = NoRecord] ELSE rec
    /\ UNCHANGED <<lease, ended, uids>> /\ OthersUnchanged

ReconcileStep(k) ==
    \/ Reconcile(k) \/ CheckConfigMaps(k) \/ CheckWorkflowIdentityCollision(k)
    \/ EnsureProtection(k) \/ LockCheck(k) \/ Acquire(k) \/ AcquireSessionLock(k)
    \/ plan(k) \/ WithWorkflowLease(k) \/ RecheckConfigMaps(k) \/ RecheckKinds(k)
    \/ savePlanning(k) \/ savePlanningFailure(k) \/ run(k)
    \/ SaveDeleting(k) \/ abort(k) \/ FinalizeDeleted(k) \/ Delete(k)

-----------------------------------------------------------------------------
(* The CLI session: its record is a ConfigMap.                             *)

ControllersUnchanged == UNCHANGED <<rec, recon, submit, ended, mishaps>>

SessionIdle == session' = [pc |-> "idle", obj |-> NoRecord]
SessionRelease == SessionIdle /\ lease' = [lease EXCEPT ![session.obj.spec] = Nobody]

\* CheckConfigMapIdentityCollision: the objects of the controller are not looked at.
\* The model has room for one session record of the name, wherever it is.
CheckConfigMapIdentityCollision ==
    /\ session.pc = "idle" /\ uids < MaxUID
    /\ ~checkConfigMapNameCollision(Specs)
    /\ session' = [session EXCEPT !.pc = "create"]
    /\ UNCHANGED <<cm, lease, cleaner, uids>> /\ ControllersUnchanged

\* ConfigMapWorkflowStore.Create: the API server admits one ConfigMap of the name.
\* A move keeps it in the session namespace of the command, a rename with the claim.
Create ==
    /\ session.pc = "create"
    /\ IF Present(cm) \/ uids = MaxUID
       THEN SessionIdle /\ UNCHANGED <<cm, uids>>
       ELSE /\ uids' = uids + 1
            /\ \E spec \in Specs : cm' = NewRecord(uids', spec, "Planned", TRUE)
            /\ session' = [pc |-> "lock", obj |-> cm']
    /\ UNCHANGED <<lease, cleaner>> /\ ControllersUnchanged

\* A later command resumes the record, or rolls a completed one back.
LoadSession ==
    /\ session.pc = "idle" /\ Present(cm)
    /\ cm.phase \in {"Planned", "Working", "RollingBack", "Completed"}
    /\ session' = [pc |-> "lock", obj |-> cm]
    /\ UNCHANGED <<cm, lease, cleaner, uids>> /\ ControllersUnchanged

\* ConfigMapWorkflowLocker takes the Lease without looking at records; the
\* record is compared, right after, with the one the command was admitted for.
SessionLock ==
    /\ session.pc = "lock"
    /\ IF lease[session.obj.spec] = Nobody /\ Same(cm, session.obj)
       THEN /\ lease' = [lease EXCEPT ![session.obj.spec] = "session"]
            /\ session' = [session EXCEPT !.pc = "work"]
       ELSE SessionIdle /\ UNCHANGED lease
    /\ UNCHANGED <<cm, cleaner, uids>> /\ ControllersUnchanged

SessionNext(phase) ==
    CASE phase = "Planned" -> "Working" [] phase = "Working" -> "Completed"
      [] phase = "Completed" -> "RollingBack" [] phase = "RollingBack" -> "RolledBack"

\* ConfigMapWorkflowStore.Save; a command ends when its record is settled.
SessionSave ==
    /\ session.pc = "work"
    /\ LET n == [session.obj EXCEPT !.phase = SessionNext(@), !.rv = @ + 1] IN
       IF ~Same(cm, session.obj) THEN SessionRelease /\ UNCHANGED cm
       ELSE /\ cm' = n
            /\ IF n.phase \in Terminal
               THEN SessionRelease
               ELSE session' = [session EXCEPT !.obj = n] /\ UNCHANGED lease
    /\ UNCHANGED <<cleaner, uids>> /\ ControllersUnchanged

SessionStep ==
    SessionLock \/ SessionSave \/ Create

-----------------------------------------------------------------------------
(* The CLI cleanup of a settled session: the Lease goes before the record.  *)

CleanerUnchanged == UNCHANGED <<session, uids>> /\ ControllersUnchanged
CleanerIdle == cleaner' = [pc |-> "idle", obj |-> NoRecord, uid |-> None, attempt |-> 0]

\* The command loads the record and asks for approval.
Cleanup ==
    /\ cleaner.pc = "idle" /\ Present(cm)
    /\ cleaner' = [pc |-> "lock", obj |-> cm, uid |-> cm.uid, attempt |-> 1]
    /\ UNCHANGED <<cm, lease>> /\ CleanerUnchanged

CleanupLock ==
    /\ cleaner.pc = "lock"
    /\ IF lease[cleaner.obj.spec] = Nobody /\ Same(cm, cleaner.obj)
       THEN /\ lease' = [lease EXCEPT ![cleaner.obj.spec] = "cleaner"]
            /\ cleaner' = [cleaner EXCEPT !.pc = "pass"]
       ELSE CleanerIdle /\ UNCHANGED lease
    /\ UNCHANGED cm /\ CleanerUnchanged

\* One pass: validate, finalize the storage and delete the Lease.  A repeated
\* pass has no Lease left to delete.
cleanup ==
    /\ cleaner.pc = "pass"
    /\ lease' = [lease EXCEPT ![cleaner.obj.spec] = IF @ = "cleaner" THEN Nobody ELSE @]
    /\ IF cleaner.obj.phase \in Terminal
       THEN cleaner' = [cleaner EXCEPT !.pc = "get"] ELSE CleanerIdle
    /\ UNCHANGED cm /\ CleanerUnchanged

\* ConfigMapWorkflowStore.Delete reads the record and compares it ...
GetForDelete ==
    /\ cleaner.pc = "get"
    /\ IF ~Present(cm) THEN CleanerIdle
       ELSE cleaner' = [cleaner EXCEPT !.pc = IF Same(cm, cleaner.obj) THEN "delete" ELSE "retry"]
    /\ UNCHANGED <<cm, lease>> /\ CleanerUnchanged

\* Mutant: the record is deleted by its name.
DeleteByName ==
    /\ cleaner.pc = "delete"
    /\ CleanerIdle /\ cm' = NoRecord
    /\ UNCHANGED lease /\ CleanerUnchanged

\* ... and deletes exactly the version it has compared.
DeleteRecord ==
    /\ cleaner.pc = "delete"
    /\ IF ~Present(cm) \/ Same(cm, cleaner.obj)
       THEN CleanerIdle /\ cm' = NoRecord
       ELSE cleaner' = [cleaner EXCEPT !.pc = "retry"] /\ UNCHANGED cm
    /\ UNCHANGED lease /\ CleanerUnchanged

\* A stale write runs the pass again on the same record, three times in all.
RetryStaleWorkflowWrite ==
    /\ cleaner.pc = "retry"
    /\ IF cleaner.attempt = 3 \/ cm.uid # cleaner.obj.uid
       THEN CleanerIdle
       ELSE cleaner' = [cleaner EXCEPT !.pc = "pass", !.obj = cm, !.attempt = @ + 1]
    /\ UNCHANGED <<cm, lease>> /\ CleanerUnchanged

CleanerStep ==
    \/ CleanupLock \/ cleanup \/ GetForDelete \/ DeleteRecord
    \/ RetryStaleWorkflowWrite

-----------------------------------------------------------------------------
(* A submission of a Move through the CLI.                                 *)

\* What the operator asks for.
Submitted == "ops"

NoSubmission == [pc |-> "ended", spec |-> "none", uid |-> None, outcome |-> "none"]
SubmitterUnchanged == UNCHANGED <<cm, lease, recon, session, cleaner, ended, mishaps>>

\* The operator submits a request, or the same one again when the last
\* attempt was not confirmed.
SubmitConfigMaps ==
    /\ submit.pc = "idle"
    /\ ~checkConfigMapNameCollision(moveWorkflowNamespaces("Move", Submitted))
    /\ submit' = [pc |-> "kinds", spec |-> Submitted, uid |-> None, outcome |-> "none"]
    /\ UNCHANGED <<rec, uids>> /\ SubmitterUnchanged

SubmitKinds ==
    /\ submit.pc = "kinds"
    /\ submit' = IF OtherKindPresent("Move") THEN NoSubmission ELSE [submit EXCEPT !.pc = "create"]
    /\ UNCHANGED <<rec, uids>> /\ SubmitterUnchanged

\* CRDWorkflowStore.Create labels and protects the object.
SubmitCreate ==
    /\ submit.pc = "create"
    /\ IF Present(rec["Move"])
       THEN submit' = [submit EXCEPT !.pc = "adopt"] /\ UNCHANGED <<rec, uids>>
       ELSE /\ uids < MaxUID /\ uids' = uids + 1
            /\ rec' = [rec EXCEPT !["Move"] = NewRecord(uids', submit.spec, "none", TRUE)]
            /\ submit' = [submit EXCEPT !.pc = "wait", !.uid = uids']
    /\ SubmitterUnchanged

\* Mutant: whatever has the name is taken for the earlier attempt.
AdoptAny ==
    /\ submit.pc = "adopt"
    /\ submit' = IF Present(rec["Move"]) /\ rec["Move"].owned
                 THEN [submit EXCEPT !.pc = "wait", !.uid = rec["Move"].uid]
                 ELSE NoSubmission
    /\ UNCHANGED <<rec, uids>> /\ SubmitterUnchanged

\* An object that exists is adopted when the CLI made it from the same spec.
submitControllerObject ==
    /\ submit.pc = "adopt"
    /\ submit' = IF Present(rec["Move"]) /\ rec["Move"].owned /\ rec["Move"].spec = submit.spec
                 THEN [submit EXCEPT !.pc = "wait", !.uid = rec["Move"].uid]
                 ELSE NoSubmission
    /\ UNCHANGED <<rec, uids>> /\ SubmitterUnchanged

\* WaitForWorkflow: every read must be of the object submitted.
WaitForWorkflow ==
    /\ submit.pc = "wait"
    /\ \/ /\ rec["Move"].uid # submit.uid
          /\ submit' = NoSubmission
       \/ /\ rec["Move"].uid = submit.uid /\ rec["Move"].phase \in Terminal
          /\ submit' = [submit EXCEPT !.pc = "ended", !.outcome = rec["Move"].phase]
    /\ UNCHANGED <<rec, uids>> /\ SubmitterUnchanged

\* A watch may deliver the end of the object after the object is gone.
consumeWorkflowEvents ==
    /\ submit.pc = "wait" /\ \E e \in ended : e[1] = submit.uid
    /\ submit' = [submit EXCEPT !.pc = "ended", !.outcome = "Completed"]
    /\ UNCHANGED <<rec, uids>> /\ SubmitterUnchanged

SubmitStep ==
    consumeWorkflowEvents \/ SubmitKinds \/ SubmitCreate \/ submitControllerObject \/ WaitForWorkflow

-----------------------------------------------------------------------------
(* The users of the API server, and crashes.                               *)

UsersUnchanged == UNCHANGED <<cm, lease, recon, session, cleaner, submit, ended>>

\* An object applied with kubectl: no check and no finalizer.  A Move is told from
\* the submitted one by its spec alone or by its label alone.
Apply(k) ==
    /\ ~Present(rec[k]) /\ uids < MaxUID /\ uids' = uids + 1
    /\ \E spec \in SpecsOf(k) :
           rec' = [rec EXCEPT ![k] = [NewRecord(uids', spec, "none", spec # Submitted)
                                      EXCEPT !.protected = FALSE]]
    /\ UNCHANGED mishaps /\ UsersUnchanged

\* A deletion is held up by the finalizer.
Remove(k) ==
    /\ Present(rec[k]) /\ ~rec[k].deleting
    /\ rec' = [rec EXCEPT ![k] =
           IF rec[k].protected THEN [rec[k] EXCEPT !.deleting = TRUE, !.rv = @ + 1]
                               ELSE NoRecord]
    /\ UNCHANGED <<uids, mishaps>> /\ UsersUnchanged

\* Any other client updates the metadata.
Touch(k) ==
    /\ Present(rec[k]) /\ mishaps < MaxMishaps /\ mishaps' = mishaps + 1
    /\ rec' = [rec EXCEPT ![k].rv = @ + 1]
    /\ UNCHANGED uids /\ UsersUnchanged

\* The ConfigMap of a session is deleted by hand.
RemoveConfigMap ==
    /\ Present(cm) /\ mishaps < MaxMishaps /\ mishaps' = mishaps + 1
    /\ cm' = NoRecord
    /\ UNCHANGED <<rec, lease, recon, session, cleaner, submit, ended, uids>>

Free(holders) == lease' = [n \in Namespaces |-> IF lease[n] \in holders THEN Nobody ELSE lease[n]]

\* A process ends; its Leases expire.
Crash ==
    /\ mishaps < MaxMishaps /\ mishaps' = mishaps + 1
    /\ \/ /\ recon' = [k \in Kinds |-> [pc |-> "idle", mode |-> "none", obj |-> NoRecord]]
          /\ Free(Kinds) /\ UNCHANGED <<session, cleaner, submit>>
       \/ /\ session.pc # "idle" /\ SessionIdle
          /\ Free({"session"}) /\ UNCHANGED <<recon, cleaner, submit>>
       \/ /\ cleaner.pc # "idle" /\ CleanerIdle
          /\ Free({"cleaner"}) /\ UNCHANGED <<recon, session, submit>>
       \/ /\ submit.pc # "idle"
          /\ submit' = [pc |-> "idle", spec |-> "none", uid |-> None, outcome |-> "none"]
          /\ UNCHANGED <<lease, recon, session, cleaner>>
    /\ UNCHANGED <<rec, cm, ended, uids>>

Next ==
    \/ \E k \in Kinds : ReconcileStep(k) \/ Apply(k) \/ Remove(k) \/ Touch(k)
    \/ CheckConfigMapIdentityCollision \/ LoadSession \/ SessionStep
    \/ Cleanup \/ CleanerStep
    \/ SubmitConfigMaps \/ SubmitStep
    \/ RemoveConfigMap \/ Crash

\* A reconcile is requeued until its object is settled or gone, and a command that
\* runs comes to an end; nobody has to start one.
Fairness ==
    /\ WF_vars(ReconcileStep("Move")) /\ WF_vars(ReconcileStep("Rename"))
    /\ WF_vars(SessionStep) /\ WF_vars(CleanerStep)

Spec == Init /\ [][Next]_vars /\ Fairness

-----------------------------------------------------------------------------
(* Properties.                                                             *)

\* Two objects of different kinds never both have a plan under one name,
\* although nothing but the collision checks keeps them apart: they may lock in
\* different namespaces, may be applied at any time, deleted and applied
\* again, and each check is a series of reads.
OnePlan ==
    \A k \in Kinds : rec[k].phase \in {"Planned", "Working", "Completed"} =>
        \A other \in Kinds \ {k} : rec[other].phase \notin {"Planned", "Working", "Completed"}

\* While a session is in the middle of its work, stopped or not, no controller
\* that shares its Lease works under its name: a ConfigMap that claims the
\* name while a reconcile waits for the Lease is noticed.
SessionAlone ==
    cm.phase \in {"Working", "RollingBack"} =>
        \A k \in Kinds : LeaseOf(k) = cm.spec =>
            recon[k].pc \notin {"recheck", "rekinds", "plan", "work", "converge", "settle"}

\* A submission that reports completion reports the completion of a workflow
\* with its own spec, whatever was deleted and applied under the name since.
ReportedOwn ==
    submit.outcome = "Completed" => <<submit.uid, submit.spec>> \in ended

\* A cleanup removes the record it was approved for, in a settled phase, even
\* though it gives up the Lease before it deletes the record.  (Of the storage
\* that a repeated pass finalizes without the Lease this says nothing.)
CleansOwn ==
    [][ Present(cm) /\ ~Present(cm') /\ cleaner' # cleaner
            => cm.uid = cleaner.uid /\ cm.phase \in Terminal ]_vars

\* A session record in the namespace of the object's Lease keeps the Lease from it.
Barred(k) == checkConfigMapNameCollision({moveWorkflowStorageNamespace(rec[k])})

\* A deleted object goes away although objects of the other kind, or sessions, use
\* its name and its Lease: commands that run, crash or are refused leave no Lease
\* behind, and a collision does not bar the way out of it.  Only a session record
\* beside its Lease does, and for as long as the record is there.
CollisionResolves ==
    \A k \in Kinds : rec[k].deleting ~> ~rec[k].deleting \/ Barred(k)

\* One workflow at a time works under the name.
OneAtWork == OnePlan /\ SessionAlone

=============================================================================
