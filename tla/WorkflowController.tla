------------------------- MODULE WorkflowController -------------------------
(***************************************************************************)
(* The reconciliation of one workflow object by the controller manager.    *)
(* Every kind has three queues (new work, recovery, deletion) fed by three *)
(* event handlers of one informer, each with a worker.  A worker's pass    *)
(* loads the object, claims the local active slot, protects the object,    *)
(* decides by phase, and plans, executes, aborts or finalizes under the    *)
(* session Lease.  Users edit, abort, resume, delete and recreate the      *)
(* object meanwhile, and the manager may crash or lose its leadership.     *)
(*                                                                         *)
(*   obj      the workflow object in the API server                        *)
(*   pass     the pass of each queue's worker: where it is, the UID it     *)
(*            loaded, whether its copy still has the current               *)
(*            resourceVersion, and whether its context is cancelled        *)
(*   lease    the worker that holds the session Lease                      *)
(*   ready    the queues that hold the object's key                        *)
(*   timer    the time until a RequeueAfter of a planning retry is due     *)
(*   events   what each handler has still to be told of the object         *)
(*   touched  UIDs whose data-plane work has not been finalized            *)
(*   used     the kind of the name, how many UIDs were given out, and how  *)
(*            many of the bounded user actions and failures happened       *)
(***************************************************************************)
EXTENDS WorkflowRecord, Sequences

CONSTANTS
    MaxFaults,  \* how many user actions, failures and crashes to explore
    MaxAborts   \* how many of them may be abort requests

VARIABLES obj, pass, lease, ready, timer, events, touched, used

vars == <<obj, pass, lease, ready, timer, events, touched, used>>

NoTimer == -1
Idle == [pc |-> "idle", uid |-> None, fresh |-> FALSE, stop |-> FALSE]

\* Passes that own the local active slot of their UID.
ActivePcs == {"loaded", "abort", "aborting", "finish", "plan", "planning", "mutated",
              "run", "running"}
Pcs == ActivePcs \cup {"idle", "finalize", "finalizing", "release"}

TypeOK ==
    /\ obj \in WorkflowObject \/ obj = NoObject
    /\ pass \in [Queues -> [pc : Pcs, uid : Nat, fresh : BOOLEAN, stop : BOOLEAN]]
    /\ lease \in Queues \cup {"free"}
    /\ ready \subseteq Queues
    /\ timer \in [Queues -> NoTimer..RetryWindow]
    /\ touched \subseteq Nat
    /\ used \in [kind : Kinds \cup {"none"}, uids : Nat, faults : Nat, aborts : Nat]

Init ==
    /\ obj = NoObject
    /\ pass = [q \in Queues |-> Idle]
    /\ lease = "free"
    /\ ready = {}
    /\ timer = [q \in Queues |-> NoTimer]
    /\ events = [q \in Queues |-> <<>>]
    /\ touched = {}
    /\ used = [kind |-> "none", uids |-> 0, faults |-> 0, aborts |-> 0]

Exists == obj # NoObject

Fault == used.faults < MaxFaults /\ used' = [used EXCEPT !.faults = @ + 1]

-----------------------------------------------------------------------------
(* The informer.  Every handler gets its own copy of every event, in the   *)
(* order of the writes; events that neither wake nor interrupt are left    *)
(* out, as are repetitions.                                                *)

\* What the predicate of queue q makes of the change from old to new.  All three
\* interrupt the active pass; when the object is going away no later pass can
\* become active, so that the interruption of one handler stands for the three.
workflowEventPredicate(q, old, new) ==
    IF new = NoObject THEN [cancel |-> IF q = "deletion" THEN old.uid ELSE None, wake |-> FALSE]
    ELSE IF old = NoObject THEN [cancel |-> None, wake |-> queueAdmits(q, new)]
    ELSE [cancel |-> IF \/ abortRequested(old, new)
                        \/ q = "deletion" /\ ~old.deleting /\ new.deleting
                     THEN new.uid ELSE None,
          wake   |-> updateAdmitted(old, new) /\ queueAdmits(q, new)]

Told(seq, e) ==
    IF (e.cancel = None /\ ~e.wake) \/ (seq # <<>> /\ seq[Len(seq)] = e)
    THEN seq ELSE Append(seq, e)

\* The API server accepts a new object; copies of the old one are stale.
Write(new) ==
    /\ obj' = new
    /\ events' = [q \in Queues |-> Told(events[q], workflowEventPredicate(q, obj, new))]

\* Passes other than w lose the current resourceVersion.
Staled(p, w) == [q \in Queues |-> IF q = w THEN p[q] ELSE [p[q] EXCEPT !.fresh = FALSE]]

\* The active pass of a UID, and its cancellation.
Active(p, uid) == {q \in Queues : p[q].pc \in ActivePcs /\ p[q].uid = uid}
cancelWorkflow(p, uid) ==
    [q \in Queues |-> IF q \in Active(p, uid) THEN [p[q] EXCEPT !.stop = TRUE] ELSE p[q]]

\* One handler runs its predicate: interrupt first, then enqueue.
Deliver(q) ==
    /\ events[q] # <<>>
    /\ pass' = cancelWorkflow(pass, Head(events[q]).cancel)
    /\ ready' = IF Head(events[q]).wake THEN ready \cup {q} ELSE ready
    /\ events' = [events EXCEPT ![q] = Tail(@)]
    /\ UNCHANGED <<obj, lease, timer, touched, used>>

RequeueDue(q) ==
    /\ timer[q] = 0
    /\ ready' = ready \cup {q}
    /\ timer' = [timer EXCEPT ![q] = NoTimer]
    /\ UNCHANGED <<obj, pass, lease, events, touched, used>>

-----------------------------------------------------------------------------
(* The end of a pass.  An interrupted pass returns an empty result; the    *)
(* short requeues (1 ms, 1 s, the backoff of an error) are immediate here. *)

End(q) == pass' = [pass EXCEPT ![q] = Idle]
EndStaling(q) == pass' = Staled([pass EXCEPT ![q] = Idle], q)
Requeue(q) == ready' = IF pass[q].stop THEN ready ELSE ready \cup {q}
Release(q) == lease' = IF lease = q THEN "free" ELSE lease

\* The pass ends without having written.
Done(q) ==
    /\ End(q) /\ Release(q)
    /\ UNCHANGED <<obj, ready, timer, events, touched, used>>

\* workflowReconcileResult: contention, a conflict or an error runs again.
Again(q) ==
    /\ End(q) /\ Release(q) /\ Requeue(q)
    /\ UNCHANGED <<obj, timer, events, touched, used>>

RequeueAfter(q, delay) ==
    timer' = [timer EXCEPT ![q] =
                IF pass[q].stop \/ delay = 0 THEN @
                ELSE IF @ = NoTimer THEN delay ELSE Min({@, delay})]

Goto(q, pc) == pass' = [pass EXCEPT ![q].pc = pc]

-----------------------------------------------------------------------------
(* What a pass does with the object it loaded, by kind.                    *)

\* "end" stops, "wait" requeues after the delay, "exhaust" writes the terminal
\* marker, "through" falls through to planning or execution.
planningFailureGate(o) ==
    LET decision == evaluatePlanningRetry(o)
    IN  IF ~decision.retryable THEN "end"
        ELSE IF decision.expired THEN "exhaust"
        ELSE IF decision.due THEN "through"
        ELSE "wait"

\* The gate is passed over only when the failed request was corrected.
failedStop(o) ==
    /\ o.phase = "Failed"
    /\ o.admitted # None \/ ~retryCorrectedPlanning(o)
    /\ planningFailureGate(o) # "through"

\* An unplanned workflow is planned, a planned one verified and executed.
planOrExecute(o) ==
    IF o.admitted = None THEN "plan"
    ELSE IF executionIntentMutated(o) THEN "mutated"
    ELSE "run"

reconcileMigration(o) ==
    IF o.abort THEN "abort"
    ELSE IF failedStop(o) THEN planningFailureGate(o)
    ELSE IF o.phase \in {"Completed", "Aborted"} THEN "end"
    ELSE planOrExecute(o)

\* Renames and moves take no abort requests.
reconcileRename(o) ==
    IF failedStop(o) THEN planningFailureGate(o)
    ELSE IF o.phase \in {"Completed", "Aborted"} THEN "end"
    ELSE planOrExecute(o)

\* A backup can be aborting before it has a plan.
reconcileBackup(o) ==
    IF o.abort THEN "abort"
    ELSE IF failedStop(o) THEN planningFailureGate(o)
    ELSE IF o.phase \in {"Completed", "Aborted"} THEN "end"
    ELSE IF o.admitted = None /\ o.phase = "Aborting" THEN "abort"
    ELSE planOrExecute(o)

\* The dispatch by kind.
kindReconcile(o) ==
    CASE o.kind = "Migration" -> reconcileMigration(o)
      [] o.kind = "Rename"    -> reconcileRename(o)
      [] o.kind = "Backup"    -> reconcileBackup(o)

-----------------------------------------------------------------------------
(* The steps of a pass.                                                    *)

\* A worker takes the key, loads the object and claims the active slot; an
\* object that is being deleted goes to its finalizer instead, and the pass
\* that is active for it is interrupted.
Reconcile(q) ==
    /\ pass[q].pc = "idle" /\ q \in ready
    /\ \/ /\ ~Exists
          /\ ready' = ready \ {q}
          /\ UNCHANGED pass
       \/ /\ Exists /\ obj.deleting
          /\ ready' = ready \ {q}
          /\ pass' = [cancelWorkflow(pass, obj.uid) EXCEPT ![q] =
                        [pc |-> "finalize", uid |-> obj.uid, fresh |-> TRUE, stop |-> FALSE]]
       \/ /\ Exists /\ ~obj.deleting
          /\ Active(pass, obj.uid) = {}
          /\ ready' = ready \ {q}
          /\ pass' = [pass EXCEPT ![q] =
                        [pc |-> "loaded", uid |-> obj.uid, fresh |-> TRUE, stop |-> FALSE]]
    /\ UNCHANGED <<obj, lease, timer, events, touched, used>>

\* Mutant: a workflow submitted without the finalizer is executed as it is.
LeaveUnprotected(o) == o

EnsureProtection(o) == [o EXCEPT !.protected = TRUE]

\* Under the active slot the object is loaded again, protected, and its phase
\* decides.
reconcile(q) ==
    /\ pass[q].pc = "loaded" /\ ~pass[q].stop
    /\ \/ ~Exists /\ Done(q)
       \/ Exists /\ (obj.uid # pass[q].uid \/ obj.deleting) /\ Again(q)
       \/ /\ Exists /\ obj.uid = pass[q].uid /\ ~obj.deleting
          /\ LET o    == EnsureProtection(obj)
                 next == kindReconcile(o)
                 new  == IF next = "exhaust" THEN markPlanningRetriesExhausted(o) ELSE o
                 mine == IF next \in {"end", "wait", "exhaust"} THEN Idle
                         ELSE [pass[q] EXCEPT !.pc = next, !.fresh = TRUE]
                 all  == [pass EXCEPT ![q] = mine]
             IN  /\ IF new = obj THEN UNCHANGED <<obj, events>> ELSE Write(new)
                 /\ pass' = IF new = obj THEN all ELSE Staled(all, q)
                 /\ IF next = "wait" THEN RequeueAfter(q, evaluatePlanningRetry(o).delay)
                                     ELSE UNCHANGED timer
          /\ UNCHANGED <<lease, ready, touched, used>>

Held == [abort |-> "aborting", plan |-> "planning", run |-> "running", finalize |-> "finalizing"]

\* The Lease is taken and the object must still be the one that was loaded.
WithWorkflowLease(q) ==
    /\ pass[q].pc \in DOMAIN Held /\ ~pass[q].stop
    /\ \/ lease # "free" /\ Again(q)
       \/ lease = "free" /\ ~Exists /\ Done(q)
       \/ lease = "free" /\ Exists /\ ~pass[q].fresh /\ Again(q)
       \/ /\ lease = "free" /\ Exists /\ pass[q].fresh
          /\ lease' = q
          /\ Goto(q, Held[pass[q].pc])
          /\ UNCHANGED <<obj, ready, timer, events, touched, used>>

\* A store accepts a write only from a copy with the current resourceVersion.
Current(q) == Exists /\ pass[q].fresh

\* Any step of an interrupted pass may find its context cancelled; the executor
\* may still save a message.
Interrupted(q) ==
    /\ pass[q].stop
    /\ \/ Done(q)
       \/ /\ pass[q].pc \in {"running", "aborting"} /\ Current(q)
          /\ EndStaling(q) /\ Release(q)
          /\ UNCHANGED <<obj, ready, timer, events, touched, used>>

\* Planning: the outcome is one status write; the planner may refuse.
plan(q) ==
    /\ pass[q].pc = "planning" /\ ~pass[q].stop
    /\ \/ ~Current(q) /\ Again(q)
       \/ /\ Current(q)
          /\ \E cause \in Causes :
                LET new == savePlannedWorkflow(obj, cause)
                IN  /\ Write(new)
                    /\ IF cause = "none"
                       THEN Requeue(q) /\ UNCHANGED timer
                       ELSE RequeueAfter(q, evaluatePlanningRetry(new).delay) /\ UNCHANGED ready
          /\ EndStaling(q) /\ Release(q)
          /\ UNCHANGED <<touched, used>>

\* The failure that a changed spec causes is checkpointed under the Lease.
checkpointSpecMutation(q) ==
    /\ pass[q].pc = "mutated" /\ ~pass[q].stop
    /\ \/ (lease # "free" \/ ~Current(q)) /\ Again(q)
       \/ /\ lease = "free" /\ Current(q)
          /\ Write(recordPlanningFailureForMutation(obj))
          /\ EndStaling(q) /\ Requeue(q)
          /\ UNCHANGED <<lease, timer, touched, used>>

\* The executor as the controller sees it: a run takes the workflow from one
\* phase checkpoint to the next.
NextPhase(o) ==
    LET p == workflowResumePhase(o)
    IN  CASE p = "Aborting"                         -> "Aborted"
          [] o.kind = "Migration" /\ p = "Planned"  -> "Reserving"
          [] p = "Reserving"                        -> "Activating"
          [] o.kind = "Rename" /\ p = "Planned"     -> "Renaming"
          [] o.kind = "Backup" /\ p = "Planned"     -> "WarmCopying"
          [] OTHER                                  -> "Completed"

Terminal(o) == o.phase \in {"Completed", "Aborted"}

\* Run: a checkpoint, or a failure that is recorded with the phase it stopped.
\* A backup leaves a recorded failure alone and only retries a changed request;
\* the other kinds return the error.  A failed rename that fails once more
\* writes nothing.
Run(q) ==
    /\ pass[q].pc = "running"
    /\ \/ ~Current(q) /\ Again(q)
       \/ Current(q) /\ obj.kind = "Backup" /\ specChanged(obj) /\ Again(q)
       \/ /\ Current(q) /\ ~specChanged(obj)
          /\ LET new == RecordWorkflowTransition(obj, NextPhase(obj))
                 mine == IF Terminal(new) THEN Idle ELSE pass[q]
             IN  /\ Write(new)
                 /\ pass' = Staled([pass EXCEPT ![q] = mine], q)
                 /\ lease' = IF Terminal(new) THEN "free" ELSE lease
          /\ touched' = touched \cup {obj.uid}
          /\ UNCHANGED <<ready, timer, used>>
       \/ /\ Current(q) /\ ~pass[q].stop
          /\ ~(obj.kind = "Backup" /\ specChanged(obj))
          /\ \E cause \in Causes \ {"none"} :
                /\ specChanged(obj) => cause = "durable"
                /\ IF obj.kind = "Rename" /\ obj.phase = "Failed"
                   THEN UNCHANGED <<obj, events>>
                   ELSE Write(recordWorkflowFailure(obj, cause))
          /\ EndStaling(q) /\ Release(q)
          /\ IF obj.kind = "Backup" THEN UNCHANGED ready ELSE Requeue(q)
          /\ touched' = IF specChanged(obj) THEN touched ELSE touched \cup {obj.uid}
          /\ UNCHANGED <<timer, used>>

\* Abort: rejected once the workflow has cut over or completed, or was edited.
AbortAccepted(o) ==
    CASE o.kind = "Migration" -> workflowResumePhase(o) \notin {"Activating", "Completed"}
      [] o.kind = "Backup"    -> o.phase # "Completed" /\ ~specChanged(o)
      [] OTHER                -> TRUE

AbortPhase(o) ==
    IF o.admitted = None \/ o.phase = "Aborting" THEN "Aborted" ELSE "Aborting"

Abort(q) ==
    /\ pass[q].pc = "aborting"
    /\ \/ ~Current(q) /\ Again(q)
       \/ /\ Current(q) /\ (~AbortAccepted(obj) \/ obj.phase = "Aborted")
          /\ Goto(q, "finish") /\ Release(q)
          /\ UNCHANGED <<obj, ready, timer, events, touched, used>>
       \/ /\ Current(q) /\ AbortAccepted(obj) /\ obj.phase # "Aborted"
          /\ Write(RecordWorkflowTransition(obj, AbortPhase(obj)))
          /\ pass' = Staled(pass, q)
          /\ UNCHANGED <<lease, ready, timer, touched, used>>
       \/ /\ Fault  \* a transient failure keeps the request
          /\ End(q) /\ Release(q) /\ Requeue(q)
          /\ UNCHANGED <<obj, timer, events, touched>>

\* The request is consumed, after the Lease was released.
finishAbortRequest(q) ==
    /\ pass[q].pc = "finish" /\ ~pass[q].stop
    /\ \/ ~Exists /\ Done(q)
       \/ Exists /\ (~pass[q].fresh \/ obj.deleting) /\ Again(q)
       \/ /\ Current(q) /\ ~obj.deleting
          /\ Write([obj EXCEPT !.abort = FALSE])
          /\ EndStaling(q)
          /\ UNCHANGED <<lease, ready, timer, touched, used>>

\* FinalizeDeleted: the data plane converges and the Lease is deleted, then the
\* finalizer comes off, tolerating a newer version of the same object.
FinalizeDeleted(q) ==
    /\ pass[q].pc = "finalizing"
    /\ touched' = touched \ {pass[q].uid}
    /\ Goto(q, "release") /\ Release(q)
    /\ UNCHANGED <<obj, ready, timer, events, used>>

deleteChecked(q) == obj.uid = pass[q].uid

DeleteWorkflow(q) ==
    /\ pass[q].pc = "release"
    /\ \/ ~Exists /\ Done(q)
       \/ Exists /\ ~deleteChecked(q) /\ Again(q)
       \/ /\ Exists /\ deleteChecked(q)
          /\ Write(NoObject)
          /\ EndStaling(q)
          /\ UNCHANGED <<lease, ready, timer, touched, used>>

Step(q) ==
    \/ Reconcile(q) \/ reconcile(q) \/ WithWorkflowLease(q) \/ Interrupted(q)
    \/ plan(q) \/ checkpointSpecMutation(q) \/ Run(q) \/ Abort(q)
    \/ finishAbortRequest(q) \/ FinalizeDeleted(q) \/ DeleteWorkflow(q)
    \/ Deliver(q) \/ RequeueDue(q)

-----------------------------------------------------------------------------
(* Users, time and the manager's process.                                  *)

UserWrites(new) ==
    /\ Write(new)
    /\ pass' = Staled(pass, "user")
    /\ UNCHANGED <<lease, ready, timer, touched>>

\* kubectl apply leaves the finalizer to the controller, the CLI sets it.  The
\* name may be used again.
Create(kind, protected) ==
    /\ ~Exists
    /\ \/ /\ used.kind = "none"
          /\ used' = [used EXCEPT !.kind = kind, !.uids = @ + 1]
       \/ /\ used.kind = kind /\ used.faults < MaxFaults
          /\ used' = [used EXCEPT !.uids = @ + 1, !.faults = @ + 1]
    /\ UserWrites(NewObject(kind, used.uids + 1, protected))

EditSpec ==
    /\ Exists /\ Fault
    /\ UserWrites([obj EXCEPT !.spec = 3 - @, !.corrected = TRUE])

\* The CLI's abort found the session busy and records a request instead.
requestControllerAbort ==
    /\ Exists /\ ~obj.deleting /\ obj.kind # "Rename" /\ ~obj.abort /\ lease # "free"
    /\ used.faults < MaxFaults /\ used.aborts < MaxAborts
    /\ used' = [used EXCEPT !.faults = @ + 1, !.aborts = @ + 1]
    /\ UserWrites([obj EXCEPT !.abort = TRUE])

\* The CLI's resume, under the Lease.
RequestResume ==
    /\ Exists /\ ~obj.deleting /\ lease = "free" /\ Fault
    /\ obj.phase = "Failed" /\ ~specChanged(obj)
    /\ UserWrites(ReactivateWorkflow(obj))

DeleteObject ==
    /\ Exists /\ ~obj.deleting /\ Fault
    /\ UserWrites(IF obj.protected THEN [obj EXCEPT !.deleting = TRUE] ELSE NoObject)

\* The manager stops anywhere; its Lease expires and the next leader's informer
\* reports the object as new.
Crash ==
    /\ Fault
    /\ pass' = [q \in Queues |-> Idle]
    /\ lease' = "free" /\ ready' = {}
    /\ timer' = [q \in Queues |-> NoTimer]
    /\ events' = [q \in Queues |->
                    IF Exists THEN Told(<<>>, workflowEventPredicate(q, NoObject, obj)) ELSE <<>>]
    /\ UNCHANGED <<obj, touched>>

Tick ==
    /\ obj' = IF Exists THEN Aged(obj) ELSE obj
    /\ timer' = [q \in Queues |-> IF timer[q] > 0 THEN timer[q] - 1 ELSE timer[q]]
    /\ UNCHANGED <<pass, lease, ready, events, touched, used>>

Users ==
    \/ \E kind \in Kinds, protected \in BOOLEAN : Create(kind, protected)
    \/ EditSpec \/ requestControllerAbort \/ RequestResume \/ DeleteObject \/ Crash

Next == (\E q \in Queues : Step(q)) \/ Users \/ Tick

\* Workers and handlers run, and time passes; nobody has to act on the object.
Fairness == WF_vars(Tick) /\ \A q \in Queues : WF_vars(Step(q))

Spec == Init /\ [][Next]_vars /\ Fairness

-----------------------------------------------------------------------------
(* Properties.                                                             *)

\* A workflow whose execution has touched storage keeps its object, with the
\* finalizer, until a pass has finalized it: whoever deletes the object and
\* whenever, EnsureProtection came first.
NothingUnfinalized == \A u \in touched : Exists /\ obj.uid = u /\ obj.protected

\* While a pass executes, every phase it reaches is checkpointed on the spec its
\* plan was made from: the fingerprint or the generation is compared first and
\* the resourceVersion carries the comparison to each Save.
ExecutesAdmitted ==
    [][(/\ \E q \in Queues : pass[q].pc = "running"
        /\ obj # NoObject /\ obj' # NoObject /\ obj'.phase \notin {obj.phase, "Failed"})
       => obj.spec = obj.admitted]_vars

\* A pass only ever changes the object it was started for, even when the name
\* has been given to another object while the pass was under way.
NeverAnother ==
    [][\A q \in Queues :
          (pass[q].pc # "idle" /\ pass'[q].pc # pass[q].pc /\ obj' # obj /\ obj # NoObject)
          => obj.uid = pass[q].uid]_vars

\* A backup whose request was edited and put back is retried for ever: its
\* fingerprint is the admitted one and its generation is not.
Undone(o) == o.kind = "Backup" /\ o.admitted = o.spec /\ specChanged(o)

\* Nothing is left for the controller to do: the object is gone, or it is neither
\* being deleted nor on its way.  An abort request is another question.
Settled ==
    \/ ~Exists
    \/ /\ ~obj.deleting
       /\ \/ used.aborts > 0
          \/ Undone(obj)
          \/ Terminal(obj)
          \/ obj.phase = "Failed" /\ ~PlanningRetryActive(obj)

\* No wake-up is lost: a workflow is carried on until it is finished or waits for
\* its user, and a deleted one disappears, whatever edits, resumes, crashes and
\* stale passes happened on the way.
Answered == ~Settled ~> Settled

\* The same of a request that was edited and put back.
EditAnswered == Exists ~> (~Exists \/ Terminal(obj) \/ obj.phase = "Failed" \/ obj.abort)

\* A recorded abort request is answered: the workflow is aborted or the request
\* rejected, and the annotation removed.
AbortAnswered == (Exists /\ obj.abort) ~> (~Exists \/ ~obj.abort)

\* A planned workflow that failed runs again only after a resume request.
ResumeExplicit ==
    [][(/\ \E q \in Queues : pass[q].pc = "running"
        /\ obj # NoObject /\ obj' # NoObject /\ obj.phase = "Failed")
       => obj'.phase = "Failed"]_vars

\* A record that turns Failed keeps the phase that execution had reached.
ResumesWhereItStopped ==
    [][(obj # NoObject /\ obj' # NoObject /\ obj.admitted # None
        /\ obj.phase # "Failed" /\ obj'.phase = "Failed")
       => obj'.resume = obj.phase]_vars

\* A pass acts for the object and the request it was admitted with.
ActsAsAdmitted == ExecutesAdmitted /\ NeverAnother

=============================================================================
