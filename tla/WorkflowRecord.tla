--------------------------- MODULE WorkflowRecord ---------------------------
(***************************************************************************)
(* The workflow object a controller reconciles, as the controller and its  *)
(* stores read and write it: the request (spec and its generation), the    *)
(* metadata (finalizer, deletion timestamp, abort annotation) and the      *)
(* status fields that decide what happens next.  The operators translate   *)
(* the status transactions; the module has no state of its own.            *)
(*                                                                         *)
(* A record is a function of                                               *)
(*   kind      the workflow kind, for the three shapes of controller       *)
(*   uid       the identity of the object under its (reused) name          *)
(*   spec      the request                                                 *)
(*   corrected metadata.generation is past status.observedGeneration       *)
(*   admitted  the spec that status.plan was made from (its fingerprint is *)
(*             status.executionIntentHash), or None while unplanned        *)
(*   phase, resume, cause                                                  *)
(*             status.phase, resumeFrom and errorCategory                  *)
(*   age, since                                                            *)
(*             the time since status.startedAt and status.updatedAt        *)
(*   exhausted the terminal planning condition                             *)
(*   abort, protected, deleting                                            *)
(*             the abort annotation, the finalizer, the deletion timestamp *)
(***************************************************************************)
EXTENDS Integers, FiniteSetsExt

CONSTANTS
    RetryWindow, RetryFloor, RetryCap  \* planningRetryWindow, ...Floor, ...Cap

ASSUME RetryAssumption ==
    /\ RetryWindow \in Nat /\ RetryFloor \in Nat /\ RetryCap \in Nat
    /\ 0 < RetryFloor /\ RetryFloor <= RetryCap /\ RetryCap <= RetryWindow

None == 0
NoObject == [uid |-> None]

\* The kinds whose controllers differ: a migration, a rename (and a move), a
\* backup (and a restore).  A copy follows a migration, after its handoff.
Kinds == {"Migration", "Rename", "Backup"}

\* The zero value of a phase.
Unset == "unset"
Phases == {Unset, "Planned", "Reserving", "Activating", "Renaming", "WarmCopying",
           "Completed", "Aborting", "Aborted", "Failed"}

\* Precondition and Kubernetes failures may clear on their own.
Causes == {"none", "retryable", "durable"}

WorkflowObject ==
    [kind : Kinds, uid : Nat \ {None}, spec : {1, 2}, corrected : BOOLEAN,
     admitted : {None, 1, 2}, phase : Phases, resume : Phases, cause : Causes,
     age : 0..RetryWindow, since : 0..RetryWindow, exhausted : BOOLEAN,
     abort : BOOLEAN, protected : BOOLEAN, deleting : BOOLEAN]

NewObject(kind, uid, protected) ==
    [kind |-> kind, uid |-> uid, spec |-> 1, corrected |-> TRUE, admitted |-> None,
     phase |-> Unset, resume |-> Unset, cause |-> "none", age |-> 0, since |-> 0,
     exhausted |-> FALSE, abort |-> FALSE, protected |-> protected, deleting |-> FALSE]

-----------------------------------------------------------------------------
(* Transitions of the status.                                              *)

RecordWorkflowTransition(o, next) ==
    IF o.phase = next THEN o
    ELSE [o EXCEPT
            !.phase = next,
            !.resume = IF next = "Failed" \/ (next = "Aborting" /\ o.phase # "Failed")
                       THEN o.phase ELSE o.resume,
            !.cause = IF next = "Failed" THEN o.cause ELSE "none",
            !.age = IF next = "Failed" THEN o.age ELSE 0,
            !.since = 0]

ReactivateWorkflow(o) == [o EXCEPT !.phase = o.resume, !.cause = "none", !.since = 0]

workflowResumePhase(o) == IF o.phase = "Failed" THEN o.resume ELSE o.phase

\* A failure of the executor keeps the phase it interrupted.
recordWorkflowFailure(o, cause) ==
    RecordWorkflowTransition([o EXCEPT !.cause = cause], "Failed")

\* A new generation starts a new window; only a success has a plan.
recordPlanningOutcome(o, cause) ==
    [o EXCEPT
        !.age = IF o.corrected THEN 0 ELSE o.age,
        !.since = 0,
        !.corrected = FALSE,
        !.phase = IF cause = "none" THEN "Planned" ELSE "Failed",
        !.resume = IF cause = "none" THEN Unset ELSE "Planned",
        !.cause = cause,
        !.exhausted = FALSE]

\* The admitted request is frozen with the plan.
savePlannedWorkflow(o, cause) ==
    IF cause # "none" \/ o.admitted # None
    THEN recordPlanningOutcome(o, cause)
    ELSE [recordPlanningOutcome(o, cause) EXCEPT !.admitted = o.spec]

\* Mutant: the request is not compared with the admitted one.
executionIntentIgnored(o) == FALSE

\* Renames and moves are planned without a fingerprint, and never differ from it.
executionIntentMutated(o) ==
    o.kind # "Rename" /\ o.admitted # None /\ o.admitted # o.spec

\* The executors of renames, moves, backups and restores compare generations
\* instead, and refuse any edit after the planning, one that was undone included.
specChanged(o) == o.kind \in {"Rename", "Backup"} /\ o.phase # Unset /\ o.corrected

\* The resume checkpoint of an earlier failure is kept.
recordPlanningFailureForMutation(o) ==
    [o EXCEPT !.phase = "Failed", !.cause = "durable", !.corrected = FALSE, !.since = 0,
              !.resume = IF o.resume = Unset /\ o.phase \notin {Unset, "Failed"}
                         THEN o.phase ELSE o.resume]

-----------------------------------------------------------------------------
(* The bounded retries of planning.                                        *)

retryCorrectedPlanning(o) ==
    o.phase = "Failed" /\ o.resume = "Planned" /\ o.corrected

RetryInterval(age) ==
    Min({Max({age \div 4, RetryFloor}), RetryCap, RetryWindow - age})

evaluatePlanningRetry(o) ==
    LET retryable == o.phase = "Failed" /\ o.resume = "Planned" /\ o.cause = "retryable"
        expired   == retryable /\ o.age >= RetryWindow
        waiting   == retryable /\ ~expired
    IN  [retryable |-> retryable,
         expired   |-> expired,
         due       |-> waiting /\ o.since >= RetryInterval(o.age),
         delay     |-> IF waiting /\ o.since < RetryInterval(o.age)
                       THEN RetryInterval(o.age) - o.since ELSE 0]

PlanningRetryActive(o) == evaluatePlanningRetry(o).retryable /\ ~evaluatePlanningRetry(o).expired

markPlanningRetriesExhausted(o) ==
    IF o.exhausted THEN o ELSE [o EXCEPT !.exhausted = TRUE, !.since = 0]

\* Time passes for the record while its planning clocks can still be read: the
\* age until the first phase after Planned, the other while a retry is due.
Aged(o) ==
    [o EXCEPT !.age = IF workflowResumePhase(o) = "Planned"
                      THEN Min({o.age + 1, RetryWindow}) ELSE o.age,
              !.since = IF PlanningRetryActive(o)
                        THEN Min({o.since + 1, RetryWindow}) ELSE o.since]

-----------------------------------------------------------------------------
(* Which queue an object belongs to, and which updates wake a queue.       *)

Queues == {"main", "recovery", "deletion"}

workflowNeedsRecovery(o) ==
    workflowResumePhase(o) \in {"Activating", "Renaming", "Aborting"}

\* The object filter of each of the three queues of a kind.
queueAdmits(q, o) ==
    CASE q = "deletion" -> o.deleting
      [] q = "recovery" -> ~o.deleting /\ workflowNeedsRecovery(o)
      [] OTHER          -> ~o.deleting /\ ~workflowNeedsRecovery(o)

workflowExecutionPhaseChanged(old, new) == old.phase # new.phase /\ new.phase # "Failed"

workflowResumeStatusChanged(old, new) ==
    /\ old.phase = "Failed"
    /\ new.phase = IF old.resume = Unset THEN "Planned" ELSE old.resume

abortRequested(old, new) == ~old.abort /\ new.abort

\* Mutant: a deletion timestamp is no reason to look at the object.
updateAdmittedAlive(old, new) ==
    \/ new.spec # old.spec
    \/ new.abort # old.abort
    \/ workflowResumeStatusChanged(old, new)
    \/ workflowExecutionPhaseChanged(old, new)

\* The event wakes the queues that admit the new object.
updateAdmitted(old, new) ==
    \/ new.spec # old.spec
    \/ new.abort # old.abort
    \/ ~old.deleting /\ new.deleting
    \/ workflowResumeStatusChanged(old, new)
    \/ workflowExecutionPhaseChanged(old, new)

=============================================================================
