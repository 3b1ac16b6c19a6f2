------------------------- MODULE ReservationExecutors -------------------------
(***************************************************************************)
(* The executors of a reservation and of a copy (internal/app/             *)
(* reservation_executor*.go, copy_executor*.go): run and resume, abort,    *)
(* cleanup and the convergence of a deleted record, one API write per      *)
(* step.  Both reserve in the same way; the copy goes on to transfer.      *)
(***************************************************************************)
EXTENDS ReservationRecords

Goto(pc) == w' = IF pc = "idle" THEN Idle ELSE [w EXCEPT !.pc = pc]

\* Leave the pass; `fail' records the failure first.
Fail == Goto("fail")

\* A step of ReserveVolume that fails still hands its checkpoint to the caller, who saves it.
ReserveFails == w' = [w EXCEPT !.bad = TRUE, !.pc = "checkpoint"]

\* copyDeletionValidationSkip: either side of the pair is going away.
copyDeletionValidationSkip(cp) ==
    \/ srcPVC.state # "Bound" \/ srcPV.state = "Gone"
    \/ cp.pvc # 0 /\ cp.pv # 0
       /\ (dstPVC.uid = 0 \/ dstPVC.terminating \/ dstPV[cp.pv].state = "Gone")

\* cleanupInterrupted: validate, then stop the tools of an attempt that has not completed.
Interrupted(r) == r.tried /\ ~r.done
MayStopTools(r) ==
    Interrupted(r) => copyDeletionValidationSkip(r.cp) \/ ValidateVolumeReservation(r.cp)
ToolsStopped(r) == tool' = IF Interrupted(r) THEN FALSE ELSE tool

-----------------------------------------------------------------------------
(* Run *)

\* Where a validated pass goes on.  A reservation that holds has nothing left to do.
ResumeAt(k, r) == IF k = "C" /\ r.phase \in {"Reserved", "WarmCopying"} THEN "copying"
                  ELSE IF Phase(r) = "Reserved" THEN "idle" ELSE "reserving"

\* The controller runs an active record that has not failed, a user any.
Run(k) ==
    /\ Lockable(k) /\ rec[k].phase \in Active(k) \cup {"Reserved", "Aborting"}
    /\ IF ~rec[k].failed /\ rec[k].phase \in Active(k) \cup {"Aborting"}
       THEN ~rec[k].abort /\ UNCHANGED left
       ELSE left.users > 0 /\ left' = [left EXCEPT !.users = @ - 1]
    /\ Load(k, "run", IF rec[k].phase = "Aborting" THEN "aborting" ELSE "validate")
    /\ UNCHANGED <<storage, rec, crd>>

\* validateCopyRetry: a copy that failed is not run again if its destination was too small,
\* which the failure may have been.
RetryRefused == w.kind = "C" /\ w.obj.failed

\* A copy stops the tools of an earlier pass; both validate before they change anything.
ValidateRun ==
    /\ w.pc = "validate"
    /\ \/ RetryRefused /\ Stop /\ UNCHANGED tool
       \/ IF w.obj.phase = "WarmCopying" /\ ~MayStopTools(w.obj)
          THEN Stop /\ UNCHANGED tool
          ELSE /\ IF w.obj.phase = "WarmCopying" THEN ToolsStopped(w.obj) ELSE UNCHANGED tool
               /\ IF ValidateVolumeReservation(w.obj.cp)
                  THEN Goto(ResumeAt(w.kind, w.obj)) ELSE Fail
    /\ UNCHANGED <<srcPVC, srcPV, dstPVC, dstPV, pod, class, rec, crd, left>>

reserve ==
    /\ w.pc = "reserving"
    /\ Save([w.obj EXCEPT !.phase = "Reserving", !.failed = FALSE],
            IF w.obj.cp.reserved THEN "reserved" ELSE "acquire")
    /\ UNCHANGED <<storage, crd, left>>

\* ReserveVolume takes the source claim ...
ReserveVolume ==
    /\ w.pc = "acquire"
    /\ IF prepareReservation
       THEN srcPVC' = AcquirePVC(srcPVC) /\ Goto("retain")
       ELSE ReserveFails /\ UNCHANGED srcPVC
    /\ UNCHANGED <<srcPV, dstPVC, dstPV, pod, tool, class, rec, crd, left>>

\* ... retains its volume ...
retainSourcePV ==
    /\ w.pc = "retain"
    /\ IF srcPV.state # "Gone" /\ srcPV.owner \in Owners
       THEN srcPV' = retainPV(srcPV) /\ Goto("claim")
       ELSE ReserveFails /\ UNCHANGED srcPV
    /\ UNCHANGED <<srcPVC, dstPVC, dstPV, pod, tool, class, rec, crd, left>>

\* ... creates or adopts the destination claim and notes its UID ...
reserveVolumeLive ==
    /\ w.pc = "claim"
    /\ \/ /\ loadOrCreateReservationPVC(w.cp) /\ left.claims > 0
          /\ LET uid == MaxClaims - left.claims + 1 IN
             /\ dstPVC' = [uid |-> uid, bound |-> FALSE, terminating |-> FALSE, owner |-> Me]
             /\ w' = [w EXCEPT !.cp.pvc = uid, !.pc = "provision"]
          /\ left' = [left EXCEPT !.claims = @ - 1]
       \/ /\ ~loadOrCreateReservationPVC(w.cp)
          /\ IF validateDestinationPVC(w.cp.pvc)
             THEN w' = [w EXCEPT !.cp.pvc = dstPVC.uid,
                                 !.pc = IF dstPVC.bound THEN "podgone" ELSE "provision"]
             ELSE ReserveFails
          /\ UNCHANGED <<dstPVC, left>>
    /\ UNCHANGED <<srcPVC, srcPV, dstPV, pod, tool, class, rec, crd>>

\* ... has a Pod mount it, so that the volume is provisioned on the target node ...
provisionOnTarget ==
    /\ w.pc = "provision"
    /\ pod' = IF pod = "None" THEN "Pending" ELSE pod
    /\ Goto("ready")
    /\ UNCHANGED <<srcPVC, srcPV, dstPVC, dstPV, tool, class, rec, crd, left>>

\* ... waits for it until it is ready, is gone or the time is up ...
waitForReservationPod ==
    /\ w.pc = "ready"
    /\ \/ pod = "Ready" /\ Goto("podgone")
       \/ pod # "Ready" /\ ReserveFails
    /\ UNCHANGED <<storage, rec, crd, left>>

\* ... removes the Pod again ...
cleanupReservationPod ==
    /\ w.pc = "podgone"
    /\ pod' = IF pod \in {"Pending", "Ready"} THEN "Terminating" ELSE pod
    /\ Goto("podwait")
    /\ UNCHANGED <<srcPVC, srcPV, dstPVC, dstPV, tool, class, rec, crd, left>>

\* ... and retains the volume of the bound claim.
finalizeLiveReservation ==
    /\ w.pc = "podwait" /\ pod = "None"
    /\ IF BoundDestination(w.cp) /\ finalizableReservation(w.cp)
       THEN /\ dstPV' = [dstPV EXCEPT ![dstPVC.uid] = retainPV(@)]
            /\ Goto("record")
       ELSE ReserveFails /\ UNCHANGED dstPV
    /\ UNCHANGED <<srcPVC, srcPV, dstPVC, pod, tool, class, rec, crd, left>>

recordReservation ==
    /\ w.pc = "record"
    /\ IF validateRetainedDestinationPV(dstPV[w.cp.pvc])
       THEN w' = [w EXCEPT !.cp = Finalized(w.cp, w.cp.pvc), !.pc = "checkpoint"]
       ELSE ReserveFails
    /\ UNCHANGED <<storage, rec, crd, left>>

\* The caller saves the checkpoint before it looks at the error.
saveReservation ==
    /\ w.pc = "checkpoint"
    /\ Save([w.obj EXCEPT !.cp = w.cp], IF w.bad THEN "fail" ELSE "reserved")
    /\ UNCHANGED <<storage, crd, left>>

finishReservation ==
    /\ w.pc = "reserved"
    /\ Save([w.obj EXCEPT !.phase = "Reserved"], IF w.kind = "R" THEN "idle" ELSE "copying")
    /\ UNCHANGED <<storage, crd, left>>

\* recordWorkflowFailure keeps the phase to resume from.
fail ==
    /\ w.pc = "fail"
    /\ Save([w.obj EXCEPT !.failed = TRUE], "idle")
    /\ UNCHANGED <<storage, crd, left>>

-----------------------------------------------------------------------------
(* Copy *)

copyVolumes ==
    /\ w.pc = "copying"
    /\ Save([w.obj EXCEPT !.phase = "WarmCopying", !.failed = FALSE],
            IF w.obj.done THEN "finish" ELSE "attempt")
    /\ UNCHANGED <<storage, crd, left>>

\* copyWithRetry: validate and count the attempt before any tool starts ...
copyWithRetry ==
    /\ w.pc = "attempt"
    /\ IF ValidateVolumeReservation(w.obj.cp)
       THEN Save([w.obj EXCEPT !.tried = TRUE], "transfer")
       ELSE Fail /\ UNCHANGED rec
    /\ UNCHANGED <<storage, crd, left>>

startTools ==
    /\ w.pc = "transfer"
    /\ tool' = TRUE
    /\ Goto("release")
    /\ UNCHANGED <<srcPVC, srcPV, dstPVC, dstPV, pod, class, rec, crd, left>>

\* ... and wait for the tools to be gone whatever became of the transfer.
cleanupCopyToolPods ==
    /\ w.pc = "release"
    /\ tool' = FALSE
    /\ Goto("copied")
    /\ UNCHANGED <<srcPVC, srcPV, dstPVC, dstPV, pod, class, rec, crd, left>>

checkpointWarmCopy ==
    /\ w.pc = "copied"
    /\ Save([w.obj EXCEPT !.done = TRUE], "finish")
    /\ UNCHANGED <<storage, crd, left>>

finishCopy ==
    /\ w.pc = "finish"
    /\ Save([w.obj EXCEPT !.phase = "WarmCopied"], "idle")
    /\ UNCHANGED <<storage, crd, left>>

\* RequestCopyPass starts over from a completed copy.
RequestCopyPass ==
    /\ left.users > 0 /\ Lockable("C") /\ Phase(rec["C"]) = "WarmCopied"
    /\ ValidateVolumeReservation(rec["C"].cp)
    /\ rec' = [rec EXCEPT !["C"].done = FALSE, !["C"].phase = "WarmCopying"]
    /\ left' = [left EXCEPT !.users = @ - 1]
    /\ UNCHANGED <<storage, w, crd>>

-----------------------------------------------------------------------------
(* Abort *)

\* A user aborts a record, or asks the controller to when the copy's Lease is taken.
RequestAbort(k) ==
    /\ left.users > 0
    /\ rec[k].here /\ ~rec[k].deleting /\ ~rec[k].pending /\ rec[k].phase # "Aborted"
    /\ left' = [left EXCEPT !.users = @ - 1]
    /\ \/ w.pc = "idle" /\ Load(k, "abort", "aborting") /\ UNCHANGED rec
       \/ /\ w.pc # "idle" /\ crd /\ k = "C" /\ ~rec[k].abort
          /\ rec' = [rec EXCEPT ![k].abort = TRUE] /\ UNCHANGED w
    /\ UNCHANGED <<storage, crd>>

\* reconcileAbortRequest: the request is consumed when the abort is through.
ReconcileAbort ==
    /\ Lockable("C") /\ rec["C"].abort
    /\ Load("C", "abort", "aborting")
    /\ UNCHANGED <<storage, rec, crd, left>>

\* What follows an abort: the rest of a deletion, or the consumption of a request.
AfterAbort == IF w.op = "delete" THEN "prepare" ELSE IF w.obj.abort THEN "consume" ELSE "idle"

abort ==
    /\ w.pc = "aborting"
    /\ IF w.obj.phase = "Aborted" THEN Goto(AfterAbort) /\ UNCHANGED rec
       ELSE IF w.obj.phase = ""
       THEN Save([w.obj EXCEPT !.phase = "Aborted", !.failed = FALSE], AfterAbort)
       ELSE Save([w.obj EXCEPT !.phase = "Aborting", !.failed = FALSE],
                 IF w.kind = "C" THEN "interrupted" ELSE "aborted")
    /\ UNCHANGED <<storage, crd, left>>

cleanupInterrupted ==
    /\ w.pc = "interrupted"
    /\ IF MayStopTools(w.obj)
       THEN ToolsStopped(w.obj) /\ Goto("aborted")
       ELSE /\ IF w.op = "abort" /\ w.obj.abort THEN Goto("consume") ELSE Stop
            /\ UNCHANGED tool
    /\ UNCHANGED <<srcPVC, srcPV, dstPVC, dstPV, pod, class, rec, crd, left>>

aborted ==
    /\ w.pc = "aborted"
    /\ Save([w.obj EXCEPT !.phase = "Aborted"], AfterAbort)
    /\ UNCHANGED <<storage, crd, left>>

\* finishAbortRequest takes the annotation off, also after a rejection.
finishAbortRequest ==
    /\ w.pc = "consume"
    /\ Save([w.obj EXCEPT !.abort = FALSE], "idle")
    /\ UNCHANGED <<storage, crd, left>>

=============================================================================
