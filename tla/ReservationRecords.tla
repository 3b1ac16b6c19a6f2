-------------------------- MODULE ReservationRecords --------------------------
(***************************************************************************)
(* The two records of a reserved volume: the reservation R and the copy C  *)
(* it can be promoted to.  They share a name and therefore a Lease, so one *)
(* worker at a time acts for either (SessionLease models the Lease).  The  *)
(* stores of internal/kube/workflow_store.go, the handoff and its          *)
(* cancellation (internal/kube/reservation_copy_crd_store.go,              *)
(* reservation_copy_store.go, reservation_copy_cancel.go) and the recovery *)
(* that the controllers start (internal/controller/                        *)
(* reservation_copy_recovery.go) are here.                                 *)
(*                                                                         *)
(* The worker keeps the record it loaded.  A write is accepted only if the *)
(* stored record is still that one: resourceVersion is modelled by         *)
(* comparing contents.                                                     *)
(***************************************************************************)
EXTENDS VolumeReclaim

CONSTANT Budgets    \* what users, outsiders and faults do in one behaviour

VARIABLES rec,      \* the stored records
          w,        \* the worker that holds the Lease
          crd,      \* whether records are custom resources, else ConfigMaps
          left      \* what is left of the budget

records == <<rec, w, crd, left>>
vars == <<storage, records>>

Kinds == {"R", "C"}
Active(k) == IF k = "R" THEN {"Planned", "Reserving"}
             ELSE {"Planned", "Reserving", "Reserved", "WarmCopying"}
Terminal(k) == IF k = "R" THEN {"Reserved", "Aborted"} ELSE {"WarmCopied", "Aborted"}

\* A record: phase is the resume phase when the workflow failed; keep stands for the
\* plan's unused storage policy, pending for the handoff annotation.
Record == [here : BOOLEAN, phase : {"", "Planned", "Reserving", "Reserved", "WarmCopying",
                                    "WarmCopied", "Aborting", "Aborted"},
           failed : BOOLEAN, cp : Checkpoint, tried : BOOLEAN, done : BOOLEAN,
           keep : BOOLEAN, pending : BOOLEAN, fin : BOOLEAN, deleting : BOOLEAN,
           abort : BOOLEAN]
NoRecord == [here |-> FALSE, phase |-> "", failed |-> FALSE, cp |-> NoCheckpoint,
             tried |-> FALSE, done |-> FALSE, keep |-> TRUE, pending |-> FALSE,
             fin |-> FALSE, deleting |-> FALSE, abort |-> FALSE]
NewRecord(keep, protected) ==
    [NoRecord EXCEPT !.here = TRUE, !.keep = keep, !.fin = protected]

\* What a worker does without an object in its hands.
Idle == [pc |-> "idle", kind |-> "R", op |-> "run", obj |-> NoRecord, copy |-> NoRecord,
         cp |-> NoCheckpoint, bad |-> FALSE, finalize |-> FALSE, forget |-> FALSE,
         vol |-> [pvc |-> 0, pv |-> 0, policy |-> None, open |-> FALSE, delete |-> FALSE]]

Phase(r) == IF r.failed THEN "Failed" ELSE r.phase

-----------------------------------------------------------------------------
(* What every pass demands of a record before it does anything, deletion   *)
(* included.                                                               *)

\* validateClusterReservationCheckpoints
ReservationCheckpointValid(r) ==
    /\ r.cp.reserved => r.cp.pvc # 0 /\ r.cp.pv # 0
    /\ r.phase = "Reserved" => r.cp.reserved

\* validateClusterCopyCheckpoints
CopyCheckpointValid(r) ==
    /\ r.cp.reserved => r.cp.pvc # 0 /\ r.cp.pv # 0
    /\ r.phase \in {"Reserved", "WarmCopying", "WarmCopied"} => r.cp.reserved
    /\ r.tried \/ r.done => r.cp.reserved
    /\ r.phase = "WarmCopied" => r.done

\* validateReservationTransition
ReservationTransitionValid(from, to, planned) ==
    \/ from = to \/ to = "Failed"
    \/ to = "Reserving" /\ from \in {"Planned", "Failed"}
    \/ to = "Reserved" /\ from = "Reserving"
    \/ to = "Aborting" /\ from \in {"Planned", "Reserving", "Reserved", "Failed"}
    \/ to = "Aborted" /\ (from = "Aborting" \/ ~planned)

\* validateCopyTransition, from the phase to resume
CopyTransitionValid(from, to, planned) ==
    \/ from = to \/ to = "Failed"
    \/ to = "Reserving" /\ from = "Planned"
    \/ to = "Reserved" /\ from = "Reserving"
    \/ to = "WarmCopying" /\ from \in {"Reserved", "WarmCopied"}
    \/ to = "WarmCopied" /\ from = "WarmCopying"
    \/ to = "Aborting" /\ from # "Aborted"
    \/ to = "Aborted" /\ (from = "Aborting" \/ ~planned)

-----------------------------------------------------------------------------
(* Stores *)

\* The worker stops; its Lease is released.
Stop == w' = Idle

\* checkWorkflowStorageVersion: the record is still the one the worker holds.
Current == rec[w.kind] = w.obj

\* Save a new status and go on; a stale record ends the pass unrecorded.
Save(new, next) ==
    IF Current
    THEN /\ rec' = [rec EXCEPT ![w.kind] = new]
         /\ w' = IF next = "idle" THEN Idle ELSE [w EXCEPT !.obj = new, !.pc = next]
    ELSE Stop /\ UNCHANGED rec

\* CRD Delete: drop the finalizer, then delete unless Kubernetes already is.
DeleteRecord(k) == rec' = [rec EXCEPT ![k] = NoRecord]

\* The CRD store puts the finalizer on before anything is planned.
EnsureProtection(k) ==
    /\ w.pc = "idle" /\ crd
    /\ rec[k].here /\ ~rec[k].deleting /\ ~rec[k].pending /\ ~rec[k].fin
    /\ rec' = [rec EXCEPT ![k].fin = TRUE]
    /\ UNCHANGED <<storage, w, crd, left>>

\* Load under the Lease: the pass works on this object.
Load(k, op, pc) == w' = [Idle EXCEPT !.pc = pc, !.kind = k, !.op = op, !.obj = rec[k],
                                     !.cp = rec[k].cp]

\* WithWorkflowLease admits a deleting record only to the deletion pass.
Admits(k) == w.pc = "idle" /\ rec[k].here /\ ~rec[k].deleting

\* withStoredWorkflowLock also refuses a record in the middle of a handoff.
Lockable(k) == Admits(k) /\ ~rec[k].pending

-----------------------------------------------------------------------------
(* Promotion of a reservation to a copy *)

\* CopyFromReservation and the copy's Validate; the copy chooses its own unused policy.
CopyFromReservation(r) == Phase(r) = "Reserved" /\ ~r.deleting

CopyStatus(r, c) == [c EXCEPT !.phase = "Reserved", !.cp = r.cp]

AdoptReservation(pc) ==
    /\ Admits("R") /\ CopyFromReservation(rec["R"])
    /\ ValidateVolumeReservation(rec["R"].cp)
    /\ Load("R", "handoff", pc)

\* `copy --from` on custom resources, or on the ConfigMaps of the CLI.
RequestHandoff ==
    /\ left.users > 0 /\ ~rec["R"].pending /\ ~rec["C"].here
    /\ AdoptReservation(IF crd THEN "mark" ELSE "replace")
    /\ left' = [left EXCEPT !.users = @ - 1]
    /\ UNCHANGED <<storage, rec, crd>>

\* A ConfigMap record changes its kind in one conditional update.
HandoffConfigMapReservationToCopy ==
    /\ w.pc = "replace"
    /\ \E keep \in BOOLEAN :
         IF Current
         THEN rec' = [rec EXCEPT !["R"] = NoRecord,
                                 !["C"] = CopyStatus(w.obj, NewRecord(keep, FALSE))]
         ELSE UNCHANGED rec
    /\ Stop
    /\ UNCHANGED <<storage, crd, left>>

\* prepareCRDCopyHandoff: an existing copy must belong to this handoff; otherwise the
\* reservation is marked and protected first.
prepareCRDCopyHandoff ==
    /\ w.pc = "mark"
    /\ IF rec["C"].here
       THEN /\ UNCHANGED rec
            /\ IF Current /\ w.obj.pending /\ rec["C"].pending /\ ~rec["C"].deleting
               THEN w' = [w EXCEPT !.copy = rec["C"], !.pc = "init"]
               ELSE Stop
       ELSE Save([w.obj EXCEPT !.pending = TRUE, !.fin = TRUE], "create")
    /\ UNCHANGED <<storage, crd, left>>

\* The copy is created pending, protected and without a status.
createCopy ==
    /\ w.pc = "create"
    /\ \E keep \in BOOLEAN :
         LET c == [NewRecord(keep, TRUE) EXCEPT !.pending = TRUE] IN
         IF rec["C"].here
         THEN Stop /\ UNCHANGED rec
         ELSE /\ rec' = [rec EXCEPT !["C"] = c]
              /\ w' = [w EXCEPT !.copy = c, !.pc = "init"]
    /\ UNCHANGED <<storage, crd, left>>

\* initializeCRDCopyHandoff: write the checkpoints once; a status that is there must agree.
initializeCRDCopyHandoff ==
    /\ w.pc = "init"
    /\ LET c == CopyStatus(w.obj, w.copy) IN
       IF w.copy.phase # ""
       THEN /\ UNCHANGED rec
            /\ IF w.copy = c THEN w' = [w EXCEPT !.pc = "unprotect"] ELSE Stop
       ELSE IF rec["C"] = w.copy
            THEN /\ rec' = [rec EXCEPT !["C"] = c]
                 /\ w' = [w EXCEPT !.copy = c, !.pc = "unprotect"]
            ELSE Stop /\ UNCHANGED rec
    /\ UNCHANGED <<storage, crd, left>>

\* The reservation loses its finalizer ...
unprotectReservation ==
    /\ w.pc = "unprotect"
    /\ Save([w.obj EXCEPT !.fin = FALSE], "remove")
    /\ UNCHANGED <<storage, crd, left>>

\* ... and is deleted, unless somebody already did.
removeReservation ==
    /\ w.pc = "remove"
    /\ IF Current \/ ~rec["R"].here
       THEN DeleteRecord("R") /\ w' = [w EXCEPT !.pc = "activate"]
       ELSE Stop /\ UNCHANGED rec
    /\ UNCHANGED <<storage, crd, left>>

\* Mutant: the barrier goes without a look at the old record.
ActivateCRDCopyHandoffUnchecked ==
    /\ w.pc \in {"remove", "activate"}
    /\ IF w.copy.phase = "Reserved" /\ rec["C"] = w.copy
       THEN rec' = [rec EXCEPT !["C"].pending = FALSE]
       ELSE UNCHANGED rec
    /\ Stop
    /\ UNCHANGED <<storage, crd, left>>

\* ActivateCRDCopyHandoff: the barrier goes once the reservation is gone.
ActivateCRDCopyHandoff ==
    /\ w.pc = "activate"
    /\ IF w.copy.phase = "Reserved" /\ rec["C"] = w.copy /\ ~rec["R"].here
       THEN rec' = [rec EXCEPT !["C"].pending = FALSE]
       ELSE UNCHANGED rec
    /\ Stop
    /\ UNCHANGED <<storage, crd, left>>

\* ValidatePendingReservationCopy: the pair belongs together, the copy did nothing yet.
ValidatePendingReservationCopy ==
    rec["C"].pending /\ Phase(rec["C"]) \in {"", "Reserved"} /\ ~rec["C"].tried /\ ~rec["C"].done

\* CancelCRDReservationCopyHandoff: restore the reservation before the copy is dropped.
CancelCRDReservationCopyHandoff ==
    /\ w.pc = "restore"
    /\ IF Current
       THEN /\ rec' = [rec EXCEPT !["R"].pending = FALSE, !["R"].fin = TRUE]
            /\ IF rec["C"].here THEN w' = [w EXCEPT !.copy = rec["C"], !.pc = "unprotectCopy"]
               ELSE Stop
       ELSE Stop /\ UNCHANGED rec
    /\ UNCHANGED <<storage, crd, left>>

\* A deleting copy is gone with its finalizer, another one is deleted next.
unprotectCopy ==
    /\ w.pc = "unprotectCopy"
    /\ IF rec["C"] # w.copy THEN Stop /\ UNCHANGED rec
       ELSE IF w.copy.deleting THEN DeleteRecord("C") /\ Stop
       ELSE LET c == [w.copy EXCEPT !.fin = FALSE] IN
            /\ rec' = [rec EXCEPT !["C"] = c]
            /\ w' = [w EXCEPT !.copy = c, !.pc = "removeCopy"]
    /\ UNCHANGED <<storage, crd, left>>

removeCopy ==
    /\ w.pc = "removeCopy"
    /\ IF rec["C"] = w.copy THEN DeleteRecord("C") ELSE UNCHANGED rec
    /\ Stop
    /\ UNCHANGED <<storage, crd, left>>

-----------------------------------------------------------------------------
(* Recovery of a handoff, started by both reconcilers before anything else *)

\* Mutant: only the deletion of the reservation rolls the handoff back.
CancelsReservation == rec["R"].deleting \/ ~rec["R"].pending

\* Roll back when either side is being deleted or the reservation is no longer marked.
Cancels == rec["R"].deleting \/ rec["C"].deleting \/ ~rec["R"].pending

\* recoverPair
recoverPair ==
    /\ rec["R"].pending \/ rec["C"].pending
    /\ ValidatePendingReservationCopy
    /\ rec["R"].deleting => rec["R"].fin
    /\ IF Cancels THEN Load("R", "cancel", "restore") ELSE AdoptReservation("mark")

recoverReservation ==
    /\ w.pc = "idle" /\ crd /\ rec["R"].here
    /\ \/ ~rec["C"].here /\ rec["R"].pending /\ Load("R", "cancel", "restore")
       \/ rec["C"].here /\ recoverPair
    /\ UNCHANGED <<storage, rec, crd, left>>

recoverCopy ==
    /\ w.pc = "idle" /\ crd /\ rec["C"].here /\ rec["C"].pending
    /\ ~rec["R"].here
    /\ w' = [Idle EXCEPT !.pc = "activate", !.kind = "C", !.op = "activate",
                         !.obj = rec["C"], !.copy = rec["C"]]
    /\ UNCHANGED <<storage, rec, crd, left>>

Handoff == HandoffConfigMapReservationToCopy \/ prepareCRDCopyHandoff \/ createCopy
           \/ initializeCRDCopyHandoff \/ unprotectReservation \/ removeReservation
           \/ ActivateCRDCopyHandoff \/ CancelCRDReservationCopyHandoff \/ unprotectCopy
           \/ removeCopy

=============================================================================
