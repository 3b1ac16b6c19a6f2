------------------------------ MODULE Switcher ------------------------------
(***************************************************************************)
(* The building blocks of internal/kube's Switcher: each operator is one   *)
(* of its methods, as a state predicate (the verifications) or as the      *)
(* change of one Kubernetes object it writes.  Writes carry the            *)
(* resourceVersion or the UID they were computed from, so a read and the   *)
(* write that depends on it are one step; a conflict is an error of the    *)
(* pass, like any other error of the API.  PersistentVolumes keep their    *)
(* UID until they are gone; capacities always fit.                         *)
(***************************************************************************)
EXTENDS ClusterStorage

\* Claim c, read at location l, is bound to volume v and v agrees.
VerifyBinding(l, c, v) ==
    /\ c.bound /\ c.volume = v
    /\ Live(v)
    /\ pv[v].claim = l /\ pv[v].claimUID = c.uid

\* The claim with UID u is at l, bound to v, and v agrees.
VerifyIdentity(l, u, v) ==
    /\ pvc[l].uid = u
    /\ VerifyBinding(l, pvc[l], v)

\* The claim (l, u) is deleted; its volume is retained for the session and
\* still refers to it, or is reserved for the claim at r.
VerifyRetained(l, u, v, r) ==
    /\ Live(v)
    /\ pv[v].session
    /\ pv[v].policy = "Retain"
    /\ \/ pv[v].claim = l /\ pv[v].claimUID = u
       \/ r # NoClaim /\ pv[v].claim = r /\ pv[v].claimUID = 0

\* VerifyIdentity that accepts a missing claim when recovering.
VerifyRecovery(l, u, v, r) ==
    IF Exists(l) THEN VerifyIdentity(l, u, v) ELSE VerifyRetained(l, u, v, r)

\* The PV update of ensureRetain and of markPVPair: session and role labels,
\* the original policy if it is not recorded yet, and the Retain policy.
Retained(p, role) ==
    [p EXCEPT !.session = TRUE,
              !.role = role,
              !.original = IF @ = "none" THEN p.policy ELSE @,
              !.policy = "Retain"]

EnsureRetain(v, role) ==
    /\ Live(v)
    /\ pv' = [pv EXCEPT ![v] = Retained(pv[v], role)]
    /\ UNCHANGED <<pvc, lastUID, pod, attached, pods, intrusions>>

\* Mutant: without the UID precondition whatever holds the name is deleted.
DeletePVCByName(l, u) ==
    /\ pvc' = IF Exists(l) THEN [pvc EXCEPT ![l].deleting = TRUE] ELSE pvc
    /\ UNCHANGED <<pv, lastUID, pod, attached, pods, intrusions>>

\* deletePVC up to the Delete call; the claim has UID u or is gone already.
DeletePVC(l, u) ==
    /\ pvc[l].uid \in {0, u}
    /\ pvc' = IF Exists(l) THEN [pvc EXCEPT ![l].deleting = TRUE] ELSE pvc
    /\ UNCHANGED <<pv, lastUID, pod, attached, pods, intrusions>>

\* A volume that still refers to the claim (l, its UID) needs no reservation.
ClaimedBy(v, l) ==
    /\ pv[v].claim = l /\ pv[v].claimUID # 0
    /\ pvc[l].uid = pv[v].claimUID /\ pvc[l].volume = v

\* The volume may be reserved for the claim at l now (otherwise the code
\* waits); an error when another claim holds the name the volume refers to.
ReservationConflict(v, l) ==
    ~Live(v) \/ (pv[v].claim = l /\ Exists(l) /\ ~ClaimedBy(v, l))

ReadyForReservation(v, l) ==
    IF pv[v].claim = l
    THEN TRUE
    ELSE pv[v].phase \in {"Released", "Available"}

ReservePV(v, l) ==
    /\ ReadyForReservation(v, l)
    /\ pv' = IF ClaimedBy(v, l) \/ (pv[v].claim = l /\ pv[v].claimUID = 0)
             THEN pv
             ELSE [pv EXCEPT ![v].claim = l, ![v].claimUID = 0]
    /\ UNCHANGED <<pvc, lastUID, pod, attached, pods, intrusions>>

\* A claim of that name exists and is not the one the session would create.
CreateConflict(l, v) ==
    Exists(l) /\ ~(pvc[l].volume = v /\ pvc[l].session)

CreateBoundPVC(l, v) ==
    /\ IF Exists(l)
       THEN UNCHANGED <<pvc, lastUID>>
       ELSE /\ pvc' = [pvc EXCEPT ![l] = NewClaim(lastUID + 1, v, TRUE)]
            /\ lastUID' = lastUID + 1
    /\ UNCHANGED <<pv, pod, attached, pods, intrusions>>

=============================================================================
