--------------------------- MODULE LeaseOwnership ---------------------------
(***************************************************************************)
(* What the workflow Lease promises, without Kubernetes: at any time at    *)
(* most one acquisition owns it, and an acquisition owns it for one        *)
(* uninterrupted interval.  Whoever lost, released or deleted it never     *)
(* owns it again, so whatever is checked against the owner's identity      *)
(* cannot be satisfied by a session that came back from the past.          *)
(***************************************************************************)
CONSTANTS Handle, NoHolder

VARIABLES
    owner,   \* the acquisition the Lease names, or NoHolder
    past     \* the acquisitions whose interval of ownership is over

Init == owner = NoHolder /\ past = {}

Ended == {owner} \ {NoHolder}

\* A free Lease is acquired, or the Lease of a vanished owner is taken over.
Take(h) ==
    /\ h \notin past \cup {owner}
    /\ owner' = h
    /\ past' = past \cup Ended

\* The owner gives the Lease up.
Drop ==
    /\ owner # NoHolder
    /\ owner' = NoHolder
    /\ past' = past \cup Ended

Next == Drop \/ \E h \in Handle : Take(h)

Spec == Init /\ [][Next]_<<owner, past>>
=============================================================================
