--------------------------- MODULE MCCrossCluster ---------------------------
(***************************************************************************)
(* Two processes over a session of one volume.  Two claims let the         *)
(* destination be replaced, by its session or by somebody else; two Pods   *)
(* let a process die with the first.  The sites are a class that waits for *)
(* a consumer, with either reclaim policy, under offline copies, and one   *)
(* that binds at once under copies of a shared source, online or not.      *)
(***************************************************************************)
EXTENDS CrossCluster, TLC

CONSTANTS p1, p2

Site(waits, keeps, shared, online, n) ==
    [waits |-> waits, keeps |-> keeps, shared |-> shared, online |-> online, faults |-> n]

MCSites == {Site(TRUE, FALSE, FALSE, {FALSE}, 2), Site(TRUE, TRUE, FALSE, {FALSE}, 1),
            Site(FALSE, FALSE, TRUE, BOOLEAN, 1)}

MCProcs == {p1, p2}
MCSymmetry == Permutations(MCProcs)
=============================================================================
