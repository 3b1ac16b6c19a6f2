-------------------------- MODULE WorkloadStandalone --------------------------
(***************************************************************************)
(* standalone.go of internal/controller: a Pod without a controller is     *)
(* deleted and created again from its snapshot.  cr.owner is the session   *)
(* annotation of the Pod of slot 0, None for a Pod this tool did not make. *)
(***************************************************************************)
EXTENDS WorkloadKubeBlocks

OnlyPodAndOwner == UNCHANGED <<kind, budget, scale, kb, hpa, crashes, outside>>

\* pauseStandalone: deletes by UID and waits; a replacement is a conflict.
pauseStandalone(s) ==
    \/ /\ At(s, "pause")
       /\ IF Present(0) /\ 0 \in sess[s].stale
          THEN Fail(s) /\ UNCHANGED pods
          ELSE /\ pods' = [pods EXCEPT ![0] = IF Present(0) THEN "stopping" ELSE @]
               /\ Goto(s, "gone")
       /\ OnlyPods
    \/ /\ At(s, "gone") /\ waitForPodDeletion(s, {0}, "paused")
       /\ OnlySession

Mine(s) == Present(0) /\ cr.owner = s

validateStandaloneResume(s) == Present(0) => Mine(s)

\* resumeStandalone: adopts its own ready Pod; otherwise creates one, and takes
\* one of its own that somebody's earlier pass created.
resumeStandalone(s) ==
    \/ /\ At(s, "resume")
       /\ CASE Present(0) /\ cr.owner # s -> Fail(s)
            [] Mine(s) /\ pods[0] = "ready" ->
                  sess' = [sess EXCEPT ![s] = [recoveredWorkloadPod(@) EXCEPT !.pc = "resumed"]]
            [] OTHER -> Goto(s, "create")
       /\ OnlySession
    \/ /\ At(s, "create") /\ ~Present(0)
       /\ pods' = [pods EXCEPT ![0] = "starting"]
       /\ cr' = [cr EXCEPT !.owner = s]
       /\ sess' = [sess EXCEPT ![s] = [recoveredWorkloadPod(@) EXCEPT !.pc = "ready"]]
       /\ OnlyPodAndOwner
    \/ /\ At(s, "create") /\ Present(0)
       /\ IF Mine(s)
          THEN sess' = [sess EXCEPT ![s] = [recoveredWorkloadPod(@) EXCEPT !.pc = "ready"]]
          ELSE Fail(s)
       /\ OnlySession
    \/ /\ At(s, "ready")
       /\ \/ pods[0] = "ready" /\ Mine(s) /\ 0 \notin sess[s].stale /\ Goto(s, "resumed")
          \/ (~Mine(s) \/ 0 \in sess[s].stale) /\ Fail(s)
       /\ OnlySession

currentStandaloneRollbackPods(s) ==
    [ok |-> validateStandaloneResume(s), pods |-> {i \in {0} : Present(i)}]

\* standaloneWorkload; validateDiscoverPodInput refuses a Pod a session made.
standaloneWorkload(i) ==
    IF i = 0 /\ pods[0] = "ready" /\ cr.owner = None THEN {Selected(0, 0, {})} ELSE {}

=============================================================================
