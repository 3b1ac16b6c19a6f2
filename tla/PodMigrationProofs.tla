-------------------------- MODULE PodMigrationProofs --------------------------
(***************************************************************************)
(* Theorems about migrating the volumes of a running workload.  The        *)
(* inductive invariant says, for every place a pass can be at, which phase *)
(* the stored status is in or resumes from, and what that phase guarantees *)
(* about the copy tools, the copies, the claims, the workload and the      *)
(* shared mount.  One lemma per step shows it kept; the last part derives  *)
(* what the executor promises.                                             *)
(***************************************************************************)
EXTENDS PodMigration, TLAPS, FiniteSetTheorems, WellFoundedInduction

\* Restoring and preparing shared mounts are on the way to somewhere else.
Detours == {"restore", "restored", "prepare", "enable"}

\* Where the pass is, or is on its way to.
Dest == IF pc \in Detours THEN ret ELSE pc

\* The callers of restoreSharedMounts.
RestoreTargets ==
    {"idle", "reserving", "warmPrepare", "warmed", "pause", "finalStart", "activating",
     "resuming", "resumeWorkload", "resumed", "rollingBack"}

\* The workload has not been touched yet ...
Early == {"Planned", "Reserving", "Reserved", "WarmCopying", "WarmCopied"}

\* ... or is down and stays down.
Resting == {"Paused", "FinalSyncing", "FinalSynced", "Activating", "Activated"}

\* The phases that an abort and a rollback start from or resume.
Abortable == Early \cup PausedPhases \cup {"Aborting"}

Rollbackable ==
    {"FinalSynced", "Activating", "Activated", "Resuming", "Completed", "RollingBack"}

\* The phases in which a pass is at a label.
At(label) ==
    CASE label \in {"reserve", "reserving"} -> {"Planned", "Reserving"}
      [] label = "reserveVolume" -> {"Reserving"}
      [] label \in {"warm", "warmPrepare", "warmStart"} ->
            {"Reserved", "WarmCopying", "WarmCopied"}
      [] label \in {"copy", "attempt", "transfer", "copied"} -> {"WarmCopying", "FinalSyncing"}
      [] label = "warmed" -> {"WarmCopying"}
      [] label \in {"cutover", "probe", "pause"} -> {"Reserved", "WarmCopied", "Pausing"}
      [] label \in {"pauseWorkload", "pausing"} -> {"Pausing", "RollingBack"}
      [] label \in {"finalSync", "finalStart"} -> {"Paused", "FinalSyncing"}
      [] label \in {"activate", "activating"} -> {"FinalSynced", "Activating"}
      [] label = "activateVolume" -> {"Activating"}
      [] label \in {"resume", "resuming"} -> {"Activated", "Resuming"}
      [] label \in {"resumeWorkload", "awaitReady", "resumed"} ->
            {"Resuming", "Aborting", "RollingBack"}
      [] label = "abort" -> Abortable
      [] label = "abortTools" -> {"Aborting"}
      [] label \in {"rollback", "rollingBack"} -> Rollbackable
      [] label = "rollbackVolume" -> {"RollingBack"}
      [] label = "idle" -> Phases
      [] OTHER -> {}

\* The stored phase fits the label; a failed status names the phase to resume from, and
\* only an abort or a rollback works on it.
Control ==
    /\ pc \in {"restore", "restored"} => ret \in RestoreTargets
    /\ pc \in {"prepare", "enable"} => ret \in {"warmStart", "probe"}
    /\ pc = "abortTools" => ret \in {"resumeWorkload", "resumed"}
    /\ pc \notin Detours \cup {"abortTools"} => ret = "idle"
    /\ ResumePhase(rec) \in At(Dest)
    /\ rec.phase = "Failed" =>
          /\ Dest \in {"idle", "abort", "rollback", "rollingBack"}
          /\ rec.resumeFrom \in Phases \ Terminal

\* The workload is down and nobody asked for it.
Quiet == ~wl.desired /\ wl.pod = "down"

\* The volume the copies are at.
Current == Min(Undone(Done(rec)))

\* A volume has the tools of its latest attempt only, in the phase of their mode, and only
\* at labels that go on to clear them.
ToolsInv ==
    /\ \A v \in Volumes : tools[v] # {} =>
          /\ \E mode \in {"warm", "final"} :
                /\ tools[v] = {<<mode, rec.attempts[v]>>}
                /\ \/ ResumePhase(rec) = "WarmCopying" /\ mode = "warm" /\ ~rec.warmDone[v]
                   \/ ResumePhase(rec) = "FinalSyncing" /\ mode = "final" /\ ~rec.finalDone[v]
                   \/ ResumePhase(rec) = "Aborting" /\ (mode = "final" => Quiet)
          /\ rec.attempts[v] # 0
          /\ pc \in {"warm", "finalSync", "transfer", "abort", "abortTools"} \/ Dest = "idle"
          /\ pc = "transfer" => v = Current
    /\ pc \in {"attempt", "transfer", "copied"} => ~All(Done(rec))
    /\ pc = "attempt" => rec.attempts[Current] # 0

\* A final copy that is recorded as done is equal to its source, and stays so until the
\* claims are swapped.
CopyInv ==
    /\ ResumePhase(rec) \in Early \cup {"Pausing", "Paused"} => rec.finalDone = Every(FALSE)
    /\ ResumePhase(rec) \in {"FinalSynced", "Activating"} => All(rec.finalDone)
    /\ ResumePhase(rec) \in {"FinalSyncing", "FinalSynced", "Activating"} =>
          \A v \in Volumes : rec.finalDone[v] => sync[v] = "equal"
    /\ ResumePhase(rec) = "FinalSyncing" =>
          /\ pc = "transfer" => sync[Current] = "copying"
          /\ pc = "copied" => sync[Current] = "equal"

\* Which volume the claims lead to, and which swaps are recorded.
SwapInv ==
    LET phase == ResumePhase(rec) IN
    /\ phase \notin {"Activating", "Activated", "Resuming", "Completed", "RollingBack"} =>
          claim = Every("src")
    /\ phase \in {"Activated", "Resuming", "Completed"} => claim = Every("dst")
    /\ phase \in {"FinalSynced"} \cup Early \cup PausedPhases => rec.active = Every(FALSE)
    /\ phase = "Activating" => \A v \in Volumes : rec.active[v] => claim[v] = "dst"
    /\ phase \notin {"RollingBack", "RolledBack"} => rec.rolledBack = Every(FALSE)
    /\ \A v \in Volumes : rec.rolledBack[v] => claim[v] = "src"
    /\ phase = "RollingBack" /\ Dest \in {"resumeWorkload", "awaitReady", "resumed"} =>
          All(rec.rolledBack)

\* From the final sync to the end of the swap, and between two swaps of a rollback, the
\* workload stays down; a pod that is not down mounts what the claims lead to.
RestInv ==
    /\ ResumePhase(rec) \in Resting => Quiet
    /\ pc = "rollbackVolume" => Quiet \/ All(rec.rolledBack)
    /\ ResumePhase(rec) = "RollingBack" /\ ~All(rec.rolledBack) /\ claim # Every("dst") => Quiet
    /\ wl.pod # "down" => wl.mount = claim

\* The workload has its replicas and no mark of the session.
Untouched == wl.desired /\ ~wl.owner

\* When the workload is untouched, and that the history tells an abort whether the
\* workload was.
GivenBackInv ==
    /\ ResumePhase(rec) \in Early \cup Terminal => Untouched
    /\ pc = "awaitReady" => wl.desired
    /\ Dest = "resumed" => Untouched
    /\ pc = "abortTools" /\ ret = "resumed" => Untouched
    /\ rec.history # <<>> /\ rec.history[Len(rec.history)] = ResumePhase(rec)
    /\ ResumePhase(rec) = "Aborting" =>
          /\ Len(rec.history) > 1
          /\ rec.history[Len(rec.history) - 1] # "Aborting"
          /\ rec.history[Len(rec.history) - 1] \in PausedPhases \/ Untouched

\* The labels that are reached only after the shared mounts are restored.
Settling ==
    {"reserving", "reserveVolume", "warmPrepare", "warmed", "pause", "pauseWorkload", "pausing",
     "finalStart", "activating", "activateVolume", "resuming", "resumeWorkload", "awaitReady",
     "resumed", "rollingBack", "rollbackVolume"}

\* A shared volume has its checkpoint, and no checkpoint outlives its phases.
SharedInv ==
    /\ shared => ResumePhase(rec) \in {"Reserved", "WarmCopying", "WarmCopied", "Pausing",
                                       "Aborting"}
    /\ shared => rec.mounts > 0
    /\ ResumePhase(rec) \in Terminal => rec.mounts = 0
    /\ pc \in Settling => rec.mounts = 0
    /\ pc \in {"restore", "restored", "enable"} => rec.mounts > 0
    /\ pc = "restored" => ~shared
    /\ pc \in {"warm", "cutover", "prepare"} => rec.mounts <= 1
    /\ pc = "prepare" /\ ret = "warmStart" => rec.mounts = 0
    /\ rec.mounts <= 2
    /\ ResumePhase(rec) = "WarmCopying" \/ Dest \in {"warm", "warmPrepare", "warmStart"} =>
          rec.passes < PrecopyPasses

\* The inductive invariant.
IInv ==
    /\ TypeOK /\ Control /\ ToolsInv /\ CopyInv /\ SwapInv /\ RestInv /\ GivenBackInv
    /\ SharedInv /\ NoLostWrites

-----------------------------------------------------------------------------
(* Status writes *)

\* Two statuses record the same progress of the copies and of the swaps.
Progress(a, b) ==
    /\ a.passes = b.passes /\ a.mounts = b.mounts /\ a.attempts = b.attempts
    /\ a.warmDone = b.warmDone /\ a.finalDone = b.finalDone
    /\ a.active = b.active /\ a.rolledBack = b.rolledBack

\* A status write that leaves the swaps and the final copies alone, and the rest of
\* the copies' progress too while tools exist.
Kept ==
    /\ rec'.finalDone = rec.finalDone /\ rec'.active = rec.active
    /\ rec'.rolledBack = rec.rolledBack
    /\ \/ tools = Every({})
       \/ rec'.attempts = rec.attempts /\ rec'.warmDone = rec.warmDone

\* What a status write that only moves on to another phase does.
Moves(next) ==
    /\ rec' \in Status /\ Progress(rec', rec)
    /\ rec'.phase = next /\ ResumePhase(rec') = next
    /\ rec'.history = IF ResumePhase(rec) = next THEN rec.history ELSE Append(rec.history, next)

\* What recordWorkflowFailure does: the phase becomes Failed, and the phase to
\* resume from is the one that was left.
Fails ==
    /\ rec' \in Status /\ Progress(rec', rec) /\ rec'.history = rec.history
    /\ rec'.phase = "Failed" /\ ResumePhase(rec') = ResumePhase(rec)
    /\ rec'.resumeFrom = ResumePhase(rec)

\* RecordWorkflowTransition moves the status to the next phase, appends the phase
\* to the history unless it is the one resumed from, and touches nothing else.
LEMMA RecordEffect ==
    ASSUME NEW r \in Status, NEW next \in Phases \cup {"Failed"},
           r.phase = "Failed" => r.resumeFrom \in Phases,
           r.history # <<>>, r.history[Len(r.history)] = ResumePhase(r)
    PROVE  LET q == RecordWorkflowTransition(r, next) IN
           /\ q \in Status
           /\ q.phase = next
           /\ ResumePhase(q) = IF next = "Failed" THEN ResumePhase(r) ELSE next
           /\ Progress(q, r)
           /\ q.history = IF next = "Failed" \/ ResumePhase(r) = next THEN r.history
                          ELSE Append(r.history, next)
           /\ next = "Failed" => q.resumeFrom = ResumePhase(r)
<1> DEFINE q == RecordWorkflowTransition(r, next)
<1>0. /\ r.history \in Seq(Phases) /\ Appended(r.history, next) \in Seq(Phases)
      /\ Appended(r.history, next) = IF next = "Failed" \/ ResumePhase(r) = next THEN r.history
                          ELSE Append(r.history, next)
  BY DEF Status, Appended
<1>1. CASE r.phase = next
  BY Zenon, <1>1 DEF RecordWorkflowTransition, Progress, ResumePhase
<1>2. CASE r.phase # next
  <2>1. q = [r EXCEPT
            !.phase = next,
            !.resumeFrom = IF \/ next = "Failed"
                              \/ next \in {"Aborting", "RollingBack"} /\ r.phase # "Failed"
                           THEN r.phase ELSE r.resumeFrom,
            !.noSpace = IF next = "Failed" THEN r.noSpace ELSE FALSE,
            !.history = Appended(r.history, next)]
     BY Zenon, <1>2 DEF RecordWorkflowTransition
  <2>2. q \in Status
     BY ZenonT(30), <1>0, <1>2, <2>1 DEF Status
  <2>3. q.phase = next /\ Progress(q, r) /\ q.history = Appended(r.history, next)
     BY Zenon, <2>1 DEF Status, Progress
  <2>4. next = "Failed" => q.resumeFrom = r.phase
     BY Zenon, <2>1 DEF Status
  <2> QED BY Zenon, <1>0, <1>2, <2>2, <2>3, <2>4 DEF ResumePhase, Phases, Terminal
<1> QED BY Zenon, <1>1, <1>2

\* A transition of the stored status has that effect on it.
LEMMA TransitionEffect ==
    ASSUME IInv, NEW next \in Phases, Transition(rec, next)
    PROVE  Moves(next)
<1>1. /\ rec \in Status /\ (rec.phase = "Failed" => rec.resumeFrom \in Phases)
      /\ rec.history # <<>> /\ rec.history[Len(rec.history)] = ResumePhase(rec)
  BY Zenon DEF IInv, TypeOK, Control, GivenBackInv
<1>2. next # "Failed"
  BY Zenon DEF Phases, Terminal
<1> QED
  BY Zenon, <1>1, <1>2, RecordEffect DEF Transition, Moves

\* Recording a failure keeps the history, the progress and the phase that a later
\* run resumes from.
LEMMA FailedEffect ==
    ASSUME IInv, NEW full \in BOOLEAN, rec' = Failed(rec, full)
    PROVE  Fails
<1> DEFINE r == [rec EXCEPT !.noSpace = full]
<1>1. /\ rec \in Status /\ (rec.phase = "Failed" => rec.resumeFrom \in Phases)
      /\ rec.history # <<>> /\ rec.history[Len(rec.history)] = ResumePhase(rec)
  BY Zenon DEF IInv, TypeOK, Control, GivenBackInv
<1>2. /\ r \in Status /\ r.phase = rec.phase /\ r.resumeFrom = rec.resumeFrom
      /\ r.history = rec.history /\ Progress(r, rec)
  BY Zenon, <1>1 DEF Status, Progress
<1>3. ResumePhase(r) = ResumePhase(rec)
  BY Zenon, <1>2 DEF ResumePhase
<1>4. rec' = RecordWorkflowTransition(r, "Failed")
  BY Zenon DEF Failed
<1> HIDE DEF r
<1>5. /\ rec' \in Status /\ rec'.phase = "Failed" /\ ResumePhase(rec') = ResumePhase(r)
      /\ Progress(rec', r) /\ rec'.history = r.history /\ rec'.resumeFrom = ResumePhase(r)
  BY <1>1, <1>2, <1>3, <1>4, RecordEffect
<1> QED
  BY Zenon, <1>2, <1>3, <1>5 DEF Fails, Progress

\* restoreSharedMounts is entered exactly when a shared-mount checkpoint is stored;
\* otherwise the pass goes on at once.
LEMMA RestoreEffect ==
    ASSUME NEW r, NEW next, RestoreThen(r, next), next \notin Detours
    PROVE  /\ Dest' = next
           /\ \/ pc' = next /\ ret' = "idle" /\ r.mounts = 0
              \/ pc' = "restore" /\ ret' = next /\ r.mounts # 0
BY Zenon DEF RestoreThen, Dest, Detours

\* The moves between phases that a status write makes, with what the executor has
\* established before it makes them.
Advance ==
    LET p == ResumePhase(rec)
        q == ResumePhase(rec')
    IN \/ /\ q = p /\ rec'.history = rec.history
          /\ rec'.mounts = rec.mounts \/ q \notin Terminal
       \/ /\ rec'.history = Append(rec.history, q)
          /\ q \in Terminal => rec'.mounts = 0
          /\ \/ p = "Planned" /\ q = "Reserving"
             \/ p = "Reserving" /\ q = "Reserved"
             \/ p \in {"Reserved", "WarmCopied"} /\ q = "WarmCopying"
             \/ p = "WarmCopying" /\ q = "WarmCopied" /\ tools = Every({})
             \/ p \in {"Reserved", "WarmCopied"} /\ q = "Pausing"
             \/ p = "Pausing" /\ q = "Paused" /\ Quiet /\ ~shared
             \/ p = "Paused" /\ q = "FinalSyncing"
             \/ p = "FinalSyncing" /\ q = "FinalSynced" /\ All(rec.finalDone)
             \/ p = "FinalSynced" /\ q = "Activating"
             \/ p = "Activating" /\ q = "Activated" /\ All(rec.active)
             \/ p = "Activated" /\ q = "Resuming"
             \/ p = "Resuming" /\ q = "Completed" /\ Untouched
             \/ p = "Aborting" /\ q = "Aborted" /\ Untouched /\ ~shared /\ tools = Every({})
             \/ p = "RollingBack" /\ q = "RolledBack" /\ Untouched /\ All(rec.rolledBack)
             \/ p \in Rollbackable /\ q = "RollingBack"
             \/ p \in Abortable \ {"Aborting"} /\ q = "Aborting"

\* What a pass has established when it reaches its next label.
Arrives ==
    /\ pc' \notin {"attempt", "transfer", "copied", "awaitReady", "restored"}
    /\ \/ tools = Every({})
       \/ pc' \in {"warm", "finalSync", "abort", "abortTools"} \/ Dest' = "idle"
    /\ Dest' = "resumed" \/ (pc' = "abortTools" /\ ret' = "resumed") => Untouched
    /\ pc' = "rollbackVolume" => Quiet \/ All(rec.rolledBack)
    /\ ResumePhase(rec') = "RollingBack" /\ Dest' \in {"resumeWorkload", "awaitReady", "resumed"} =>
          All(rec.rolledBack)
    /\ pc' \in Settling => rec'.mounts = 0
    /\ pc' \in {"restore", "enable"} => rec'.mounts > 0
    /\ pc' \in {"warm", "cutover", "prepare"} => rec'.mounts <= 1
    /\ pc' = "prepare" /\ ret' = "warmStart" => rec'.mounts = 0
    /\ ResumePhase(rec') = "WarmCopying" \/ Dest' \in {"warm", "warmPrepare", "warmStart"} =>
          rec'.passes < PrecopyPasses
    /\ shared => rec'.mounts > 0

\* A status write that makes one of those moves and arrives that way keeps the
\* invariant: nothing but the status and the place in the pass changes.
LEMMA SaveStep ==
    ASSUME IInv, UNCHANGED Cluster, rec' \in Status, Kept, Advance, Arrives,
           pc' \in Labels, ret' \in Labels, Control',
           interrupts' \in 0..MaxInterrupts, failures' \in 0..MaxFailures
    PROVE  IInv'
<1>c. UNCHANGED <<plan, claim, sync, tools, shared, wl>>
  BY Zenon DEF Cluster
<1>t. rec \in Status /\ TypeOK
  BY Zenon DEF IInv, TypeOK
<1>1. TypeOK'
  BY Zenon, <1>c, <1>t DEF TypeOK
<1>2. ToolsInv'
  <2>1. SUFFICES ASSUME NEW v \in Volumes, tools[v] # {}
                 PROVE  /\ \E mode \in {"warm", "final"} :
                            /\ tools[v] = {<<mode, rec'.attempts[v]>>}
                            /\ \/ /\ ResumePhase(rec') = "WarmCopying"
                                  /\ mode = "warm" /\ ~rec'.warmDone[v]
                               \/ /\ ResumePhase(rec') = "FinalSyncing"
                                  /\ mode = "final" /\ ~rec'.finalDone[v]
                               \/ ResumePhase(rec') = "Aborting" /\ (mode = "final" => Quiet)
                        /\ rec'.attempts[v] # 0
    BY Zenon, <1>c, <2>1 DEF ToolsInv, Arrives, Every, Quiet
  <2>2. PICK mode \in {"warm", "final"} :
           /\ tools[v] = {<<mode, rec.attempts[v]>>}
           /\ \/ ResumePhase(rec) = "WarmCopying" /\ mode = "warm" /\ ~rec.warmDone[v]
              \/ ResumePhase(rec) = "FinalSyncing" /\ mode = "final" /\ ~rec.finalDone[v]
              \/ ResumePhase(rec) = "Aborting" /\ (mode = "final" => Quiet)
    BY Zenon, <2>1 DEF IInv, ToolsInv
  <2>3. rec.attempts[v] # 0
    BY Zenon, <2>1 DEF IInv, ToolsInv
  <2>4. ResumePhase(rec) = "FinalSyncing" => Quiet
    BY Zenon DEF IInv, RestInv, Resting
  <2>5. tools # Every({})
    BY Zenon, <2>1 DEF Every
  <2> QED BY Zenon, <2>2, <2>3, <2>4, <2>5 DEF Kept, Advance, All, Rollbackable
<1>3. CopyInv'
  BY Zenon, <1>c DEF IInv, CopyInv, Advance, Arrives, Kept, Early, PausedPhases, Rollbackable,
     Abortable, All, Every
<1>4. SwapInv'
  <2>1. /\ (\A v \in Volumes : rec.active[v] => claim[v] = "dst") /\ All(rec.active) =>
              claim = Every("dst")
        /\ (\A v \in Volumes : rec.rolledBack[v] => claim[v] = "src") /\ All(rec.rolledBack) =>
              claim = Every("src")
        /\ rec.active = Every(FALSE) => \A v \in Volumes : ~rec.active[v]
    BY Zenon, <1>t DEF TypeOK, All, Every
  <2>2. SwapInv
    BY Zenon DEF IInv
  <2> QED
    BY Zenon, <1>c, <2>1, <2>2 DEF SwapInv, Advance, Arrives, Kept, Early, PausedPhases,
       Rollbackable, Abortable
<1>5. RestInv'
  BY Zenon, <1>c DEF IInv, RestInv, SwapInv, Advance, Arrives, Kept, Quiet, Resting, Rollbackable,
     Early, PausedPhases, All
<1>6. GivenBackInv'
  <2>1. GivenBackInv /\ rec.history \in Seq(Phases)
    BY Zenon, <1>t DEF IInv, Status
  <2>2. ASSUME NEW q, rec'.history = Append(rec.history, q)
        PROVE  /\ rec'.history # <<>> /\ rec'.history[Len(rec'.history)] = q
               /\ Len(rec'.history) > 1
               /\ rec'.history[Len(rec'.history) - 1] = ResumePhase(rec)
    BY <2>1, <2>2 DEF GivenBackInv
  <2> QED
    BY Zenon, <1>c, <2>1, <2>2 DEF GivenBackInv, Advance, Arrives, Untouched, Early, Terminal,
       Abortable, PausedPhases
<1>7. SharedInv'
  BY <1>c, PodMigrationAssumption DEF IInv, SharedInv, Advance, Arrives, Kept, Rollbackable,
     Abortable, Terminal, TypeOK, Status
<1>8. NoLostWrites'
  BY Zenon, <1>c DEF IInv, NoLostWrites
<1> QED BY Zenon, <1>1, <1>2, <1>3, <1>4, <1>5, <1>6, <1>7, <1>8 DEF IInv

\* Between copies no copy tool exists: warmCopy, finalSync and abort clear what an
\* interrupted pass left before they go on.
LEMMA NoTools ==
    ASSUME IInv, pc \notin {"warm", "finalSync", "transfer", "abort", "abortTools"}, Dest # "idle"
    PROVE  tools = Every({})
<1>1. \A v \in Volumes : tools[v] = {}
  BY Zenon DEF IInv, ToolsInv
<1> QED BY Zenon, <1>1 DEF IInv, TypeOK, Every

\* A step that neither writes the status nor touches the cluster keeps the invariant
\* when it arrives at its label as it should.
LEMMA WalkStep ==
    ASSUME IInv, UNCHANGED Cluster, rec' = rec, Arrives, Control',
           pc' \in Labels, ret' \in Labels,
           interrupts' \in 0..MaxInterrupts, failures' \in 0..MaxFailures
    PROVE  IInv'
<1>1. Kept /\ Advance /\ UNCHANGED Cluster /\ rec' \in Status
  BY Zenon DEF Kept, Advance, IInv, TypeOK
<1> QED BY Zenon, <1>1, SaveStep

\* The phases of each label, as equations.
LEMMA AtTable ==
    /\ At("reserve") = {"Planned", "Reserving"}
    /\ At("reserving") = {"Planned", "Reserving"}
    /\ At("reserveVolume") = {"Reserving"}
    /\ At("warm") = {"Reserved", "WarmCopying", "WarmCopied"}
    /\ At("warmPrepare") = {"Reserved", "WarmCopying", "WarmCopied"}
    /\ At("warmStart") = {"Reserved", "WarmCopying", "WarmCopied"}
    /\ At("copy") = {"WarmCopying", "FinalSyncing"}
    /\ At("attempt") = {"WarmCopying", "FinalSyncing"}
    /\ At("transfer") = {"WarmCopying", "FinalSyncing"}
    /\ At("copied") = {"WarmCopying", "FinalSyncing"}
    /\ At("warmed") = {"WarmCopying"}
    /\ At("cutover") = {"Reserved", "WarmCopied", "Pausing"}
    /\ At("probe") = {"Reserved", "WarmCopied", "Pausing"}
    /\ At("pause") = {"Reserved", "WarmCopied", "Pausing"}
    /\ At("pauseWorkload") = {"Pausing", "RollingBack"}
    /\ At("pausing") = {"Pausing", "RollingBack"}
    /\ At("finalSync") = {"Paused", "FinalSyncing"}
    /\ At("finalStart") = {"Paused", "FinalSyncing"}
    /\ At("activate") = {"FinalSynced", "Activating"}
    /\ At("activating") = {"FinalSynced", "Activating"}
    /\ At("activateVolume") = {"Activating"}
    /\ At("resume") = {"Activated", "Resuming"}
    /\ At("resuming") = {"Activated", "Resuming"}
    /\ At("resumeWorkload") = {"Resuming", "Aborting", "RollingBack"}
    /\ At("awaitReady") = {"Resuming", "Aborting", "RollingBack"}
    /\ At("resumed") = {"Resuming", "Aborting", "RollingBack"}
    /\ At("abort") = Abortable
    /\ At("abortTools") = {"Aborting"}
    /\ At("rollback") = Rollbackable
    /\ At("rollingBack") = Rollbackable
    /\ At("rollbackVolume") = {"RollingBack"}
    /\ At("idle") = Phases
BY Zenon DEF At

\* A step that spends neither budget keeps both in range.
LEMMA BudgetKept ==
    ASSUME IInv, UNCHANGED <<interrupts, failures>>
    PROVE  interrupts' \in 0..MaxInterrupts /\ failures' \in 0..MaxFailures
BY Zenon, PodMigrationAssumption DEF IInv, TypeOK

\* Going on through restoreSharedMounts keeps the invariant.
LEMMA RestoreWalk ==
    ASSUME IInv, UNCHANGED Cluster, rec' = rec, UNCHANGED <<interrupts, failures>>,
           NEW next \in {"reserving", "warmed", "pause", "activating", "resuming", "rollingBack"},
           RestoreThen(rec, next), ResumePhase(rec) \in At(next), tools = Every({}),
           rec.phase = "Failed" => next = "rollingBack"
    PROVE  IInv'
<1>1. /\ Dest' = next
      /\ \/ pc' = next /\ ret' = "idle" /\ rec.mounts = 0
         \/ pc' = "restore" /\ ret' = next /\ rec.mounts # 0
  BY Zenon, RestoreEffect DEF Detours
<1>2. rec.mounts \in 0..2
  BY Zenon DEF IInv, TypeOK, Status
<1>3. Control' /\ pc' \in Labels /\ ret' \in Labels
  BY ZenonT(30), <1>1, <1>2 DEF IInv, Control, Detours, RestoreTargets, Labels
<1>4. ResumePhase(rec) = "WarmCopying" => rec.passes < PrecopyPasses
  BY Zenon DEF IInv, SharedInv
<1>5. Arrives
  BY <1>1, <1>2, <1>4 DEF IInv, SharedInv, Arrives, Settling
<1> QED BY Zenon, <1>3, <1>5, WalkStep, BudgetKept

\* reserve, up to its first status write.
LEMMA ReserveKeeps == ASSUME IInv, Reserve PROVE IInv'
<1>1. /\ pc = "reserve" /\ Dest = pc /\ UNCHANGED Cluster /\ rec' = rec
      /\ UNCHANGED <<interrupts, failures>> /\ RestoreThen(rec, "reserving")
  BY Zenon DEF Reserve, Budget, Dest, Detours
<1>2. ResumePhase(rec) \in At("reserving")
  BY Zenon, <1>1, AtTable DEF IInv, Control
<1>3. rec.phase # "Failed"
  BY Zenon, <1>1 DEF IInv, Control
<1> QED BY Zenon, <1>1, <1>2, <1>3, RestoreWalk, NoTools

\* pauseAndFinalSync, the check of the source volumes before the pause.
LEMMA ProbeKeeps == ASSUME IInv, Probe PROVE IInv'
<1>1. /\ pc = "probe" /\ Dest = pc /\ UNCHANGED Cluster /\ rec' = rec
      /\ UNCHANGED <<interrupts, failures>> /\ RestoreThen(rec, "pause")
  BY Zenon DEF Probe, Budget, Dest, Detours
<1>2. ResumePhase(rec) \in At("pause")
  BY Zenon, <1>1, AtTable DEF IInv, Control
<1>3. rec.phase # "Failed"
  BY Zenon, <1>1 DEF IInv, Control
<1> QED BY Zenon, <1>1, <1>2, <1>3, RestoreWalk, NoTools

\* activate, up to its first status write.
LEMMA ActivateKeeps == ASSUME IInv, Activate PROVE IInv'
<1>1. /\ pc = "activate" /\ Dest = pc /\ UNCHANGED Cluster /\ rec' = rec
      /\ UNCHANGED <<interrupts, failures>> /\ RestoreThen(rec, "activating")
  BY Zenon DEF Activate, Budget, Dest, Detours
<1>2. ResumePhase(rec) \in At("activating")
  BY Zenon, <1>1, AtTable DEF IInv, Control
<1>3. rec.phase # "Failed"
  BY Zenon, <1>1 DEF IInv, Control
<1> QED BY Zenon, <1>1, <1>2, <1>3, RestoreWalk, NoTools

\* resumeWorkload, up to its first status write.
LEMMA ResumeKeeps == ASSUME IInv, Resume PROVE IInv'
<1>1. /\ pc = "resume" /\ Dest = pc /\ UNCHANGED Cluster /\ rec' = rec
      /\ UNCHANGED <<interrupts, failures>> /\ RestoreThen(rec, "resuming")
  BY Zenon DEF Resume, Budget, Dest, Detours
<1>2. ResumePhase(rec) \in At("resuming")
  BY Zenon, <1>1, AtTable DEF IInv, Control
<1>3. rec.phase # "Failed"
  BY Zenon, <1>1 DEF IInv, Control
<1> QED BY Zenon, <1>1, <1>2, <1>3, RestoreWalk, NoTools

\* rollback, up to its first status write.
LEMMA RollbackKeeps == ASSUME IInv, Rollback PROVE IInv'
<1>1. /\ pc = "rollback" /\ Dest = pc /\ UNCHANGED Cluster /\ rec' = rec
      /\ UNCHANGED <<interrupts, failures>> /\ RestoreThen(rec, "rollingBack")
  BY Zenon DEF Rollback, Budget, Dest, Detours
<1>2. ResumePhase(rec) \in At("rollingBack")
  BY Zenon, <1>1, AtTable DEF IInv, Control
<1> QED BY Zenon, <1>1, <1>2, RestoreWalk, NoTools

\* A run, or a reconcile, dispatches on the phase it resumes from.
LEMMA StartRunKeeps == ASSUME IInv, StartRun PROVE IInv'
<1>1. /\ pc = "idle" /\ Dest = pc /\ UNCHANGED Cluster /\ rec' = rec
      /\ UNCHANGED <<interrupts, failures>> /\ pc' = Dispatch(rec) /\ ret' = ret
      /\ rec.phase \notin Terminal \cup {"Failed"} /\ rec.mounts <= 1
  BY Zenon DEF StartRun, Budget, Dest, Detours, Goto, ValidObject, ValidSharedMounts
<1>2. ret = "idle" /\ ResumePhase(rec) \in Phases \ Terminal
  BY Zenon, <1>1, AtTable DEF IInv, Control, Detours, ResumePhase
<1>3. /\ Dispatch(rec) \in {"reserve", "warm", "cutover", "finalSync", "activate", "resume",
                            "abort", "rollback"}
      /\ ResumePhase(rec) \in At(Dispatch(rec))
  BY Zenon, <1>2, AtTable DEF Dispatch, Phases, Terminal, Abortable, Rollbackable
<1>4. Dest' = Dispatch(rec)
  BY Zenon, <1>1, <1>3 DEF Dest, Detours
<1>5. Control' /\ pc' \in Labels /\ ret' \in Labels
  BY Zenon, <1>1, <1>2, <1>3, <1>4 DEF Control, Detours, Labels
<1>6. tools = Every({}) \/ ResumePhase(rec) \in {"WarmCopying", "FinalSyncing", "Aborting"}
  BY Zenon DEF IInv, TypeOK, ToolsInv, Every
<1>7. \/ tools = Every({}) \/ pc' \in {"warm", "finalSync", "abort"}
  BY Zenon, <1>1, <1>2, <1>6 DEF Dispatch
<1>8. ResumePhase(rec) = "WarmCopying" \/ Dispatch(rec) = "warm" => rec.passes < PrecopyPasses
  BY Zenon, <1>2, PodMigrationAssumption DEF IInv, SharedInv, Dispatch, TypeOK, Status
<1>9. Arrives
  BY Zenon, <1>1, <1>3, <1>4, <1>7, <1>8 DEF IInv, SharedInv, Arrives, Settling
<1> QED BY Zenon, <1>1, <1>5, <1>9, WalkStep, BudgetKept

\* An abort is admitted by validatePodAbortPhase.
LEMMA StartAbortKeeps == ASSUME IInv, StartAbort PROVE IInv'
<1>1. /\ pc = "idle" /\ Dest = pc /\ UNCHANGED Cluster /\ rec' = rec
      /\ UNCHANGED <<interrupts, failures>> /\ pc' = "abort" /\ ret' = ret
      /\ ResumePhase(rec) \in Abortable
  BY Zenon DEF StartAbort, Budget, Dest, Detours, Goto, Abortable, Early, PausedPhases
<1>2. ret' = "idle" /\ Dest' = "abort" /\ ResumePhase(rec) \in At("abort")
  BY Zenon, <1>1, AtTable DEF IInv, Control, Detours, Dest
<1>3. rec.phase = "Failed" => rec.resumeFrom \in Phases \ Terminal
  BY Zenon DEF IInv, Control
<1>4. Control' /\ pc' \in Labels /\ ret' \in Labels
  BY Zenon, <1>1, <1>2, <1>3 DEF Control, Detours, Labels
<1>5. ResumePhase(rec) = "WarmCopying" => rec.passes < PrecopyPasses
  BY Zenon DEF IInv, SharedInv
<1>6. tools = Every({}) \/ ResumePhase(rec) \in {"WarmCopying", "FinalSyncing", "Aborting"}
  BY Zenon DEF IInv, TypeOK, ToolsInv, Every
<1>7. Arrives
  BY Zenon, <1>1, <1>2, <1>5, <1>6 DEF IInv, SharedInv, Arrives, Settling, Rollbackable
<1> QED BY Zenon, <1>1, <1>4, <1>7, WalkStep, BudgetKept

\* A rollback is admitted by ValidateRollback.
LEMMA StartRollbackKeeps == ASSUME IInv, StartRollback PROVE IInv'
<1>1. /\ pc = "idle" /\ Dest = pc /\ UNCHANGED Cluster /\ rec' = rec
      /\ UNCHANGED <<interrupts, failures>> /\ pc' = "rollback" /\ ret' = ret
      /\ ResumePhase(rec) \in Rollbackable
  BY Zenon DEF StartRollback, Budget, Dest, Detours, Goto, Rollbackable
<1>2. ret' = "idle" /\ Dest' = "rollback" /\ ResumePhase(rec) \in At("rollback")
  BY Zenon, <1>1, AtTable DEF IInv, Control, Detours, Dest
<1>3. rec.phase = "Failed" => rec.resumeFrom \in Phases \ Terminal
  BY Zenon DEF IInv, Control
<1>4. Control' /\ pc' \in Labels /\ ret' \in Labels
  BY Zenon, <1>1, <1>2, <1>3 DEF Control, Detours, Labels
<1>5. ResumePhase(rec) = "WarmCopying" => rec.passes < PrecopyPasses
  BY Zenon DEF IInv, SharedInv
<1>6. tools = Every({}) \/ ResumePhase(rec) \in {"WarmCopying", "FinalSyncing", "Aborting"}
  BY Zenon DEF IInv, TypeOK, ToolsInv, Every
<1>7. Arrives
  BY Zenon, <1>1, <1>2, <1>5, <1>6 DEF IInv, SharedInv, Arrives, Settling, Rollbackable
<1> QED BY Zenon, <1>1, <1>4, <1>7, WalkStep, BudgetKept

\* warmCopy prepares the shared mounts of the warm sources.
LEMMA WarmPrepareKeeps == ASSUME IInv, WarmPrepare PROVE IInv'
<1>1. /\ pc = "warmPrepare" /\ Dest = pc /\ UNCHANGED Cluster /\ rec' = rec
      /\ UNCHANGED <<interrupts, failures>> /\ pc' = "prepare" /\ ret' = "warmStart"
  BY Zenon DEF WarmPrepare, Budget, Dest, Detours
<1>2. /\ ResumePhase(rec) \in At("warmStart") /\ rec.phase # "Failed" /\ Dest' = "warmStart"
      /\ rec.mounts = 0 /\ rec.passes < PrecopyPasses
  BY Zenon, <1>1, AtTable DEF IInv, Control, SharedInv, Settling, Dest, Detours
<1>3. Control' /\ pc' \in Labels /\ ret' \in Labels
  BY Zenon, <1>1, <1>2 DEF Control, Detours, Labels
<1>4. Arrives
  BY <1>1, <1>2, NoTools DEF IInv, SharedInv, Arrives, Settling
<1> QED BY Zenon, <1>1, <1>3, <1>4, WalkStep, BudgetKept

\* The cutover gate, manual cutover included.
LEMMA CutoverKeeps == ASSUME IInv, Cutover PROVE IInv'
<1>1. /\ pc = "cutover" /\ Dest = pc /\ UNCHANGED Cluster /\ rec' = rec
      /\ UNCHANGED <<interrupts, failures>>
      /\ \/ pc' = "idle" /\ ret' = "idle"
         \/ pc' = "prepare" /\ ret' = "probe"
  BY Zenon DEF Cutover, Budget, Dest, Detours
<1>2. /\ ResumePhase(rec) \in {"Reserved", "WarmCopied", "Pausing"} /\ rec.phase # "Failed"
      /\ ResumePhase(rec) \in At("probe") /\ ResumePhase(rec) \in At("idle")
      /\ rec.mounts <= 1 /\ Dest' = IF pc' = "idle" THEN "idle" ELSE "probe"
  BY Zenon, <1>1, AtTable DEF IInv, Control, SharedInv, Dest, Detours, Phases
<1>3. Control' /\ pc' \in Labels /\ ret' \in Labels
  BY Zenon, <1>1, <1>2 DEF Control, Detours, Labels
<1>4. Arrives
  BY Zenon, <1>1, <1>2, NoTools DEF IInv, SharedInv, Arrives, Settling
<1> QED BY Zenon, <1>1, <1>3, <1>4, WalkStep, BudgetKept

\* rollback goes on to give the workload back.
LEMMA RolledBackKeeps == ASSUME IInv, RolledBack PROVE IInv'
<1>1. /\ pc = "rollbackVolume" /\ Dest = pc /\ UNCHANGED Cluster /\ rec' = rec
      /\ UNCHANGED <<interrupts, failures>> /\ pc' = "resumeWorkload" /\ ret' = ret
      /\ All(rec.rolledBack)
  BY Zenon DEF RolledBack, Budget, Dest, Detours, Goto
<1>2. /\ ResumePhase(rec) \in At("resumeWorkload") /\ ResumePhase(rec) = "RollingBack"
      /\ rec.phase # "Failed" /\ ret' = "idle"
      /\ rec.mounts = 0 /\ Dest' = "resumeWorkload"
  BY Zenon, <1>1, AtTable DEF IInv, Control, SharedInv, Settling, Dest, Detours
<1>3. Control' /\ pc' \in Labels /\ ret' \in Labels
  BY Zenon, <1>1, <1>2 DEF Control, Detours, Labels
<1>4. Arrives
  BY Zenon, <1>1, <1>2, NoTools DEF IInv, SharedInv, Arrives, Settling
<1> QED BY Zenon, <1>1, <1>3, <1>4, WalkStep, BudgetKept

\* A pass that ends without a write keeps the invariant.
LEMMA StopsKeep ==
    ASSUME IInv, UNCHANGED Cluster, rec' = rec, pc' = "idle", ret' = "idle",
           interrupts' \in 0..MaxInterrupts, failures' \in 0..MaxFailures
    PROVE  IInv'
<1>1. ResumePhase(rec) \in Phases /\ Dest' = "idle"
  BY Zenon, AtTable DEF IInv, Control, TypeOK, Status, ResumePhase, Dest, Detours
<1>2. Control' /\ pc' \in Labels /\ ret' \in Labels
  BY Zenon, <1>1, AtTable DEF IInv, Control, Detours, Labels
<1>3. Arrives
  BY Zenon, <1>1 DEF IInv, SharedInv, Arrives, Settling
<1> QED BY Zenon, <1>2, <1>3, WalkStep

\* A pass that refuses to go on ends without a write.
LEMMA RefuseKeeps == ASSUME IInv, Refuse PROVE IInv'
BY Zenon, StopsKeep, BudgetKept DEF Refuse, Budget

\* A pass that dies, is canceled or returns an error, at any label.
LEMMA InterruptKeeps == ASSUME IInv, Interrupt PROVE IInv'
<1>1. /\ UNCHANGED Cluster /\ rec' = rec /\ interrupts' \in 0..MaxInterrupts
      /\ failures' \in 0..MaxFailures
  BY PodMigrationAssumption DEF Interrupt, IInv, TypeOK
<1>2. CASE pc' = "idle" /\ ret' = "idle"
  BY Zenon, <1>1, <1>2, StopsKeep
<1>3. CASE WarmPass /\ rec.mounts > 0 /\ RestoreThen(rec, "idle")
  <2>1. pc' = "restore" /\ ret' = "idle" /\ Dest' = "idle"
    BY <1>3 DEF RestoreThen, Dest, Detours, IInv, TypeOK, Status
  <2>2. ResumePhase(rec) \in Phases
    BY Zenon DEF IInv, Control, TypeOK, Status, ResumePhase
  <2>3. Control' /\ pc' \in Labels /\ ret' \in Labels
    BY Zenon, <1>1, <2>1, <2>2, AtTable DEF IInv, Control, Detours, Labels, RestoreTargets
  <2>4. Arrives
    BY Zenon, <1>1, <1>3, <2>1 DEF IInv, SharedInv, Arrives, Settling
  <2> QED BY Zenon, <1>1, <2>3, <2>4, WalkStep
<1> QED BY Zenon, <1>2, <1>3 DEF Interrupt

\* A status write that only moves to another phase keeps the invariant.
LEMMA MoveStep ==
    ASSUME IInv, UNCHANGED Cluster, UNCHANGED <<interrupts, failures>>,
           NEW next \in Phases, Moves(next), Advance, Arrives,
           NEW label \in Labels \ (Detours \cup {"abortTools"}), pc' = label, ret' = "idle",
           next \in At(label)
    PROVE  IInv'
<1>1. Dest' = label /\ next # "Failed"
  BY Zenon DEF Dest, Phases, Terminal
<1>2. Control' /\ pc' \in Labels /\ ret' \in Labels
  BY ZenonT(30), <1>1 DEF Control, Moves, Labels, Detours
<1>3. rec' \in Status /\ Kept
  BY Zenon DEF Moves, Progress, Kept
<1> QED BY Zenon, <1>2, <1>3, SaveStep, BudgetKept

\* reserve records Reserving.
LEMMA ReservingKeeps == ASSUME IInv, Reserving PROVE IInv'
<1>1. /\ pc = "reserving" /\ Dest = pc /\ UNCHANGED Cluster /\ UNCHANGED <<interrupts, failures>>
      /\ Transition(rec, "Reserving") /\ pc' = "reserveVolume" /\ ret' = ret
  BY Zenon DEF Reserving, Budget, Dest, Detours, Goto
<1>2. Moves("Reserving")
  BY Zenon, <1>1, TransitionEffect DEF Phases
<1>3. /\ ResumePhase(rec) \in {"Planned", "Reserving"} /\ "Reserving" \in At("reserveVolume")
      /\ ret' = "idle" /\ Dest' = "reserveVolume" /\ rec.mounts = 0 /\ tools = Every({})
  BY Zenon, <1>1, AtTable, NoTools DEF IInv, Control, SharedInv, Settling, Dest, Detours
<1>4. Advance
  BY Zenon, <1>1, <1>2, <1>3 DEF Advance, Moves, Progress
<1>5. Arrives
  BY Zenon, <1>1, <1>2, <1>3 DEF Arrives, Moves, Progress, Settling, IInv, SharedInv
<1> QED BY Zenon, <1>1, <1>2, <1>3, <1>4, <1>5, MoveStep DEF Labels, Detours, Phases

\* finalSync records FinalSyncing.
LEMMA FinalStartKeeps == ASSUME IInv, FinalStart PROVE IInv'
<1>1. /\ pc = "finalStart" /\ Dest = pc /\ UNCHANGED Cluster /\ UNCHANGED <<interrupts, failures>>
      /\ Transition(rec, "FinalSyncing") /\ pc' = "copy" /\ ret' = ret
  BY Zenon DEF FinalStart, Budget, Dest, Detours, Goto
<1>2. Moves("FinalSyncing")
  BY Zenon, <1>1, TransitionEffect DEF Phases
<1>3. /\ ResumePhase(rec) \in {"Paused", "FinalSyncing"} /\ "FinalSyncing" \in At("copy")
      /\ ret' = "idle" /\ Dest' = "copy" /\ rec.mounts = 0 /\ tools = Every({})
  BY Zenon, <1>1, AtTable, NoTools DEF IInv, Control, SharedInv, Settling, Dest, Detours
<1>4. Advance
  BY Zenon, <1>1, <1>2, <1>3 DEF Advance, Moves, Progress
<1>5. Arrives
  BY Zenon, <1>1, <1>2, <1>3 DEF Arrives, Moves, Progress, Settling, IInv, SharedInv
<1> QED BY Zenon, <1>1, <1>2, <1>3, <1>4, <1>5, MoveStep DEF Labels, Detours, Phases

\* pause records Pausing before it touches the workload.
LEMMA PauseKeeps == ASSUME IInv, Pause PROVE IInv'
<1>1. /\ pc = "pause" /\ Dest = pc /\ UNCHANGED Cluster /\ UNCHANGED <<interrupts, failures>>
      /\ Transition(rec, "Pausing") /\ pc' = "pauseWorkload" /\ ret' = ret
  BY Zenon DEF Pause, Budget, Dest, Detours, Goto
<1>2. Moves("Pausing")
  BY Zenon, <1>1, TransitionEffect DEF Phases
<1>3. /\ ResumePhase(rec) \in {"Reserved", "WarmCopied", "Pausing"} /\ "Pausing" \in At("pauseWorkload")
      /\ ret' = "idle" /\ Dest' = "pauseWorkload" /\ rec.mounts = 0 /\ tools = Every({})
  BY Zenon, <1>1, AtTable, NoTools DEF IInv, Control, SharedInv, Settling, Dest, Detours
<1>4. Advance
  BY Zenon, <1>1, <1>2, <1>3 DEF Advance, Moves, Progress
<1>5. Arrives
  BY Zenon, <1>1, <1>2, <1>3 DEF Arrives, Moves, Progress, Settling, IInv, SharedInv
<1> QED BY Zenon, <1>1, <1>2, <1>3, <1>4, <1>5, MoveStep DEF Labels, Detours, Phases

\* activate records Activating before the first swap.
LEMMA ActivatingKeeps == ASSUME IInv, Activating PROVE IInv'
<1>1. /\ pc = "activating" /\ Dest = pc /\ UNCHANGED Cluster /\ UNCHANGED <<interrupts, failures>>
      /\ Transition(rec, "Activating") /\ pc' = "activateVolume" /\ ret' = ret
  BY Zenon DEF Activating, Budget, Dest, Detours, Goto
<1>2. Moves("Activating")
  BY Zenon, <1>1, TransitionEffect DEF Phases
<1>3. /\ ResumePhase(rec) \in {"FinalSynced", "Activating"} /\ "Activating" \in At("activateVolume")
      /\ ret' = "idle" /\ Dest' = "activateVolume" /\ rec.mounts = 0 /\ tools = Every({})
  BY Zenon, <1>1, AtTable, NoTools DEF IInv, Control, SharedInv, Settling, Dest, Detours
<1>4. Advance
  BY Zenon, <1>1, <1>2, <1>3 DEF Advance, Moves, Progress
<1>5. Arrives
  BY Zenon, <1>1, <1>2, <1>3 DEF Arrives, Moves, Progress, Settling, IInv, SharedInv
<1> QED BY Zenon, <1>1, <1>2, <1>3, <1>4, <1>5, MoveStep DEF Labels, Detours, Phases

\* activate records Activated after the last swap.
LEMMA ActivatedKeeps == ASSUME IInv, Activated PROVE IInv'
<1>1. /\ pc = "activateVolume" /\ Dest = pc /\ UNCHANGED Cluster /\ UNCHANGED <<interrupts, failures>>
      /\ Transition(rec, "Activated") /\ pc' = "resume" /\ ret' = ret /\ All(rec.active)
  BY Zenon DEF Activated, Budget, Dest, Detours, Goto
<1>2. Moves("Activated")
  BY Zenon, <1>1, TransitionEffect DEF Phases
<1>3. /\ ResumePhase(rec) \in {"Activating"} /\ "Activated" \in At("resume")
      /\ ret' = "idle" /\ Dest' = "resume" /\ rec.mounts = 0 /\ tools = Every({})
  BY Zenon, <1>1, AtTable, NoTools DEF IInv, Control, SharedInv, Settling, Dest, Detours
<1>4. Advance
  BY Zenon, <1>1, <1>2, <1>3 DEF Advance, Moves, Progress
<1>5. Arrives
  BY Zenon, <1>1, <1>2, <1>3 DEF Arrives, Moves, Progress, Settling, IInv, SharedInv
<1> QED BY Zenon, <1>1, <1>2, <1>3, <1>4, <1>5, MoveStep DEF Labels, Detours, Phases

\* resumeWorkload records Resuming before it touches the workload.
LEMMA ResumingKeeps == ASSUME IInv, Resuming PROVE IInv'
<1>1. /\ pc = "resuming" /\ Dest = pc /\ UNCHANGED Cluster /\ UNCHANGED <<interrupts, failures>>
      /\ Transition(rec, "Resuming") /\ pc' = "resumeWorkload" /\ ret' = ret
  BY Zenon DEF Resuming, Budget, Dest, Detours, Goto
<1>2. Moves("Resuming")
  BY Zenon, <1>1, TransitionEffect DEF Phases
<1>3. /\ ResumePhase(rec) \in {"Activated", "Resuming"} /\ "Resuming" \in At("resumeWorkload")
      /\ ret' = "idle" /\ Dest' = "resumeWorkload" /\ rec.mounts = 0 /\ tools = Every({})
  BY Zenon, <1>1, AtTable, NoTools DEF IInv, Control, SharedInv, Settling, Dest, Detours
<1>4. Advance
  BY Zenon, <1>1, <1>2, <1>3 DEF Advance, Moves, Progress
<1>5. Arrives
  BY Zenon, <1>1, <1>2, <1>3 DEF Arrives, Moves, Progress, Settling, IInv, SharedInv
<1> QED BY Zenon, <1>1, <1>2, <1>3, <1>4, <1>5, MoveStep DEF Labels, Detours, Phases

\* pause records Paused once the workload is down; a rollback goes on to the volumes.
LEMMA PausedKeeps == ASSUME IInv, Paused PROVE IInv'
<1>1. /\ pc = "pausing" /\ Dest = pc /\ UNCHANGED Cluster /\ UNCHANGED <<interrupts, failures>>
      /\ ret' = ret /\ Quiet
  BY Zenon DEF Paused, Budget, Dest, Detours, Goto, VerifyPaused, Quiet
<1>2. /\ ResumePhase(rec) \in {"Pausing", "RollingBack"} /\ rec.phase # "Failed"
      /\ ret' = "idle" /\ rec.mounts = 0 /\ tools = Every({}) /\ ~shared
  BY <1>1, AtTable, NoTools DEF IInv, Control, SharedInv, Settling, Detours
<1>3. CASE rec.phase = "RollingBack"
  <2>1. rec' = rec /\ pc' = "rollbackVolume" /\ Dest' = "rollbackVolume"
    BY Zenon, <1>3 DEF Paused, Goto, Dest, Detours
  <2>2. ResumePhase(rec) \in At("rollbackVolume")
    BY Zenon, <1>3, AtTable DEF ResumePhase
  <2>3. Control' /\ pc' \in Labels /\ ret' \in Labels
    BY Zenon, <1>2, <2>1, <2>2 DEF Control, Detours, Labels
  <2>4. Arrives
    BY Zenon, <1>1, <1>2, <2>1 DEF Arrives, Settling
  <2> QED BY Zenon, <1>1, <2>1, <2>3, <2>4, WalkStep, BudgetKept
<1>4. CASE rec.phase # "RollingBack"
  <2>1. Transition(rec, "Paused") /\ pc' = "finalStart" /\ Dest' = "finalStart"
    BY Zenon, <1>4 DEF Paused, Goto, Dest, Detours
  <2>2. Moves("Paused")
    BY Zenon, <2>1, TransitionEffect DEF Phases
  <2>3. ResumePhase(rec) = "Pausing" /\ "Paused" \in At("finalStart")
    BY Zenon, <1>2, <1>4, AtTable DEF ResumePhase
  <2>4. Advance
    BY Zenon, <1>1, <1>2, <2>2, <2>3 DEF Advance, Moves, Progress, Terminal
  <2>5. Arrives
    BY Zenon, <1>2, <2>1, <2>2 DEF Arrives, Moves, Progress, Settling, IInv, SharedInv
  <2> QED BY Zenon, <1>1, <1>2, <2>1, <2>2, <2>3, <2>4, <2>5, MoveStep DEF Labels, Detours, Phases
<1> QED BY Zenon, <1>3, <1>4

\* The end of a run, an abort or a rollback: the terminal phase is recorded.
LEMMA ResumedKeeps == ASSUME IInv, Resumed PROVE IInv'
<1> DEFINE next == CASE rec.phase = "Aborting" -> "Aborted"
                     [] rec.phase = "RollingBack" -> "RolledBack"
                     [] OTHER -> "Completed"
<1>1. /\ pc = "resumed" /\ Dest = pc /\ UNCHANGED Cluster /\ UNCHANGED <<interrupts, failures>>
      /\ Transition(rec, next) /\ pc' = "idle" /\ ret' = ret
  BY Zenon DEF Resumed, Budget, Dest, Detours, Goto
<1>2. /\ ResumePhase(rec) \in {"Resuming", "Aborting", "RollingBack"} /\ rec.phase = ResumePhase(rec)
      /\ ret' = "idle" /\ rec.mounts = 0 /\ tools = Every({}) /\ ~shared /\ Dest' = "idle"
  BY <1>1, AtTable, NoTools DEF IInv, Control, SharedInv, Settling, Detours, ResumePhase,
     Dest
<1>3. Untouched /\ (ResumePhase(rec) = "RollingBack" => All(rec.rolledBack))
  BY Zenon, <1>1 DEF IInv, GivenBackInv, SwapInv
<1>4. next \in Terminal /\ next \in Phases /\ next \in At("idle")
  BY Zenon, AtTable DEF Terminal, Phases
<1>5. Moves(next)
  BY Zenon, <1>1, <1>4, TransitionEffect
<1>6. Advance
  BY Zenon, <1>2, <1>3, <1>5 DEF Advance, Moves, Progress
<1>7. Arrives
  BY Zenon, <1>1, <1>2, <1>4, <1>5 DEF Arrives, Moves, Progress, Settling, IInv, SharedInv,
     Terminal
<1> HIDE DEF next
<1> QED BY Zenon, <1>1, <1>2, <1>4, <1>5, <1>6, <1>7, MoveStep DEF Labels, Detours

\* rollback records RollingBack before it touches anything.
LEMMA RollingBackKeeps == ASSUME IInv, RollingBack PROVE IInv'
<1>1. /\ pc = "rollingBack" /\ Dest = pc /\ UNCHANGED Cluster /\ UNCHANGED <<interrupts, failures>>
      /\ Transition(rec, "RollingBack") /\ ret' = ret
      /\ pc' \in {"resumeWorkload", "pauseWorkload", "pausing"}
      /\ pc' = "resumeWorkload" => All(rec.rolledBack)
  BY Zenon DEF RollingBack, Budget, Dest, Detours, Goto
<1>2. Moves("RollingBack")
  BY Zenon, <1>1, TransitionEffect DEF Phases
<1>3. /\ ResumePhase(rec) \in Rollbackable /\ "RollingBack" \in At(pc')
      /\ ret' = "idle" /\ Dest' = pc' /\ rec.mounts = 0 /\ tools = Every({})
  BY Zenon, <1>1, AtTable, NoTools DEF IInv, Control, SharedInv, Settling, Dest, Detours
<1>4. Advance
  BY Zenon, <1>2, <1>3 DEF Advance, Moves, Progress, Terminal
<1>5. Arrives
  BY Zenon, <1>1, <1>2, <1>3 DEF Arrives, Moves, Progress, Settling, IInv, SharedInv
<1> QED BY Zenon, <1>1, <1>2, <1>3, <1>4, <1>5, MoveStep DEF Labels, Detours, Phases

\* RequestResume approves the cutover.
LEMMA ApprovePauseKeeps == ASSUME IInv, ApprovePause PROVE IInv'
<1>1. /\ pc = "idle" /\ Dest = pc /\ UNCHANGED Cluster /\ UNCHANGED <<interrupts, failures>>
      /\ Transition(rec, "Pausing") /\ pc' = "idle" /\ ret' = ret
      /\ ResumePhase(rec) \in {"Reserved", "WarmCopied"}
  BY Zenon DEF ApprovePause, Budget, Dest, Detours, CutoverPending
<1>2. Moves("Pausing")
  BY Zenon, <1>1, TransitionEffect DEF Phases
<1>3. ret' = "idle" /\ Dest' = "idle" /\ "Pausing" \in At("idle")
  BY Zenon, <1>1, AtTable DEF IInv, Control, Dest, Detours, Phases
<1>4. Advance
  BY Zenon, <1>1, <1>2 DEF Advance, Moves, Progress, Terminal
<1>5. Arrives
  BY Zenon, <1>1, <1>2, <1>3 DEF Arrives, Moves, Progress, Settling, IInv, SharedInv
<1> QED BY Zenon, <1>1, <1>2, <1>3, <1>4, <1>5, MoveStep DEF Labels, Detours, Phases

\* ReactivateWorkflow starts a terminal workflow's rollback.
LEMMA ReactivateWorkflowKeeps == ASSUME IInv, ReactivateWorkflow PROVE IInv'
<1>1. /\ pc = "idle" /\ UNCHANGED Cluster /\ UNCHANGED <<interrupts, failures>>
      /\ pc' = "idle" /\ ret' = ret /\ rec.phase = "Failed"
      /\ rec' = [rec EXCEPT !.phase = rec.resumeFrom, !.history = Appended(@, rec.resumeFrom)]
  BY Zenon DEF ReactivateWorkflow, Budget
<1>2. /\ ret' = "idle" /\ Dest' = "idle" /\ rec.resumeFrom \in Phases \ Terminal /\ rec \in Status
      /\ Appended(rec.history, rec.resumeFrom) = rec.history
  BY Zenon, <1>1 DEF IInv, Control, Dest, Detours, TypeOK, GivenBackInv, ResumePhase, Appended
<1>3. /\ rec' \in Status /\ Kept /\ rec'.history = rec.history /\ rec'.phase = rec.resumeFrom
      /\ rec'.mounts = rec.mounts /\ rec'.passes = rec.passes
  BY Zenon, <1>1, <1>2 DEF Status, Kept
<1>4. ResumePhase(rec') = ResumePhase(rec) /\ ResumePhase(rec) \in At("idle") /\ rec'.phase # "Failed"
  BY Zenon, <1>1, <1>2, <1>3, AtTable DEF ResumePhase, Phases, Terminal
<1>5. Control' /\ pc' \in Labels /\ ret' \in Labels
  BY Zenon, <1>1, <1>2, <1>4 DEF Control, Detours, Labels
<1>6. Advance
  BY Zenon, <1>3, <1>4 DEF Advance
<1>7. Arrives
  BY Zenon, <1>1, <1>2, <1>3, <1>4 DEF IInv, SharedInv, Arrives, Settling
<1> QED BY Zenon, <1>1, <1>3, <1>5, <1>6, <1>7, SaveStep, BudgetKept

\* Recording a failure and ending the pass keeps the invariant.
LEMMA FailStep ==
    ASSUME IInv, UNCHANGED Cluster, Fails, ResumePhase(rec) \notin Terminal,
           Dest' = "idle", ret' = "idle", pc' = "idle" \/ (pc' = "restore" /\ rec.mounts > 0),
           interrupts' \in 0..MaxInterrupts, failures' \in 0..MaxFailures
    PROVE  IInv'
<1>1. ResumePhase(rec) \in Phases
  BY Zenon DEF IInv, TypeOK, Control, Status, ResumePhase
<1>2. Control' /\ pc' \in Labels /\ ret' \in Labels
  BY ZenonT(30), <1>1, AtTable DEF Control, Fails, Detours, Labels, RestoreTargets
<1>3. Advance
  BY Zenon DEF Advance, Fails, Progress
<1>4. Arrives
  BY Zenon DEF IInv, SharedInv, Arrives, Settling, Fails, Progress
<1>5. rec' \in Status /\ Kept
  BY Zenon DEF Fails, Progress, Kept
<1> QED BY Zenon, <1>2, <1>3, <1>4, <1>5, SaveStep

\* failSourceDeleted records the failure of an idle workflow.
LEMMA FailSourceDeletedKeeps == ASSUME IInv, FailSourceDeleted PROVE IInv'
<1>1. /\ UNCHANGED Cluster /\ UNCHANGED <<interrupts, failures>> /\ pc' = "idle" /\ ret' = ret
      /\ pc = "idle" /\ rec' = Failed(rec, FALSE) /\ rec.phase \notin Terminal \cup {"Failed"}
  BY Zenon DEF FailSourceDeleted, Budget
<1>2. ret' = "idle" /\ Dest' = "idle" /\ ResumePhase(rec) \notin Terminal
  BY Zenon, <1>1 DEF IInv, Control, Dest, Detours, ResumePhase
<1>3. Fails
  BY Zenon, <1>1, FailedEffect
<1> QED BY Zenon, <1>1, <1>2, <1>3, FailStep, BudgetKept

\* fail records the failure of a pass.
LEMMA FailKeeps == ASSUME IInv, Fail PROVE IInv'
<1>1. /\ UNCHANGED Cluster /\ pc' = "idle" /\ ret' = "idle" /\ rec' = Failed(rec, rec.noSpace)
      /\ interrupts' \in 0..MaxInterrupts /\ failures' \in 0..MaxFailures /\ rec.noSpace \in BOOLEAN
  BY PodMigrationAssumption DEF Fail, IInv, TypeOK, Status
<1>2. ResumePhase(rec) \notin Terminal /\ Dest' = "idle"
  <2>1. CASE pc \in FailPoints \cup {"finalStart"}
    BY ZenonT(60), <1>1, <2>1, AtTable DEF IInv, Control, FailPoints, Dest, Detours, Terminal
  <2>2. CASE pc = "restore"
    BY <1>1, <2>2 DEF IInv, SharedInv, Dest, Detours
  <2> QED BY Zenon, <2>1, <2>2 DEF Fail
<1>3. Fails
  BY Zenon, <1>1, FailedEffect
<1> QED BY Zenon, <1>1, <1>2, <1>3, FailStep

\* abort and resumeWorkload record the failure to resume the workload.
LEMMA ResumeFailsKeeps == ASSUME IInv, ResumeFails PROVE IInv'
<1>1. /\ UNCHANGED Cluster /\ UNCHANGED <<interrupts, failures>> /\ pc' = "idle" /\ ret' = "idle"
      /\ pc = "resumeWorkload" /\ rec' = Failed(rec, FALSE)
  BY Zenon DEF ResumeFails, Budget
<1>2. Dest' = "idle" /\ ResumePhase(rec) \notin Terminal
  BY Zenon, <1>1, AtTable DEF IInv, Control, Dest, Detours, Terminal
<1>3. Fails
  BY Zenon, <1>1, FailedEffect
<1> QED BY Zenon, <1>1, <1>2, <1>3, FailStep, BudgetKept

\* Writing the shared-mount checkpoint touches no other field of the status.
LEMMA SetMounts ==
    ASSUME NEW r \in Status, NEW n \in 0..2
    PROVE  LET q == [r EXCEPT !.mounts = n] IN
           /\ q \in Status /\ q.phase = r.phase /\ q.resumeFrom = r.resumeFrom
           /\ q.history = r.history /\ q.mounts = n /\ q.passes = r.passes
           /\ q.attempts = r.attempts /\ q.warmDone = r.warmDone /\ q.finalDone = r.finalDone
           /\ q.active = r.active /\ q.rolledBack = r.rolledBack
BY Zenon DEF Status

\* Counting a warm pass touches no other field of the status.
LEMMA SetPasses ==
    ASSUME NEW r \in Status, NEW n \in 0..PrecopyPasses
    PROVE  LET q == [r EXCEPT !.passes = n] IN
           /\ q \in Status /\ q.phase = r.phase /\ q.resumeFrom = r.resumeFrom
           /\ q.history = r.history /\ q.mounts = r.mounts /\ q.finalDone = r.finalDone
           /\ q.active = r.active /\ q.rolledBack = r.rolledBack
BY Zenon DEF Status

\* reserve, one volume, and Reserved after the last one.
LEMMA ReserveVolumeKeeps == ASSUME IInv, ReserveVolume PROVE IInv'
<1>1. pc = "reserveVolume" /\ Dest = pc /\ UNCHANGED Cluster /\ UNCHANGED <<interrupts, failures>>
  BY Zenon DEF ReserveVolume, Budget, Dest, Detours
<1>2. /\ ResumePhase(rec) = "Reserving" /\ rec.phase # "Failed" /\ ret = "idle" /\ rec.mounts = 0
      /\ tools = Every({}) /\ ~shared
  BY Zenon, <1>1, AtTable, NoTools DEF IInv, Control, SharedInv, Settling, Detours
<1>3. CASE All(rec.reserved)
  <2>1. Transition(rec, "Reserved") /\ pc' = Dispatch(rec') /\ ret' = "idle"
    BY Zenon, <1>2, <1>3 DEF ReserveVolume, Goto
  <2>2. Moves("Reserved")
    BY Zenon, <2>1, TransitionEffect DEF Phases
  <2>3. pc' \in {"warm", "cutover"} /\ (pc' = "warm" => rec'.passes < PrecopyPasses)
    BY Zenon, <2>1, <2>2, PodMigrationAssumption DEF Dispatch, Moves, Status
  <2>4. Dest' = pc' /\ "Reserved" \in At(pc')
    BY Zenon, <2>3, AtTable DEF Dest, Detours
  <2>5. Advance
    BY Zenon, <1>2, <2>2 DEF Advance, Moves, Terminal
  <2>6. Arrives
    BY <1>2, <2>2, <2>3, <2>4 DEF Arrives, Moves, Progress, Settling
  <2> QED BY ZenonT(30), <1>1, <2>1, <2>2, <2>3, <2>4, <2>5, <2>6, MoveStep DEF Labels, Detours, Phases
<1>4. CASE ~All(rec.reserved)
  <2>1. /\ rec' = [rec EXCEPT !.reserved[Min(Undone(rec.reserved))] = TRUE]
        /\ pc' = "reserveVolume" /\ ret' = "idle" /\ Dest' = pc'
    BY Zenon, <1>1, <1>2, <1>4 DEF ReserveVolume, Dest, Detours
  <2>2. /\ rec' \in Status /\ Kept /\ rec'.history = rec.history /\ rec'.phase = rec.phase
        /\ rec'.mounts = 0 /\ rec'.passes = rec.passes /\ rec'.resumeFrom = rec.resumeFrom
    BY Zenon, <1>2, <2>1 DEF IInv, TypeOK, Status, Kept
  <2>3. ResumePhase(rec') = "Reserving" /\ "Reserving" \in At("reserveVolume")
    BY Zenon, <1>2, <2>2, AtTable DEF ResumePhase
  <2>4. Control' /\ pc' \in Labels /\ ret' \in Labels
    BY Zenon, <1>2, <2>1, <2>2, <2>3 DEF Control, Detours, Labels
  <2>5. Advance
    BY Zenon, <1>2, <2>2, <2>3 DEF Advance
  <2>6. Arrives
    BY Zenon, <1>2, <2>1, <2>2, <2>3 DEF Arrives, Settling
  <2> QED BY Zenon, <1>1, <2>2, <2>4, <2>5, <2>6, SaveStep, BudgetKept
<1> QED BY Zenon, <1>3, <1>4

\* RestoreSharedMounts clears the checkpoint after the volume is restored.
LEMMA RestoredKeeps == ASSUME IInv, Restored PROVE IInv'
<1>1. /\ pc = "restored" /\ Dest = ret /\ UNCHANGED Cluster /\ UNCHANGED <<interrupts, failures>>
      /\ rec' = [rec EXCEPT !.mounts = @ - 1] /\ RestoreThen(rec', ret)
  BY Zenon DEF Restored, Budget, Dest, Detours
<1>2. /\ ret \in RestoreTargets /\ rec.mounts > 0 /\ ~shared /\ rec \in Status
      /\ ResumePhase(rec) \notin Terminal /\ ResumePhase(rec) \in At(ret)
  BY <1>1 DEF IInv, Control, SharedInv, TypeOK
<1>3. /\ rec' \in Status /\ Kept /\ rec'.history = rec.history /\ rec'.phase = rec.phase
      /\ rec'.mounts = rec.mounts - 1 /\ rec'.passes = rec.passes
      /\ rec'.resumeFrom = rec.resumeFrom
  <2>1. rec.mounts - 1 \in 0..2
    BY <1>2 DEF Status
  <2> QED BY Zenon, <1>1, <1>2, <2>1, SetMounts DEF Kept
<1>4. /\ Dest' = ret
      /\ \/ pc' = ret /\ ret' = "idle" /\ rec'.mounts = 0
         \/ pc' = "restore" /\ ret' = ret /\ rec'.mounts # 0
  BY Zenon, <1>1, <1>2 DEF RestoreThen, Dest, Detours, RestoreTargets
<1>5. ResumePhase(rec') = ResumePhase(rec)
  BY Zenon, <1>3 DEF ResumePhase
<1>6. Control' /\ pc' \in Labels /\ ret' \in Labels
  BY ZenonT(30), <1>1, <1>2, <1>3, <1>4, <1>5 DEF IInv, Control, Detours, Labels, RestoreTargets
<1>7. Advance
  BY Zenon, <1>2, <1>3, <1>5 DEF Advance
<1>8. Arrives
  <2>1. tools = Every({}) \/ Dest' = "idle"
    BY Zenon, <1>1, <1>4, NoTools
  <2>2. /\ Dest' = "resumed" => Untouched
        /\ ResumePhase(rec') = "RollingBack"
              /\ Dest' \in {"resumeWorkload", "awaitReady", "resumed"} => All(rec.rolledBack)
        /\ ResumePhase(rec') = "WarmCopying" \/ Dest' \in {"warm", "warmPrepare", "warmStart"} =>
              rec'.passes < PrecopyPasses
    BY Zenon, <1>1, <1>3, <1>4, <1>5 DEF IInv, GivenBackInv, SwapInv, SharedInv
  <2> QED BY <1>2, <1>3, <1>4, <2>1, <2>2 DEF Arrives, RestoreTargets, Settling, Status
<1> QED BY Zenon, <1>1, <1>3, <1>6, <1>7, <1>8, SaveStep, BudgetKept

\* prepareWarmSharedMounts stores the checkpoint before the volume is shared.
LEMMA PrepareKeeps == ASSUME IInv, Prepare PROVE IInv'
<1>1. /\ pc = "prepare" /\ Dest = ret /\ UNCHANGED Cluster /\ UNCHANGED <<interrupts, failures>>
  BY Zenon DEF Prepare, Budget, Dest, Detours
<1>2. /\ ret \in {"warmStart", "probe"} /\ rec.mounts <= 1 /\ tools = Every({})
      /\ ResumePhase(rec) \in At(ret) /\ rec.phase # "Failed" /\ rec \in Status
      /\ shared => rec.mounts > 0
      /\ ret = "warmStart" \/ ResumePhase(rec) = "WarmCopying" => rec.passes < PrecopyPasses
  BY Zenon, <1>1, NoTools DEF IInv, Control, SharedInv, TypeOK
<1>3. ResumePhase(rec) \in {"Reserved", "WarmCopying", "WarmCopied", "Pausing"}
  BY <1>2, AtTable
<1>4. CASE SharedNeeded
  <2>1. rec' = [rec EXCEPT !.mounts = @ + 1] /\ pc' = "enable" /\ ret' = ret /\ Dest' = ret
    BY Zenon, <1>4 DEF Prepare, Goto, Dest, Detours
  <2>2. /\ rec' \in Status /\ Kept /\ rec'.history = rec.history /\ rec'.phase = rec.phase
        /\ rec'.mounts = rec.mounts + 1 /\ rec'.passes = rec.passes
        /\ rec'.resumeFrom = rec.resumeFrom
    <3>1. rec.mounts + 1 \in 0..2
      BY <1>2 DEF Status
    <3> QED BY ZenonT(30), <1>2, <2>1, <3>1, SetMounts DEF Kept
  <2>3. ResumePhase(rec') = ResumePhase(rec)
    BY Zenon, <2>2 DEF ResumePhase
  <2>4. Control' /\ pc' \in Labels /\ ret' \in Labels
    BY Zenon, <1>2, <2>1, <2>2, <2>3 DEF Control, Detours, Labels
  <2>5. Advance
    BY Zenon, <1>3, <2>2, <2>3 DEF Advance, Terminal
  <2>6. Arrives
    BY <1>2, <1>3, <2>1, <2>2, <2>3 DEF Arrives, Settling, Status
  <2> QED BY Zenon, <1>1, <2>2, <2>4, <2>5, <2>6, SaveStep, BudgetKept
<1>5. CASE ~SharedNeeded
  <2>1. rec' = rec /\ pc' = ret /\ ret' = "idle"
    BY Zenon, <1>5 DEF Prepare
  <2>2. Dest' = ret
    BY Zenon, <1>2, <2>1 DEF Dest, Detours
  <2>3. Control' /\ pc' \in Labels /\ ret' \in Labels
    BY Zenon, <1>2, <2>1, <2>2 DEF Control, Detours, Labels
  <2>4. Arrives
    BY Zenon, <1>2, <1>3, <2>1, <2>2 DEF Arrives, Settling
  <2> QED BY Zenon, <1>1, <2>1, <2>3, <2>4, WalkStep, BudgetKept
<1> QED BY Zenon, <1>4, <1>5

\* A transition of a status whose progress was edited first.
LEMMA ChangeEffect ==
    ASSUME IInv, NEW r \in Status, NEW next \in Phases, Transition(r, next),
           r.phase = rec.phase, r.resumeFrom = rec.resumeFrom, r.history = rec.history
    PROVE  /\ rec' \in Status /\ Progress(rec', r) /\ rec'.phase = next
           /\ ResumePhase(rec') = next
           /\ rec'.history = IF ResumePhase(rec) = next THEN rec.history
                             ELSE Append(rec.history, next)
<1>1. /\ r.phase = "Failed" => r.resumeFrom \in Phases
      /\ r.history # <<>> /\ r.history[Len(r.history)] = ResumePhase(r)
      /\ ResumePhase(r) = ResumePhase(rec)
  BY Zenon DEF IInv, Control, GivenBackInv, ResumePhase
<1>2. next # "Failed"
  BY Zenon DEF Phases, Terminal
<1> QED
  BY <1>1, <1>2, RecordEffect DEF Transition

\* warmCopy records WarmCopying with a new pass.
LEMMA WarmStartKeeps == ASSUME IInv, WarmStart PROVE IInv'
<1> DEFINE r == [rec EXCEPT !.warmDone =
                     IF ResumePhase(rec) = "WarmCopied" THEN Every(FALSE) ELSE @]
<1>1. /\ pc = "warmStart" /\ Dest = pc /\ UNCHANGED Cluster /\ UNCHANGED <<interrupts, failures>>
      /\ Transition(r, "WarmCopying") /\ pc' = "copy" /\ ret' = ret
  BY Zenon DEF WarmStart, Budget, Dest, Detours, Goto
<1>2. /\ ResumePhase(rec) \in {"Reserved", "WarmCopying", "WarmCopied"}
      /\ "WarmCopying" \in At("copy") /\ ret' = "idle" /\ Dest' = "copy" /\ tools = Every({})
      /\ rec.passes < PrecopyPasses /\ rec \in Status /\ (shared => rec.mounts > 0)
  BY Zenon, <1>1, AtTable, NoTools DEF IInv, Control, SharedInv, Dest, Detours, TypeOK
<1>3. /\ r \in Status /\ r.phase = rec.phase /\ r.resumeFrom = rec.resumeFrom
      /\ r.history = rec.history /\ r.mounts = rec.mounts /\ r.passes = rec.passes
      /\ r.finalDone = rec.finalDone /\ r.active = rec.active /\ r.rolledBack = rec.rolledBack
  BY Zenon, <1>2 DEF Status, Every
<1> HIDE DEF r
<1>4. /\ rec' \in Status /\ Progress(rec', r) /\ rec'.phase = "WarmCopying"
      /\ ResumePhase(rec') = "WarmCopying"
      /\ rec'.history = IF ResumePhase(rec) = "WarmCopying" THEN rec.history
                        ELSE Append(rec.history, "WarmCopying")
  BY Zenon, <1>1, <1>3, ChangeEffect DEF Phases
<1>5. Kept /\ rec'.mounts = rec.mounts /\ rec'.passes = rec.passes
  BY Zenon, <1>2, <1>3, <1>4 DEF Kept, Progress
<1>6. Control' /\ pc' \in Labels /\ ret' \in Labels
  BY Zenon, <1>1, <1>2, <1>4 DEF Control, Detours, Labels
<1>7. Advance
  BY Zenon, <1>2, <1>4, <1>5 DEF Advance, Terminal
<1>8. Arrives
  BY Zenon, <1>1, <1>2, <1>4, <1>5 DEF Arrives, Settling
<1> QED BY Zenon, <1>1, <1>4, <1>5, <1>6, <1>7, <1>8, SaveStep, BudgetKept

\* warmCopy records WarmCopied when the pass is complete.
LEMMA WarmedKeeps == ASSUME IInv, Warmed PROVE IInv'
<1> DEFINE r == [rec EXCEPT !.passes = @ + 1]
<1>1. /\ pc = "warmed" /\ Dest = pc /\ UNCHANGED Cluster /\ UNCHANGED <<interrupts, failures>>
      /\ Transition(r, "WarmCopied") /\ pc' = Dispatch(rec') /\ ret' = ret
  BY Zenon DEF Warmed, Budget, Dest, Detours, Goto
<1>2. /\ ResumePhase(rec) = "WarmCopying" /\ ret' = "idle" /\ tools = Every({}) /\ rec.mounts = 0
      /\ rec.passes < PrecopyPasses /\ rec \in Status /\ ~shared
  BY <1>1, AtTable, NoTools DEF IInv, Control, SharedInv, Settling, Detours, TypeOK
<1>3. /\ r \in Status /\ r.phase = rec.phase /\ r.resumeFrom = rec.resumeFrom
      /\ r.history = rec.history /\ r.mounts = rec.mounts
      /\ r.finalDone = rec.finalDone /\ r.active = rec.active /\ r.rolledBack = rec.rolledBack
  <2>1. rec.passes + 1 \in 0..PrecopyPasses
    BY <1>2, PodMigrationAssumption DEF Status
  <2> QED BY Zenon, <1>2, <2>1, SetPasses
<1> HIDE DEF r
<1>4. /\ rec' \in Status /\ Progress(rec', r) /\ rec'.phase = "WarmCopied"
      /\ ResumePhase(rec') = "WarmCopied" /\ rec'.history = Append(rec.history, "WarmCopied")
  BY Zenon, <1>1, <1>2, <1>3, ChangeEffect DEF Phases
<1>5. Kept /\ rec'.mounts = 0
  BY Zenon, <1>2, <1>3, <1>4 DEF Kept, Progress
<1>6. pc' \in {"warm", "cutover"} /\ (pc' = "warm" => rec'.passes < PrecopyPasses)
  BY Zenon, <1>1, <1>4, PodMigrationAssumption DEF Dispatch, Status
<1>7. Dest' = pc' /\ "WarmCopied" \in At(pc')
  BY ZenonT(30), <1>6, AtTable DEF Dest, Detours
<1>8. Control' /\ pc' \in Labels /\ ret' \in Labels
  BY Zenon, <1>2, <1>4, <1>6, <1>7 DEF Control, Detours, Labels
<1>9. Advance
  BY Zenon, <1>2, <1>4, <1>5 DEF Advance, Terminal
<1>10. Arrives
  BY <1>2, <1>4, <1>5, <1>6, <1>7 DEF Arrives, Settling
<1> QED BY ZenonT(30), <1>1, <1>4, <1>5, <1>8, <1>9, <1>10, SaveStep, BudgetKept

\* The loop over the volumes ends: FinalSynced, or on to the end of the warm pass.
LEMMA CopiesDoneKeeps == ASSUME IInv, CopiesDone PROVE IInv'
<1>1. /\ pc = "copy" /\ Dest = pc /\ UNCHANGED Cluster /\ UNCHANGED <<interrupts, failures>>
      /\ All(Done(rec))
  BY Zenon DEF CopiesDone, Budget, Dest, Detours
<1>2. /\ ResumePhase(rec) \in {"WarmCopying", "FinalSyncing"} /\ rec.phase # "Failed"
      /\ ret = "idle" /\ tools = Every({})
      /\ shared => rec.mounts > 0 /\ ResumePhase(rec) # "FinalSyncing"
  BY Zenon, <1>1, AtTable, NoTools DEF IInv, Control, SharedInv, Detours
<1>3. CASE Mode = "final"
  <2>1. ResumePhase(rec) = "FinalSyncing" /\ All(rec.finalDone)
    BY Zenon, <1>1, <1>2, <1>3 DEF Mode, Done
  <2>2. Transition(rec, "FinalSynced") /\ pc' = Dispatch(rec') /\ ret' = "idle"
    BY Zenon, <1>2, <1>3 DEF CopiesDone, Goto
  <2>3. Moves("FinalSynced")
    BY Zenon, <2>2, TransitionEffect DEF Phases
  <2>4. pc' = "activate" /\ Dest' = pc' /\ "FinalSynced" \in At("activate")
    BY Zenon, <2>2, <2>3, AtTable DEF Dispatch, Moves, Dest, Detours
  <2>5. Advance
    BY Zenon, <2>1, <2>3 DEF Advance, Moves, Terminal
  <2>6. Arrives
    BY Zenon, <1>2, <2>1, <2>3, <2>4 DEF Arrives, Moves, Progress, Settling
  <2> QED BY Zenon, <1>1, <2>2, <2>3, <2>4, <2>5, <2>6, MoveStep DEF Labels, Detours, Phases
<1>4. CASE Mode # "final"
  <2>1. ResumePhase(rec) = "WarmCopying" /\ ResumePhase(rec) \in At("warmed")
    BY Zenon, <1>2, <1>4, AtTable DEF Mode
  <2>2. RestoreThen(rec, "warmed") /\ rec' = rec
    BY Zenon, <1>4 DEF CopiesDone
  <2> QED BY Zenon, <1>1, <1>2, <2>1, <2>2, RestoreWalk
<1> QED BY Zenon, <1>3, <1>4

\* abortOriginWasPaused looks at the phase that the abort left.
LEMMA AbortOrigin ==
    ASSUME NEW h \in Seq(Phases), Len(h) > 1, h[Len(h)] = "Aborting", h[Len(h) - 1] # "Aborting"
    PROVE  AbortOriginWasPaused(h) <=> h[Len(h) - 1] \in PausedPhases
<1> DEFINE others == {i \in DOMAIN h : h[i] # "Aborting"}
<1>1. Len(h) - 1 \in others /\ \A i \in others : i \in Int /\ Len(h) - 1 >= i
  OBVIOUS
<1>2. Max(others) \in others /\ \A i \in others : Max(others) >= i
  BY Zenon, <1>1 DEF Max
<1>3. Max(others) = Len(h) - 1
  <2>1. Len(h) \in Nat
    OBVIOUS
  <2> HIDE DEF others
  <2> QED BY <1>1, <1>2, <2>1
<1> QED BY Zenon, <1>1, <1>3 DEF AbortOriginWasPaused

\* abort records Aborting, and remembers through the history where it came from.
LEMMA AbortKeeps == ASSUME IInv, Abort PROVE IInv'
<1>1. /\ pc = "abort" /\ Dest = pc /\ UNCHANGED Cluster /\ UNCHANGED <<interrupts, failures>>
      /\ Transition(rec, "Aborting") /\ pc' = "abortTools" /\ Dest' = pc'
      /\ ret' = IF AbortNeedsResume(rec) THEN "resumeWorkload" ELSE "resumed"
  BY Zenon DEF Abort, Budget, Dest, Detours
<1>2. Moves("Aborting")
  BY Zenon, <1>1, TransitionEffect DEF Phases
<1>3. ResumePhase(rec) \in Abortable /\ "Aborting" \in At("abortTools")
  BY Zenon, <1>1, AtTable DEF IInv, Control
<1>4. AbortNeedsResume(rec) \/ Untouched
  <2>1. CASE ResumePhase(rec) \in Early
    BY Zenon, <2>1 DEF IInv, GivenBackInv
  <2>2. CASE ResumePhase(rec) \in PausedPhases
    BY Zenon, <2>2 DEF AbortNeedsResume, ResumePhase, PausedPhases
  <2>3. CASE ResumePhase(rec) = "Aborting"
    <3>1. /\ rec.history \in Seq(Phases) /\ Len(rec.history) > 1
          /\ rec.history[Len(rec.history)] = "Aborting"
          /\ rec.history[Len(rec.history) - 1] # "Aborting"
          /\ rec.history[Len(rec.history) - 1] \in PausedPhases \/ Untouched
      BY Zenon, <2>3 DEF IInv, GivenBackInv, TypeOK, Status
    <3>2. AbortOriginWasPaused(rec.history) \/ Untouched
      BY Zenon, <3>1, AbortOrigin
    <3>3. "Aborting" \in {rec.phase, rec.resumeFrom}
      BY Zenon, <2>3 DEF ResumePhase
    <3> QED BY Zenon, <3>2, <3>3 DEF AbortNeedsResume
  <2> QED BY Zenon, <1>3, <2>1, <2>2, <2>3 DEF Abortable
<1>5. Control' /\ pc' \in Labels /\ ret' \in Labels
  BY Zenon, <1>1, <1>2, <1>3 DEF Control, Moves, Detours, Labels
<1>6. Advance
  BY Zenon, <1>2, <1>3 DEF Advance, Moves, Progress, Terminal
<1>7. Arrives
  BY Zenon, <1>1, <1>2, <1>4 DEF IInv, SharedInv, Arrives, Moves, Progress, Settling
<1>8. rec' \in Status /\ Kept
  BY Zenon, <1>2 DEF Moves, Progress, Kept
<1> QED BY Zenon, <1>1, <1>5, <1>6, <1>7, <1>8, SaveStep, BudgetKept

\* Clearing the copy tools that an interrupted pass left keeps the invariant.
LEMMA ClearStep ==
    ASSUME IInv, rec' = rec, UNCHANGED <<plan, claim, sync, shared, wl>>,
           UNCHANGED <<interrupts, failures>>, tools' = Every({}),
           NEW next \in {"warmPrepare", "finalStart", "resumeWorkload", "resumed"},
           RestoreThen(rec, next), ResumePhase(rec) \in At(next), rec.phase # "Failed",
           ResumePhase(rec) # "RollingBack", next = "resumed" => Untouched,
           next = "warmPrepare" => rec.passes < PrecopyPasses
    PROVE  IInv'
<1>1. /\ Dest' = next
      /\ \/ pc' = next /\ ret' = "idle" /\ rec.mounts = 0
         \/ pc' = "restore" /\ ret' = next /\ rec.mounts # 0
  BY Zenon, RestoreEffect DEF Detours
<1>2. rec.mounts \in 0..2
  BY Zenon DEF IInv, TypeOK, Status
<1>3. Control' /\ pc' \in Labels /\ ret' \in Labels
  BY ZenonT(30), <1>1 DEF Control, Detours, RestoreTargets, Labels
<1>4. tools' \in [Volumes -> SUBSET ({"warm", "final"} \X Nat)]
  BY Zenon DEF Every
<1>5. TypeOK'
  BY Zenon, <1>3, <1>4, BudgetKept DEF IInv, TypeOK
<1>6. ToolsInv'
  BY Zenon, <1>1 DEF ToolsInv, Every
<1>7. CopyInv'
  BY Zenon, <1>1 DEF IInv, CopyInv
<1>8. SwapInv'
  BY Zenon DEF IInv, SwapInv
<1>9. RestInv'
  BY Zenon, <1>1 DEF IInv, RestInv, Quiet
<1>10. GivenBackInv'
  BY Zenon, <1>1 DEF IInv, GivenBackInv, Untouched, Detours
<1>11. SharedInv'
  BY <1>1, <1>2 DEF IInv, SharedInv, Settling
<1>12. NoLostWrites'
  BY Zenon DEF IInv, NoLostWrites
<1> QED BY ZenonT(30), <1>3, <1>5, <1>6, <1>7, <1>8, <1>9, <1>10, <1>11, <1>12 DEF IInv

\* warmCopy clears the interrupted warm tools.
LEMMA WarmCopyKeeps == ASSUME IInv, WarmCopy PROVE IInv'
<1>1. /\ pc = "warm" /\ Dest = pc /\ rec' = rec /\ UNCHANGED <<plan, claim, sync, shared, wl>>
      /\ UNCHANGED <<interrupts, failures>> /\ RestoreThen(rec, "warmPrepare")
      /\ tools' = InterruptedTools("WarmCopying", "warm")
  BY Zenon DEF WarmCopy, Budget, Dest, Detours
<1>2. /\ ResumePhase(rec) \in {"Reserved", "WarmCopying", "WarmCopied"}
      /\ ResumePhase(rec) \in At("warmPrepare")
      /\ rec.phase # "Failed" /\ rec.passes < PrecopyPasses
  BY Zenon, <1>1, AtTable DEF IInv, Control, SharedInv
<1>3. tools' = Every({})
  <2>1. Done(rec) = rec.warmDone
    BY Zenon, <1>2 DEF Done, Mode
  <2>2. \A v \in Volumes : tools[v] # {} =>
            /\ ResumePhase(rec) = "WarmCopying" /\ tools[v] = {<<"warm", rec.attempts[v]>>}
            /\ rec.attempts[v] # 0 /\ ~rec.warmDone[v]
    BY Zenon, <1>2 DEF IInv, ToolsInv
  <2> QED BY Zenon, <1>1, <2>1, <2>2 DEF InterruptedTools, Every
<1> QED BY Zenon, <1>1, <1>2, <1>3, ClearStep

\* finalSync clears the interrupted final tools.
LEMMA FinalSyncKeeps == ASSUME IInv, FinalSync PROVE IInv'
<1>1. /\ pc = "finalSync" /\ Dest = pc /\ rec' = rec /\ UNCHANGED <<plan, claim, sync, shared, wl>>
      /\ UNCHANGED <<interrupts, failures>> /\ RestoreThen(rec, "finalStart")
      /\ tools' = InterruptedTools("FinalSyncing", "final")
  BY Zenon DEF FinalSync, Budget, Dest, Detours
<1>2. /\ ResumePhase(rec) \in {"Paused", "FinalSyncing"} /\ ResumePhase(rec) \in At("finalStart")
      /\ rec.phase # "Failed"
  BY Zenon, <1>1, AtTable DEF IInv, Control
<1>3. tools' = Every({})
  <2>1. Done(rec) = rec.finalDone
    BY Zenon, <1>2 DEF Done, Mode
  <2>2. \A v \in Volumes : tools[v] # {} =>
            /\ ResumePhase(rec) = "FinalSyncing" /\ tools[v] = {<<"final", rec.attempts[v]>>}
            /\ rec.attempts[v] # 0 /\ ~rec.finalDone[v]
    BY Zenon, <1>2 DEF IInv, ToolsInv
  <2> QED BY Zenon, <1>1, <2>1, <2>2 DEF InterruptedTools, Every
<1> QED BY Zenon, <1>1, <1>2, <1>3, ClearStep

\* abort clears the tools of both modes.
LEMMA AbortToolsKeeps == ASSUME IInv, AbortTools PROVE IInv'
<1>1. /\ pc = "abortTools" /\ Dest = pc /\ rec' = rec /\ UNCHANGED <<plan, claim, sync, shared, wl>>
      /\ UNCHANGED <<interrupts, failures>> /\ RestoreThen(rec, ret)
      /\ tools' = [v \in Volumes |-> tools[v] \ ({"warm", "final"} \X {rec.attempts[v]})]
  BY Zenon DEF AbortTools, Budget, Dest, Detours
<1>2. /\ ResumePhase(rec) = "Aborting" /\ ret \in {"resumeWorkload", "resumed"}
      /\ ResumePhase(rec) \in At(ret) /\ rec.phase # "Failed"
  BY Zenon, <1>1, AtTable DEF IInv, Control
<1>3. ret = "resumed" => Untouched
  BY Zenon, <1>1 DEF IInv, GivenBackInv
<1>4. tools' = Every({})
  <2>1. \A v \in Volumes : tools[v] # {} =>
            \E mode \in {"warm", "final"} : tools[v] = {<<mode, rec.attempts[v]>>}
    BY Zenon DEF IInv, ToolsInv
  <2> QED BY <1>1, <2>1 DEF Every
<1> QED BY Zenon, <1>1, <1>2, <1>3, <1>4, ClearStep

-----------------------------------------------------------------------------

\* RestoreShared takes the sharing of the LVM volume back.
LEMMA RestoreKeeps == ASSUME IInv, Restore PROVE IInv'
<1>1. /\ pc = "restore" /\ Dest = ret /\ UNCHANGED <<plan, rec, claim, sync, tools, wl>>
      /\ UNCHANGED <<interrupts, failures>> /\ pc' = "restored" /\ ret' = ret /\ Dest' = ret
      /\ shared' = FALSE
  BY Zenon DEF Restore, Budget, Goto, Dest, Detours
<1>2. TypeOK' /\ Control'
  BY ZenonT(60), <1>1, BudgetKept DEF IInv, TypeOK, Control, Detours, Labels
<1>3. ToolsInv' /\ CopyInv'
  BY Zenon, <1>1 DEF IInv, ToolsInv, CopyInv, Quiet
<1>4. SwapInv' /\ RestInv' /\ NoLostWrites'
  BY Zenon, <1>1 DEF IInv, SwapInv, RestInv, Quiet, NoLostWrites
<1>5. GivenBackInv' /\ SharedInv'
  BY ZenonT(30), <1>1 DEF IInv, GivenBackInv, Untouched, SharedInv, Settling
<1> QED BY Zenon, <1>2, <1>3, <1>4, <1>5 DEF IInv

\* EnableShared shares the LVM volume, after the checkpoint was stored.
LEMMA EnableSharedKeeps == ASSUME IInv, EnableShared PROVE IInv'
<1>1. /\ pc = "enable" /\ Dest = ret /\ UNCHANGED <<plan, rec, claim, sync, tools, wl>>
      /\ UNCHANGED <<interrupts, failures>> /\ pc' = ret /\ ret' = "idle" /\ shared' = TRUE
  BY Zenon DEF EnableShared, Budget, Dest, Detours
<1>2. /\ ret \in {"warmStart", "probe"} /\ tools = Every({}) /\ rec.mounts > 0
      /\ ResumePhase(rec) \in {"Reserved", "WarmCopying", "WarmCopied", "Pausing"}
      /\ ResumePhase(rec) \in At(ret) /\ rec.phase # "Failed" /\ Dest' = ret
  BY ZenonT(30), <1>1, AtTable, NoTools DEF IInv, Control, SharedInv, Dest, Detours
<1>3. TypeOK' /\ Control'
  BY ZenonT(30), <1>1, <1>2, BudgetKept DEF IInv, TypeOK, Control, Detours, Labels
<1>4. ToolsInv' /\ CopyInv'
  BY Zenon, <1>1, <1>2 DEF IInv, ToolsInv, CopyInv, Every
<1>5. SwapInv' /\ RestInv' /\ NoLostWrites'
  BY Zenon, <1>1, <1>2 DEF IInv, SwapInv, RestInv, Quiet, NoLostWrites
<1>6. GivenBackInv' /\ SharedInv'
  BY Zenon, <1>1, <1>2 DEF IInv, GivenBackInv, Untouched, SharedInv, Settling
<1> QED BY Zenon, <1>3, <1>4, <1>5, <1>6 DEF IInv

\* A step of the workload, or of an adapter on it, keeps the invariant when the
\* workload's own conjuncts are kept.
LEMMA WorkloadStep ==
    ASSUME IInv, UNCHANGED <<plan, rec, claim, sync, tools, shared, interrupts, failures>>,
           wl' \in Workload, RestInv', GivenBackInv', ret' = ret,
           (Quiet => Quiet') \/ tools = Every({}),
           \/ pc' = pc
           \/ pc = "pauseWorkload" /\ pc' = "pausing"
           \/ pc = "resumeWorkload" /\ pc' = "awaitReady"
           \/ pc = "awaitReady" /\ pc' = "resumed"
    PROVE  IInv'
<1>1. \/ pc' = pc /\ Dest' = Dest
      \/ pc = "pauseWorkload" /\ pc' = "pausing" /\ Dest = pc /\ Dest' = pc'
      \/ pc = "resumeWorkload" /\ pc' = "awaitReady" /\ Dest = pc /\ Dest' = pc'
      \/ pc = "awaitReady" /\ pc' = "resumed" /\ Dest = pc /\ Dest' = pc'
  BY Zenon DEF Dest, Detours
<1>2. Control'
  BY <1>1, AtTable DEF IInv, Control, Detours
<1>3. TypeOK'
  BY <1>1, BudgetKept DEF IInv, TypeOK, Labels
<1>4. ToolsInv'
  <2>1. CASE pc' = pc
    BY Zenon, <1>1, <2>1 DEF IInv, ToolsInv, Current, Done, Mode, Every
  <2>2. CASE pc' # pc
    <3>1. tools' = Every({}) /\ pc' \in {"pausing", "awaitReady", "resumed"}
      BY Zenon, <1>1, <2>2, NoTools
    <3> QED BY Zenon, <3>1 DEF ToolsInv, Every
  <2> QED BY Zenon, <2>1, <2>2
<1>5. CopyInv'
  BY Zenon, <1>1 DEF IInv, CopyInv, Current, Done, Mode
<1>6. SwapInv' /\ NoLostWrites'
  BY Zenon, <1>1 DEF IInv, SwapInv, NoLostWrites
<1>7. SharedInv'
  BY ZenonT(30), <1>1 DEF IInv, SharedInv, Settling
<1> QED BY Zenon, <1>2, <1>3, <1>4, <1>5, <1>6, <1>7 DEF IInv

\* The adapters' Pause scales the workload down.
LEMMA PauseWorkloadKeeps == ASSUME IInv, PauseWorkload PROVE IInv'
<1>1. /\ pc = "pauseWorkload" /\ Dest = pc /\ pc' = "pausing" /\ ret' = ret /\ Dest' = pc'
      /\ UNCHANGED <<plan, rec, claim, sync, tools, shared, interrupts, failures>>
      /\ wl' = PausedWorkload
  BY Zenon DEF PauseWorkload, Budget, Goto, Dest, Detours
<1>2. /\ wl' \in Workload /\ ~wl'.desired /\ wl'.mount = wl.mount
      /\ (wl.pod = "down" <=> wl'.pod = "down")
  BY Zenon, <1>1 DEF PausedWorkload, IInv, TypeOK, Workload
<1>3. ResumePhase(rec) \in {"Pausing", "RollingBack"}
  BY Zenon, <1>1, AtTable DEF IInv, Control
<1>4. RestInv'
  BY Zenon, <1>1, <1>2, <1>3 DEF IInv, RestInv, Quiet, Resting
<1>5. GivenBackInv'
  BY Zenon, <1>1, <1>3 DEF IInv, GivenBackInv, Early, Terminal
<1>6. Quiet => Quiet'
  BY Zenon, <1>2 DEF Quiet
<1> QED BY Zenon, <1>1, <1>2, <1>4, <1>5, <1>6, WorkloadStep

\* The adapters' Resume gives the workload its replicas back.
LEMMA ResumeWorkloadKeeps == ASSUME IInv, ResumeWorkload PROVE IInv'
<1>1. /\ pc = "resumeWorkload" /\ Dest = pc /\ pc' = "awaitReady" /\ ret' = ret /\ Dest' = pc'
      /\ UNCHANGED <<plan, rec, claim, sync, tools, shared, interrupts, failures>>
      /\ wl' = ResumedWorkload
  BY Zenon DEF ResumeWorkload, Budget, Goto, Dest, Detours
<1>2. /\ wl' \in Workload /\ wl'.desired /\ wl'.mount = wl.mount /\ wl'.pod = wl.pod
      /\ wl'.owner = wl.owner
  BY Zenon, <1>1 DEF ResumedWorkload, IInv, TypeOK, Workload
<1>3. /\ ResumePhase(rec) \in {"Resuming", "Aborting", "RollingBack"}
      /\ ResumePhase(rec) = "RollingBack" => All(rec.rolledBack)
      /\ tools = Every({})
  BY Zenon, <1>1, AtTable, NoTools DEF IInv, Control, SwapInv
<1>4. RestInv'
  BY Zenon, <1>1, <1>2, <1>3 DEF IInv, RestInv, Quiet, Resting
<1>5. GivenBackInv'
  BY Zenon, <1>1, <1>2, <1>3 DEF IInv, GivenBackInv, Untouched, Early, Terminal
<1> QED BY Zenon, <1>1, <1>2, <1>3, <1>4, <1>5, WorkloadStep

\* Resume waits until the workload is ready.
LEMMA AwaitReadyKeeps == ASSUME IInv, AwaitReady PROVE IInv'
<1>1. /\ pc = "awaitReady" /\ Dest = pc /\ pc' = "resumed" /\ ret' = ret /\ Dest' = pc'
      /\ UNCHANGED <<plan, rec, claim, sync, tools, shared, interrupts, failures>>
      /\ wl' = [wl EXCEPT !.owner = FALSE]
  BY Zenon DEF AwaitReady, Budget, Goto, Dest, Detours
<1>2. /\ wl' \in Workload /\ wl'.desired = wl.desired /\ wl.desired /\ ~wl'.owner
      /\ wl'.mount = wl.mount /\ wl'.pod = wl.pod
  BY Zenon, <1>1 DEF IInv, TypeOK, Workload, GivenBackInv
<1>3. RestInv'
  BY Zenon, <1>1, <1>2 DEF IInv, RestInv, Quiet
<1>4. GivenBackInv'
  BY Zenon, <1>1, <1>2 DEF IInv, GivenBackInv, Untouched
<1>5. Quiet => Quiet'
  BY Zenon, <1>2 DEF Quiet
<1> QED BY Zenon, <1>1, <1>2, <1>3, <1>4, <1>5, WorkloadStep

\* The cluster's own controllers and the application.
LEMMA EnvironmentKeeps == ASSUME IInv, Environment PROVE IInv'
<1>1. CASE ScaleDown \/ Terminated
  <2>1. /\ UNCHANGED <<plan, rec, claim, sync, tools, shared, interrupts, failures>>
        /\ pc' = pc /\ ret' = ret /\ Dest' = Dest
    BY Zenon, <1>1 DEF ScaleDown, Terminated, Dest
  <2>2. /\ wl' \in Workload /\ wl'.desired = wl.desired /\ wl'.owner = wl.owner
        /\ wl'.mount = wl.mount /\ wl.pod # "down" 
    BY ZenonT(30), <1>1 DEF ScaleDown, Terminated, IInv, TypeOK, Workload
  <2>3. RestInv' /\ GivenBackInv'
    BY Zenon, <2>1, <2>2 DEF IInv, RestInv, GivenBackInv, Quiet, Untouched
  <2>4. Quiet => Quiet'
    BY Zenon, <2>2 DEF Quiet
  <2> QED BY Zenon, <2>1, <2>2, <2>3, <2>4, WorkloadStep
<1>2. CASE ScaleUp
  <2>1. /\ UNCHANGED <<plan, rec, claim, sync, tools, shared, interrupts, failures>>
        /\ pc' = pc /\ ret' = ret /\ Dest' = Dest /\ wl.desired
        /\ wl' = [wl EXCEPT !.pod = "up", !.mount = claim]
        /\ \A v \in Volumes : claim[v] # "none"
    BY Zenon, <1>2 DEF ScaleUp, Dest
  <2>2. /\ wl' \in Workload /\ wl'.desired = wl.desired /\ wl'.owner = wl.owner
        /\ wl'.mount = claim
    <3>1. claim \in [Volumes -> {"src", "dst"}]
      BY Zenon, <2>1 DEF IInv, TypeOK
    <3> QED BY Zenon, <2>1, <3>1 DEF IInv, TypeOK, Workload
  <2>3. RestInv' /\ GivenBackInv'
    BY Zenon, <2>1, <2>2 DEF IInv, RestInv, GivenBackInv, Quiet, Untouched
  <2>4. Quiet => Quiet'
    BY Zenon, <2>1 DEF Quiet
  <2> QED BY Zenon, <2>1, <2>2, <2>3, <2>4, WorkloadStep
<1>3. CASE \E v \in Volumes : Write(v)
  <2>1. PICK v \in Volumes : Write(v)
    BY Zenon, <1>3
  <2>2. /\ UNCHANGED <<plan, rec, claim, tools, shared, wl, interrupts, failures>>
        /\ pc' = pc /\ ret' = ret /\ Dest' = Dest
        /\ wl.pod # "down" /\ wl.mount[v] = "src" /\ sync' = [sync EXCEPT ![v] = "behind"]
    BY Zenon, <2>1 DEF Write, Dest
  <2>3. claim[v] = "src" /\ ResumePhase(rec) \notin Resting
    BY <2>2 DEF IInv, RestInv, Quiet
  <2>4. TypeOK' /\ Control'
    BY ZenonT(30), <2>2, BudgetKept DEF IInv, TypeOK, Control
  <2>5. ToolsInv'
    BY Zenon, <2>2 DEF IInv, ToolsInv, Quiet, Current, Done, Mode
  <2>6. CopyInv'
    BY Zenon, <2>2, <2>3 DEF IInv, CopyInv, Resting
  <2>7. SwapInv' /\ RestInv'
    BY Zenon, <2>2 DEF IInv, SwapInv, RestInv, Quiet
  <2>9. GivenBackInv' /\ SharedInv'
    BY ZenonT(30), <2>2 DEF IInv, GivenBackInv, Untouched, SharedInv
  <2>8. NoLostWrites'
    BY Zenon, <2>2, <2>3 DEF IInv, NoLostWrites, TypeOK
  <2> QED BY Zenon, <2>4, <2>5, <2>6, <2>7, <2>8, <2>9 DEF IInv
<1> QED BY Zenon, <1>1, <1>2, <1>3 DEF Environment

\* The least element of a non-empty set of naturals is one of them.
LEMMA MinIn ==
    ASSUME NEW S, S \subseteq Nat, S # {}
    PROVE  Min(S) \in S /\ \A y \in S : Min(S) <= y
<1>1. PICK x \in S : \A y \in S : ~(<<y, x>> \in OpToRel(<, Nat))
  BY Zenon, WFMin, NatLessThanWellFounded
<1>2. \A y \in S : ~(y < x)
  BY Zenon, <1>1 DEF OpToRel
<1>3. \A y \in S : x <= y
  BY <1>2
<1> QED BY Zenon, <1>3 DEF Min

\* The greatest element of a bounded set of naturals is one of them.
LEMMA MaxIn ==
    ASSUME NEW n \in Nat, NEW S, S \subseteq 0..n, S # {}
    PROVE  Max(S) \in S
<1> DEFINE T == {n - x : x \in S}
<1>1. T \subseteq Nat /\ T # {}
  <2>1. \A x \in S : n - x \in Nat
    OBVIOUS
  <2> QED BY Zenon, <2>1
<1> HIDE DEF T
<1>2. Min(T) \in T /\ \A y \in T : Min(T) <= y
  BY Zenon, <1>1, MinIn
<1> USE DEF T
<1>3. PICK x \in S : Min(T) = n - x
  BY Zenon, <1>2
<1>4. \A y \in S : n - x <= n - y
  BY Zenon, <1>2, <1>3
<1>5. \A y \in S : x >= y
  BY <1>4
<1> QED BY Zenon, <1>5 DEF Max

\* What holds inside the loop over the volumes.
LEMMA CopyPoint ==
    ASSUME IInv, pc \in {"copy", "attempt", "transfer", "copied"}
    PROVE  /\ ResumePhase(rec) \in {"WarmCopying", "FinalSyncing"} /\ rec.phase # "Failed"
           /\ ret = "idle" /\ Dest = pc /\ rec \in Status
           /\ Mode = IF ResumePhase(rec) = "FinalSyncing" THEN "final" ELSE "warm"
           /\ Done(rec) = IF ResumePhase(rec) = "FinalSyncing" THEN rec.finalDone ELSE rec.warmDone
           /\ claim = Every("src")
           /\ ResumePhase(rec) = "WarmCopying" => rec.passes < PrecopyPasses
           /\ ResumePhase(rec) = "FinalSyncing" => Quiet
<1>1. Dest = pc
  BY Zenon DEF Dest, Detours
<1>2. /\ ResumePhase(rec) \in {"WarmCopying", "FinalSyncing"} /\ rec.phase # "Failed"
      /\ ret = "idle"
  BY ZenonT(30), <1>1, AtTable DEF IInv, Control, Detours
<1>3. rec \in Status
  BY Zenon DEF IInv, TypeOK
<1>4. claim = Every("src")
  BY Zenon, <1>2 DEF IInv, SwapInv
<1>5. ResumePhase(rec) = "FinalSyncing" => Quiet
  BY Zenon DEF IInv, RestInv, Resting
<1>6. ResumePhase(rec) = "WarmCopying" => rec.passes < PrecopyPasses
  BY Zenon DEF IInv, SharedInv
<1> QED BY Zenon, <1>1, <1>2, <1>3, <1>4, <1>5, <1>6 DEF Mode, Done

\* While a copy is left, the loop is at a volume that is not done.
LEMMA CurrentIn ==
    ASSUME IInv, ~All(Done(rec))
    PROVE  Current \in Volumes /\ ~Done(rec)[Current]
<1>1. Undone(Done(rec)) \subseteq Nat /\ Undone(Done(rec)) # {}
  BY PodMigrationAssumption DEF Undone, All, Volumes
<1>2. Current \in Undone(Done(rec))
  BY Zenon, <1>1, MinIn DEF Current
<1> QED BY Zenon, <1>2 DEF Undone

\* A step of the loop over the volumes keeps the invariant when the conjuncts about
\* the copies are kept.
LEMMA CopyStep ==
    ASSUME IInv, pc \in {"copy", "attempt", "transfer", "copied"},
           UNCHANGED <<plan, claim, shared, wl>>, rec' \in Status,
           ResumePhase(rec') = ResumePhase(rec), rec'.history = rec.history,
           rec'.mounts = rec.mounts, rec'.passes = rec.passes, rec'.active = rec.active,
           rec'.rolledBack = rec.rolledBack,
           sync' \in [Volumes -> {"equal", "copying", "behind"}],
           tools' \in [Volumes -> SUBSET ({"warm", "final"} \X Nat)],
           interrupts' \in 0..MaxInterrupts, failures' \in 0..MaxFailures, ret' = "idle",
           \/ pc' \in {"copy", "attempt", "transfer", "copied"} /\ rec'.phase # "Failed"
           \/ /\ pc' = "idle" \/ (pc' = "restore" /\ rec.mounts > 0)
              /\ rec'.phase = "Failed" => rec'.resumeFrom \in Phases \ Terminal,
           ToolsInv', CopyInv'
    PROVE  IInv'
<1>1. /\ ResumePhase(rec) \in {"WarmCopying", "FinalSyncing"} /\ claim = Every("src")
      /\ ResumePhase(rec) = "WarmCopying" => rec.passes < PrecopyPasses
      /\ Dest = pc
  BY Zenon, CopyPoint
<1>2. Dest' = IF pc' = "restore" THEN "idle" ELSE pc'
  BY Zenon DEF Dest, Detours
<1>3. TypeOK'
  BY Zenon DEF IInv, TypeOK, Labels
<1>4. Control'
  BY ZenonT(30), <1>1, <1>2, AtTable DEF Control, Detours, RestoreTargets, Phases
<1>5. SwapInv'
  BY Zenon, <1>1, <1>2 DEF IInv, SwapInv, Early, PausedPhases
<1>6. RestInv'
  BY Zenon, <1>1 DEF IInv, RestInv, Quiet
<1>7. GivenBackInv'
  BY Zenon, <1>1, <1>2 DEF IInv, GivenBackInv, Untouched
<1>8. SharedInv'
  BY Zenon, <1>1, <1>2 DEF IInv, SharedInv, Settling
<1>9. NoLostWrites'
  BY Zenon, <1>1 DEF NoLostWrites, Every
<1> QED BY Zenon, <1>3, <1>4, <1>5, <1>6, <1>7, <1>8, <1>9 DEF IInv

\* Counting an attempt touches no other field of the status.
LEMMA SetAttempts ==
    ASSUME NEW r \in Status, NEW v \in Volumes, NEW n \in Nat
    PROVE  LET q == [r EXCEPT !.attempts[v] = n] IN
           /\ q \in Status /\ q.phase = r.phase /\ q.resumeFrom = r.resumeFrom
           /\ q.history = r.history /\ q.mounts = r.mounts /\ q.passes = r.passes
           /\ q.warmDone = r.warmDone /\ q.finalDone = r.finalDone
           /\ q.active = r.active /\ q.rolledBack = r.rolledBack /\ q.attempts[v] = n
BY Zenon DEF Status

\* copyWithRetry stores the attempt before it creates a tool for it.
LEMMA CopyAttemptKeeps == ASSUME IInv, CopyAttempt PROVE IInv'
<1>1. /\ pc = "copy" /\ ~All(Done(rec)) /\ UNCHANGED <<plan, claim, sync, tools, shared, wl>>
      /\ UNCHANGED <<interrupts, failures>> /\ pc' = "attempt" /\ ret' = ret
      /\ rec' = [rec EXCEPT !.attempts[Current] = @ + 1]
  BY Zenon DEF CopyAttempt, Current, Goto, Cluster, Budget
<1>2. Current \in Volumes /\ ret = "idle" /\ rec \in Status /\ rec.phase # "Failed" /\ Dest = pc
  BY Zenon, <1>1, CurrentIn, CopyPoint
<1>3. rec.attempts[Current] \in Nat /\ tools = Every({})
  BY Zenon, <1>1, <1>2, NoTools DEF Status
<1>4. /\ rec' \in Status /\ rec'.phase = rec.phase /\ rec'.resumeFrom = rec.resumeFrom
      /\ rec'.history = rec.history /\ rec'.mounts = rec.mounts /\ rec'.passes = rec.passes
      /\ rec'.warmDone = rec.warmDone /\ rec'.finalDone = rec.finalDone
      /\ rec'.active = rec.active /\ rec'.rolledBack = rec.rolledBack
      /\ rec'.attempts[Current] # 0
  <2>1. rec.attempts[Current] + 1 \in Nat /\ rec.attempts[Current] + 1 # 0
    BY <1>3
  <2> QED BY <1>1, <1>2, <2>1, SetAttempts
<1>5. ResumePhase(rec') = ResumePhase(rec)
  BY Zenon, <1>4 DEF ResumePhase
<1>6. Done(rec)' = Done(rec) /\ Current' = Current
  BY Zenon, <1>4, <1>5 DEF Done, Mode, Current
<1>7. ToolsInv'
  BY Zenon, <1>1, <1>3, <1>4, <1>6 DEF ToolsInv, Every
<1>8. CopyInv'
  BY Zenon, <1>1, <1>4, <1>5 DEF IInv, CopyInv
<1>9. TypeOK
  BY Zenon DEF IInv
<1> QED BY ZenonT(30), <1>1, <1>2, <1>4, <1>5, <1>7, <1>8, <1>9, CopyStep, BudgetKept DEF TypeOK

\* copyWithRetry creates the tools of the attempt it has stored.
LEMMA CreateToolsKeeps == ASSUME IInv, CreateTools PROVE IInv'
<1>1. /\ pc = "attempt" /\ UNCHANGED <<plan, rec, claim, shared, wl>>
      /\ UNCHANGED <<interrupts, failures>> /\ pc' = "transfer" /\ ret' = ret
      /\ tools' = [tools EXCEPT ![Current] = @ \cup {<<Mode, rec.attempts[Current]>>}]
      /\ sync' = [sync EXCEPT ![Current] = "copying"]
  BY Zenon DEF CreateTools, Current, Goto, Budget
<1>2. ~All(Done(rec)) /\ rec.attempts[Current] # 0
  BY Zenon, <1>1 DEF IInv, ToolsInv
<1>3. Current \in Volumes /\ ~Done(rec)[Current]
  BY Zenon, <1>2, CurrentIn
<1>4. /\ ResumePhase(rec) \in {"WarmCopying", "FinalSyncing"} /\ ret = "idle" /\ rec \in Status
      /\ rec.phase # "Failed" /\ Dest = pc
      /\ Mode = IF ResumePhase(rec) = "FinalSyncing" THEN "final" ELSE "warm"
      /\ Done(rec) = IF ResumePhase(rec) = "FinalSyncing" THEN rec.finalDone ELSE rec.warmDone
  BY Zenon, <1>1, CopyPoint
<1>5. tools = Every({}) /\ rec.attempts[Current] \in Nat /\ TypeOK
  BY Zenon, <1>1, <1>3, <1>4, NoTools DEF Status, IInv
<1>6. \A v \in Volumes : tools'[v] = IF v = Current THEN {<<Mode, rec.attempts[v]>>} ELSE {}
  BY Zenon, <1>1, <1>3, <1>5 DEF Every
<1>7. /\ tools' \in [Volumes -> SUBSET ({"warm", "final"} \X Nat)]
      /\ sync' \in [Volumes -> {"equal", "copying", "behind"}]
  BY <1>1, <1>3, <1>4, <1>5 DEF TypeOK
<1>8. Done(rec)' = Done(rec) /\ Current' = Current
  BY Zenon, <1>1 DEF Done, Mode, Current
<1>9. ToolsInv'
  <2>1. \A v \in Volumes : tools'[v] # {} => v = Current
    BY Zenon, <1>6
  <2>2. /\ tools'[Current] = {<<Mode, rec.attempts[Current]>>} /\ Mode \in {"warm", "final"}
        /\ \/ ResumePhase(rec) = "WarmCopying" /\ Mode = "warm" /\ ~rec.warmDone[Current]
           \/ ResumePhase(rec) = "FinalSyncing" /\ Mode = "final" /\ ~rec.finalDone[Current]
    BY Zenon, <1>3, <1>4, <1>6
  <2> QED BY Zenon, <1>1, <1>2, <1>8, <2>1, <2>2 DEF ToolsInv
<1>10. CopyInv'
  BY Zenon, <1>1, <1>3, <1>4, <1>5, <1>8 DEF IInv, CopyInv, TypeOK
<1> QED BY Zenon, <1>1, <1>4, <1>7, <1>9, <1>10, CopyStep, BudgetKept

\* When a transfer ends, its tools are the only ones there were.
LEMMA TransferEnds ==
    ASSUME IInv, pc = "transfer"
    PROVE  /\ Current \in Volumes /\ ~Done(rec)[Current]
           /\ [tools EXCEPT ![Current] = @ \ {<<Mode, rec.attempts[Current]>>}] = Every({})
           /\ \A v \in Volumes : tools[v] # {} => v = Current
           /\ ResumePhase(rec) = "FinalSyncing" => sync[Current] = "copying"
<1>1. Current \in Volumes /\ ~Done(rec)[Current]
  BY Zenon, CurrentIn DEF IInv, ToolsInv
<1>2. \A v \in Volumes : tools[v] # {} => v = Current /\ tools[v] = {<<Mode, rec.attempts[v]>>}
  BY Zenon, CopyPoint DEF IInv, ToolsInv
<1>3. tools \in [Volumes -> SUBSET ({"warm", "final"} \X Nat)]
  BY Zenon DEF IInv, TypeOK
<1>4. ResumePhase(rec) = "FinalSyncing" => sync[Current] = "copying"
  BY Zenon DEF IInv, CopyInv
<1> QED BY Zenon, <1>1, <1>2, <1>3, <1>4 DEF Every

\* The transfer ends well.
LEMMA CopySucceedsKeeps == ASSUME IInv, CopySucceeds PROVE IInv'
<1>1. /\ pc = "transfer" /\ UNCHANGED <<plan, rec, claim, shared, wl>>
      /\ UNCHANGED <<interrupts, failures>> /\ pc' = "copied" /\ ret' = ret
      /\ tools' = [tools EXCEPT ![Current] = @ \ {<<Mode, rec.attempts[Current]>>}]
      /\ sync' = [sync EXCEPT ![Current] = IF @ = "copying" THEN "equal" ELSE @]
  BY Zenon DEF CopySucceeds, EndTools, Current, Goto, Budget
<1>2. /\ Current \in Volumes /\ tools' = Every({}) /\ ~Done(rec)[Current]
      /\ ResumePhase(rec) = "FinalSyncing" => sync[Current] = "copying"
  BY Zenon, <1>1, TransferEnds
<1>3. /\ ret = "idle" /\ rec.phase # "Failed" /\ rec \in Status
  BY Zenon, <1>1, CopyPoint
<1>4. /\ tools' \in [Volumes -> SUBSET ({"warm", "final"} \X Nat)]
      /\ sync' \in [Volumes -> {"equal", "copying", "behind"}]
  BY Zenon, <1>1, <1>2 DEF IInv, TypeOK, Every
<1>5. Done(rec)' = Done(rec) /\ Current' = Current
  BY Zenon, <1>1 DEF Done, Mode, Current
<1>6. ToolsInv'
  BY ZenonT(30), <1>1, <1>2, <1>5 DEF IInv, ToolsInv, Every
<1>7. CopyInv'
  BY ZenonT(30), <1>1, <1>2, <1>5 DEF IInv, CopyInv, TypeOK
<1> QED BY ZenonT(30), <1>1, <1>3, <1>4, <1>6, <1>7, CopyStep, BudgetKept

\* The transfer fails and is tried again.
LEMMA CopyRetriesKeeps == ASSUME IInv, CopyRetries PROVE IInv'
<1>1. /\ pc = "transfer" /\ UNCHANGED <<plan, rec, claim, shared, wl>> /\ pc' = "copy" /\ ret' = ret
      /\ tools' = [tools EXCEPT ![Current] = @ \ {<<Mode, rec.attempts[Current]>>}]
      /\ sync' = [sync EXCEPT ![Current] = IF @ = "copying" THEN "behind" ELSE @]
  BY Zenon DEF CopyRetries, EndTools, Current, Goto
<1>2. Current \in Volumes /\ tools' = Every({}) /\ ~Done(rec)[Current]
  BY Zenon, <1>1, TransferEnds
<1>3. /\ ret = "idle" /\ rec.phase # "Failed" /\ rec \in Status
      /\ Done(rec) = IF ResumePhase(rec) = "FinalSyncing" THEN rec.finalDone ELSE rec.warmDone
      /\ ResumePhase(rec) \in {"WarmCopying", "FinalSyncing"}
  BY Zenon, <1>1, CopyPoint
<1>4. /\ tools' \in [Volumes -> SUBSET ({"warm", "final"} \X Nat)]
      /\ sync' \in [Volumes -> {"equal", "copying", "behind"}]
  BY Zenon, <1>1, <1>2 DEF IInv, TypeOK, Every
<1>5. interrupts' \in 0..MaxInterrupts /\ failures' \in 0..MaxFailures
  BY PodMigrationAssumption DEF CopyRetries, IInv, TypeOK
<1>6. ToolsInv'
  BY Zenon, <1>1, <1>2 DEF ToolsInv, Every
<1>7. CopyInv'
  BY Zenon, <1>1, <1>2, <1>3 DEF IInv, CopyInv, TypeOK
<1> QED BY ZenonT(30), <1>1, <1>3, <1>4, <1>5, <1>6, <1>7, CopyStep

\* The transfer fails for good, and the failure is recorded.
LEMMA CopyFailsKeeps == ASSUME IInv, CopyFails PROVE IInv'
<1>1. PICK removed \in BOOLEAN, full \in BOOLEAN :
          EndTools(Current, "behind", removed) /\ rec' = Failed(rec, full)
  BY Zenon DEF CopyFails, Current
<1>2. /\ pc = "transfer" /\ UNCHANGED <<plan, claim, shared, wl>> /\ RestoreThen(rec, "idle")
      /\ tools' = IF removed THEN [tools EXCEPT ![Current] = @ \ {<<Mode, rec.attempts[Current]>>}]
                  ELSE tools
      /\ sync' = [sync EXCEPT ![Current] = IF @ = "copying" THEN "behind" ELSE @]
  BY Zenon, <1>1 DEF CopyFails, EndTools
<1>3. Fails
  BY Zenon, <1>1, FailedEffect
<1>4. /\ Current \in Volumes /\ ~Done(rec)[Current]
      /\ tools' = IF removed THEN Every({}) ELSE tools
  BY Zenon, <1>2, TransferEnds
<1>5. /\ rec \in Status
      /\ Done(rec) = IF ResumePhase(rec) = "FinalSyncing" THEN rec.finalDone ELSE rec.warmDone
      /\ ResumePhase(rec) \in {"WarmCopying", "FinalSyncing"}
  BY Zenon, <1>2, CopyPoint
<1>6. /\ tools' \in [Volumes -> SUBSET ({"warm", "final"} \X Nat)]
      /\ sync' \in [Volumes -> {"equal", "copying", "behind"}]
  BY Zenon, <1>2, <1>4 DEF IInv, TypeOK, Every
<1>7. interrupts' \in 0..MaxInterrupts /\ failures' \in 0..MaxFailures
  BY PodMigrationAssumption DEF CopyFails, IInv, TypeOK
<1>8. ret' = "idle" /\ Dest' = "idle" /\ (pc' = "idle" \/ (pc' = "restore" /\ rec.mounts > 0))
  BY <1>2, <1>5 DEF RestoreThen, Dest, Detours, Status
<1>9. ToolsInv'
  BY ZenonT(30), <1>2, <1>3, <1>4, <1>8 DEF IInv, ToolsInv, Fails, Progress, Every, Quiet
<1>10. CopyInv'
  BY ZenonT(30), <1>2, <1>3, <1>4, <1>5, <1>8 DEF IInv, CopyInv, TypeOK, Fails, Progress
<1>11. /\ ResumePhase(rec') = ResumePhase(rec) /\ rec' \in Status /\ rec'.history = rec.history
       /\ rec'.mounts = rec.mounts /\ rec'.passes = rec.passes /\ rec'.active = rec.active
       /\ rec'.rolledBack = rec.rolledBack /\ rec'.resumeFrom \in Phases \ Terminal
  BY Zenon, <1>3, <1>5 DEF Fails, Progress, Phases, Terminal
<1> QED BY Zenon, <1>2, <1>6, <1>7, <1>8, <1>9, <1>10, <1>11, CopyStep

\* The status records that the volume is copied.
LEMMA CopiedKeeps == ASSUME IInv, Copied PROVE IInv'
<1>1. /\ pc = "copied" /\ UNCHANGED <<plan, claim, sync, tools, shared, wl>>
      /\ UNCHANGED <<interrupts, failures>> /\ pc' = "copy" /\ ret' = ret
      /\ rec' = IF Mode = "final" THEN [rec EXCEPT !.finalDone[Current] = TRUE]
                ELSE [rec EXCEPT !.warmDone[Current] = TRUE]
  BY Zenon DEF Copied, Current, Goto, Cluster, Budget
<1>2. Current \in Volumes
  BY Zenon, <1>1, CurrentIn DEF IInv, ToolsInv
<1>3. /\ ret = "idle" /\ rec.phase # "Failed" /\ rec \in Status /\ Dest = pc
      /\ Mode = IF ResumePhase(rec) = "FinalSyncing" THEN "final" ELSE "warm"
      /\ ResumePhase(rec) \in {"WarmCopying", "FinalSyncing"}
  BY Zenon, <1>1, CopyPoint
<1>4. tools = Every({}) /\ (ResumePhase(rec) = "FinalSyncing" => sync[Current] = "equal")
  BY Zenon, <1>1, <1>3, NoTools DEF IInv, CopyInv
<1>5. /\ rec' \in Status /\ rec'.phase = rec.phase /\ rec'.resumeFrom = rec.resumeFrom
      /\ rec'.history = rec.history /\ rec'.mounts = rec.mounts /\ rec'.passes = rec.passes
      /\ rec'.active = rec.active /\ rec'.rolledBack = rec.rolledBack
      /\ rec'.finalDone = IF Mode = "final" THEN [rec.finalDone EXCEPT ![Current] = TRUE]
                          ELSE rec.finalDone
  BY Zenon, <1>1, <1>2, <1>3 DEF Status
<1>6. ResumePhase(rec') = ResumePhase(rec)
  BY Zenon, <1>5 DEF ResumePhase
<1>7. ToolsInv'
  BY Zenon, <1>1, <1>4 DEF ToolsInv, Every
<1>8. CopyInv'
  <2>1. CASE Mode = "final"
    <3>1. \A v \in Volumes : rec'.finalDone[v] => v = Current \/ rec.finalDone[v]
      BY Zenon, <1>2, <1>3, <1>5, <2>1 DEF Status
    <3> QED BY ZenonT(30), <1>1, <1>3, <1>4, <1>6, <2>1, <3>1 DEF IInv, CopyInv, Early
  <2>2. CASE Mode # "final"
    BY ZenonT(30), <1>1, <1>5, <1>6, <2>2 DEF IInv, CopyInv
  <2> QED BY Zenon, <2>1, <2>2
<1>9. TypeOK
  BY Zenon DEF IInv
<1> QED BY ZenonT(30), <1>1, <1>3, <1>5, <1>6, <1>7, <1>8, <1>9, CopyStep, BudgetKept DEF TypeOK

\* A step of a swap keeps the invariant when the conjuncts about the claims are kept.
LEMMA SwapStep ==
    ASSUME IInv, pc \in {"activateVolume", "rollbackVolume"},
           UNCHANGED <<plan, sync, tools, shared, wl, pc, ret, interrupts, failures>>,
           rec' \in Status, rec'.phase = rec.phase, rec'.resumeFrom = rec.resumeFrom,
           rec'.history = rec.history, rec'.mounts = rec.mounts, rec'.passes = rec.passes,
           rec'.finalDone = rec.finalDone, claim' \in [Volumes -> {"src", "none", "dst"}],
           Quiet, SwapInv', NoLostWrites'
    PROVE  IInv'
<1>1. /\ Dest = pc /\ Dest' = pc /\ ResumePhase(rec') = ResumePhase(rec)
  BY Zenon DEF Dest, Detours, ResumePhase
<1>2. tools = Every({})
  BY Zenon, <1>1, NoTools
<1>3. TypeOK'
  BY Zenon, BudgetKept DEF IInv, TypeOK
<1>4. Control'
  BY Zenon, <1>1 DEF IInv, Control
<1>5. ToolsInv'
  BY Zenon, <1>2 DEF ToolsInv, Every
<1>6. CopyInv'
  BY Zenon, <1>1 DEF IInv, CopyInv
<1>7. RestInv'
  BY Zenon DEF RestInv, Quiet
<1>8. GivenBackInv'
  BY Zenon, <1>1 DEF IInv, GivenBackInv, Untouched
<1>9. SharedInv'
  BY Zenon, <1>1 DEF IInv, SharedInv
<1> QED BY ZenonT(30), <1>3, <1>4, <1>5, <1>6, <1>7, <1>8, <1>9 DEF IInv

\* activate swaps one claim, or records that it is swapped.
LEMMA ActivateVolumeKeeps == ASSUME IInv, ActivateVolume PROVE IInv'
<1> DEFINE v == Min(Undone(rec.active))
<1>1. /\ pc = "activateVolume" /\ ~All(rec.active)
      /\ UNCHANGED <<plan, sync, tools, shared, wl, pc, ret, interrupts, failures>>
  BY Zenon DEF ActivateVolume, Budget
<1>2. /\ v \in Volumes /\ ~rec.active[v]
  <2>1. Undone(rec.active) \subseteq Nat /\ Undone(rec.active) # {}
    BY <1>1, PodMigrationAssumption DEF Undone, All, Volumes
  <2>2. v \in Undone(rec.active)
    BY Zenon, <2>1, MinIn
  <2> QED BY Zenon, <2>2 DEF Undone
<1>3. ResumePhase(rec) = "Activating" /\ Dest = pc
  BY Zenon, <1>1, AtTable DEF IInv, Control, Dest, Detours
<1>4. Quiet /\ rec \in Status /\ claim \in [Volumes -> {"src", "none", "dst"}] /\ SwapInv
  BY Zenon, <1>3 DEF IInv, RestInv, Resting, TypeOK
<1>5. \A w \in Volumes : sync[w] = "equal"
  BY Zenon, <1>3 DEF IInv, CopyInv, All
<1> HIDE DEF v
<1>6. CASE UNCHANGED rec /\ claim[v] # "dst" /\ \E c \in {"none", "dst"} : claim' = [claim EXCEPT ![v] = c]
  <2>1. /\ claim' \in [Volumes -> {"src", "none", "dst"}]
        /\ \A w \in Volumes : w # v => claim'[w] = claim[w]
    BY Zenon, <1>2, <1>4, <1>6
  <2>2. SwapInv'
    <3>1. \A w \in Volumes : ~rec.rolledBack[w]
      BY Zenon, <1>3, <1>4 DEF SwapInv, Every
    <3> QED BY ZenonT(30), <1>1, <1>2, <1>3, <1>4, <1>6, <2>1, <3>1 DEF SwapInv, Early,
               PausedPhases
  <2>3. NoLostWrites'
    BY Zenon, <1>1, <1>5 DEF NoLostWrites
  <2> QED BY Zenon, <1>1, <1>4, <1>6, <2>1, <2>2, <2>3, SwapStep
<1>7. CASE UNCHANGED claim /\ claim[v] = "dst" /\ rec' = [rec EXCEPT !.active[v] = TRUE]
  <2>1. /\ rec' \in Status /\ rec'.phase = rec.phase /\ rec'.resumeFrom = rec.resumeFrom
        /\ rec'.history = rec.history /\ rec'.mounts = rec.mounts /\ rec'.passes = rec.passes
        /\ rec'.finalDone = rec.finalDone /\ rec'.rolledBack = rec.rolledBack
        /\ \A w \in Volumes : rec'.active[w] => w = v \/ rec.active[w]
    BY Zenon, <1>2, <1>4, <1>7 DEF Status
  <2>2. ResumePhase(rec') = "Activating" /\ Dest' = Dest
    BY Zenon, <1>1, <1>3, <2>1 DEF ResumePhase, Dest
  <2>3. SwapInv'
    BY Zenon, <1>3, <1>4, <1>7, <2>1, <2>2 DEF SwapInv, Early, PausedPhases
  <2>4. NoLostWrites'
    BY Zenon, <1>1, <1>7 DEF IInv, NoLostWrites
  <2> QED BY ZenonT(30), <1>1, <1>4, <1>7, <2>1, <2>3, <2>4, SwapStep
<1> QED BY Zenon, <1>6, <1>7 DEF ActivateVolume, v

\* rollback swaps one claim back, or records that it is swapped back.
LEMMA RollbackVolumeKeeps == ASSUME IInv, RollbackVolume PROVE IInv'
<1> DEFINE v == Max(Undone(rec.rolledBack))
<1>1. /\ pc = "rollbackVolume" /\ ~All(rec.rolledBack)
      /\ UNCHANGED <<plan, sync, tools, shared, wl, pc, ret, interrupts, failures>>
  BY Zenon DEF RollbackVolume, Budget
<1>2. /\ v \in Volumes /\ ~rec.rolledBack[v]
  <2>1. Undone(rec.rolledBack) \subseteq 0..VolumeCount /\ Undone(rec.rolledBack) # {}
    BY <1>1, PodMigrationAssumption DEF Undone, All, Volumes
  <2>2. v \in Undone(rec.rolledBack)
    BY Zenon, <2>1, MaxIn, PodMigrationAssumption
  <2> QED BY Zenon, <2>2 DEF Undone
<1>3. ResumePhase(rec) = "RollingBack" /\ Dest = pc
  BY Zenon, <1>1, AtTable DEF IInv, Control, Dest, Detours
<1>4. Quiet /\ rec \in Status /\ claim \in [Volumes -> {"src", "none", "dst"}] /\ SwapInv
  BY Zenon, <1>1 DEF IInv, RestInv, TypeOK
<1> HIDE DEF v
<1>5. CASE UNCHANGED rec /\ \E c \in {"none", "src"} : claim' = [claim EXCEPT ![v] = c]
  <2>1. /\ claim' \in [Volumes -> {"src", "none", "dst"}]
        /\ \A w \in Volumes : w # v => claim'[w] = claim[w]
        /\ claim'[v] # "dst"
    BY Zenon, <1>2, <1>4, <1>5
  <2>2. Dest' = Dest
    BY Zenon, <1>1 DEF Dest
  <2>3. SwapInv'
    BY ZenonT(30), <1>1, <1>2, <1>3, <1>4, <1>5, <2>1, <2>2 DEF SwapInv, Early, PausedPhases
  <2>4. NoLostWrites'
    BY Zenon, <1>1, <2>1 DEF IInv, NoLostWrites
  <2> QED BY Zenon, <1>1, <1>4, <1>5, <2>1, <2>3, <2>4, SwapStep
<1>6. CASE UNCHANGED claim /\ claim[v] = "src" /\ rec' = [rec EXCEPT !.rolledBack[v] = TRUE]
  <2>1. /\ rec' \in Status /\ rec'.phase = rec.phase /\ rec'.resumeFrom = rec.resumeFrom
        /\ rec'.history = rec.history /\ rec'.mounts = rec.mounts /\ rec'.passes = rec.passes
        /\ rec'.finalDone = rec.finalDone /\ rec'.active = rec.active
        /\ \A w \in Volumes : rec'.rolledBack[w] => w = v \/ rec.rolledBack[w]
    BY Zenon, <1>2, <1>4, <1>6 DEF Status
  <2>2. ResumePhase(rec') = "RollingBack" /\ Dest' = Dest
    BY Zenon, <1>1, <1>3, <2>1 DEF ResumePhase, Dest
  <2>3. SwapInv'
    BY ZenonT(30), <1>1, <1>3, <1>4, <1>6, <2>1, <2>2 DEF SwapInv, Early, PausedPhases
  <2>4. NoLostWrites'
    BY Zenon, <1>1, <1>6 DEF IInv, NoLostWrites
  <2> QED BY ZenonT(30), <1>1, <1>4, <1>6, <2>1, <2>3, <2>4, SwapStep
<1> QED BY Zenon, <1>5, <1>6 DEF RollbackVolume, v

\* A planned migration satisfies the invariant.
LEMMA InitInv == Init => IInv
<1> SUFFICES ASSUME Init PROVE IInv
  BY Zenon
<1>1. TypeOK
  <2>1. rec \in Status
    <3>1. <<"Planned">> \in Seq(Phases)
      BY DEF Phases
    <3> QED BY <3>1, PodMigrationAssumption, SMTT(60) DEF Init, Status, Phases, Every
  <2>2. wl \in Workload
    BY Zenon DEF Init, Workload, Every
  <2>3. /\ claim \in [Volumes -> {"src", "none", "dst"}]
        /\ sync \in [Volumes -> {"equal", "copying", "behind"}]
        /\ tools \in [Volumes -> SUBSET ({"warm", "final"} \X Nat)]
    BY Zenon DEF Init, Every
  <2>4. plan \in [adapter : Adapters, driver : Drivers, shared : SharedChoices,
                  manual : ManualChoices]
    BY Zenon DEF Init
  <2>5. shared \in BOOLEAN /\ pc \in Labels /\ ret \in Labels
    BY Zenon DEF Init, Labels
  <2>6. interrupts \in 0..MaxInterrupts /\ failures \in 0..MaxFailures
    BY PodMigrationAssumption DEF Init
  <2> QED BY ZenonT(30), <2>1, <2>2, <2>3, <2>4, <2>5, <2>6 DEF TypeOK
<1>2. ResumePhase(rec) = "Planned" /\ Dest = "idle" /\ tools = Every({})
  BY Zenon DEF Init, ResumePhase, Dest, Detours
<1>3. Control
  BY Zenon, <1>2, AtTable DEF Init, Control, Detours, Phases
<1>4. ToolsInv /\ CopyInv
  BY Zenon, <1>2 DEF Init, ToolsInv, CopyInv, Every
<1>5. SwapInv /\ RestInv
  BY Zenon, <1>2 DEF Init, SwapInv, RestInv, Resting, Every
<1>6. GivenBackInv
  BY Zenon, <1>2 DEF Init, GivenBackInv, Untouched
<1>7. SharedInv /\ NoLostWrites
  BY <1>2 DEF Init, SharedInv, Settling, Terminal, NoLostWrites, Every
<1> QED BY ZenonT(30), <1>1, <1>3, <1>4, <1>5, <1>6, <1>7 DEF IInv

\* Every step of the executor, the cluster and the application keeps the invariant.
LEMMA NextInv == IInv /\ [Next]_vars => IInv'
<1> SUFFICES ASSUME IInv, [Next]_vars PROVE IInv'
  BY Zenon
<1>1. CASE Entry
  BY Zenon, <1>1, StartRunKeeps, FailSourceDeletedKeeps, StartAbortKeeps, StartRollbackKeeps,
     ApprovePauseKeeps, ReactivateWorkflowKeeps DEF Entry
<1>2. CASE Stage
  BY Zenon, <1>2, RestoreKeeps, RestoredKeeps, PrepareKeeps, EnableSharedKeeps, ReserveKeeps,
     ReservingKeeps, ReserveVolumeKeeps, WarmCopyKeeps, WarmPrepareKeeps, WarmStartKeeps,
     FinalSyncKeeps, FinalStartKeeps, CopyAttemptKeeps, CreateToolsKeeps, CopySucceedsKeeps,
     CopiedKeeps, CopiesDoneKeeps, WarmedKeeps, CutoverKeeps, ProbeKeeps, PauseKeeps,
     PauseWorkloadKeeps, PausedKeeps, ActivateKeeps, ActivatingKeeps, ActivateVolumeKeeps,
     ActivatedKeeps, ResumeKeeps, ResumingKeeps, ResumeWorkloadKeeps, AwaitReadyKeeps,
     ResumedKeeps, AbortKeeps, AbortToolsKeeps, RollbackKeeps, RollingBackKeeps,
     RollbackVolumeKeeps, RolledBackKeeps, ResumeFailsKeeps, RefuseKeeps DEF Stage
<1>3. CASE CopyRetries \/ CopyFails \/ Fail \/ Interrupt \/ Environment
  BY ZenonT(30), <1>3, CopyRetriesKeeps, CopyFailsKeeps, FailKeeps, InterruptKeeps, EnvironmentKeeps
<1>4. CASE UNCHANGED vars
  <2>1. /\ UNCHANGED <<plan, rec, claim, sync, tools, shared, interrupts, failures>>
        /\ wl' = wl /\ pc' = pc /\ ret' = ret /\ Dest' = Dest
    BY Zenon, <1>4 DEF vars, Dest
  <2>2. wl' \in Workload /\ (Quiet => Quiet')
    BY Zenon, <2>1 DEF IInv, TypeOK, Quiet
  <2>3. RestInv' /\ GivenBackInv'
    BY Zenon, <2>1 DEF IInv, RestInv, GivenBackInv, Quiet, Untouched
  <2> QED BY Zenon, <2>1, <2>2, <2>3, WorkloadStep
<1> QED BY Zenon, <1>1, <1>2, <1>3, <1>4 DEF Next

\* The invariant holds in every reachable state, for every number of volumes and warm
\* passes, every kind of workload, and any number of interruptions and failures.
THEOREM Invariance == Spec => []IInv
BY InitInv, NextInv, PTL DEF Spec

\* NoLostWrites: whatever the workload wrote is on the volume that its claim leads to,
\* so no order of interruptions, retries, aborts and rollbacks makes the executor swap in
\* a destination that is behind its source.
THEOREM NoWriteIsLost == Spec => []NoLostWrites
<1>1. IInv => NoLostWrites
  BY DEF IInv
<1> QED BY <1>1, Invariance, PTL

\* CopiesExclusive: a volume has the copy tools of at most one attempt, they exist only
\* while the claim still leads to the source, and a final copy runs only while the
\* workload's pod is down.
THEOREM CopiesAreExclusive == Spec => []CopiesExclusive
<1>1. ASSUME IInv, NEW v \in Volumes, tools[v] # {}
      PROVE  /\ Cardinality(tools[v]) <= 1 /\ claim[v] = "src"
             /\ \A t \in tools[v] : t[1] = "final" => wl.pod = "down"
  <2>1. PICK mode \in {"warm", "final"} :
           /\ tools[v] = {<<mode, rec.attempts[v]>>}
           /\ \/ ResumePhase(rec) = "WarmCopying" /\ mode = "warm" /\ ~rec.warmDone[v]
              \/ ResumePhase(rec) = "FinalSyncing" /\ mode = "final" /\ ~rec.finalDone[v]
              \/ ResumePhase(rec) = "Aborting" /\ (mode = "final" => Quiet)
    BY Zenon, <1>1 DEF IInv, ToolsInv
  <2>2. Cardinality(tools[v]) = 1
    BY Zenon, <2>1, FS_Singleton
  <2>3. claim[v] = "src"
    BY Zenon, <1>1, <2>1 DEF IInv, SwapInv, Every
  <2>4. mode = "final" => wl.pod = "down"
    BY Zenon, <1>1, <2>1 DEF IInv, RestInv, Resting, Quiet
  <2> QED BY <2>1, <2>2, <2>3, <2>4
<1>2. ASSUME IInv, NEW v \in Volumes, tools[v] = {}
      PROVE  Cardinality(tools[v]) <= 1
  BY <1>2, FS_EmptySet
<1>3. IInv => CopiesExclusive
  BY <1>1, <1>2 DEF CopiesExclusive, OneWriter, FinalToolsAlone
<1> QED BY <1>3, Invariance, PTL

\* NothingHalfDone: a shared LVM volume is always recorded in the status, and a workflow
\* in a terminal phase leaves no copy tool, no shared mount, no ownership mark and no
\* claim between the two volumes behind.
THEOREM NothingIsLeftHalfDone == Spec => []NothingHalfDone
<1>1. IInv => NothingHalfDone
  <2> SUFFICES ASSUME IInv PROVE NothingHalfDone
    BY Zenon
  <2>1. SharedRecorded
    BY Zenon DEF IInv, SharedInv, SharedRecorded
  <2>2. ASSUME rec.phase \in Terminal PROVE ResumePhase(rec) = rec.phase
    BY Zenon, <2>2 DEF ResumePhase, Terminal
  <2>3. ASSUME rec.phase \in Terminal PROVE tools = Every({})
    <3>1. \A v \in Volumes : tools[v] = {}
      BY ZenonT(30), <2>2, <2>3 DEF IInv, ToolsInv, Terminal
    <3> QED BY Zenon, <3>1 DEF IInv, TypeOK, Every
  <2>4. SettledWhole
    BY ZenonT(30), <2>2, <2>3 DEF IInv, SettledWhole, GivenBackInv, Untouched, SharedInv, SwapInv,
       Terminal
  <2> QED BY <2>1, <2>4 DEF NothingHalfDone
<1> QED BY <1>1, Invariance, PTL

\* The steps that change the workload.
LEMMA WorkloadWriters ==
    ASSUME Next, wl' # wl
    PROVE  PauseWorkload \/ ResumeWorkload \/ AwaitReady \/ ScaleDown \/ Terminated \/ ScaleUp
<1> USE DEF Cluster
<1>1. CASE Entry
  BY Zenon, <1>1 DEF Entry, StartRun, FailSourceDeleted, StartAbort, StartRollback,
     ApprovePause, ReactivateWorkflow
<1>2. CASE CopyRetries \/ CopyFails \/ Fail \/ Interrupt
  BY Zenon, <1>2 DEF CopyRetries, CopyFails, Fail, Interrupt
<1>3. CASE Environment
  BY Zenon, <1>3 DEF Environment, Write
<1>4. CASE Restore \/ Restored \/ Prepare \/ EnableShared \/ Reserve \/ Reserving \/ ReserveVolume
           \/ WarmCopy \/ WarmPrepare \/ WarmStart \/ FinalSync \/ FinalStart
  BY Zenon, <1>4 DEF Restore, Restored, Prepare, EnableShared, Reserve, Reserving, ReserveVolume,
     WarmCopy, WarmPrepare, WarmStart, FinalSync, FinalStart
<1>5. CASE CopyAttempt \/ CreateTools \/ CopySucceeds \/ Copied \/ CopiesDone \/ Warmed
           \/ Cutover \/ Probe \/ Pause \/ Paused
  BY Zenon, <1>5 DEF CopyAttempt, CreateTools, CopySucceeds, Copied, CopiesDone, Warmed,
     Cutover, Probe, Pause, Paused
<1>6. CASE Activate \/ Activating \/ ActivateVolume \/ Activated \/ Resume \/ Resuming \/ Resumed
           \/ Abort \/ AbortTools \/ Rollback \/ RollingBack \/ RollbackVolume \/ RolledBack
           \/ ResumeFails \/ Refuse
  BY Zenon, <1>6 DEF Activate, Activating, ActivateVolume, Activated, Resume, Resuming,
     Resumed, Abort, AbortTools, Rollback, RollingBack, RollbackVolume, RolledBack,
     ResumeFails, Refuse
<1> QED BY ZenonT(30), <1>1, <1>2, <1>3, <1>4, <1>5, <1>6 DEF Next, Stage

\* ResumesWhole: the workload gets its replicas back only when no copy tool exists, and
\* a pod starts only on claims that all lead to the source or all to the destination.
THEOREM ResumesOnlyWhole == Spec => ResumesWhole
<1> DEFINE Whole == /\ ~wl.desired /\ wl'.desired => tools = Every({})
                    /\ wl.pod # "up" /\ wl'.pod = "up" =>
                          wl'.mount \in {Every("src"), Every("dst")}
<1>1. ASSUME IInv, Next, wl' # wl PROVE Whole
  <2>1. wl \in Workload
    BY Zenon, <1>1 DEF IInv, TypeOK
  <2>2. CASE PauseWorkload \/ AwaitReady \/ ScaleDown \/ Terminated
    BY ZenonT(30), <2>1, <2>2 DEF PauseWorkload, PausedWorkload, AwaitReady, ScaleDown,
       Terminated, Workload
  <2>3. CASE ResumeWorkload
    <3>1. tools = Every({})
      BY Zenon, <1>1, <2>3, NoTools DEF ResumeWorkload, Dest, Detours
    <3>2. wl'.pod = wl.pod
      BY Zenon, <2>1, <2>3 DEF ResumeWorkload, ResumedWorkload, Workload
    <3> QED BY Zenon, <3>1, <3>2
  <2>4. CASE ScaleUp
    <3>1. wl'.desired = wl.desired /\ wl'.mount = claim /\ wl.desired
      BY Zenon, <2>1, <2>4 DEF ScaleUp, Workload
    <3>2. claim \in {Every("src"), Every("dst")}
      <4>1. CASE ResumePhase(rec) = "RollingBack" /\ All(rec.rolledBack)
        BY ZenonT(30), <1>1, <4>1 DEF IInv, SwapInv, TypeOK, All, Every
      <4>2. CASE ResumePhase(rec) # "RollingBack" \/ ~All(rec.rolledBack)
        BY ZenonT(30), <1>1, <3>1, <4>2 DEF IInv, SwapInv, RestInv, Quiet, Resting
      <4> QED BY Zenon, <4>1, <4>2
    <3> QED BY Zenon, <3>1, <3>2
  <2> QED BY ZenonT(30), <1>1, <2>2, <2>3, <2>4, WorkloadWriters
<1>2. ASSUME wl' = wl PROVE Whole
  BY Zenon, <1>2
<1>3. IInv /\ [Next]_vars => [Whole]_vars
  BY <1>1, <1>2 DEF vars
<1> QED BY <1>3, Invariance, PTL DEF Spec, ResumesWhole

=============================================================================
