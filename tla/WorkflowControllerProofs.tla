----------------------- MODULE WorkflowControllerProofs -----------------------
(***************************************************************************)
(* The proofs of WorkflowController: what an execution touched is never    *)
(* left without its finalizer, and a pass acts for the object and the      *)
(* request it was admitted with, for every number of edits, aborts,        *)
(* resumes, deletions, recreations under the same name and crashes.        *)
(*                                                                         *)
(* Three mechanisms carry the argument.  A copy with the current           *)
(* resourceVersion was decided upon as it is now, so that what the         *)
(* decision read still holds when the pass writes (PassOK, for a fresh     *)
(* pass).  A stale pass that finalizes can only meet its own object, which *)
(* is being deleted and stays so, or one with another UID (PassOK, for     *)
(* Finalizing).  And the steps under the session Lease are those of one    *)
(* worker.                                                                 *)
(***************************************************************************)
EXTENDS WorkflowController, TLAPS

\* The steps after the object was protected ...
Working == ActivePcs \ {"loaded"}
\* ... those of an object that is being deleted ...
Finalizing == {"finalize", "finalizing", "release"}
\* ... and those under the session Lease.
Holding == {"aborting", "planning", "running", "finalizing"}

Pass == [pc : Pcs, uid : Nat, fresh : BOOLEAN, stop : BOOLEAN]
Objects == WorkflowObject \cup {NoObject}

\* What holds of the object between any two writes: only the finalizer lets a
\* deletion timestamp be seen, a planned workflow has a phase to resume from,
\* and an unedited rename has the spec its plan was made from.
RecordOK(o) ==
    o # NoObject =>
        /\ o.deleting => o.protected
        /\ o.admitted # None => o.phase # Unset /\ (o.phase = "Failed" => o.resume # Unset)
        /\ (o.kind = "Rename" /\ o.admitted # None /\ ~o.corrected) => o.spec = o.admitted

\* What the pass p of queue q knows of the object o, the Lease l and the
\* unfinalized work t.
PassOK(q, p, o, l, t) ==
    /\ p.fresh => o # NoObject /\ o.uid = p.uid
    /\ (p.fresh /\ p.pc \in Working) => o.protected /\ ~o.deleting
    /\ (p.fresh /\ p.pc \in {"plan", "planning"}) => o.admitted = None
    /\ (p.fresh /\ p.pc \in {"run", "running"}) => o.admitted # None /\ ~executionIntentMutated(o)
    /\ (p.fresh /\ p.pc = "mutated") => o.kind # "Rename"
    /\ (p.pc \in Finalizing /\ o # NoObject /\ o.uid = p.uid) => o.deleting
    /\ p.pc = "release" => p.uid \notin t
    /\ p.pc \in Holding => l = q

\* UIDs are never given out twice.
UidsGiven ==
    /\ Exists => obj.uid <= used.uids
    /\ \A q \in Queues : pass[q].uid <= used.uids

IInv ==
    /\ TypeOK
    /\ UidsGiven
    /\ RecordOK(obj)
    /\ NothingUnfinalized
    /\ \A q \in Queues : PassOK(q, pass[q], obj, lease, touched)

-----------------------------------------------------------------------------
(* The operators of the record.                                            *)

\* The request, the plan and the metadata of deletion are the same.
SameRequest(o, p) ==
    /\ p.kind = o.kind /\ p.uid = o.uid /\ p.spec = o.spec /\ p.corrected = o.corrected
    /\ p.admitted = o.admitted /\ p.protected = o.protected /\ p.deleting = o.deleting

\* The smaller of two numbers is one of them, and no larger than the other.
LEMMA MinOfTwo ==
    ASSUME NEW a \in Int, NEW b \in Int
    PROVE  Min({a, b}) \in {a, b} /\ Min({a, b}) <= a /\ Min({a, b}) <= b
<1>1. \E x \in {a, b} : \A y \in {a, b} : x <= y
  <2>1. CASE a <= b
    BY <2>1
  <2>2. CASE b <= a
    BY <2>2
  <2> QED BY <2>1, <2>2
<1> QED BY Zenon, <1>1 DEF Min

\* The larger of two numbers is one of them.
LEMMA MaxOfTwo ==
    ASSUME NEW a \in Int, NEW b \in Int
    PROVE  Max({a, b}) \in {a, b}
<1>1. \E x \in {a, b} : \A y \in {a, b} : x >= y
  <2>1. CASE a >= b
    BY <2>1
  <2>2. CASE b >= a
    BY <2>2
  <2> QED BY <2>1, <2>2
<1> QED BY Zenon, <1>1 DEF Max

\* The smallest of three numbers is one of them, and no larger than the second.
LEMMA MinOfThree ==
    ASSUME NEW a \in Int, NEW b \in Int, NEW c \in Int
    PROVE  Min({a, b, c}) \in {a, b, c} /\ Min({a, b, c}) <= b
<1>1. \E x \in {a, b, c} : \A y \in {a, b, c} : x <= y
  <2>1. CASE a <= b /\ a <= c
    BY <2>1
  <2>2. CASE b <= a /\ b <= c
    BY <2>2
  <2>3. CASE c <= a /\ c <= b
    BY <2>3
  <2> QED BY <2>1, <2>2, <2>3
<1> QED BY Zenon, <1>1 DEF Min

\* The delay of a planning retry is bounded by the window of the retries.
LEMMA RetryDelay ==
    ASSUME NEW o \in WorkflowObject
    PROVE  evaluatePlanningRetry(o).delay \in 0..RetryWindow
<1> DEFINE interval == RetryInterval(o.age)
<1>1. o.age \in Int /\ o.since \in Int /\ 0 <= o.since
  BY RetryAssumption DEF WorkflowObject
<1>2. Max({o.age \div 4, RetryFloor}) \in Int
  <2>1. o.age \div 4 \in Int
    BY <1>1
  <2> QED BY <2>1, MaxOfTwo, RetryAssumption
<1>3. interval \in Int /\ interval <= RetryCap
  <2> DEFINE m == Max({o.age \div 4, RetryFloor})
             w == RetryWindow - o.age
  <2>1. m \in Int /\ w \in Int /\ RetryCap \in Int
    BY <1>1, <1>2, RetryAssumption
  <2>2. interval = Min({m, RetryCap, w})
    BY Zenon DEF RetryInterval
  <2> HIDE DEF m, w, interval
  <2>3. Min({m, RetryCap, w}) \in {m, RetryCap, w} /\ Min({m, RetryCap, w}) <= RetryCap
    BY Zenon, <2>1, MinOfThree
  <2> QED BY Zenon, <2>1, <2>2, <2>3
<1>4. o.since < interval => interval - o.since \in 0..RetryWindow
  <2> HIDE DEF interval
  <2> QED BY <1>1, <1>3, RetryAssumption
<1> QED BY <1>4, RetryAssumption DEF evaluatePlanningRetry

\* A status transition leaves the request alone.
LEMMA TransitionFields ==
    ASSUME NEW o \in WorkflowObject, NEW next \in Phases
    PROVE  LET n == RecordWorkflowTransition(o, next)
           IN  /\ n \in WorkflowObject /\ SameRequest(o, n) /\ n.phase = next
               /\ (next = "Failed" /\ o.phase # "Failed") => n.resume = o.phase
               /\ (next = "Failed" /\ o.phase = "Failed") => n.resume = o.resume
<1>1. CASE o.phase = next
  BY Zenon, <1>1 DEF RecordWorkflowTransition, SameRequest
<1>2. CASE o.phase # next
  <2>1. 0 \in 0..RetryWindow /\ "none" \in Causes
    BY RetryAssumption DEF Causes
  <2> QED BY Zenon, <1>2, <2>1 DEF RecordWorkflowTransition, WorkflowObject, SameRequest
<1> QED BY Zenon, <1>1, <1>2

\* The failure of an executor leaves the request alone.
LEMMA FailureFields ==
    ASSUME NEW o \in WorkflowObject, NEW cause \in Causes
    PROVE  LET n == recordWorkflowFailure(o, cause)
           IN  /\ n \in WorkflowObject /\ SameRequest(o, n) /\ n.phase = "Failed"
               /\ n.resume = IF o.phase = "Failed" THEN o.resume ELSE o.phase
<1> DEFINE c == [o EXCEPT !.cause = cause]
<1>1. c \in WorkflowObject /\ SameRequest(o, c) /\ c.phase = o.phase /\ c.resume = o.resume
  BY Zenon DEF WorkflowObject, SameRequest
<1>2. "Failed" \in Phases
  BY Zenon DEF Phases
<1> HIDE DEF c
<1>3. LET n == RecordWorkflowTransition(c, "Failed")
      IN  /\ n \in WorkflowObject /\ SameRequest(c, n) /\ n.phase = "Failed"
          /\ c.phase # "Failed" => n.resume = c.phase
          /\ c.phase = "Failed" => n.resume = c.resume
  BY Zenon, <1>1, <1>2, TransitionFields
<1>4. recordWorkflowFailure(o, cause) = RecordWorkflowTransition(c, "Failed")
  BY Zenon DEF recordWorkflowFailure, c
<1> QED BY Zenon, <1>1, <1>3, <1>4 DEF SameRequest

\* A resume goes back to the phase that was interrupted.
LEMMA ReactivateFields ==
    ASSUME NEW o \in WorkflowObject
    PROVE  LET n == ReactivateWorkflow(o)
           IN  n \in WorkflowObject /\ SameRequest(o, n) /\ n.phase = o.resume /\ n.resume = o.resume
<1>1. 0 \in 0..RetryWindow /\ "none" \in Causes
  BY RetryAssumption DEF Causes
<1> QED BY Zenon, <1>1 DEF ReactivateWorkflow, WorkflowObject, SameRequest

\* A plan is made from the request as it is, and only once.
LEMMA PlanFields ==
    ASSUME NEW o \in WorkflowObject, NEW cause \in Causes
    PROVE  LET n == savePlannedWorkflow(o, cause)
           IN  /\ n \in WorkflowObject
               /\ n.kind = o.kind /\ n.uid = o.uid /\ n.spec = o.spec
               /\ n.protected = o.protected /\ n.deleting = o.deleting
               /\ n.admitted \in {o.admitted, o.spec}
               /\ o.admitted # None => n.admitted = o.admitted
               /\ n.phase = IF cause = "none" THEN "Planned" ELSE "Failed"
               /\ n.phase = "Failed" => n.resume = "Planned"
<1> DEFINE r == recordPlanningOutcome(o, cause)
<1>1. /\ r \in WorkflowObject
      /\ r.kind = o.kind /\ r.uid = o.uid /\ r.spec = o.spec
      /\ r.protected = o.protected /\ r.deleting = o.deleting /\ r.admitted = o.admitted
      /\ r.phase = IF cause = "none" THEN "Planned" ELSE "Failed"
      /\ r.phase = "Failed" => r.resume = "Planned"
  <2>1. 0 \in 0..RetryWindow /\ {"Planned", "Failed", Unset} \subseteq Phases
    BY RetryAssumption DEF Phases
  <2> QED BY ZenonT(30), <2>1 DEF recordPlanningOutcome, WorkflowObject
<1>2. savePlannedWorkflow(o, cause) =
        IF cause # "none" \/ o.admitted # None THEN r ELSE [r EXCEPT !.admitted = o.spec]
  BY Zenon DEF savePlannedWorkflow
<1>3. o.spec \in {1, 2}
  BY Zenon DEF WorkflowObject
<1> HIDE DEF r
<1>4. CASE cause # "none" \/ o.admitted # None
  BY Zenon, <1>1, <1>2, <1>4
<1>5. CASE ~(cause # "none" \/ o.admitted # None)
  BY ZenonT(60), <1>1, <1>2, <1>3, <1>5 DEF WorkflowObject
<1> QED BY Zenon, <1>4, <1>5

\* The checkpoint of a changed request keeps the plan.
LEMMA MutationFields ==
    ASSUME NEW o \in WorkflowObject
    PROVE  LET n == recordPlanningFailureForMutation(o)
           IN  /\ n \in WorkflowObject
               /\ n.kind = o.kind /\ n.uid = o.uid /\ n.spec = o.spec /\ n.admitted = o.admitted
               /\ n.protected = o.protected /\ n.deleting = o.deleting
               /\ n.phase = "Failed"
               /\ (o.phase # Unset /\ (o.phase = "Failed" => o.resume # Unset)) => n.resume # Unset
<1>1. 0 \in 0..RetryWindow /\ "Failed" \in Phases /\ "durable" \in Causes
  BY RetryAssumption DEF Phases, Causes
<1> QED BY Zenon, <1>1 DEF recordPlanningFailureForMutation, WorkflowObject

\* Time leaves the request and the phase alone.
LEMMA AgedFields ==
    ASSUME NEW o \in WorkflowObject
    PROVE  LET n == Aged(o)
           IN  n \in WorkflowObject /\ SameRequest(o, n) /\ n.phase = o.phase /\ n.resume = o.resume
<1>1. o.age \in 0..RetryWindow /\ o.since \in 0..RetryWindow
  BY Zenon DEF WorkflowObject
<1>2. Min({o.age + 1, RetryWindow}) \in 0..RetryWindow
  <2>1. o.age + 1 \in Int /\ RetryWindow \in Int
    BY <1>1, RetryAssumption
  <2>2. Min({o.age + 1, RetryWindow}) \in {o.age + 1, RetryWindow}
        /\ Min({o.age + 1, RetryWindow}) <= RetryWindow
    BY Zenon, <2>1, MinOfTwo
  <2> QED BY <1>1, <2>1, <2>2, RetryAssumption
<1>3. Min({o.since + 1, RetryWindow}) \in 0..RetryWindow
  <2>1. o.since + 1 \in Int /\ RetryWindow \in Int
    BY <1>1, RetryAssumption
  <2>2. Min({o.since + 1, RetryWindow}) \in {o.since + 1, RetryWindow}
        /\ Min({o.since + 1, RetryWindow}) <= RetryWindow
    BY Zenon, <2>1, MinOfTwo
  <2> QED BY <1>1, <2>1, <2>2, RetryAssumption
<1> QED BY Zenon, <1>2, <1>3 DEF Aged, WorkflowObject, SameRequest

\* The finalizer is all that protecting the object changes.
LEMMA ProtectFields ==
    ASSUME NEW o \in WorkflowObject
    PROVE  LET n == EnsureProtection(o)
           IN  /\ n \in WorkflowObject /\ n.protected
               /\ n.kind = o.kind /\ n.uid = o.uid /\ n.spec = o.spec /\ n.corrected = o.corrected
               /\ n.admitted = o.admitted /\ n.deleting = o.deleting
               /\ n.phase = o.phase /\ n.resume = o.resume
BY Zenon DEF EnsureProtection, WorkflowObject

\* The terminal marker of planning leaves the request and the phase alone.
LEMMA ExhaustFields ==
    ASSUME NEW o \in WorkflowObject
    PROVE  LET n == markPlanningRetriesExhausted(o)
           IN  n \in WorkflowObject /\ SameRequest(o, n) /\ n.phase = o.phase /\ n.resume = o.resume
<1>1. 0 \in 0..RetryWindow
  BY RetryAssumption
<1> QED BY Zenon, <1>1 DEF markPlanningRetriesExhausted, WorkflowObject, SameRequest

\* What the controllers decide, and what a decision to plan, to execute or to
\* checkpoint a mutation says of the object it was made on.
LEMMA Dispatch ==
    ASSUME NEW o \in WorkflowObject
    PROVE  /\ kindReconcile(o) \in {"end", "wait", "exhaust", "abort", "plan", "mutated", "run"}
           /\ kindReconcile(o) = "plan" => o.admitted = None
           /\ kindReconcile(o) = "run" => o.admitted # None /\ ~executionIntentMutated(o)
           /\ kindReconcile(o) = "mutated" => o.kind # "Rename"
<1>1. planningFailureGate(o) \in {"end", "wait", "exhaust", "through"}
  BY Zenon DEF planningFailureGate
<1>2. failedStop(o) => planningFailureGate(o) # "through"
  BY Zenon DEF failedStop
<1>3. /\ planOrExecute(o) \in {"plan", "mutated", "run"}
      /\ planOrExecute(o) = "plan" => o.admitted = None
      /\ planOrExecute(o) = "run" => o.admitted # None /\ ~executionIntentMutated(o)
      /\ planOrExecute(o) = "mutated" => executionIntentMutated(o)
  BY Zenon DEF planOrExecute
<1>4. executionIntentMutated(o) => o.kind # "Rename"
  BY Zenon DEF executionIntentMutated
<1>5. kindReconcile(o) \in {reconcileMigration(o), reconcileRename(o), reconcileBackup(o)}
  BY Zenon DEF kindReconcile, WorkflowObject, Kinds
<1>6. reconcileMigration(o) \in {"abort", "end", planOrExecute(o)}
      \/ (failedStop(o) /\ reconcileMigration(o) = planningFailureGate(o))
  BY Zenon DEF reconcileMigration
<1>7. reconcileRename(o) \in {"end", planOrExecute(o)}
      \/ (failedStop(o) /\ reconcileRename(o) = planningFailureGate(o))
  BY Zenon DEF reconcileRename
<1>8. reconcileBackup(o) \in {"abort", "end", planOrExecute(o)}
      \/ (failedStop(o) /\ reconcileBackup(o) = planningFailureGate(o))
  BY Zenon DEF reconcileBackup
<1> QED BY Zenon, <1>1, <1>2, <1>3, <1>4, <1>5, <1>6, <1>7, <1>8

-----------------------------------------------------------------------------
(* What a write does to the passes that did not make it.                   *)

\* The object p takes the place of o, when UIDs up to n were given out.
Succeeds(o, p, n) ==
    p # NoObject => IF o = NoObject THEN p.uid > n
                    ELSE p.uid = o.uid /\ (o.deleting => p.deleting)

\* A pass whose copy is stale, or whose object only aged, knows what it knew.
LEMMA PassKept ==
    ASSUME NEW q \in Queues, NEW p \in Pass, NEW r \in Pass, NEW o \in Objects, NEW s \in Objects,
           NEW l, NEW m, NEW t, NEW u, NEW n \in Nat,
           PassOK(q, p, o, l, t), p.uid <= n, Succeeds(o, s, n),
           r.pc = p.pc, r.uid = p.uid, r.fresh => p.fresh /\ s # NoObject /\ SameRequest(o, s),
           l = q => m = q,
           p.pc = "release" /\ p.uid \notin t => p.uid \notin u
    PROVE  PassOK(q, r, s, m, u)
<1>1. s # NoObject => s.uid \in Nat
  BY Zenon DEF Objects, WorkflowObject, NoObject
<1>2. p.uid \in Nat
  BY Zenon DEF Pass
<1>3. /\ r.fresh => s # NoObject /\ s.uid = r.uid
      /\ (r.fresh /\ r.pc \in Working) => s.protected /\ ~s.deleting
      /\ (r.fresh /\ r.pc \in {"plan", "planning"}) => s.admitted = None
      /\ (r.fresh /\ r.pc \in {"run", "running"}) => s.admitted # None /\ ~executionIntentMutated(s)
      /\ (r.fresh /\ r.pc = "mutated") => s.kind # "Rename"
  BY Zenon DEF PassOK, SameRequest, executionIntentMutated
<1>4. (r.pc \in Finalizing /\ s # NoObject /\ s.uid = r.uid) => s.deleting
  BY <1>1, <1>2 DEF PassOK, Succeeds
<1>5. (r.pc = "release" => r.uid \notin u) /\ (r.pc \in Holding => m = q)
  BY Zenon DEF PassOK
<1> QED BY Zenon, <1>3, <1>4, <1>5 DEF PassOK

\* The object a pass or a user sees is typed, or missing.
LEMMA Typed ==
    ASSUME TypeOK
    PROVE  /\ obj \in Objects /\ (Exists => obj \in WorkflowObject)
           /\ pass \in [Queues -> Pass] /\ used.uids \in Nat
BY Zenon DEF TypeOK, Objects, Exists, Pass

\* An object has a UID, and a missing one is no object.
LEMMA NotMissing ==
    ASSUME NEW o \in WorkflowObject
    PROVE  o # NoObject
BY DEF WorkflowObject, NoObject

\* A step of the pass of w, or of a user w, preserves the invariant when the
\* other passes keep their places and lose their copies with a write.
LEMMA Frame ==
    ASSUME IInv, TypeOK', NEW w,
           RecordOK(obj'), Succeeds(obj, obj', used.uids),
           used'.uids >= used.uids, obj' # NoObject => obj'.uid <= used'.uids,
           \A x \in Queues \ {w} :
              /\ pass'[x].pc = pass[x].pc /\ pass'[x].uid = pass[x].uid
              /\ pass'[x].fresh => pass[x].fresh /\ obj' # NoObject /\ SameRequest(obj, obj')
              /\ lease = x => lease' = x
              /\ pass[x].pc = "release" /\ pass[x].uid \notin touched => pass[x].uid \notin touched',
           w \in Queues => pass'[w].uid <= used'.uids /\ PassOK(w, pass'[w], obj', lease', touched'),
           NothingUnfinalized'
    PROVE  IInv'
<1>1. /\ obj \in Objects /\ pass \in [Queues -> Pass] /\ used.uids \in Nat
      /\ obj' \in Objects /\ pass' \in [Queues -> Pass] /\ used'.uids \in Nat
  BY Zenon, Typed DEF IInv, TypeOK, Objects, Pass
<1>2. \A x \in Queues : pass[x].uid <= used.uids /\ pass[x].uid \in Nat
  BY Zenon, <1>1 DEF IInv, UidsGiven, Pass
<1>3. UidsGiven'
  BY <1>1, <1>2 DEF UidsGiven, Exists
<1>4. ASSUME NEW x \in Queues, x # w
      PROVE  PassOK(x, pass'[x], obj', lease', touched')
  <2>1. PassOK(x, pass[x], obj, lease, touched)
    BY Zenon DEF IInv
  <2>2. pass[x] \in Pass /\ pass'[x] \in Pass
    BY Zenon, <1>1
  <2> QED BY Zenon, <1>1, <1>2, <1>4, <2>1, <2>2, PassKept
<1> QED BY Zenon, <1>3, <1>4 DEF IInv

Timers == [Queues -> NoTimer..RetryWindow]
Usage == [kind : Kinds \cup {"none"}, uids : Nat, faults : Nat, aborts : Nat]

\* A write makes the copies of the other passes stale and nothing else.
LEMMA StaledFields ==
    ASSUME NEW p \in [Queues -> Pass], NEW w
    PROVE  /\ Staled(p, w) \in [Queues -> Pass]
           /\ \A x \in Queues : x = w => Staled(p, w)[x] = p[x]
           /\ \A x \in Queues \ {w} :
                 /\ Staled(p, w)[x].pc = p[x].pc /\ Staled(p, w)[x].uid = p[x].uid
                 /\ ~Staled(p, w)[x].fresh
BY Zenon DEF Staled, Pass

\* An idle worker knows nothing.
LEMMA IdleOK ==
    /\ Idle \in Pass /\ Idle.uid = 0
    /\ \A q, o, l, t : PassOK(q, Idle, o, l, t)
BY Zenon DEF Idle, Pass, Pcs, ActivePcs, None, PassOK, Working, Finalizing, Holding

\* The end of a pass, with or without a last write.
LEMMA EndOfPass ==
    ASSUME IInv, NEW q \in Queues,
           \/ pass' = [pass EXCEPT ![q] = Idle] /\ obj' = obj
           \/ pass' = Staled([pass EXCEPT ![q] = Idle], q),
           obj' \in Objects, ~Exists => obj' = NoObject,
           RecordOK(obj'), Succeeds(obj, obj', used.uids), NothingUnfinalized',
           lease' \in {lease, IF lease = q THEN "free" ELSE lease},
           \A x \in Queues \ {q} :
              pass[x].pc = "release" /\ pass[x].uid \notin touched => pass[x].uid \notin touched',
           ready' \subseteq Queues, timer' \in Timers, touched' \subseteq Nat,
           used' \in Usage, used'.uids = used.uids
    PROVE  IInv'
<1>1. /\ pass \in [Queues -> Pass] /\ used.uids \in Nat /\ obj \in Objects
      /\ lease \in Queues \cup {"free"}
  BY Zenon, Typed DEF IInv, TypeOK
<1> DEFINE all == [pass EXCEPT ![q] = Idle]
<1>2. all \in [Queues -> Pass] /\ all[q] = Idle /\ \A x \in Queues \ {q} : all[x] = pass[x]
  BY Zenon, <1>1, IdleOK
<1> HIDE DEF all
<1>3. /\ pass' \in [Queues -> Pass] /\ pass'[q] = Idle
      /\ \A x \in Queues \ {q} :
            /\ pass'[x].pc = pass[x].pc /\ pass'[x].uid = pass[x].uid
            /\ pass'[x].fresh => pass[x].fresh /\ obj' = obj
  <2>1. CASE pass' = all /\ obj' = obj
    BY Zenon, <1>2, <2>1
  <2>2. CASE pass' = Staled(all, q)
    BY <1>2, <2>2, StaledFields
  <2> QED BY Zenon, <2>1, <2>2 DEF all
<1>4. TypeOK'
  BY Zenon, <1>1, <1>3 DEF TypeOK, Objects, Pass, Timers, Usage
<1>5. obj' # NoObject => obj'.uid <= used'.uids
  BY Zenon DEF Succeeds, IInv, UidsGiven, Exists
<1>6. \A x \in Queues \ {q} : pass'[x].fresh => obj' # NoObject /\ SameRequest(obj, obj')
  BY Zenon, <1>3 DEF IInv, PassOK, SameRequest
<1>7. pass'[q].uid <= used'.uids /\ PassOK(q, pass'[q], obj', lease', touched')
  BY <1>1, <1>3, IdleOK
<1>8. \A x \in Queues \ {q} : lease = x => lease' = x
  BY Zenon
<1>9. used'.uids >= used.uids
  BY <1>1
<1> QED BY Zenon, <1>3, <1>4, <1>5, <1>6, <1>7, <1>8, <1>9, Frame

\* A pass that ends without a write.
LEMMA Ended ==
    ASSUME IInv, NEW q \in Queues,
           End(q) \/ EndStaling(q), Release(q), UNCHANGED <<obj, timer, touched>>,
           ready' \subseteq Queues, used' \in Usage, used'.uids = used.uids
    PROVE  IInv'
<1>1. /\ obj' \in Objects /\ RecordOK(obj') /\ timer' \in Timers /\ touched' \subseteq Nat
      /\ NothingUnfinalized'
  BY Zenon, Typed DEF IInv, TypeOK, Timers, NothingUnfinalized, Exists
<1>2. Succeeds(obj, obj', used.uids) /\ (~Exists => obj' = NoObject)
  BY Zenon DEF Succeeds, Exists
<1> QED BY Zenon, <1>1, <1>2, EndOfPass DEF End, EndStaling, Release

\* The two ways to end a pass early.
LEMMA EndedEarly ==
    ASSUME IInv, NEW q \in Queues, Done(q) \/ Again(q)
    PROVE  IInv'
<1>1. ready' \subseteq Queues /\ used' \in Usage /\ used'.uids = used.uids
  BY Zenon DEF Done, Again, Requeue, IInv, TypeOK, Usage
<1> QED BY Zenon, <1>1, Ended DEF Done, Again

\* A user or another client writes the object.
LEMMA UserStep ==
    ASSUME IInv, NEW new \in Objects, UserWrites(new), RecordOK(new),
           Succeeds(obj, new, used.uids), NothingUnfinalized',
           used' \in Usage, used'.uids >= used.uids, new # NoObject => new.uid <= used'.uids
    PROVE  IInv'
<1>1. pass \in [Queues -> Pass]
  BY Zenon, Typed DEF IInv
<1>2. obj' = new /\ pass' = Staled(pass, "user") /\ UNCHANGED <<lease, ready, timer, touched>>
  BY Zenon DEF UserWrites, Write
<1>3. "user" \notin Queues
  BY Zenon DEF Queues
<1>4. /\ pass' \in [Queues -> Pass]
      /\ \A x \in Queues : /\ pass'[x].pc = pass[x].pc /\ pass'[x].uid = pass[x].uid
                           /\ ~pass'[x].fresh
  BY <1>1, <1>2, <1>3, StaledFields
<1>5. TypeOK'
  BY Zenon, <1>2, <1>4 DEF IInv, TypeOK, Objects, Pass, Usage
<1> QED BY Zenon, <1>2, <1>3, <1>4, <1>5, Frame

-----------------------------------------------------------------------------
(* Every action preserves the invariant.                                   *)

\* Init: nothing exists and nobody works.
LEMMA InitIInv ==
    ASSUME Init
    PROVE  IInv
<1>1. None = 0 /\ ~Exists
  BY Zenon DEF Init, None, Exists
<1>2. TypeOK
  BY RetryAssumption, IdleOK DEF Init, TypeOK, NoTimer, Pass
<1>3. \A q \in Queues : pass[q] = Idle
  BY Zenon DEF Init
<1>4. UidsGiven /\ NothingUnfinalized /\ RecordOK(obj)
  BY <1>1, <1>3, IdleOK DEF Init, UidsGiven, NothingUnfinalized, RecordOK
<1> QED BY Zenon, <1>2, <1>3, <1>4, IdleOK DEF IInv

\* A step that leaves the object, the places, the Lease and the touched work.
LEMMA Unmoved ==
    ASSUME IInv, TypeOK', UNCHANGED <<obj, lease, touched, used>>,
           \A x \in Queues : /\ pass'[x].pc = pass[x].pc /\ pass'[x].uid = pass[x].uid
                            /\ pass'[x].fresh = pass[x].fresh
    PROVE  IInv'
BY Zenon DEF IInv, UidsGiven, NothingUnfinalized, Exists, PassOK

\* A cancellation stops passes and moves none.
LEMMA CancelFields ==
    ASSUME NEW p \in [Queues -> Pass], NEW u
    PROVE  LET c == cancelWorkflow(p, u)
           IN  /\ c \in [Queues -> Pass]
               /\ \A x \in Queues : /\ c[x].pc = p[x].pc /\ c[x].uid = p[x].uid
                                    /\ c[x].fresh = p[x].fresh
BY Zenon DEF cancelWorkflow, Pass

\* Deliver: a handler interrupts and enqueues.
LEMMA DeliverStep ==
    ASSUME IInv, NEW q \in Queues, Deliver(q)
    PROVE  IInv'
<1>1. pass \in [Queues -> Pass]
  BY Zenon, Typed DEF IInv
<1>2. /\ pass' \in [Queues -> Pass]
      /\ \A x \in Queues : /\ pass'[x].pc = pass[x].pc /\ pass'[x].uid = pass[x].uid
                           /\ pass'[x].fresh = pass[x].fresh
  BY Zenon, <1>1, CancelFields DEF Deliver
<1>3. TypeOK'
  BY Zenon, <1>2 DEF Deliver, IInv, TypeOK, Pass
<1> QED BY Zenon, <1>2, <1>3, Unmoved DEF Deliver

\* RequeueDue: a timer fires.
LEMMA RequeueDueStep ==
    ASSUME IInv, NEW q \in Queues, RequeueDue(q)
    PROVE  IInv'
<1>1. NoTimer \in NoTimer..RetryWindow
  BY RetryAssumption DEF NoTimer
<1>2. TypeOK'
  BY Zenon, <1>1 DEF RequeueDue, IInv, TypeOK
<1> QED BY Zenon, <1>2, Unmoved DEF RequeueDue

\* Reconcile: a worker takes the key and loads the object as it is.
LEMMA ReconcileStep ==
    ASSUME IInv, NEW q \in Queues, Reconcile(q)
    PROVE  IInv'
<1>1. /\ pass \in [Queues -> Pass] /\ UNCHANGED <<obj, lease, timer, touched, used>>
      /\ Exists => obj \in WorkflowObject
  BY Zenon, Typed DEF IInv, Reconcile
<1>2. CASE ~Exists /\ ready' = ready \ {q} /\ UNCHANGED pass
  <2>1. TypeOK'
    BY Zenon, <1>1, <1>2 DEF IInv, TypeOK
  <2> QED BY Zenon, <1>1, <1>2, <2>1, Unmoved
<1>3. ASSUME NEW base \in [Queues -> Pass], NEW pc \in {"finalize", "loaded"}, Exists,
             pc = "finalize" => obj.deleting, ready' = ready \ {q},
             \A x \in Queues : /\ base[x].pc = pass[x].pc /\ base[x].uid = pass[x].uid
                              /\ base[x].fresh = pass[x].fresh,
             pass' = [base EXCEPT ![q] = [pc |-> pc, uid |-> obj.uid, fresh |-> TRUE, stop |-> FALSE]]
      PROVE  IInv'
  <2> DEFINE mine == [pc |-> pc, uid |-> obj.uid, fresh |-> TRUE, stop |-> FALSE]
  <2>1. mine \in Pass
    BY Zenon, <1>1, <1>3 DEF Pass, WorkflowObject, Pcs, ActivePcs
  <2>2. PassOK(q, mine, obj, lease, touched)
    BY Zenon, <1>3 DEF PassOK, Exists, Working, Finalizing, Holding, ActivePcs
  <2>3. mine.uid = obj.uid
    BY Zenon
  <2> HIDE DEF mine
  <2>4. /\ pass' \in [Queues -> Pass] /\ pass'[q] = mine
        /\ \A x \in Queues \ {q} : /\ pass'[x].pc = pass[x].pc /\ pass'[x].uid = pass[x].uid
                                   /\ pass'[x].fresh = pass[x].fresh
    BY Zenon, <1>3, <2>1 DEF mine
  <2>5. TypeOK'
    BY Zenon, <1>1, <1>3, <2>4 DEF IInv, TypeOK, Pass
  <2> QED BY <1>1, <1>3, <2>2, <2>3, <2>4, <2>5
          DEF IInv, UidsGiven, NothingUnfinalized, Exists, PassOK
<1>4. CASE /\ Exists /\ obj.deleting /\ ready' = ready \ {q}
           /\ pass' = [cancelWorkflow(pass, obj.uid) EXCEPT ![q] =
                         [pc |-> "finalize", uid |-> obj.uid, fresh |-> TRUE, stop |-> FALSE]]
  BY ZenonT(60), <1>1, <1>3, <1>4, CancelFields
<1>5. CASE /\ Exists /\ ~obj.deleting /\ ready' = ready \ {q}
           /\ pass' = [pass EXCEPT ![q] =
                         [pc |-> "loaded", uid |-> obj.uid, fresh |-> TRUE, stop |-> FALSE]]
  BY Zenon, <1>1, <1>3, <1>5
<1> QED BY Zenon, <1>2, <1>4, <1>5 DEF Reconcile

\* WithWorkflowLease: the free Lease is taken with the copy that is current.
LEMMA LeaseStep ==
    ASSUME IInv, NEW q \in Queues, WithWorkflowLease(q)
    PROVE  IInv'
<1>1. pass \in [Queues -> Pass]
  BY Zenon, Typed DEF IInv
<1>2. CASE Done(q) \/ Again(q)
  BY Zenon, <1>2, EndedEarly
<1>3. CASE /\ lease = "free" /\ Exists /\ pass[q].fresh
           /\ lease' = q
           /\ Goto(q, Held[pass[q].pc])
           /\ UNCHANGED <<obj, ready, timer, events, touched, used>>
  <2> DEFINE pc == Held[pass[q].pc]
  <2>1. /\ pass[q].pc = "abort" => pc = "aborting"
        /\ pass[q].pc = "plan" => pc = "planning"
        /\ pass[q].pc = "run" => pc = "running"
        /\ pass[q].pc = "finalize" => pc = "finalizing"
        /\ pass[q].pc \in {"abort", "plan", "run", "finalize"}
    BY DEF WithWorkflowLease, Held
  <2>2. pc \in Pcs
    BY Zenon, <2>1 DEF Pcs, ActivePcs
  <2> HIDE DEF pc
  <2>3. /\ pass' \in [Queues -> Pass]
        /\ pass'[q].pc = pc /\ pass'[q].uid = pass[q].uid /\ pass'[q].fresh = pass[q].fresh
        /\ \A x \in Queues \ {q} : pass'[x] = pass[x]
    BY Zenon, <1>1, <1>3, <2>2 DEF Goto, Pass, pc
  <2>4. TypeOK'
    BY Zenon, <1>3, <2>3 DEF IInv, TypeOK, Pass
  <2>5. PassOK(q, pass[q], obj, lease, touched)
    BY Zenon DEF IInv
  <2>6. PassOK(q, pass'[q], obj', lease', touched')
    BY Zenon, <1>3, <2>1, <2>3, <2>5 DEF PassOK, Working, Finalizing, ActivePcs
  <2>7. \A x \in Queues \ {q} : PassOK(x, pass'[x], obj', lease', touched')
    <3>1. "free" \notin Queues
      BY Zenon DEF Queues
    <3> QED BY ZenonT(30), <1>3, <2>3, <3>1 DEF IInv, PassOK
  <2> QED BY Zenon, <1>3, <2>3, <2>4, <2>6, <2>7 DEF IInv, UidsGiven, NothingUnfinalized, Exists
<1> QED BY Zenon, <1>2, <1>3 DEF WithWorkflowLease

\* Interrupted: a cancelled pass ends, after a message at most.
LEMMA InterruptedStep ==
    ASSUME IInv, NEW q \in Queues, Interrupted(q)
    PROVE  IInv'
<1>1. CASE Done(q)
  BY Zenon, <1>1, EndedEarly
<1>2. CASE EndStaling(q) /\ Release(q) /\ UNCHANGED <<obj, ready, timer, events, touched, used>>
  <2>1. ready' \subseteq Queues /\ used' \in Usage /\ used'.uids = used.uids
    BY Zenon, <1>2 DEF IInv, TypeOK, Usage
  <2> QED BY Zenon, <1>2, <2>1, Ended
<1> QED BY Zenon, <1>1, <1>2 DEF Interrupted

\* A store accepts the write of a pass only for the object the pass loaded.
LEMMA CurrentFacts ==
    ASSUME IInv, NEW q \in Queues, Current(q)
    PROVE  /\ obj \in WorkflowObject /\ obj # NoObject /\ obj.uid = pass[q].uid
           /\ RecordOK(obj) /\ PassOK(q, pass[q], obj, lease, touched) /\ pass[q].fresh
BY Zenon, Typed DEF IInv, Current, PassOK, Exists

\* What was protected stays so under writes that keep the finalizer.
LEMMA StillProtected ==
    ASSUME NothingUnfinalized, NEW new \in WorkflowObject, obj' = new, touched' \subseteq touched,
           Exists => new.uid = obj.uid /\ (obj.protected => new.protected)
    PROVE  NothingUnfinalized'
BY Zenon, NotMissing DEF NothingUnfinalized, Exists

\* The timer of a planning retry stays within the window.
LEMMA RequeueAfterTyped ==
    ASSUME timer \in Timers, NEW q \in Queues, NEW delay \in 0..RetryWindow, RequeueAfter(q, delay)
    PROVE  timer' \in Timers
<1>1. timer[q] \in NoTimer..RetryWindow /\ timer[q] \in Int /\ delay \in Int
  BY RetryAssumption DEF Timers, NoTimer
<1>2. Min({timer[q], delay}) \in {timer[q], delay}
  BY Zenon, <1>1, MinOfTwo
<1>3. Min({timer[q], delay}) \in NoTimer..RetryWindow /\ delay \in NoTimer..RetryWindow
  BY <1>1, <1>2, RetryAssumption DEF NoTimer
<1> QED BY Zenon, <1>1, <1>3 DEF RequeueAfter, Timers

\* The last write of a pass, which keeps the identity and the finalizer.
LEMMA EndWriting ==
    ASSUME IInv, NEW q \in Queues, Exists, NEW new \in WorkflowObject,
           obj' = new, EndStaling(q), Release(q) \/ UNCHANGED lease, UNCHANGED <<touched, used>>,
           new.uid = obj.uid, new.protected = obj.protected, new.deleting = obj.deleting,
           RecordOK(new), ready' \subseteq Queues, timer' \in Timers
    PROVE  IInv'
<1>1. NothingUnfinalized'
  BY Zenon, StillProtected DEF IInv
<1>2. Succeeds(obj, obj', used.uids)
  BY Zenon DEF Succeeds, Exists
<1>3. touched' \subseteq Nat /\ used' \in Usage /\ used'.uids = used.uids /\ obj' \in Objects
  BY Zenon DEF IInv, TypeOK, Usage, Objects
<1> QED BY Zenon, <1>1, <1>2, <1>3, EndOfPass DEF EndStaling, Release

\* plan: a plan is made once, from the request of the current copy.
LEMMA PlanStep ==
    ASSUME IInv, NEW q \in Queues, plan(q)
    PROVE  IInv'
<1>1. CASE Again(q)
  BY Zenon, <1>1, EndedEarly
<1>2. ASSUME Current(q), NEW cause \in Causes, Write(savePlannedWorkflow(obj, cause)),
             IF cause = "none" THEN Requeue(q) /\ UNCHANGED timer
             ELSE /\ RequeueAfter(q, evaluatePlanningRetry(savePlannedWorkflow(obj, cause)).delay)
                  /\ UNCHANGED ready,
             EndStaling(q), Release(q), UNCHANGED <<touched, used>>
      PROVE  IInv'
  <2> DEFINE new == savePlannedWorkflow(obj, cause)
  <2>1. obj \in WorkflowObject /\ Exists /\ pass[q].pc = "planning" /\ obj.admitted = None
    BY Zenon, <1>2, CurrentFacts DEF plan, PassOK, Exists
  <2>2. /\ new \in WorkflowObject
        /\ new.kind = obj.kind /\ new.uid = obj.uid /\ new.spec = obj.spec
        /\ new.protected = obj.protected /\ new.deleting = obj.deleting
        /\ new.admitted \in {obj.admitted, obj.spec}
        /\ new.phase = IF cause = "none" THEN "Planned" ELSE "Failed"
        /\ new.phase = "Failed" => new.resume = "Planned"
    BY Zenon, <1>2, <2>1, PlanFields
  <2> HIDE DEF new
  <2>3. obj' = new
    BY Zenon, <1>2 DEF Write, new
  <2>4. RecordOK(new)
    BY Zenon, <2>1, <2>2 DEF RecordOK, IInv, Exists, Unset
  <2>5. timer' \in Timers /\ ready' \subseteq Queues
    <3>1. timer \in Timers /\ ready \subseteq Queues
      BY Zenon DEF IInv, TypeOK, Timers
    <3>2. evaluatePlanningRetry(new).delay \in 0..RetryWindow
      BY Zenon, <2>2, RetryDelay
    <3> QED BY Zenon, <1>2, <3>1, <3>2, RequeueAfterTyped DEF Requeue, new
  <2> QED BY Zenon, <1>2, <2>1, <2>2, <2>3, <2>4, <2>5, EndWriting
<1> QED BY Zenon, <1>1, <1>2 DEF plan

\* checkpointSpecMutation: the failure is recorded, and the plan kept.
LEMMA CheckpointStep ==
    ASSUME IInv, NEW q \in Queues, checkpointSpecMutation(q)
    PROVE  IInv'
<1>1. CASE Again(q)
  BY Zenon, <1>1, EndedEarly
<1>2. CASE /\ lease = "free" /\ Current(q)
           /\ Write(recordPlanningFailureForMutation(obj))
           /\ EndStaling(q) /\ Requeue(q)
           /\ UNCHANGED <<lease, timer, touched, used>>
  <2> DEFINE new == recordPlanningFailureForMutation(obj)
  <2>1. obj \in WorkflowObject /\ Exists /\ obj.kind # "Rename" /\ RecordOK(obj)
    BY Zenon, <1>2, CurrentFacts DEF checkpointSpecMutation, PassOK, Exists
  <2>2. /\ new \in WorkflowObject
        /\ new.kind = obj.kind /\ new.uid = obj.uid /\ new.spec = obj.spec
        /\ new.admitted = obj.admitted
        /\ new.protected = obj.protected /\ new.deleting = obj.deleting
        /\ new.phase = "Failed"
        /\ (obj.phase # Unset /\ (obj.phase = "Failed" => obj.resume # Unset))
              => new.resume # Unset
    BY Zenon, <2>1, MutationFields
  <2> HIDE DEF new
  <2>3. obj' = new
    BY Zenon, <1>2 DEF Write, new
  <2>4. RecordOK(new)
    BY Zenon, <2>1, <2>2 DEF RecordOK, Exists, Unset
  <2>5. timer' \in Timers /\ ready' \subseteq Queues
    BY Zenon, <1>2 DEF IInv, TypeOK, Timers, Requeue
  <2> QED BY Zenon, <1>2, <2>1, <2>2, <2>3, <2>4, <2>5, EndWriting
<1> QED BY Zenon, <1>1, <1>2 DEF checkpointSpecMutation

\* finishAbortRequest: the request is consumed.
LEMMA FinishStep ==
    ASSUME IInv, NEW q \in Queues, finishAbortRequest(q)
    PROVE  IInv'
<1>1. CASE Done(q) \/ Again(q)
  BY Zenon, <1>1, EndedEarly
<1>2. CASE /\ Current(q) /\ Write([obj EXCEPT !.abort = FALSE]) /\ EndStaling(q)
           /\ UNCHANGED <<lease, ready, timer, touched, used>>
  <2> DEFINE new == [obj EXCEPT !.abort = FALSE]
  <2>1. obj \in WorkflowObject /\ Exists /\ RecordOK(obj) /\ obj # NoObject
    BY Zenon, <1>2, CurrentFacts DEF Exists
  <2>2. /\ new \in WorkflowObject /\ SameRequest(obj, new)
        /\ new.phase = obj.phase /\ new.resume = obj.resume
    BY Zenon, <2>1 DEF WorkflowObject, SameRequest
  <2> HIDE DEF new
  <2>3. obj' = new
    BY Zenon, <1>2 DEF Write, new
  <2>4. RecordOK(new)
    BY Zenon, <2>1, <2>2 DEF RecordOK, SameRequest
  <2>5. timer' \in Timers /\ ready' \subseteq Queues
    BY Zenon, <1>2 DEF IInv, TypeOK, Timers
  <2> QED BY Zenon, <1>2, <2>1, <2>2, <2>3, <2>4, <2>5, EndWriting DEF SameRequest
<1> QED BY Zenon, <1>1, <1>2 DEF finishAbortRequest

\* The executor goes to a phase that is neither unset nor a failure.
LEMMA NextPhaseOK ==
    ASSUME NEW o \in WorkflowObject
    PROVE  NextPhase(o) \in Phases \ {Unset, "Failed"}
BY Zenon DEF NextPhase, Phases, Unset

\* A transition to such a phase, or to Failed, leaves the record in order.
LEMMA TransitionOK ==
    ASSUME NEW o \in WorkflowObject, RecordOK(o), NEW n \in WorkflowObject, SameRequest(o, n),
           \/ n.phase \in Phases \ {Unset, "Failed"}
           \/ n.phase = "Failed" /\ n.resume = IF o.phase = "Failed" THEN o.resume ELSE o.phase
           \/ n.phase = o.phase /\ n.resume = o.resume
    PROVE  RecordOK(n)
<1>1. o # NoObject /\ Unset # "Failed"
  BY Zenon, NotMissing DEF Unset
<1> QED BY Zenon, <1>1 DEF RecordOK, SameRequest

\* A pass writes the status of its object and goes on.
LEMMA StayWriting ==
    ASSUME IInv, NEW q \in Queues, Current(q), pass[q].pc \in Holding \ {"finalizing"},
           NEW new \in WorkflowObject,
           obj' = new, SameRequest(obj, new), RecordOK(new), pass' = Staled(pass, q),
           UNCHANGED <<lease, ready, timer, used>>,
           touched' = touched \/ touched' = touched \cup {obj.uid}
    PROVE  IInv'
<1>1. /\ obj \in WorkflowObject /\ obj # NoObject /\ obj.uid = pass[q].uid
      /\ PassOK(q, pass[q], obj, lease, touched) /\ pass[q].fresh
  BY Zenon, CurrentFacts
<1>2. pass \in [Queues -> Pass] /\ new # NoObject /\ obj.uid \in Nat
  BY Zenon, <1>1, Typed, NotMissing DEF IInv, WorkflowObject
<1>3. /\ pass' \in [Queues -> Pass] /\ pass'[q] = pass[q]
      /\ \A x \in Queues \ {q} :
            /\ pass'[x].pc = pass[x].pc /\ pass'[x].uid = pass[x].uid /\ ~pass'[x].fresh
  BY <1>2, StaledFields
<1>4. TypeOK'
  BY Zenon, <1>2, <1>3 DEF IInv, TypeOK, Pass
<1>5. obj.protected /\ ~obj.deleting
  BY Zenon, <1>1 DEF PassOK, Working, Holding, ActivePcs
<1>6. NothingUnfinalized'
  BY Zenon, <1>2, <1>5 DEF IInv, NothingUnfinalized, Exists, SameRequest
<1>7. \A x \in Queues \ {q} :
         pass[x].pc = "release" /\ pass[x].uid \notin touched => pass[x].uid \notin touched'
  BY Zenon, <1>1, <1>5 DEF IInv, PassOK, Finalizing
<1>8. PassOK(q, pass'[q], obj', lease', touched')
  BY Zenon, <1>1, <1>2, <1>3 DEF PassOK, SameRequest, executionIntentMutated, Holding, Finalizing
<1>9. /\ Succeeds(obj, obj', used.uids) /\ used'.uids >= used.uids
      /\ obj'.uid <= used'.uids /\ pass'[q].uid <= used'.uids
  BY <1>1, <1>3, Typed DEF Succeeds, SameRequest, IInv, UidsGiven, Exists
<1> QED BY Zenon, <1>3, <1>4, <1>6, <1>7, <1>8, <1>9, Frame

\* A pass under the Lease writes the status of its object and ends; the work it
\* did is to be finalized.
LEMMA EndExecuting ==
    ASSUME IInv, NEW q \in Queues, Current(q), pass[q].pc = "running",
           NEW new \in WorkflowObject, obj' = new, SameRequest(obj, new), RecordOK(new),
           EndStaling(q), lease' \in {lease, IF lease = q THEN "free" ELSE lease},
           ready' \subseteq Queues, UNCHANGED <<timer, used>>,
           touched' = touched \/ touched' = touched \cup {obj.uid}
    PROVE  IInv'
<1>1. /\ obj \in WorkflowObject /\ obj # NoObject /\ obj.uid = pass[q].uid
      /\ PassOK(q, pass[q], obj, lease, touched) /\ pass[q].fresh
  BY Zenon, CurrentFacts
<1>2. obj.protected /\ ~obj.deleting /\ new # NoObject /\ obj.uid \in Nat
  BY Zenon, <1>1, NotMissing DEF PassOK, Working, ActivePcs, WorkflowObject
<1>3. NothingUnfinalized'
  BY Zenon, <1>2 DEF IInv, NothingUnfinalized, Exists, SameRequest
<1>4. \A x \in Queues \ {q} :
         pass[x].pc = "release" /\ pass[x].uid \notin touched => pass[x].uid \notin touched'
  BY Zenon, <1>1, <1>2 DEF IInv, PassOK, Finalizing
<1>5. /\ obj' \in Objects /\ timer' \in Timers /\ touched' \subseteq Nat
      /\ used' \in Usage /\ used'.uids = used.uids
  BY Zenon, <1>2 DEF Objects, IInv, TypeOK, Timers, Usage
<1>6. Succeeds(obj, obj', used.uids) /\ Exists
  BY Zenon, <1>1 DEF Succeeds, SameRequest, Exists
<1> QED BY Zenon, <1>3, <1>4, <1>5, <1>6, EndOfPass DEF EndStaling

\* Run: a checkpoint or a failure, of an object that is protected.
LEMMA RunStep ==
    ASSUME IInv, NEW q \in Queues, Run(q)
    PROVE  IInv'
<1>1. CASE Again(q)
  BY Zenon, <1>1, EndedEarly
<1> DEFINE new == RecordWorkflowTransition(obj, NextPhase(obj))
<1>2. CASE /\ Current(q)
           /\ Write(new)
           /\ pass' = Staled([pass EXCEPT ![q] = IF Terminal(new) THEN Idle ELSE pass[q]], q)
           /\ lease' = IF Terminal(new) THEN "free" ELSE lease
           /\ touched' = touched \cup {obj.uid}
           /\ UNCHANGED <<ready, timer, used>>
  <2>1. obj \in WorkflowObject /\ RecordOK(obj) /\ pass[q].pc = "running" /\ lease = q
    BY Zenon, <1>2, CurrentFacts DEF Run, PassOK, Holding
  <2>2. new \in WorkflowObject /\ SameRequest(obj, new) /\ new.phase = NextPhase(obj)
    BY Zenon, <2>1, NextPhaseOK, TransitionFields
  <2>3. RecordOK(new)
    BY Zenon, <2>1, <2>2, NextPhaseOK, TransitionOK
  <2> HIDE DEF new
  <2>4. obj' = new /\ pass[q].pc \in Holding \ {"finalizing"} /\ ready' \subseteq Queues
    BY Zenon, <1>2, <2>1 DEF Write, Holding, IInv, TypeOK
  <2>5. CASE Terminal(new)
    BY Zenon, <1>2, <2>1, <2>2, <2>3, <2>4, <2>5, EndExecuting DEF EndStaling
  <2>6. CASE ~Terminal(new)
    <3>1. [pass EXCEPT ![q] = pass[q]] = pass
      BY Zenon, Typed DEF IInv
    <3> QED BY Zenon, <1>2, <2>2, <2>3, <2>4, <2>6, <3>1, StayWriting
  <2> QED BY Zenon, <2>5, <2>6
<1>3. ASSUME Current(q), pass[q].pc = "running", NEW cause \in Causes,
             IF obj.kind = "Rename" /\ obj.phase = "Failed" THEN UNCHANGED <<obj, events>>
             ELSE Write(recordWorkflowFailure(obj, cause)),
             EndStaling(q), Release(q), IF obj.kind = "Backup" THEN UNCHANGED ready ELSE Requeue(q),
             touched' = IF specChanged(obj) THEN touched ELSE touched \cup {obj.uid},
             UNCHANGED <<timer, used>>
      PROVE  IInv'
  <2>1. obj \in WorkflowObject /\ RecordOK(obj)
    BY Zenon, <1>3, CurrentFacts
  <2>2. ready' \subseteq Queues
    BY Zenon, <1>3 DEF Requeue, IInv, TypeOK
  <2>3. obj' \in WorkflowObject /\ SameRequest(obj, obj') /\ RecordOK(obj')
    <3>1. CASE obj' = obj
      BY Zenon, <2>1, <3>1 DEF SameRequest
    <3>2. CASE obj' = recordWorkflowFailure(obj, cause)
      <4>1. /\ obj' \in WorkflowObject /\ SameRequest(obj, obj') /\ obj'.phase = "Failed"
            /\ obj'.resume = IF obj.phase = "Failed" THEN obj.resume ELSE obj.phase
        BY Zenon, <1>3, <2>1, <3>2, FailureFields
      <4> QED BY Zenon, <2>1, <4>1, TransitionOK
    <3> QED BY Zenon, <1>3, <3>1, <3>2 DEF Write
  <2> QED BY Zenon, <1>3, <2>2, <2>3, EndExecuting DEF Release
<1> QED BY Zenon, <1>1, <1>2, <1>3 DEF Run

\* Abort: the transitions of an abort, a rejection, or a transient failure.
LEMMA AbortStep ==
    ASSUME IInv, NEW q \in Queues, Abort(q)
    PROVE  IInv'
<1>0. pass \in [Queues -> Pass] /\ pass[q].pc = "aborting"
  BY Zenon, Typed DEF IInv, Abort
<1>1. CASE Again(q)
  BY Zenon, <1>1, EndedEarly
<1>2. CASE /\ Current(q) /\ Goto(q, "finish") /\ Release(q)
           /\ UNCHANGED <<obj, ready, timer, events, touched, used>>
  <2>1. "finish" \in Pcs
    BY Zenon DEF Pcs, ActivePcs
  <2>2. /\ pass' \in [Queues -> Pass] /\ \A x \in Queues \ {q} : pass'[x] = pass[x]
        /\ pass'[q].pc = "finish" /\ pass'[q].uid = pass[q].uid /\ pass'[q].fresh = pass[q].fresh
    BY Zenon, <1>0, <1>2, <2>1 DEF Goto, Pass
  <2>3. TypeOK'
    BY Zenon, <1>2, <2>2 DEF IInv, TypeOK, Pass, Release
  <2>4. PassOK(q, pass'[q], obj', lease', touched')
    <3>1. PassOK(q, pass[q], obj, lease, touched)
      BY Zenon DEF IInv
    <3> QED BY Zenon, <1>0, <1>2, <2>2, <3>1 DEF PassOK, Working, ActivePcs, Finalizing, Holding
  <2>5. \A x \in Queues \ {q} : PassOK(x, pass'[x], obj', lease', touched')
    BY ZenonT(30), <1>2, <2>2 DEF IInv, PassOK, Release
  <2> QED BY Zenon, <1>2, <2>2, <2>3, <2>4, <2>5 DEF IInv, UidsGiven, NothingUnfinalized, Exists
<1>3. CASE /\ Current(q) /\ Write(RecordWorkflowTransition(obj, AbortPhase(obj)))
           /\ pass' = Staled(pass, q) /\ UNCHANGED <<lease, ready, timer, touched, used>>
  <2> DEFINE new == RecordWorkflowTransition(obj, AbortPhase(obj))
  <2>1. obj \in WorkflowObject /\ RecordOK(obj)
    BY Zenon, <1>3, CurrentFacts
  <2>2. AbortPhase(obj) \in Phases \ {Unset, "Failed"}
    BY Zenon DEF AbortPhase, Phases, Unset
  <2>3. new \in WorkflowObject /\ SameRequest(obj, new) /\ new.phase = AbortPhase(obj)
    BY Zenon, <2>1, <2>2, TransitionFields
  <2>4. RecordOK(new)
    BY Zenon, <2>1, <2>2, <2>3, TransitionOK
  <2> HIDE DEF new
  <2>5. obj' = new /\ pass[q].pc \in Holding \ {"finalizing"}
    BY Zenon, <1>0, <1>3 DEF Write, new, Holding
  <2> QED BY Zenon, <1>3, <2>3, <2>4, <2>5, StayWriting
<1>4. CASE /\ Fault /\ End(q) /\ Release(q) /\ Requeue(q)
           /\ UNCHANGED <<obj, timer, events, touched>>
  <2>1. ready' \subseteq Queues /\ used' \in Usage /\ used'.uids = used.uids
    BY <1>4 DEF Requeue, Fault, IInv, TypeOK, Usage
  <2> QED BY Zenon, <1>4, <2>1, Ended
<1> QED BY Zenon, <1>1, <1>2, <1>3, <1>4 DEF Abort

\* reconcile: the object is protected before its phase decides.
LEMMA DecideStep ==
    ASSUME IInv, NEW q \in Queues, reconcile(q)
    PROVE  IInv'
<1>1. CASE Done(q) \/ Again(q)
  BY Zenon, <1>1, EndedEarly
<1> DEFINE o    == EnsureProtection(obj)
           next == kindReconcile(o)
           new  == IF next = "exhaust" THEN markPlanningRetriesExhausted(o) ELSE o
           mine == IF next \in {"end", "wait", "exhaust"} THEN Idle
                   ELSE [pass[q] EXCEPT !.pc = next, !.fresh = TRUE]
           all  == [pass EXCEPT ![q] = mine]
<1>2. CASE /\ Exists /\ obj.uid = pass[q].uid /\ ~obj.deleting
           /\ IF new = obj THEN UNCHANGED <<obj, events>> ELSE Write(new)
           /\ pass' = IF new = obj THEN all ELSE Staled(all, q)
           /\ IF next = "wait" THEN RequeueAfter(q, evaluatePlanningRetry(o).delay)
                               ELSE UNCHANGED timer
           /\ UNCHANGED <<lease, ready, touched, used>>
  <2>1. obj \in WorkflowObject /\ pass \in [Queues -> Pass] /\ RecordOK(obj) /\ obj # NoObject
    BY Zenon, <1>2, Typed DEF IInv, Exists
  <2>2. /\ o \in WorkflowObject /\ o.protected /\ ~o.deleting
        /\ o.kind = obj.kind /\ o.uid = obj.uid /\ o.spec = obj.spec
        /\ o.corrected = obj.corrected /\ o.admitted = obj.admitted
        /\ o.phase = obj.phase /\ o.resume = obj.resume
    BY Zenon, <1>2, <2>1, ProtectFields
  <2> HIDE DEF o
  <2>3. /\ next \in {"end", "wait", "exhaust", "abort", "plan", "mutated", "run"}
        /\ next = "plan" => o.admitted = None
        /\ next = "run" => o.admitted # None /\ ~executionIntentMutated(o)
        /\ next = "mutated" => o.kind # "Rename"
    BY Zenon, <2>2, Dispatch
  <2> HIDE DEF next
  <2>4. new \in WorkflowObject /\ SameRequest(o, new) /\ new.phase = o.phase /\ new.resume = o.resume
    BY Zenon, <2>2, ExhaustFields DEF SameRequest
  <2> HIDE DEF new
  <2>5. RecordOK(new) /\ new # NoObject
    BY Zenon, <2>1, <2>2, <2>4, NotMissing DEF RecordOK, SameRequest
  <2>6. obj' = new
    BY Zenon, <1>2 DEF Write
  <2>7. /\ mine \in Pass /\ (mine = Idle \/ (mine.pc = next /\ mine.uid = pass[q].uid))
    BY Zenon, <2>1, <2>3, IdleOK DEF Pass, Pcs, ActivePcs
  <2>8. PassOK(q, mine, new, lease', touched')
    <3>1. CASE mine = Idle
      BY <3>1, IdleOK
    <3>2. CASE next \notin {"end", "wait", "exhaust"} /\ mine = [pass[q] EXCEPT !.pc = next, !.fresh = TRUE]
      <4>1. mine.pc = next /\ mine.uid = pass[q].uid
        BY Zenon, <2>1, <3>2 DEF Pass
      <4>2. next \in {"abort", "plan", "mutated", "run"}
        BY Zenon, <2>3, <3>2
      <4> HIDE DEF mine
      <4> QED BY Zenon, <1>2, <2>2, <2>3, <2>4, <2>5, <4>1, <4>2
              DEF PassOK, SameRequest, executionIntentMutated, Finalizing, Holding
    <3> QED BY Zenon, <3>1, <3>2
  <2>9. mine.uid <= used.uids
    <3>1. pass[q].uid <= used.uids /\ used.uids \in Nat
      BY Zenon, Typed DEF IInv, UidsGiven
    <3> QED BY <2>7, <3>1, IdleOK
  <2> HIDE DEF mine
  <2>10. all \in [Queues -> Pass] /\ all[q] = mine /\ \A x \in Queues \ {q} : all[x] = pass[x]
    BY Zenon, <2>1, <2>7
  <2> HIDE DEF all
  <2>11. /\ pass' \in [Queues -> Pass] /\ pass'[q] = mine
         /\ \A x \in Queues \ {q} :
               /\ pass'[x].pc = pass[x].pc /\ pass'[x].uid = pass[x].uid
               /\ pass'[x].fresh => pass[x].fresh /\ obj' = obj
    <3>1. CASE new = obj
      BY Zenon, <1>2, <2>6, <2>10, <3>1
    <3>2. CASE new # obj
      BY <1>2, <2>10, <3>2, StaledFields
    <3> QED BY Zenon, <3>1, <3>2
  <2>12. timer' \in Timers
    <3>1. timer \in Timers
      BY Zenon DEF IInv, TypeOK, Timers
    <3> QED BY Zenon, <1>2, <2>2, <3>1, RetryDelay, RequeueAfterTyped
  <2>13. TypeOK'
    BY Zenon, <1>2, <2>4, <2>6, <2>11, <2>12 DEF IInv, TypeOK, Pass, Timers
  <2>14. NothingUnfinalized'
    BY Zenon, <1>2, <2>2, <2>4, <2>6, StillProtected DEF IInv, SameRequest
  <2>15. /\ Succeeds(obj, obj', used.uids) /\ used'.uids >= used.uids /\ obj'.uid <= used'.uids
         /\ pass'[q].uid <= used'.uids
    BY <1>2, <2>1, <2>2, <2>4, <2>6, <2>9, <2>11, Typed
       DEF Succeeds, SameRequest, IInv, UidsGiven, Exists
  <2>16. \A x \in Queues \ {q} :
           /\ pass'[x].fresh => obj' # NoObject /\ SameRequest(obj, obj')
           /\ lease = x => lease' = x
           /\ pass[x].uid \notin touched => pass[x].uid \notin touched'
    BY Zenon, <1>2, <2>1, <2>11 DEF SameRequest
  <2> QED BY Zenon, <2>5, <2>6, <2>8, <2>11, <2>13, <2>14, <2>15, <2>16, Frame
<1> QED BY Zenon, <1>1, <1>2 DEF reconcile

\* FinalizeDeleted: nothing of this UID is left to finalize.
LEMMA FinalizeStep ==
    ASSUME IInv, NEW q \in Queues, FinalizeDeleted(q)
    PROVE  IInv'
<1>1. /\ pass \in [Queues -> Pass] /\ pass[q].pc = "finalizing" /\ obj' = obj /\ used' = used
      /\ touched' = touched \ {pass[q].uid} /\ UNCHANGED <<ready, timer>>
  BY Zenon, Typed DEF IInv, FinalizeDeleted
<1>2. "release" \in Pcs
  BY Zenon DEF Pcs
<1>3. /\ pass' \in [Queues -> Pass] /\ \A x \in Queues \ {q} : pass'[x] = pass[x]
      /\ pass'[q].pc = "release" /\ pass'[q].uid = pass[q].uid /\ pass'[q].fresh = pass[q].fresh
  BY Zenon, <1>1, <1>2 DEF FinalizeDeleted, Goto, Pass
<1>4. lease' = IF lease = q THEN "free" ELSE lease
  BY Zenon DEF FinalizeDeleted, Release
<1>5. TypeOK'
  BY Zenon, <1>1, <1>3, <1>4 DEF IInv, TypeOK, Pass
<1>6. PassOK(q, pass'[q], obj', lease', touched')
  <2>1. PassOK(q, pass[q], obj, lease, touched)
    BY Zenon DEF IInv
  <2> QED BY Zenon, <1>1, <1>3, <2>1 DEF PassOK, Working, ActivePcs, Finalizing, Holding
<1>7. \A x \in Queues \ {q} : PassOK(x, pass'[x], obj', lease', touched')
  BY Zenon, <1>1, <1>3, <1>4 DEF IInv, PassOK
<1> QED BY Zenon, <1>1, <1>3, <1>5, <1>6, <1>7 DEF IInv, UidsGiven, NothingUnfinalized, Exists

\* DeleteWorkflow: the finalizer comes off an object that has been finalized.
LEMMA DeleteStep ==
    ASSUME IInv, NEW q \in Queues, DeleteWorkflow(q)
    PROVE  IInv'
<1>1. CASE Done(q) \/ Again(q)
  BY Zenon, <1>1, EndedEarly
<1>2. CASE /\ Exists /\ deleteChecked(q) /\ Write(NoObject) /\ EndStaling(q)
           /\ UNCHANGED <<lease, ready, timer, touched, used>>
  <2>1. obj' = NoObject /\ obj.uid = pass[q].uid /\ pass[q].uid \notin touched
    BY Zenon, <1>2 DEF Write, deleteChecked, DeleteWorkflow, IInv, PassOK
  <2>2. NothingUnfinalized'
    BY Zenon, <1>2, <2>1 DEF IInv, NothingUnfinalized
  <2>3. RecordOK(obj') /\ Succeeds(obj, obj', used.uids) /\ obj' \in Objects
    BY Zenon, <2>1 DEF RecordOK, Succeeds, Objects
  <2>4. /\ ready' \subseteq Queues /\ timer' \in Timers /\ touched' \subseteq Nat
        /\ used' \in Usage /\ used'.uids = used.uids
    BY Zenon, <1>2 DEF IInv, TypeOK, Timers, Usage
  <2> QED BY Zenon, <1>2, <2>1, <2>2, <2>3, <2>4, EndOfPass DEF EndStaling
<1> QED BY Zenon, <1>1, <1>2 DEF DeleteWorkflow

\* A user changes the object that exists.
LEMMA UserChange ==
    ASSUME IInv, Exists, NEW new \in WorkflowObject, UserWrites(new), RecordOK(new),
           new.uid = obj.uid, new.protected = obj.protected, obj.deleting => new.deleting,
           used' \in Usage, used'.uids = used.uids
    PROVE  IInv'
<1>1. obj' = new /\ touched' = touched
  BY Zenon DEF UserWrites, Write
<1>2. NothingUnfinalized'
  BY Zenon, <1>1, StillProtected DEF IInv
<1>3. Succeeds(obj, new, used.uids) /\ new \in Objects
  BY Zenon DEF Succeeds, Exists, Objects
<1>4. new.uid <= used'.uids /\ used'.uids >= used.uids
  BY Typed DEF IInv, UidsGiven
<1> QED BY Zenon, <1>2, <1>3, <1>4, UserStep

\* Users create, edit, abort, resume and delete.
LEMMA UsersStep ==
    ASSUME IInv,
           \/ \E kind \in Kinds, protected \in BOOLEAN : Create(kind, protected)
           \/ EditSpec \/ requestControllerAbort \/ RequestResume \/ DeleteObject
    PROVE  IInv'
<1>0. /\ used \in Usage /\ used.uids \in Nat /\ obj \in Objects /\ RecordOK(obj)
      /\ Exists => obj \in WorkflowObject /\ obj # NoObject
  BY Zenon, Typed DEF IInv, TypeOK, Usage, Exists
<1>f. ASSUME Fault PROVE used' \in Usage /\ used'.uids = used.uids
  BY <1>0, <1>f DEF Fault, Usage
<1>1. ASSUME NEW kind \in Kinds, NEW protected \in BOOLEAN, Create(kind, protected)
      PROVE  IInv'
  <2> DEFINE new == NewObject(kind, used.uids + 1, protected)
  <2>1. used' \in Usage /\ used'.uids = used.uids + 1
    <3>1. used.faults + 1 \in Nat /\ used.uids + 1 \in Nat
      BY <1>0 DEF Usage
    <3>2. CASE used' = [used EXCEPT !.kind = kind, !.uids = used.uids + 1]
      BY Zenon, <1>0, <3>1, <3>2 DEF Usage
    <3>3. CASE used' = [used EXCEPT !.uids = used.uids + 1, !.faults = used.faults + 1]
      BY Zenon, <1>0, <3>1, <3>3 DEF Usage
    <3> QED BY Zenon, <1>1, <3>2, <3>3 DEF Create
  <2>2. 0 \in 0..RetryWindow /\ Unset \in Phases /\ "none" \in Causes /\ None = 0
    BY RetryAssumption DEF Phases, Causes, None
  <2>3. /\ new \in WorkflowObject /\ new.uid = used.uids + 1 /\ new.admitted = None
        /\ ~new.deleting
    BY <1>0, <2>2 DEF NewObject, WorkflowObject
  <2> HIDE DEF new
  <2>4. ~Exists /\ UserWrites(new) /\ touched' = touched
    BY Zenon, <1>1 DEF Create, new, UserWrites
  <2>5. NothingUnfinalized'
    BY Zenon, <2>4 DEF IInv, NothingUnfinalized
  <2>6. RecordOK(new) /\ Succeeds(obj, new, used.uids) /\ new \in Objects
    BY <1>0, <2>3, <2>4 DEF RecordOK, Succeeds, Exists, Objects
  <2> QED BY <1>0, <2>1, <2>3, <2>4, <2>5, <2>6, UserStep
<1>2. CASE EditSpec
  <2> DEFINE new == [obj EXCEPT !.spec = 3 - @, !.corrected = TRUE]
  <2>1. obj \in WorkflowObject /\ Exists /\ Fault /\ UserWrites(new)
    BY Zenon, <1>0, <1>2 DEF EditSpec
  <2>2. /\ new \in WorkflowObject /\ new.corrected /\ new.kind = obj.kind /\ new.uid = obj.uid
        /\ new.admitted = obj.admitted /\ new.phase = obj.phase /\ new.resume = obj.resume
        /\ new.protected = obj.protected /\ new.deleting = obj.deleting
    <3>1. 3 - obj.spec \in {1, 2}
      BY <2>1 DEF WorkflowObject
    <3> QED BY Zenon, <2>1, <3>1 DEF WorkflowObject
  <2> HIDE DEF new
  <2>3. RecordOK(new)
    BY Zenon, <1>0, <2>1, <2>2 DEF RecordOK
  <2> QED BY Zenon, <1>f, <2>1, <2>2, <2>3, UserChange
<1>3. CASE requestControllerAbort
  <2> DEFINE new == [obj EXCEPT !.abort = TRUE]
  <2>1. /\ obj \in WorkflowObject /\ Exists /\ UserWrites(new)
        /\ used' = [used EXCEPT !.faults = used.faults + 1, !.aborts = used.aborts + 1]
    BY Zenon, <1>0, <1>3 DEF requestControllerAbort
  <2>2. /\ new \in WorkflowObject /\ SameRequest(obj, new)
        /\ new.phase = obj.phase /\ new.resume = obj.resume
    BY Zenon, <2>1 DEF WorkflowObject, SameRequest
  <2> HIDE DEF new
  <2>3. RecordOK(new)
    BY Zenon, <1>0, <2>1, <2>2, TransitionOK
  <2>4. used' \in Usage /\ used'.uids = used.uids
    <3>1. used.faults + 1 \in Nat /\ used.aborts + 1 \in Nat
      BY <1>0 DEF Usage
    <3> QED BY Zenon, <1>0, <2>1, <3>1 DEF Usage
  <2> QED BY Zenon, <2>1, <2>2, <2>3, <2>4, UserChange DEF SameRequest
<1>4. CASE RequestResume
  <2> DEFINE new == ReactivateWorkflow(obj)
  <2>1. obj \in WorkflowObject /\ Exists /\ Fault /\ UserWrites(new) /\ obj.phase = "Failed"
    BY Zenon, <1>0, <1>4 DEF RequestResume
  <2>2. new \in WorkflowObject /\ SameRequest(obj, new) /\ new.phase = obj.resume
        /\ new.resume = obj.resume
    BY Zenon, <2>1, ReactivateFields
  <2> HIDE DEF new
  <2>3. RecordOK(new)
    BY Zenon, <1>0, <2>1, <2>2 DEF RecordOK, SameRequest
  <2> QED BY Zenon, <1>f, <2>1, <2>2, <2>3, UserChange DEF SameRequest
<1>5. CASE DeleteObject
  <2>1. obj \in WorkflowObject /\ Exists /\ Fault
    BY Zenon, <1>0, <1>5 DEF DeleteObject
  <2>2. CASE obj.protected
    <3> DEFINE new == [obj EXCEPT !.deleting = TRUE]
    <3>1. UserWrites(new)
      BY Zenon, <1>5, <2>2 DEF DeleteObject
    <3>2. /\ new \in WorkflowObject /\ new.deleting /\ new.kind = obj.kind /\ new.uid = obj.uid
          /\ new.admitted = obj.admitted /\ new.phase = obj.phase /\ new.resume = obj.resume
          /\ new.protected = obj.protected /\ new.spec = obj.spec /\ new.corrected = obj.corrected
      BY Zenon, <2>1 DEF WorkflowObject
    <3> HIDE DEF new
    <3>3. RecordOK(new)
      BY Zenon, <1>0, <2>1, <2>2, <3>2 DEF RecordOK
    <3> QED BY Zenon, <1>f, <2>1, <3>1, <3>2, <3>3, UserChange
  <2>3. CASE ~obj.protected
    <3>1. UserWrites(NoObject)
      BY Zenon, <1>5, <2>3 DEF DeleteObject
    <3>2. NothingUnfinalized'
      BY Zenon, <2>3, <3>1 DEF IInv, NothingUnfinalized, UserWrites
    <3>3. RecordOK(NoObject) /\ Succeeds(obj, NoObject, used.uids) /\ NoObject \in Objects
      BY Zenon DEF RecordOK, Succeeds, Objects
    <3>4. used'.uids >= used.uids /\ used' \in Usage
      BY <1>0, <1>f, <2>1
    <3> QED BY Zenon, <3>1, <3>2, <3>3, <3>4, UserStep
  <2> QED BY Zenon, <2>2, <2>3
<1> QED BY Zenon, <1>1, <1>2, <1>3, <1>4, <1>5

\* Crash: nobody works and nobody holds the Lease.
LEMMA CrashStep ==
    ASSUME IInv, Crash
    PROVE  IInv'
<1>0. used \in Usage /\ used.uids \in Nat
  BY Zenon, Typed DEF IInv, TypeOK, Usage
<1>1. obj' = obj /\ touched' = touched /\ used' \in Usage /\ used'.uids = used.uids
  BY <1>0 DEF Crash, Fault, Usage
<1>2. pass' \in [Queues -> Pass] /\ \A q \in Queues : pass'[q] = Idle
  BY Zenon, IdleOK DEF Crash
<1>3. TypeOK'
  BY <1>0, <1>1, <1>2, RetryAssumption DEF Crash, IInv, TypeOK, Pass, Usage, NoTimer
<1>4. UidsGiven' /\ NothingUnfinalized'
  BY <1>0, <1>1, <1>2, IdleOK DEF IInv, UidsGiven, NothingUnfinalized, Exists
<1> QED BY Zenon, <1>1, <1>2, <1>3, <1>4, IdleOK DEF IInv

\* Tick: only the clocks of the record advance.
LEMMA TickStep ==
    ASSUME IInv, Tick
    PROVE  IInv'
<1>1. /\ pass \in [Queues -> Pass] /\ obj \in Objects /\ used.uids \in Nat
      /\ Exists => obj \in WorkflowObject
      /\ UNCHANGED <<pass, lease, ready, touched, used>>
  BY Zenon, Typed DEF IInv, Tick
<1>2. timer' \in Timers
  <2>1. \A q \in Queues : timer[q] \in Int /\ NoTimer <= timer[q] /\ timer[q] <= RetryWindow
    BY RetryAssumption DEF IInv, TypeOK, NoTimer
  <2> QED BY <2>1, RetryAssumption DEF Tick, Timers, NoTimer
<1>3. CASE ~Exists
  <2>1. obj' = obj
    BY Zenon, <1>3 DEF Tick
  <2>2. TypeOK'
    BY Zenon, <1>1, <1>2, <2>1 DEF IInv, TypeOK, Timers
  <2> QED BY Zenon, <1>1, <2>1, <2>2, Unmoved
<1>4. CASE Exists
  <2>1. /\ obj' \in WorkflowObject /\ SameRequest(obj, obj')
        /\ obj'.phase = obj.phase /\ obj'.resume = obj.resume
    BY Zenon, <1>1, <1>4, AgedFields DEF Tick
  <2>2. TypeOK'
    BY Zenon, <1>1, <1>2, <2>1 DEF IInv, TypeOK, Timers
  <2>3. RecordOK(obj') /\ obj' # NoObject
    BY Zenon, <1>1, <1>4, <2>1, TransitionOK, NotMissing DEF IInv
  <2>4. NothingUnfinalized'
    BY Zenon, <1>1, <2>1, StillProtected DEF IInv, SameRequest
  <2>5. /\ Succeeds(obj, obj', used.uids) /\ used'.uids >= used.uids /\ obj'.uid <= used'.uids
    BY <1>1, <1>4, <2>1 DEF Succeeds, SameRequest, IInv, UidsGiven, Exists
  <2>6. "nobody" \notin Queues
    BY Zenon DEF Queues
  <2> QED BY Zenon, <1>1, <2>1, <2>2, <2>3, <2>4, <2>5, <2>6, Frame
<1> QED BY Zenon, <1>3, <1>4

\* Every step preserves the invariant.
LEMMA NextIInv ==
    ASSUME IInv, [Next]_vars
    PROVE  IInv'
<1>1. CASE UNCHANGED vars
  BY Zenon, <1>1 DEF vars, IInv, TypeOK, UidsGiven, NothingUnfinalized, Exists
<1>2. ASSUME NEW q \in Queues, Step(q) PROVE IInv'
  BY Zenon, <1>2, ReconcileStep, DecideStep, LeaseStep, InterruptedStep, PlanStep, CheckpointStep,
     RunStep, AbortStep, FinishStep, FinalizeStep, DeleteStep, DeliverStep, RequeueDueStep
     DEF Step
<1>3. CASE Users
  BY Zenon, <1>3, UsersStep, CrashStep DEF Users
<1>4. CASE Tick
  BY Zenon, <1>4, TickStep
<1> QED BY Zenon, <1>1, <1>2, <1>3, <1>4 DEF Next

\* The inductive invariant.
THEOREM Inductive == Spec => []IInv
<1>1. Init => IInv
  BY Zenon, InitIInv
<1>2. IInv /\ [Next]_vars => IInv'
  BY NextIInv
<1> QED BY <1>1, <1>2, PTL DEF Spec

\* What an execution touched keeps its object and its finalizer until a pass has
\* finalized it, whoever edits, deletes and recreates the object and whenever the
\* manager crashes: EnsureProtection comes before the first write of an executor,
\* and the finalizer comes off a finalized UID only.
THEOREM NeverUnfinalized == Spec => []NothingUnfinalized
<1>1. IInv => NothingUnfinalized
  BY DEF IInv
<1> QED BY <1>1, Inductive, PTL

-----------------------------------------------------------------------------
(* What a step may never do.                                               *)

\* The step that ExecutesAdmitted allows.
ExecutesAdmittedStep ==
    (/\ \E q \in Queues : pass[q].pc = "running"
     /\ obj # NoObject /\ obj' # NoObject /\ obj'.phase \notin {obj.phase, "Failed"})
    => obj.spec = obj.admitted

\* The step that NeverAnother allows.
NeverAnotherStep ==
    \A q \in Queues :
        (pass[q].pc # "idle" /\ pass'[q].pc # pass[q].pc /\ obj' # obj /\ obj # NoObject)
        => obj.uid = pass[q].uid

\* While a pass executes nobody else holds the Lease.
LEMMA ExecutesAlone ==
    ASSUME IInv, NEW q \in Queues, NEW x \in Queues, pass[x].pc = "running",
           pass[q].pc \in Holding \/ lease = "free"
    PROVE  q = x /\ lease = q
<1>1. "free" \notin Queues
  BY Zenon DEF Queues
<1> QED BY Zenon, <1>1 DEF IInv, PassOK, Holding

\* A running pass has the request of its plan, unless the executor refuses it.
LEMMA RunsAdmitted ==
    ASSUME IInv, NEW q \in Queues, Current(q), pass[q].pc = "running", ~specChanged(obj)
    PROVE  obj.spec = obj.admitted
<1>1. /\ obj \in WorkflowObject /\ obj # NoObject /\ RecordOK(obj)
      /\ obj.admitted # None /\ ~executionIntentMutated(obj)
  BY Zenon, CurrentFacts DEF PassOK
<1> QED BY Zenon, <1>1 DEF RecordOK, executionIntentMutated, specChanged, WorkflowObject

\* Every step of a pass is one that ExecutesAdmitted allows.
LEMMA StepExecutes ==
    ASSUME IInv, NEW q \in Queues, Step(q)
    PROVE  ExecutesAdmittedStep
<1> SUFFICES ASSUME NEW x \in Queues, pass[x].pc = "running", obj # NoObject, obj' # NoObject,
                    obj'.phase \notin {obj.phase, "Failed"}
             PROVE  obj.spec = obj.admitted
  BY Zenon DEF ExecutesAdmittedStep
<1>0. obj' # obj /\ obj \in WorkflowObject
  BY Zenon, Typed DEF IInv, Exists
<1>1. CASE reconcile(q)
  <2> DEFINE o == EnsureProtection(obj)
  <2>1. o \in WorkflowObject /\ o.phase = obj.phase
    BY Zenon, <1>0, ProtectFields
  <2>2. obj' = o \/ obj' = markPlanningRetriesExhausted(o)
    BY Zenon, <1>0, <1>1 DEF reconcile, Done, Again, Write
  <2> HIDE DEF o
  <2>3. obj'.phase = obj.phase
    BY Zenon, <2>1, <2>2, ExhaustFields
  <2> QED BY Zenon, <2>3
<1>2. CASE plan(q)
  <2>1. q = x
    BY Zenon, <1>2, ExecutesAlone DEF plan, Holding
  <2> QED BY Zenon, <1>2, <2>1 DEF plan
<1>3. CASE checkpointSpecMutation(q)
  <2>1. obj' = recordPlanningFailureForMutation(obj)
    BY Zenon, <1>0, <1>3 DEF checkpointSpecMutation, Again, Write
  <2> QED BY Zenon, <1>0, <2>1, MutationFields
<1>4. CASE Run(q)
  <2>1. Current(q) /\ pass[q].pc = "running"
    BY Zenon, <1>0, <1>4 DEF Run, Again
  <2>2. CASE ~specChanged(obj)
    BY Zenon, <2>1, <2>2, RunsAdmitted
  <2>3. CASE specChanged(obj)
    <3>1. \E cause \in Causes : obj' = recordWorkflowFailure(obj, cause)
      BY Zenon, <1>0, <1>4, <2>3 DEF Run, Again, Write
    <3> QED BY Zenon, <1>0, <3>1, FailureFields
  <2> QED BY Zenon, <2>2, <2>3
<1>5. CASE Abort(q)
  <2>1. q = x
    BY Zenon, <1>5, ExecutesAlone DEF Abort, Holding
  <2> QED BY Zenon, <1>5, <2>1 DEF Abort
<1>6. CASE finishAbortRequest(q)
  <2>1. obj' = [obj EXCEPT !.abort = FALSE]
    BY Zenon, <1>0, <1>6 DEF finishAbortRequest, Done, Again, Write
  <2> QED BY Zenon, <1>0, <2>1 DEF WorkflowObject
<1>7. CASE DeleteWorkflow(q)
  BY Zenon, <1>0, <1>7 DEF DeleteWorkflow, Done, Again, Write
<1>8. CASE \/ Reconcile(q) \/ WithWorkflowLease(q) \/ Interrupted(q) \/ FinalizeDeleted(q)
           \/ Deliver(q) \/ RequeueDue(q)
  BY Zenon, <1>0, <1>8 DEF Reconcile, WithWorkflowLease, Interrupted, FinalizeDeleted, Deliver,
                    RequeueDue, Done, Again
<1> QED BY Zenon, <1>1, <1>2, <1>3, <1>4, <1>5, <1>6, <1>7, <1>8 DEF Step

\* Users, crashes and time do not move the phase while a pass executes.
LEMMA OthersExecute ==
    ASSUME IInv, Users \/ Tick
    PROVE  ExecutesAdmittedStep
<1> SUFFICES ASSUME NEW x \in Queues, pass[x].pc = "running", obj # NoObject, obj' # NoObject,
                    obj'.phase \notin {obj.phase, "Failed"}
             PROVE  FALSE
  BY Zenon DEF ExecutesAdmittedStep
<1>0. obj' # obj /\ obj \in WorkflowObject /\ Exists
  BY Zenon, Typed DEF IInv, Exists
<1>1. CASE RequestResume
  <2>1. lease = "free"
    BY Zenon, <1>1 DEF RequestResume
  <2> QED BY Zenon, <2>1, ExecutesAlone DEF Queues
<1>2. CASE EditSpec \/ requestControllerAbort \/ DeleteObject
  <2>1. obj' \in {[obj EXCEPT !.spec = 3 - @, !.corrected = TRUE], [obj EXCEPT !.abort = TRUE],
                  [obj EXCEPT !.deleting = TRUE]}
    BY Zenon, <1>2 DEF EditSpec, requestControllerAbort, DeleteObject, UserWrites, Write
  <2>2. obj'.phase = obj.phase
    BY Zenon, <1>0, <2>1 DEF WorkflowObject
  <2> QED BY Zenon, <2>2
<1>3. CASE Tick
  BY Zenon, <1>0, <1>3, AgedFields DEF Tick
<1>4. CASE Crash \/ \E kind \in Kinds, protected \in BOOLEAN : Create(kind, protected)
  BY Zenon, <1>0, <1>4 DEF Crash, Create
<1> QED BY Zenon, <1>1, <1>2, <1>3, <1>4 DEF Users

\* A write moves no other pass.
LEMMA OthersStay ==
    ASSUME pass \in [Queues -> Pass], NEW q \in Queues, NEW x \in Queues, x # q, NEW r,
           pass' = Staled([pass EXCEPT ![q] = r], q) \/ pass' = Staled(pass, q)
    PROVE  pass'[x].pc = pass[x].pc
<1>1. /\ Staled([pass EXCEPT ![q] = r], q)[x] = [pass[x] EXCEPT !.fresh = FALSE]
      /\ Staled(pass, q)[x] = [pass[x] EXCEPT !.fresh = FALSE]
  BY Zenon DEF Staled
<1> QED BY ZenonT(30), <1>1 DEF Pass

\* A pass moves and writes only its own object.
LEMMA StepOwn ==
    ASSUME IInv, NEW q \in Queues, Step(q)
    PROVE  NeverAnotherStep
<1> SUFFICES ASSUME NEW x \in Queues, pass[x].pc # "idle", pass'[x].pc # pass[x].pc,
                    obj' # obj, obj # NoObject
             PROVE  obj.uid = pass[x].uid
  BY Zenon DEF NeverAnotherStep
<1>0. pass \in [Queues -> Pass]
  BY Zenon, Typed DEF IInv
<1>1. ASSUME NEW r, pass' = Staled([pass EXCEPT ![q] = r], q) \/ pass' = Staled(pass, q)
      PROVE  x = q
  BY Zenon, <1>0, <1>1, OthersStay
<1>2. CASE reconcile(q)
  <2>1. obj.uid = pass[q].uid /\ \E r : pass' = Staled([pass EXCEPT ![q] = r], q)
    BY Zenon, <1>2 DEF reconcile, Done, Again, Write
  <2> QED BY Zenon, <1>1, <2>1
<1>3. CASE plan(q) \/ checkpointSpecMutation(q) \/ finishAbortRequest(q)
  <2>1. Current(q) /\ EndStaling(q)
    BY Zenon, <1>3 DEF plan, checkpointSpecMutation, finishAbortRequest, Done, Again
  <2> QED BY Zenon, <1>1, <2>1, CurrentFacts DEF EndStaling
<1>4. CASE Run(q)
  <2>1. Current(q) /\ \E r : pass' = Staled([pass EXCEPT ![q] = r], q)
    BY Zenon, <1>4 DEF Run, Again, EndStaling
  <2> QED BY Zenon, <1>1, <2>1, CurrentFacts
<1>5. CASE Abort(q)
  <2>1. Current(q) /\ pass' = Staled(pass, q)
    BY Zenon, <1>5 DEF Abort, Again
  <2> QED BY Zenon, <1>1, <2>1, CurrentFacts
<1>6. CASE DeleteWorkflow(q)
  <2>1. deleteChecked(q) /\ EndStaling(q)
    BY Zenon, <1>6 DEF DeleteWorkflow, Done, Again
  <2> QED BY Zenon, <1>1, <2>1 DEF deleteChecked, EndStaling
<1>7. CASE \/ Reconcile(q) \/ WithWorkflowLease(q) \/ Interrupted(q) \/ FinalizeDeleted(q)
           \/ Deliver(q) \/ RequeueDue(q)
  BY Zenon, <1>7 DEF Reconcile, WithWorkflowLease, Interrupted, FinalizeDeleted, Deliver,
              RequeueDue, Done, Again
<1> QED BY Zenon, <1>2, <1>3, <1>4, <1>5, <1>6, <1>7 DEF Step

\* Users and time move no pass, and a crash writes nothing.
LEMMA OthersOwn ==
    ASSUME IInv, Users \/ Tick
    PROVE  NeverAnotherStep
<1>1. pass \in [Queues -> Pass] /\ "user" \notin Queues
  BY Zenon, Typed DEF IInv, Queues
<1>2. CASE pass' = Staled(pass, "user")
  BY <1>1, <1>2, StaledFields DEF NeverAnotherStep
<1>3. CASE UNCHANGED pass \/ UNCHANGED obj
  BY Zenon, <1>3 DEF NeverAnotherStep
<1> QED BY Zenon, <1>2, <1>3 DEF Users, Tick, Crash, Create, EditSpec, requestControllerAbort,
                          RequestResume, DeleteObject, UserWrites

\* Every step is one that both properties allow.
LEMMA NextActs ==
    ASSUME IInv, [Next]_vars
    PROVE  [ExecutesAdmittedStep]_vars /\ [NeverAnotherStep]_vars
<1>1. ASSUME NEW q \in Queues, Step(q) PROVE ExecutesAdmittedStep /\ NeverAnotherStep
  BY Zenon, <1>1, StepExecutes, StepOwn
<1>2. CASE Users \/ Tick
  BY Zenon, <1>2, OthersExecute, OthersOwn
<1> QED BY Zenon, <1>1, <1>2 DEF Next

\* A pass checkpoints phases only on the request its plan was made from, and
\* changes only the object it was started for: the comparison of the fingerprint
\* or the generation, and the UID, hold until the write because the
\* resourceVersion, the Lease or the UID is checked again by the write.
THEOREM PassesActAsAdmitted == Spec => ActsAsAdmitted
<1>1. IInv /\ [Next]_vars => [ExecutesAdmittedStep]_vars /\ [NeverAnotherStep]_vars
  BY Zenon, NextActs
<1>2. Spec => [][ExecutesAdmittedStep]_vars /\ [][NeverAnotherStep]_vars
  BY <1>1, Inductive, PTL DEF Spec
<1>3. ExecutesAdmitted <=> [][ExecutesAdmittedStep]_vars
  BY Zenon DEF ExecutesAdmitted, ExecutesAdmittedStep
<1>4. NeverAnother <=> [][NeverAnotherStep]_vars
  BY Zenon DEF NeverAnother, NeverAnotherStep
<1> QED BY Zenon, <1>2, <1>3, <1>4 DEF ActsAsAdmitted

=============================================================================
