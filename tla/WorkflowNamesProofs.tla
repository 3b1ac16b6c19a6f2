------------------------- MODULE WorkflowNamesProofs -------------------------
(***************************************************************************)
(* The proofs of WorkflowNames: one plan and one worker under a name, a    *)
(* submission that reports its own object and a cleanup that removes its   *)
(* own record, for every number of records, crashes and foreign writes.    *)
(*                                                                         *)
(* Three ideas carry the invariant.  A copy with the UID and the version   *)
(* of a stored object is that object (CopyInv).  An object claims the name *)
(* from the moment its reconcile has seen no object of the other kind      *)
(* until the plan it may save is gone or refused, and the other kind had   *)
(* to be absent for that (PlanInv).  And whoever relies on the state of    *)
(* the session record holds the Lease beside it (LockInv).                 *)
(***************************************************************************)
EXTENDS WorkflowNames, TLAPS

\* The phases of a record, as far as the model tells them apart.
Phases ==
    {"none", "Planned", "Working", "Completed", "RollingBack", "RolledBack", "Aborting",
     "Aborted"}

\* A stored workflow object or session record: one that exists has a spec.
Fields ==
    [uid : Nat, rv : Nat, spec : {"none"} \cup Specs, phase : Phases, protected : BOOLEAN,
     owned : BOOLEAN, deleting : BOOLEAN]
Record == {r \in Fields : Present(r) => r.spec \in Specs}

\* The steps of a pass that are taken under its Lease.
Held ==
    {"locked", "loaded", "recheck", "rekinds", "plan", "work", "converge", "settle"}

\* A reconcile of one object: where it is, what for, and the object it read.
Pass ==
    [pc : {"idle", "check", "kinds", "protect", "lock", "acquire", "remove"} \cup Held,
     mode : {"none", "plan", "run", "finalize"}, obj : Record]

\* The CLI process of a session ...
Session == [pc : {"idle", "create", "lock", "work"}, obj : Record]

\* ... the one that cleans it up ...
Cleaner ==
    [pc : {"idle", "lock", "pass", "get", "delete", "retry"}, obj : Record, uid : Nat,
     attempt : 0..3]

\* ... the one that submits a Move, and the Leases of the name.
Submission ==
    [pc : {"idle", "kinds", "create", "adopt", "wait", "ended"}, spec : {"none"} \cup Specs,
     uid : Nat, outcome : Phases]

LeaseType == [Namespaces -> Kinds \cup {"session", "cleaner", Nobody}]

\* The variables have their types.
TypeOK ==
    /\ rec \in [Kinds -> Record] /\ cm \in Record /\ recon \in [Kinds -> Pass]
    /\ lease \in LeaseType /\ session \in Session /\ cleaner \in Cleaner
    /\ submit \in Submission /\ ended \subseteq Nat \X ({"none"} \cup Specs)
    /\ uids \in Nat /\ mishaps \in Nat

\* A copy that was read is an older version of what is stored under its UID, or equal.
CopyOf(stored, copy) ==
    /\ copy.uid <= uids
    /\ Present(copy) /\ stored.uid = copy.uid =>
          /\ stored.spec = copy.spec /\ copy.rv <= stored.rv
          /\ copy.rv = stored.rv => copy = stored

\* UIDs come from one counter, so no two objects share one, and a record that is
\* absent has no phase.
StoreInv ==
    /\ \A k \in Kinds : rec[k].uid <= uids /\ (~Present(rec[k]) => rec[k].phase = "none")
    /\ cm.uid <= uids /\ (~Present(cm) => cm.phase = "none")
    /\ Present(rec["Move"]) => rec["Move"].uid # rec["Rename"].uid

\* What the reconciles, the session and the cleanup remember are such copies, and a
\* reconcile that is under way has one.
CopyInv ==
    /\ \A k \in Kinds : /\ CopyOf(rec[k], recon[k].obj)
                        /\ recon[k].pc # "idle" => Present(recon[k].obj)
    /\ CopyOf(cm, session.obj) /\ CopyOf(cm, cleaner.obj)

\* The object has a plan, or a pass that may still give it one.
Claims(k) ==
    \/ rec[k].phase \in {"Planned", "Working", "Completed"}
    \/ recon[k].pc = "plan" /\ Same(rec[k], recon[k].obj)

\* Not both kinds claim the name.
PlanInv == ~(Claims("Rename") /\ Claims("Move"))

\* A reconcile past Acquire holds the Lease in the namespace its spec names, a working
\* session the one beside its record; past AcquireSessionLock a reconcile has seen no
\* session there in the middle of its work, and the Lease keeps one from starting.
LockInv ==
    /\ \A k \in Kinds : /\ recon[k].pc \in Held => lease[LeaseOf(k)] = k
                        /\ recon[k].pc \in Held \ {"locked"} /\ LeaseOf(k) = cm.spec =>
                              cm.phase \notin {"Working", "RollingBack"}
    /\ session.pc = "work" => lease[session.obj.spec] = "session"
    /\ session.pc \in {"lock", "work"} =>
          /\ Present(session.obj)
          /\ session.obj.phase \in {"Planned", "Working", "RollingBack", "Completed"}

\* A UID has ended with at most the spec it was created with, a completed Move is
\* among the ended, and the object a submission waits for has the spec submitted.
ReportInv ==
    /\ \A e \in ended : /\ e[1] # None /\ e[1] <= uids
                         /\ \A k \in Kinds : e[1] = rec[k].uid => e[2] = rec[k].spec
    /\ rec["Move"].phase = "Completed" => <<rec["Move"].uid, rec["Move"].spec>> \in ended
    /\ submit.pc = "wait" =>
          /\ submit.uid # None /\ submit.uid <= uids /\ submit.uid # rec["Rename"].uid
          /\ rec["Move"].uid = submit.uid => rec["Move"].spec = submit.spec
          /\ \A e \in ended : e[1] = submit.uid => e[2] = submit.spec
    /\ submit.pc # "ended" => submit.outcome = "none"
    /\ submit.pc \in {"kinds", "create", "adopt"} => submit.spec \in Specs
    /\ ReportedOwn

\* A cleanup keeps to the record it was approved for, and reaches the deletion only
\* with a copy in a settled phase.
CleanInv ==
    /\ cleaner.pc # "idle" => cleaner.uid # None /\ cleaner.obj.uid = cleaner.uid
    /\ cleaner.pc \in {"get", "delete"} => cleaner.obj.phase \in Terminal

\* The inductive invariant.
IInv ==
    TypeOK /\ StoreInv /\ CopyInv /\ PlanInv /\ LockInv /\ ReportInv /\ CleanInv

\* What a step of a reconcile that leaves it in state r may do with the Lease.
LockKept(k, r) ==
    /\ lease' \in LeaseType
    /\ \A n \in Namespaces : lease[n] \notin {k, Nobody} => lease'[n] = lease[n]
    /\ r.pc \in Held => lease'[r.obj.spec] = k
    /\ r.pc \in Held \ {"locked"} /\ r.obj.spec = cm.spec =>
          cm.phase \notin {"Working", "RollingBack"}

\* The absent record is a record without a UID and without a phase.
LEMMA NoRecordOK ==
    /\ NoRecord \in Record /\ ~Present(NoRecord) /\ NoRecord.phase = "none"
    /\ NoRecord.uid = 0
BY Zenon DEF NoRecord, Record, Fields, Present, None, Phases

\* A reconcile under its Lease, and a session that works or is about to, know a
\* namespace to hold it in.
LEMMA LeasePlaces ==
    ASSUME IInv
    PROVE  /\ \A k \in Kinds : recon[k].pc \in Held => LeaseOf(k) \in Namespaces
           /\ session.pc \in {"lock", "work"} => session.obj.spec \in Namespaces
<1>1. \A o \in Record : Present(o) => o.spec \in Namespaces
  BY Zenon DEF Record, Specs, Namespaces
<1>2. "idle" \notin Held
  BY Zenon DEF Held
<1> QED BY Zenon, <1>1, <1>2
        DEF IInv, TypeOK, CopyInv, LockInv, Pass, Session, LeaseOf, moveWorkflowStorageNamespace

\* A step of a reconcile that keeps the lock discipline keeps LockInv.
LEMMA LockStep ==
    ASSUME IInv, NEW k \in Kinds, NEW r \in Pass, recon' = [recon EXCEPT ![k] = r],
           UNCHANGED <<cm, session>>, LockKept(k, r)
    PROVE  LockInv'
<1>k. \A j \in Kinds : recon'[j] = IF j = k THEN r ELSE recon[j]
  BY Zenon DEF IInv, TypeOK
<1>n. /\ \A j \in Kinds \ {k} : j \notin {k, Nobody}
      /\ "session" \notin {k, Nobody}
  BY Zenon DEF Kinds, Nobody
<1>1. ASSUME NEW j \in Kinds
      PROVE  /\ recon'[j].pc \in Held => lease'[recon'[j].obj.spec] = j
             /\ recon'[j].pc \in Held \ {"locked"} /\ recon'[j].obj.spec = cm.spec =>
                   cm.phase \notin {"Working", "RollingBack"}
  <2>1. CASE j = k
    <3>1. recon'[j] = r
      BY Zenon, <1>k, <2>1
    <3> QED BY Zenon, <2>1, <3>1 DEF LockKept
  <2>2. CASE j # k
    <3>1. recon'[j] = recon[j]
      BY Zenon, <1>k, <2>2
    <3>2. recon[j].pc \in Held => recon[j].obj.spec \in Namespaces /\ lease[recon[j].obj.spec] = j
      BY Zenon, LeasePlaces DEF IInv, LockInv, LeaseOf, moveWorkflowStorageNamespace
    <3>3. recon[j].pc \in Held \ {"locked"} /\ recon[j].obj.spec = cm.spec =>
             cm.phase \notin {"Working", "RollingBack"}
      BY Zenon DEF IInv, LockInv, LeaseOf, moveWorkflowStorageNamespace
    <3> QED BY Zenon, <1>n, <2>2, <3>1, <3>2, <3>3 DEF LockKept
  <2> QED BY Zenon, <2>1, <2>2
<1>2. session.pc = "work" => lease'[session.obj.spec] = "session"
  BY Zenon, <1>n, LeasePlaces DEF IInv, LockInv, LockKept
<1> QED BY Zenon, <1>1, <1>2 DEF IInv, LockInv, LeaseOf, moveWorkflowStorageNamespace

\* A step that changes only a reconcile, to a copy of what is stored, keeps the
\* invariant: the reads and the Lease steps of Reconcile are of this form.
LEMMA PassStep ==
    ASSUME IInv, NEW k \in Kinds, NEW r \in Pass, recon' = [recon EXCEPT ![k] = r],
           UNCHANGED <<rec, ended, uids>>, UNCHANGED <<cm, session, cleaner, submit, mishaps>>,
           r.obj \in {recon[k].obj, rec[k], NoRecord}, r.pc # "idle" => Present(r.obj),
           r.pc = "plan" => \A o \in Kinds \ {k} : ~Present(rec[o]),
           LockKept(k, r)
    PROVE  IInv'
<1>k. /\ \A j \in Kinds : recon'[j] = IF j = k THEN r ELSE recon[j]
      /\ "Rename" \in Kinds /\ "Move" \in Kinds /\ (k = "Rename" \/ k = "Move")
  BY Zenon DEF IInv, TypeOK, Kinds
<1>1. TypeOK'
  BY Zenon DEF IInv, TypeOK, LockKept
<1>2. StoreInv'
  BY Zenon DEF IInv, StoreInv
<1>3. CopyInv'
  BY <1>k, NoRecordOK DEF IInv, CopyInv, StoreInv, CopyOf, TypeOK, Record, Fields, Present, None
<1>4. PlanInv'
  BY <1>k DEF IInv, PlanInv, Claims, StoreInv, CopyInv, Same, Present, Kinds
<1>5. LockInv'
  BY Zenon, LockStep
<1>6. ReportInv' /\ CleanInv'
  BY Zenon DEF IInv, ReportInv, CleanInv, ReportedOwn
<1> QED BY Zenon, <1>1, <1>2, <1>3, <1>4, <1>5, <1>6 DEF IInv

\* A newer version of a stored object under its UID and spec keeps the invariant
\* when a phase with a plan is only given to an object that claims the name.
LEMMA WriteStep ==
    ASSUME IInv, NEW k \in Kinds, NEW n \in Record, rec' = [rec EXCEPT ![k] = n],
           Present(rec[k]), n.uid = rec[k].uid, n.spec = rec[k].spec, n.rv > rec[k].rv,
           n.phase \in {"Planned", "Working", "Completed"} => Claims(k),
           NEW r \in Pass, recon' = [recon EXCEPT ![k] = r],
           r.obj \in {n, recon[k].obj, NoRecord}, r.pc # "idle" => Present(r.obj),
           r.pc = "plan" => r.obj = recon[k].obj, LockKept(k, r),
           UNCHANGED <<uids, cm, session, cleaner, submit>>, mishaps' \in Nat,
           ended' \in {ended, ended \cup {<<n.uid, n.spec>>}},
           n.phase = "Completed" /\ k = "Move" => <<n.uid, n.spec>> \in ended'
    PROVE  IInv'
<1>k. /\ \A j \in Kinds : recon'[j] = IF j = k THEN r ELSE recon[j]
      /\ \A j \in Kinds : rec'[j] = IF j = k THEN n ELSE rec[j]
      /\ "Rename" \in Kinds /\ "Move" \in Kinds /\ (k = "Rename" \/ k = "Move")
  BY Zenon DEF IInv, TypeOK, Kinds
<1>n. /\ n.uid \in Nat /\ n.rv \in Nat /\ n.spec \in {"none"} \cup Specs
      /\ \A j \in Kinds : rec[j].rv \in Nat /\ recon[j].obj.rv \in Nat
  BY Zenon DEF IInv, TypeOK, Record, Fields, Pass
<1>1. TypeOK'
  BY <1>n DEF IInv, TypeOK, LockKept
<1>2. StoreInv'
  BY <1>k DEF IInv, StoreInv, Present
<1>3. CopyInv'
  <2>1. CopyOf(rec[k], recon[k].obj) /\ rec[k].uid <= uids
    BY Zenon DEF IInv, CopyInv, StoreInv
  <2>2. CopyOf(n, r.obj)
    <3>1. uids \in Nat
      BY Zenon DEF IInv, TypeOK
    <3>2. CASE r.obj = n
      BY <1>n, <2>1, <3>2 DEF CopyOf
    <3>3. CASE r.obj = recon[k].obj
      BY <1>n, <2>1, <3>3 DEF CopyOf
    <3>4. CASE r.obj = NoRecord
      BY <3>1, <3>4, NoRecordOK DEF CopyOf
    <3> QED BY Zenon, <3>2, <3>3, <3>4
  <2>3. /\ \A j \in Kinds : /\ CopyOf(rec[j], recon[j].obj)
                            /\ recon[j].pc # "idle" => Present(recon[j].obj)
        /\ CopyOf(cm, session.obj) /\ CopyOf(cm, cleaner.obj)
    BY Zenon DEF IInv, CopyInv
  <2> QED BY <1>k, <2>2, <2>3 DEF CopyInv, CopyOf, Present
<1>4. PlanInv'
  <2>1. Claims(k)' => Claims(k)
    BY <1>k, <1>n DEF IInv, Claims, Same, CopyInv, CopyOf, Present, None
  <2>2. \A j \in Kinds \ {k} : Claims(j)' => Claims(j)
    BY ZenonT(60), <1>k DEF Claims, Same
  <2> QED BY Zenon, <1>k, <2>1, <2>2 DEF IInv, PlanInv
<1>5. LockInv'
  BY Zenon, LockStep
<1>6. ReportInv'
  <2>1. \A e \in ended' : /\ e[1] # None /\ e[1] <= uids
                          /\ \A j \in Kinds : e[1] = rec'[j].uid => e[2] = rec'[j].spec
    BY <1>k, <1>n DEF IInv, ReportInv, StoreInv, Present, Kinds
  <2>2. rec'["Move"].phase = "Completed" => <<rec'["Move"].uid, rec'["Move"].spec>> \in ended'
    BY ZenonT(30), <1>k DEF IInv, ReportInv
  <2>3. submit.pc = "wait" => \A e \in ended' : e[1] = submit.uid => e[2] = submit.spec
    BY <1>k, <1>n DEF IInv, ReportInv
  <2>4. ReportedOwn'
    BY Zenon DEF IInv, ReportInv, ReportedOwn
  <2> QED BY <1>k, <2>1, <2>2, <2>3, <2>4 DEF IInv, ReportInv
<1>7. CleanInv'
  BY Zenon DEF IInv, CleanInv
<1> QED BY Zenon, <1>1, <1>2, <1>3, <1>4, <1>5, <1>6, <1>7 DEF IInv

\* The removal of an object keeps the invariant: copies of it are stale from now on.
LEMMA VanishStep ==
    ASSUME IInv, NEW k \in Kinds, rec' = [rec EXCEPT ![k] = NoRecord],
           NEW r \in Pass, recon' = [recon EXCEPT ![k] = r],
           r = recon[k] \/ (r.obj = NoRecord /\ r.pc = "idle"),
           UNCHANGED <<lease, uids, cm, session, cleaner, submit, ended>>, mishaps' \in Nat
    PROVE  IInv'
<1>k. /\ \A j \in Kinds : recon'[j] = IF j = k THEN r ELSE recon[j]
      /\ \A j \in Kinds : rec'[j] = IF j = k THEN NoRecord ELSE rec[j]
      /\ "Rename" \in Kinds /\ "Move" \in Kinds /\ (k = "Rename" \/ k = "Move")
  BY Zenon DEF IInv, TypeOK, Kinds
<1>n. uids \in Nat
  BY Zenon DEF IInv, TypeOK
<1>1. TypeOK'
  BY Zenon, NoRecordOK DEF IInv, TypeOK
<1>2. StoreInv'
  BY <1>k, <1>n, NoRecordOK DEF IInv, StoreInv, Present, None
<1>3. CopyInv'
  BY <1>k, <1>n, NoRecordOK DEF IInv, CopyInv, CopyOf, Present, None
<1>4. PlanInv'
  <2>1. ~Claims(k)'
    BY ZenonT(30), <1>k, NoRecordOK DEF IInv, Claims, Same, CopyInv, Present, None
  <2> QED BY Zenon, <1>k, <2>1 DEF IInv, PlanInv
<1>5. LockInv'
  <2>1. "idle" \notin Held
    BY Zenon DEF Held
  <2>2. ASSUME NEW j \in Kinds, recon'[j].pc \in Held PROVE recon'[j] = recon[j]
    <3>1. CASE j = k
      <4>1. recon'[j] = r
        BY Zenon, <1>k, <3>1
      <4>2. r = recon[k]
        BY Zenon, <2>1, <2>2, <4>1
      <4> QED BY Zenon, <3>1, <4>1, <4>2
    <3>2. CASE j # k
      BY Zenon, <1>k, <3>2
    <3> QED BY Zenon, <3>1, <3>2
  <2> QED BY Zenon, <2>2 DEF IInv, LockInv, LeaseOf, moveWorkflowStorageNamespace
<1>6. ReportInv'
  <2>1. \A e \in ended : e[1] # 0
    BY Zenon DEF IInv, ReportInv, None
  <2> QED BY <1>k, <2>1, NoRecordOK DEF IInv, ReportInv, ReportedOwn, None
<1>7. CleanInv'
  BY Zenon DEF IInv, CleanInv
<1> QED BY Zenon, <1>1, <1>2, <1>3, <1>4, <1>5, <1>6, <1>7 DEF IInv

\* A new object gets a UID no copy and no ended workflow has, so creation by kubectl
\* or by the CLI keeps the invariant.
LEMMA AppearStep ==
    ASSUME IInv, NEW k \in Kinds, NEW n \in Record, rec' = [rec EXCEPT ![k] = n],
           uids' = uids + 1, n.uid = uids', n.phase = "none",
           UNCHANGED <<lease, recon, cm, session, cleaner, ended, mishaps>>,
           NEW s, s \in {submit, [submit EXCEPT !.pc = "wait", !.uid = uids']}, submit' = s,
           s # submit => k = "Move" /\ n.spec = submit.spec /\ submit.pc = "create"
    PROVE  IInv'
<1>k. /\ \A j \in Kinds : rec'[j] = IF j = k THEN n ELSE rec[j]
      /\ "Rename" \in Kinds /\ "Move" \in Kinds /\ (k = "Rename" \/ k = "Move")
  BY Zenon DEF IInv, TypeOK, Kinds
<1>n. /\ uids \in Nat /\ uids' \in Nat /\ uids' > uids
      /\ \A j \in Kinds : rec[j].uid \in Nat /\ recon[j].obj.uid \in Nat
      /\ cm.uid \in Nat /\ session.obj.uid \in Nat
      /\ cleaner.obj.uid \in Nat /\ submit.uid \in Nat
      /\ \A e \in ended : e[1] \in Nat
  BY DEF IInv, TypeOK, Record, Fields, Pass, Session, Cleaner, Submission
<1>s. /\ submit' \in Submission
      /\ submit'.spec = submit.spec /\ submit'.outcome = submit.outcome
      /\ submit' = submit \/ (submit'.pc = "wait" /\ submit'.uid = uids')
  BY Zenon, <1>n DEF IInv, TypeOK, Submission
<1>1. TypeOK'
  BY Zenon, <1>n, <1>s DEF IInv, TypeOK
<1>2. StoreInv'
  BY <1>k, <1>n DEF IInv, StoreInv, Present, None
<1>3. CopyInv'
  BY <1>k, <1>n DEF IInv, CopyInv, CopyOf, Present, None
<1>4. PlanInv'
  BY <1>k, <1>n DEF IInv, PlanInv, Claims, Same, CopyInv, CopyOf
<1>5. LockInv'
  BY Zenon DEF IInv, LockInv, LeaseOf, moveWorkflowStorageNamespace
<1>6. ReportInv'
  BY <1>k, <1>n, <1>s DEF IInv, ReportInv, ReportedOwn, StoreInv, None, Submission
<1>7. CleanInv'
  BY Zenon DEF IInv, CleanInv
<1> QED BY Zenon, <1>1, <1>2, <1>3, <1>4, <1>5, <1>6, <1>7 DEF IInv

\* The places a reconcile can be at.
Places == {"idle", "check", "kinds", "protect", "lock", "acquire", "remove"} \cup Held

\* Going on to another place keeps the copy a reconcile works with.
LEMMA GotoEffect ==
    ASSUME IInv, NEW k \in Kinds, NEW next \in Places, Goto(k, next)
    PROVE  LET r == [recon[k] EXCEPT !.pc = next] IN
           /\ r \in Pass /\ recon' = [recon EXCEPT ![k] = r]
           /\ r.pc = next /\ r.obj = recon[k].obj
BY Zenon DEF IInv, TypeOK, Pass, Goto, Places

\* A reconcile that ends forgets its copy.
LEMMA IdleEffect ==
    ASSUME IInv, NEW k \in Kinds, Idle(k)
    PROVE  LET r == [pc |-> "idle", mode |-> "none", obj |-> NoRecord] IN
           /\ r \in Pass /\ recon' = [recon EXCEPT ![k] = r] /\ r.pc = "idle"
           /\ r.obj = NoRecord
BY Zenon, NoRecordOK DEF Pass, Idle

\* A step that leaves the Lease alone keeps the lock discipline when it enters no
\* guarded place from outside.
LEMMA LeaseStays ==
    ASSUME IInv, NEW k \in Kinds, NEW r \in Pass, UNCHANGED lease,
           r.pc \in Held => recon[k].pc \in Held /\ r.obj.spec = recon[k].obj.spec,
           r.pc \in Held \ {"locked"} =>
              \/ recon[k].pc \in Held \ {"locked"}
              \/ r.obj.spec = cm.spec => cm.phase \notin {"Working", "RollingBack"}
    PROVE  LockKept(k, r)
BY Zenon DEF IInv, LockKept, LockInv, TypeOK, LeaseOf, moveWorkflowStorageNamespace

\* Giving up its own Lease keeps the lock discipline of everyone else.
LEMMA LeaseGivenUp ==
    ASSUME IInv, NEW k \in Kinds, NEW r \in Pass, Release(k), recon[k].pc \in Held,
           r.pc \notin Held
    PROVE  LockKept(k, r)
<1>1. lease[LeaseOf(k)] = k /\ lease' = [lease EXCEPT ![LeaseOf(k)] = Nobody]
  BY Zenon DEF IInv, LockInv, Release
<1>2. lease \in LeaseType
  BY Zenon DEF IInv, TypeOK
<1> QED BY Zenon, <1>1, <1>2 DEF LockKept, LeaseType

\* A read that lets a reconcile go on keeps the invariant.
LEMMA GoesOn ==
    ASSUME IInv, NEW k \in Kinds, NEW next \in Places, Goto(k, next), recon[k].pc # "idle",
           UNCHANGED lease, StoreUnchanged, OthersUnchanged,
           next = "plan" => \A o \in Kinds \ {k} : ~Present(rec[o]),
           next \in Held => recon[k].pc \in Held,
           next \in Held \ {"locked"} =>
              recon[k].pc \in Held \ {"locked"} \/ ~(Present(cm) /\ cm.spec = recon[k].obj.spec)
    PROVE  IInv'
<1> DEFINE r == [recon[k] EXCEPT !.pc = next]
<1>1. /\ r \in Pass /\ recon' = [recon EXCEPT ![k] = r]
      /\ r.pc = next /\ r.obj = recon[k].obj
  BY Zenon, GotoEffect
<1>2. Present(recon[k].obj) /\ (~Present(cm) => cm.phase = "none")
  BY Zenon DEF IInv, CopyInv, StoreInv
<1> HIDE DEF r
<1>3. LockKept(k, r)
  BY Zenon, <1>1, <1>2, LeaseStays
<1>4. UNCHANGED <<rec, ended, uids>> /\ UNCHANGED <<cm, session, cleaner, submit, mishaps>>
  BY Zenon DEF StoreUnchanged, OthersUnchanged
<1> QED BY Zenon, <1>1, <1>2, <1>3, <1>4, PassStep

\* A check that ends a reconcile keeps the invariant.
LEMMA Stops ==
    ASSUME IInv, NEW k \in Kinds, StoreUnchanged, OthersUnchanged,
           (Idle(k) /\ UNCHANGED lease) \/ (GiveUp(k) /\ recon[k].pc \in Held)
    PROVE  IInv'
<1> DEFINE r == [pc |-> "idle", mode |-> "none", obj |-> NoRecord]
<1>1. /\ r \in Pass /\ recon' = [recon EXCEPT ![k] = r] /\ r.pc = "idle" /\ r.obj = NoRecord
  BY Zenon, IdleEffect DEF GiveUp
<1> HIDE DEF r
<1>2. LockKept(k, r)
  BY Zenon, <1>1, LeaseStays, LeaseGivenUp DEF GiveUp, Held
<1>3. UNCHANGED <<rec, ended, uids>> /\ UNCHANGED <<cm, session, cleaner, submit, mishaps>>
  BY Zenon DEF StoreUnchanged, OthersUnchanged
<1> QED BY Zenon, <1>1, <1>2, <1>3, PassStep

\* The collision check of either kind looks where the other kind is stored.
LEMMA OtherKinds ==
    ASSUME NEW k \in Kinds, ~OtherKindPresent(k)
    PROVE  \A o \in Kinds \ {k} : ~Present(rec[o])
BY Zenon DEF OtherKindPresent

\* Reading the object starts a reconcile outside the Lease.
LEMMA ReconcileKeeps == ASSUME IInv, NEW k \in Kinds, Reconcile(k) PROVE IInv'
<1> DEFINE r == [pc |-> IF rec[k].deleting THEN "lock" ELSE "check",
                 mode |-> IF rec[k].deleting THEN "finalize" ELSE "none", obj |-> rec[k]]
<1>1. /\ r \in Pass /\ r.pc \notin Held /\ r.pc # "plan" /\ r.obj = rec[k] /\ Present(rec[k])
      /\ recon' = [recon EXCEPT ![k] = r] /\ UNCHANGED lease
  BY Zenon DEF Reconcile, IInv, TypeOK, Pass, Held
<1> HIDE DEF r
<1>2. LockKept(k, r)
  BY Zenon, <1>1, LeaseStays
<1>3. UNCHANGED <<rec, ended, uids>> /\ UNCHANGED <<cm, session, cleaner, submit, mishaps>>
  BY Zenon DEF Reconcile, StoreUnchanged, OthersUnchanged
<1> QED BY Zenon, <1>1, <1>2, <1>3, PassStep

\* The ConfigMap check before the Lease decides nothing the invariant needs.
LEMMA CheckConfigMapsKeeps == ASSUME IInv, NEW k \in Kinds, CheckConfigMaps(k) PROVE IInv'
BY Zenon, GoesOn, Stops DEF CheckConfigMaps, At, Places, Held

\* The check of the other kinds before the Lease: neither does it.
LEMMA CheckKindsKeeps ==
    ASSUME IInv, NEW k \in Kinds, CheckWorkflowIdentityCollision(k) PROVE IInv'
BY Zenon, GoesOn, Stops DEF CheckWorkflowIdentityCollision, At, Places, Held

\* The ConfigMap check of CRDWorkflowLocker before the Lease.
LEMMA LockCheckKeeps == ASSUME IInv, NEW k \in Kinds, LockCheck(k) PROVE IInv'
BY Zenon, GoesOn, Stops DEF LockCheck, At, Places, Held

\* Taking a free Lease: nobody who relies on it can be at work.
LEMMA AcquireKeeps == ASSUME IInv, NEW k \in Kinds, Acquire(k) PROVE IInv'
<1>1. CASE Idle(k) /\ UNCHANGED lease
  BY Zenon, <1>1, Stops DEF Acquire
<1>2. CASE lease[LeaseOf(k)] = Nobody /\ Goto(k, "locked") /\ Hold(k)
  <2> DEFINE r == [recon[k] EXCEPT !.pc = "locked"]
  <2>1. /\ r \in Pass /\ recon' = [recon EXCEPT ![k] = r]
        /\ r.pc = "locked" /\ r.obj = recon[k].obj
    BY Zenon, <1>2, GotoEffect DEF Places, Held
  <2> HIDE DEF r
  <2>2. Present(recon[k].obj) /\ LeaseOf(k) = r.obj.spec /\ r.obj \in Record
    BY Zenon, <2>1 DEF Acquire, At, IInv, TypeOK, CopyInv, Pass, LeaseOf,
       moveWorkflowStorageNamespace
  <2>3. LeaseOf(k) \in Namespaces
    BY Zenon, <2>1, <2>2 DEF Record, Specs, Namespaces
  <2>4. LockKept(k, r)
    <3>1. lease \in LeaseType /\ lease' = [lease EXCEPT ![LeaseOf(k)] = k]
      BY Zenon, <1>2 DEF IInv, TypeOK, Hold
    <3>2. lease' \in LeaseType /\ lease'[r.obj.spec] = k
      BY Zenon, <2>2, <2>3, <3>1 DEF LeaseType
    <3>3. \A n \in Namespaces : lease[n] \notin {k, Nobody} => lease'[n] = lease[n]
      BY Zenon, <1>2, <3>1 DEF LeaseType
    <3> QED BY Zenon, <2>1, <3>2, <3>3 DEF LockKept
  <2>5. Present(recon[k].obj)
    BY Zenon DEF Acquire, At, IInv, CopyInv
  <2>6. UNCHANGED <<rec, ended, uids>> /\ UNCHANGED <<cm, session, cleaner, submit, mishaps>>
    BY Zenon DEF Acquire, StoreUnchanged, OthersUnchanged
  <2> QED BY Zenon, <2>1, <2>4, <2>5, <2>6, PassStep
<1> QED BY Zenon, <1>1, <1>2 DEF Acquire

\* The ConfigMap check under the Lease is what LockInv rests on.
LEMMA AcquireSessionLockKeeps ==
    ASSUME IInv, NEW k \in Kinds, AcquireSessionLock(k) PROVE IInv'
<1>1. "locked" \in Held /\ "loaded" \in Places /\ recon[k].pc = "locked"
  BY Zenon DEF Held, Places, AcquireSessionLock, At
<1>2. ~checkConfigMapNameCollision({LeaseOf(k)}) =>
          ~(Present(cm) /\ cm.spec = recon[k].obj.spec)
  BY Zenon DEF checkConfigMapNameCollision, LeaseOf, moveWorkflowStorageNamespace
<1> QED BY Zenon, <1>1, <1>2, GoesOn, Stops DEF AcquireSessionLock

\* The comparison before planning.
LEMMA PlanKeeps == ASSUME IInv, NEW k \in Kinds, plan(k) PROVE IInv'
BY Zenon, GoesOn, Stops DEF plan, At, Places, Held

\* The comparison before running or finalizing.
LEMMA WithWorkflowLeaseKeeps == ASSUME IInv, NEW k \in Kinds, WithWorkflowLease(k) PROVE IInv'
BY Zenon, GoesOn, Stops DEF WithWorkflowLease, At, Places, Held

\* The ConfigMap check under the Lease before planning.
LEMMA RecheckConfigMapsKeeps == ASSUME IInv, NEW k \in Kinds, RecheckConfigMaps(k) PROVE IInv'
BY Zenon, GoesOn, Stops DEF RecheckConfigMaps, At, Places, Held

\* The check of the other kinds before the plan is saved is what PlanInv rests on:
\* whoever comes to claim the name was absent when the other one looked.
LEMMA RecheckKindsKeeps == ASSUME IInv, NEW k \in Kinds, RecheckKinds(k) PROVE IInv'
BY Zenon, GoesOn, Stops, OtherKinds DEF RecheckKinds, At, Places, Held

\* A status write advances the version and keeps UID and spec.
LEMMA NewPhase ==
    ASSUME NEW o \in Record, NEW p \in Phases
    PROVE  LET n == [o EXCEPT !.phase = p, !.rv = @ + 1] IN
           /\ n \in Record /\ n.uid = o.uid /\ n.spec = o.spec /\ n.rv > o.rv
           /\ n.phase = p
<1> DEFINE m == o.rv + 1
<1>1. m \in Nat /\ m > o.rv
  BY DEF Record, Fields
<1> HIDE DEF m
<1>2. LET n == [o EXCEPT !.phase = p, !.rv = m] IN
      /\ n \in Fields /\ n.uid = o.uid /\ n.spec = o.spec /\ n.rv > o.rv /\ n.phase = p
  BY Zenon, <1>1 DEF Record, Fields
<1>3. Present(o) => o.spec \in Specs
  BY Zenon DEF Record
<1> QED BY Zenon, <1>2, <1>3 DEF m, Record, Present

\* So does a write that changes nothing the model tells apart ...
LEMMA NewVersion ==
    ASSUME NEW o \in Record
    PROVE  LET n == [o EXCEPT !.rv = @ + 1] IN
           /\ n \in Record /\ n.uid = o.uid /\ n.spec = o.spec /\ n.rv > o.rv
           /\ n.phase = o.phase
<1> DEFINE m == o.rv + 1
<1>1. m \in Nat /\ m > o.rv
  BY DEF Record, Fields
<1> HIDE DEF m
<1>2. LET n == [o EXCEPT !.rv = m] IN
      /\ n \in Fields /\ n.uid = o.uid /\ n.spec = o.spec /\ n.rv > o.rv /\ n.phase = o.phase
  BY Zenon, <1>1 DEF Record, Fields
<1>3. Present(o) => o.spec \in Specs
  BY Zenon DEF Record
<1> QED BY Zenon, <1>2, <1>3 DEF m, Record, Present

\* ... the write that adds the finalizer ...
LEMMA NewFinalizer ==
    ASSUME NEW o \in Record
    PROVE  LET n == [o EXCEPT !.protected = TRUE, !.rv = @ + 1] IN
           /\ n \in Record /\ n.uid = o.uid /\ n.spec = o.spec /\ n.rv > o.rv
           /\ n.phase = o.phase
<1> DEFINE m == o.rv + 1
<1>1. m \in Nat /\ m > o.rv
  BY DEF Record, Fields
<1> HIDE DEF m
<1>2. LET n == [o EXCEPT !.protected = TRUE, !.rv = m] IN
      /\ n \in Fields /\ n.uid = o.uid /\ n.spec = o.spec /\ n.rv > o.rv /\ n.phase = o.phase
  BY Zenon, <1>1 DEF Record, Fields
<1>3. Present(o) => o.spec \in Specs
  BY Zenon DEF Record
<1> QED BY Zenon, <1>2, <1>3 DEF m, Record, Present

\* ... and the deletion of a protected object.
LEMMA NewDeletion ==
    ASSUME NEW o \in Record
    PROVE  LET n == [o EXCEPT !.deleting = TRUE, !.rv = @ + 1] IN
           /\ n \in Record /\ n.uid = o.uid /\ n.spec = o.spec /\ n.rv > o.rv
           /\ n.phase = o.phase
<1> DEFINE m == o.rv + 1
<1>1. m \in Nat /\ m > o.rv
  BY DEF Record, Fields
<1> HIDE DEF m
<1>2. LET n == [o EXCEPT !.deleting = TRUE, !.rv = m] IN
      /\ n \in Fields /\ n.uid = o.uid /\ n.spec = o.spec /\ n.rv > o.rv /\ n.phase = o.phase
  BY Zenon, <1>1 DEF Record, Fields
<1>3. Present(o) => o.spec \in Specs
  BY Zenon DEF Record
<1> QED BY Zenon, <1>2, <1>3 DEF m, Record, Present

\* A copy with the stored UID and resourceVersion is the stored object.
LEMMA Unseen ==
    ASSUME IInv, NEW k \in Kinds, recon[k].pc # "idle", Same(rec[k], recon[k].obj)
    PROVE  recon[k].obj = rec[k] /\ rec[k] \in Record /\ Present(rec[k])
BY Zenon DEF IInv, CopyInv, CopyOf, Same, Present, TypeOK

\* A status save of a reconcile that works or settles keeps the invariant: Save
\* accepts the write only over the copy it was computed from.
LEMMA SaveStep ==
    ASSUME IInv, NEW k \in Kinds, NEW phase \in Phases, recon[k].pc \in {"work", "settle"},
           Save(k, phase), UNCHANGED <<lease, uids>>, OthersUnchanged,
           phase \in {"Planned", "Working", "Completed"} =>
              recon[k].obj.phase \in {"Planned", "Working"}
    PROVE  IInv'
<1> DEFINE n == [recon[k].obj EXCEPT !.phase = phase, !.rv = @ + 1]
           r == [recon[k] EXCEPT !.obj = n]
<1>1. recon[k].obj = rec[k] /\ rec[k] \in Record /\ Present(rec[k])
  BY Zenon, Unseen DEF Save
<1>2. n \in Record /\ n.uid = rec[k].uid /\ n.spec = rec[k].spec /\ n.rv > rec[k].rv
      /\ n.phase = phase
  <2>1. /\ n \in Record /\ n.uid = recon[k].obj.uid /\ n.spec = recon[k].obj.spec
        /\ n.rv > recon[k].obj.rv /\ n.phase = phase
    <3>1. recon[k].obj \in Record
      BY Zenon, <1>1
    <3> QED BY Zenon, <3>1, NewPhase
  <2> HIDE DEF n
  <2> QED BY Zenon, <1>1, <2>1
<1>3. /\ rec' = [rec EXCEPT ![k] = n] /\ recon' = [recon EXCEPT ![k].obj = n]
      /\ ended' = IF phase = "Completed" THEN ended \cup {<<n.uid, n.spec>>} ELSE ended
  BY Zenon DEF Save
<1> HIDE DEF n
<1>4. /\ r \in Pass /\ r.obj = n /\ r.pc = recon[k].pc /\ recon' = [recon EXCEPT ![k] = r]
  <2>1. recon \in [Kinds -> Pass] /\ recon[k] \in Pass
    BY Zenon DEF IInv, TypeOK
  <2>2. r \in Pass /\ r.obj = n /\ r.pc = recon[k].pc
    BY Zenon, <1>2, <2>1 DEF Pass
  <2> QED BY Zenon, <1>3, <2>1, <2>2
<1> HIDE DEF r
<1>5. LockKept(k, r)
  <2>1. r.obj.spec = recon[k].obj.spec
    BY Zenon, <1>1, <1>2, <1>4
  <2>2. r.pc \in Held => recon[k].pc \in Held \ {"locked"}
    BY Zenon, <1>4
  <2> QED BY Zenon, <1>4, <2>1, <2>2, LeaseStays
<1>6. Present(n) /\ (n.phase \in {"Planned", "Working", "Completed"} => Claims(k))
  BY Zenon, <1>1, <1>2 DEF Present, Claims
<1>7. UNCHANGED <<uids, cm, session, cleaner, submit>> /\ mishaps' \in Nat
  BY Zenon DEF OthersUnchanged, IInv, TypeOK
<1> QED BY Zenon, <1>1, <1>2, <1>3, <1>4, <1>5, <1>6, <1>7, WriteStep

\* A refused save ends the reconcile and keeps the invariant.
LEMMA StaleStep ==
    ASSUME IInv, NEW k \in Kinds, recon[k].pc \in Held, StaleSave(k), UNCHANGED uids,
           OthersUnchanged
    PROVE  IInv'
BY Zenon, Stops DEF StaleSave, StoreUnchanged

\* The transitions of run keep the invariant.
LEMMA RunKeeps == ASSUME IInv, NEW k \in Kinds, run(k) PROVE IInv'
<1>1. recon[k].pc = "work" /\ UNCHANGED uids /\ OthersUnchanged /\ "work" \in Held
  BY Zenon DEF run, At, Held
<1>2. CASE recon[k].obj.phase = "Planned" /\ Save(k, "Working") /\ UNCHANGED lease
  BY Zenon, <1>1, <1>2, SaveStep DEF Phases
<1>3. CASE recon[k].obj.phase = "Working" /\ Save(k, "Completed") /\ UNCHANGED lease
  BY Zenon, <1>1, <1>3, SaveStep DEF Phases
<1>4. CASE GiveUp(k) /\ UNCHANGED <<rec, ended>>
  BY Zenon, <1>1, <1>4, Stops DEF StoreUnchanged
<1>5. CASE StaleSave(k)
  BY Zenon, <1>1, <1>5, StaleStep
<1> QED BY Zenon, <1>2, <1>3, <1>4, <1>5 DEF run

\* The aborts of a deleted object keep the invariant.
LEMMA AbortKeeps == ASSUME IInv, NEW k \in Kinds, abort(k) PROVE IInv'
<1>1. /\ recon[k].pc = "settle" /\ UNCHANGED <<lease, uids>> /\ OthersUnchanged
      /\ {"Aborted", "Aborting"} \subseteq Phases
  BY Zenon DEF abort, At, Phases
<1>2. Save(k, "Aborted") \/ Save(k, "Aborting")
  BY Zenon DEF abort
<1> QED BY Zenon, <1>1, <1>2, SaveStep

\* FinalizeDeleted keeps the invariant; it gives the Lease up before the object.
LEMMA FinalizeDeletedKeeps == ASSUME IInv, NEW k \in Kinds, FinalizeDeleted(k) PROVE IInv'
<1>1. recon[k].pc = "settle" /\ UNCHANGED uids /\ OthersUnchanged /\ "settle" \in Held
  BY Zenon DEF FinalizeDeleted, At, Held
<1>2. CASE recon[k].obj.phase = "Working" /\ Save(k, "Completed") /\ UNCHANGED lease
  BY Zenon, <1>1, <1>2, SaveStep DEF Phases
<1>3. CASE StaleSave(k)
  BY Zenon, <1>1, <1>3, StaleStep
<1>4. CASE Goto(k, "remove") /\ Release(k) /\ UNCHANGED <<rec, ended>>
  <2> DEFINE r == [recon[k] EXCEPT !.pc = "remove"]
  <2>1. /\ r \in Pass /\ recon' = [recon EXCEPT ![k] = r]
        /\ r.pc = "remove" /\ r.obj = recon[k].obj
    BY Zenon, <1>4, GotoEffect DEF Places
  <2> HIDE DEF r
  <2>2. "remove" \notin Held /\ Present(recon[k].obj)
    BY Zenon, <1>1 DEF Held, IInv, CopyInv
  <2>3. LockKept(k, r)
    BY Zenon, <1>1, <1>4, <2>1, <2>2, LeaseGivenUp
  <2>4. UNCHANGED <<rec, ended, uids>> /\ UNCHANGED <<cm, session, cleaner, submit, mishaps>>
    BY Zenon, <1>1, <1>4 DEF OthersUnchanged
  <2> QED BY Zenon, <2>1, <2>2, <2>3, <2>4, PassStep
<1> QED BY Zenon, <1>2, <1>3, <1>4 DEF FinalizeDeleted

\* Recording the Deleting condition keeps the invariant.
LEMMA SaveDeletingKeeps == ASSUME IInv, NEW k \in Kinds, SaveDeleting(k) PROVE IInv'
<1> DEFINE n == [recon[k].obj EXCEPT !.rv = @ + 1]
           r == [recon[k] EXCEPT !.pc = "settle", !.obj = n]
<1>1. /\ recon[k].pc = "converge" /\ UNCHANGED uids /\ OthersUnchanged
      /\ {"converge", "settle"} \subseteq Held
  BY Zenon DEF SaveDeleting, At, Held
<1>2. CASE StaleSave(k)
  BY Zenon, <1>1, <1>2, StaleStep
<1>3. CASE /\ Same(rec[k], recon[k].obj) /\ rec' = [rec EXCEPT ![k] = n]
           /\ recon' = [recon EXCEPT ![k] = r] /\ UNCHANGED <<lease, ended>>
  <2>1. recon[k].obj = rec[k] /\ rec[k] \in Record /\ Present(rec[k])
    BY Zenon, <1>1, <1>3, Unseen
  <2>2. n \in Record /\ n.uid = rec[k].uid /\ n.spec = rec[k].spec /\ n.rv > rec[k].rv
        /\ n.phase = rec[k].phase
    BY Zenon, <2>1, NewVersion
  <2> HIDE DEF n
  <2>3. r \in Pass /\ r.obj = n /\ r.pc = "settle"
    <3>1. recon[k] \in Pass /\ "settle" \in Held
      BY Zenon, <1>1 DEF IInv, TypeOK
    <3> QED BY Zenon, <2>2, <3>1 DEF Pass
  <2> HIDE DEF r
  <2>4. LockKept(k, r)
    <3>1. r.obj.spec = recon[k].obj.spec
      BY Zenon, <2>1, <2>2, <2>3
    <3> QED BY Zenon, <1>1, <1>3, <2>3, <3>1, LeaseStays
  <2>5. /\ Present(n) /\ (n.phase \in {"Planned", "Working", "Completed"} => Claims(k))
    BY Zenon, <2>1, <2>2 DEF Present, Claims
  <2>6. n.phase = "Completed" /\ k = "Move" => <<n.uid, n.spec>> \in ended
    BY Zenon, <2>2 DEF IInv, ReportInv
  <2>7. UNCHANGED <<uids, cm, session, cleaner, submit>> /\ mishaps' \in Nat
    BY Zenon, <1>1 DEF OthersUnchanged, IInv, TypeOK
  <2> QED BY Zenon, <1>3, <2>1, <2>2, <2>3, <2>4, <2>5, <2>6, <2>7, WriteStep
<1> QED BY Zenon, <1>2, <1>3 DEF SaveDeleting

\* Adding the finalizer keeps the invariant.
LEMMA EnsureProtectionKeeps == ASSUME IInv, NEW k \in Kinds, EnsureProtection(k) PROVE IInv'
<1> DEFINE o == recon[k].obj
           m == [o EXCEPT !.protected = TRUE, !.rv = @ + 1]
           n == IF o.protected THEN o ELSE m
           r == [pc |-> "lock", mode |-> Mode(o), obj |-> n]
<1>1. /\ recon[k].pc = "protect" /\ UNCHANGED <<lease, ended, uids>> /\ OthersUnchanged
      /\ "lock" \notin Held
  BY Zenon DEF EnsureProtection, At, Held
<1>2. CASE Idle(k) /\ UNCHANGED rec
  BY Zenon, <1>1, <1>2, Stops DEF StoreUnchanged
<1>3. CASE /\ Same(rec[k], o) /\ rec' = [rec EXCEPT ![k] = n]
           /\ recon' = [recon EXCEPT ![k] = r]
  <2>1. o = rec[k] /\ rec[k] \in Record /\ Present(rec[k])
    BY Zenon, <1>1, <1>3, Unseen
  <2>2. m \in Record /\ m.uid = o.uid /\ m.spec = o.spec /\ m.rv > o.rv /\ m.phase = o.phase
    <3>1. o \in Record
      BY Zenon, <2>1
    <3> HIDE DEF o
    <3> QED BY Zenon, <3>1, NewFinalizer
  <2>3. UNCHANGED <<uids, cm, session, cleaner, submit, mishaps>> /\ mishaps' \in Nat
    BY Zenon, <1>1 DEF OthersUnchanged, IInv, TypeOK
  <2> HIDE DEF m
  <2>4. /\ r \in Pass /\ r.obj = n /\ r.pc = "lock"
    BY Zenon, <2>1, <2>2 DEF Pass, Mode
  <2>5. Present(n)
    BY Zenon, <2>1, <2>2 DEF Present
  <2> HIDE DEF r
  <2>6. LockKept(k, r)
    BY Zenon, <1>1, <2>4, LeaseStays
  <2>7. CASE o.protected
    <3>1. n = rec[k] /\ rec' = rec
      BY Zenon, <1>3, <2>1, <2>7 DEF IInv, TypeOK
    <3> QED BY Zenon, <1>1, <1>3, <2>3, <2>4, <2>5, <2>6, <3>1, PassStep
  <2>8. CASE ~o.protected
    <3>1. n = m
      BY Zenon, <2>8
    <3>2. n.phase \in {"Planned", "Working", "Completed"} => Claims(k)
      BY Zenon, <2>1, <2>2, <3>1 DEF Claims
    <3>3. n.phase = "Completed" /\ k = "Move" => <<n.uid, n.spec>> \in ended
      BY Zenon, <2>1, <2>2, <3>1 DEF IInv, ReportInv
    <3> HIDE DEF n, o
    <3> QED BY Zenon, <1>1, <1>3, <2>1, <2>2, <2>3, <2>4, <2>5, <2>6, <3>1, <3>2, <3>3, WriteStep
  <2> QED BY Zenon, <2>7, <2>8
<1> QED BY Zenon, <1>2, <1>3 DEF EnsureProtection

\* Saving the plan keeps the invariant: the object claimed the name already.
LEMMA SavePlanningKeeps == ASSUME IInv, NEW k \in Kinds, savePlanning(k) PROVE IInv'
<1> DEFINE n == [rec[k] EXCEPT !.phase = "Planned", !.rv = @ + 1]
           r == [pc |-> "idle", mode |-> "none", obj |-> NoRecord]
<1>1. recon[k].pc = "plan" /\ UNCHANGED uids /\ OthersUnchanged /\ "plan" \in Held
  BY Zenon DEF savePlanning, At, Held
<1>2. CASE StaleSave(k)
  BY Zenon, <1>1, <1>2, StaleStep
<1>3. CASE /\ Same(rec[k], recon[k].obj) /\ GiveUp(k) /\ UNCHANGED ended
           /\ rec' = [rec EXCEPT ![k].phase = "Planned", ![k].rv = @ + 1]
  <2>1. recon[k].obj = rec[k] /\ rec[k] \in Record /\ Present(rec[k])
    BY Zenon, <1>1, <1>3, Unseen
  <2>2. rec' = [rec EXCEPT ![k] = n]
    BY Zenon, <1>3 DEF IInv, TypeOK
  <2>3. n \in Record /\ n.uid = rec[k].uid /\ n.spec = rec[k].spec /\ n.rv > rec[k].rv
        /\ n.phase = "Planned"
    <3>1. "Planned" \in Phases
      BY Zenon DEF Phases
    <3> QED BY Zenon, <2>1, <3>1, NewPhase
  <2> HIDE DEF n
  <2>4. /\ r \in Pass /\ recon' = [recon EXCEPT ![k] = r] /\ r.pc = "idle" /\ r.obj = NoRecord
    BY Zenon, <1>3, IdleEffect DEF GiveUp
  <2> HIDE DEF r
  <2>5. LockKept(k, r)
    BY Zenon, <1>1, <1>3, <2>4, LeaseGivenUp DEF GiveUp, Held
  <2>6. Claims(k)
    BY Zenon, <1>1, <1>3 DEF Claims
  <2>7. UNCHANGED <<uids, cm, session, cleaner, submit>> /\ mishaps' \in Nat
    BY Zenon, <1>1 DEF OthersUnchanged, IInv, TypeOK
  <2> QED BY Zenon, <1>3, <2>1, <2>2, <2>3, <2>4, <2>5, <2>6, <2>7, WriteStep
<1> QED BY Zenon, <1>2, <1>3 DEF savePlanning

\* A write to the metadata keeps the invariant.
LEMMA BumpStep ==
    ASSUME IInv, NEW k \in Kinds, Present(rec[k]), rec' = [rec EXCEPT ![k].rv = @ + 1],
           NEW r \in Pass, recon' = [recon EXCEPT ![k] = r],
           r = recon[k] \/ (r.obj = NoRecord /\ r.pc = "idle"), LockKept(k, r),
           UNCHANGED <<ended, uids, cm, session, cleaner, submit>>, mishaps' \in Nat
    PROVE  IInv'
<1> DEFINE n == [rec[k] EXCEPT !.rv = @ + 1]
<1>1. rec' = [rec EXCEPT ![k] = n] /\ rec[k] \in Record
  BY Zenon DEF IInv, TypeOK
<1>2. n \in Record /\ n.uid = rec[k].uid /\ n.spec = rec[k].spec /\ n.rv > rec[k].rv
        /\ n.phase = rec[k].phase
  BY Zenon, <1>1, NewVersion
<1> HIDE DEF n
<1>3. n.phase \in {"Planned", "Working", "Completed"} => Claims(k)
  BY Zenon, <1>2 DEF Claims
<1>4. n.phase = "Completed" /\ k = "Move" => <<n.uid, n.spec>> \in ended
  BY Zenon, <1>2 DEF IInv, ReportInv
<1>5. r.pc # "idle" => Present(r.obj)
  BY Zenon DEF IInv, CopyInv
<1> QED BY Zenon, <1>1, <1>2, <1>3, <1>4, <1>5, WriteStep

\* Recording a planning failure keeps the invariant.
LEMMA SavePlanningFailureKeeps ==
    ASSUME IInv, NEW k \in Kinds, savePlanningFailure(k) PROVE IInv'
<1> DEFINE r == [pc |-> "idle", mode |-> "none", obj |-> NoRecord]
<1>1. /\ recon[k].pc = "plan" /\ Same(rec[k], recon[k].obj) /\ GiveUp(k) /\ "plan" \in Held
      /\ rec' = [rec EXCEPT ![k].rv = @ + 1]
      /\ UNCHANGED <<ended, uids, cm, session, cleaner, submit>> /\ mishaps' \in Nat
  BY DEF savePlanningFailure, At, Held, IInv, TypeOK
<1>2. Present(rec[k])
  BY Zenon, <1>1, Unseen
<1>3. /\ r \in Pass /\ recon' = [recon EXCEPT ![k] = r] /\ r.pc = "idle" /\ r.obj = NoRecord
  BY Zenon, <1>1, IdleEffect DEF GiveUp
<1> HIDE DEF r
<1>4. LockKept(k, r)
  BY Zenon, <1>1, <1>3, LeaseGivenUp DEF GiveUp, Held
<1> QED BY Zenon, <1>1, <1>2, <1>3, <1>4, BumpStep

\* A step that leaves the reconciles alone leaves each of them alone.
LEMMA SamePass ==
    ASSUME IInv, NEW k \in Kinds, UNCHANGED recon
    PROVE  recon[k] \in Pass /\ recon' = [recon EXCEPT ![k] = recon[k]]
BY Zenon DEF IInv, TypeOK

\* A foreign update keeps the invariant.
LEMMA TouchKeeps == ASSUME IInv, NEW k \in Kinds, Touch(k) PROVE IInv'
<1>1. /\ Present(rec[k]) /\ rec' = [rec EXCEPT ![k].rv = @ + 1] /\ mishaps' \in Nat
      /\ UNCHANGED <<lease, recon, ended, uids, cm, session, cleaner, submit>>
  BY DEF Touch, UsersUnchanged, IInv, TypeOK
<1>2. recon[k] \in Pass /\ recon' = [recon EXCEPT ![k] = recon[k]]
  BY Zenon, <1>1, SamePass
<1>3. LockKept(k, recon[k])
  BY Zenon, <1>1, <1>2, LeaseStays
<1> QED BY Zenon, <1>1, <1>2, <1>3, BumpStep

\* A deletion by a user keeps the invariant.
LEMMA RemoveKeeps == ASSUME IInv, NEW k \in Kinds, Remove(k) PROVE IInv'
<1> DEFINE n == [rec[k] EXCEPT !.deleting = TRUE, !.rv = @ + 1]
<1>1. /\ Present(rec[k]) /\ mishaps' \in Nat
      /\ UNCHANGED <<lease, recon, ended, uids, cm, session, cleaner, submit>>
      /\ rec' = [rec EXCEPT ![k] = IF rec[k].protected THEN n ELSE NoRecord]
  BY Zenon DEF Remove, UsersUnchanged, IInv, TypeOK
<1>2. recon[k] \in Pass /\ recon' = [recon EXCEPT ![k] = recon[k]] /\ rec[k] \in Record
  BY Zenon, <1>1, SamePass DEF IInv, TypeOK
<1>3. n \in Record /\ n.uid = rec[k].uid /\ n.spec = rec[k].spec /\ n.rv > rec[k].rv
        /\ n.phase = rec[k].phase
  BY Zenon, <1>2, NewDeletion
<1> HIDE DEF n
<1>4. LockKept(k, recon[k])
  BY Zenon, <1>1, <1>2, LeaseStays
<1>5. CASE rec[k].protected
  <2>1. n.phase \in {"Planned", "Working", "Completed"} => Claims(k)
    BY Zenon, <1>3 DEF Claims
  <2>2. n.phase = "Completed" /\ k = "Move" => <<n.uid, n.spec>> \in ended
    BY Zenon, <1>3 DEF IInv, ReportInv
  <2>3. recon[k].pc # "idle" => Present(recon[k].obj)
    BY Zenon DEF IInv, CopyInv
  <2> QED BY Zenon, <1>1, <1>2, <1>3, <1>4, <1>5, <2>1, <2>2, <2>3, WriteStep
<1>6. CASE ~rec[k].protected
  BY Zenon, <1>1, <1>2, <1>6, VanishStep
<1> QED BY Zenon, <1>5, <1>6

\* Removing the finalizer of a settled object keeps the invariant.
LEMMA DeleteKeeps == ASSUME IInv, NEW k \in Kinds, Delete(k) PROVE IInv'
<1> DEFINE r == [pc |-> "idle", mode |-> "none", obj |-> NoRecord]
<1>1. /\ UNCHANGED <<lease, ended, uids>> /\ OthersUnchanged /\ Idle(k)
      /\ rec' = IF rec[k].uid = recon[k].obj.uid THEN [rec EXCEPT ![k] = NoRecord] ELSE rec
  BY Zenon DEF Delete
<1>2. /\ r \in Pass /\ recon' = [recon EXCEPT ![k] = r] /\ r.pc = "idle" /\ r.obj = NoRecord
  BY Zenon, <1>1, IdleEffect
<1> HIDE DEF r
<1>3. UNCHANGED <<lease, uids, cm, session, cleaner, submit, ended>> /\ mishaps' \in Nat
  BY Zenon, <1>1 DEF OthersUnchanged, IInv, TypeOK
<1>4. CASE rec' = rec
  BY Zenon, <1>1, <1>4, Stops DEF StoreUnchanged
<1>5. CASE rec' = [rec EXCEPT ![k] = NoRecord]
  BY Zenon, <1>2, <1>3, <1>5, VanishStep
<1> QED BY Zenon, <1>1, <1>4, <1>5

\* An object applied with kubectl keeps the invariant.
LEMMA ApplyKeeps == ASSUME IInv, NEW k \in Kinds, Apply(k) PROVE IInv'
<1>1. PICK spec \in SpecsOf(k) :
         rec' = [rec EXCEPT ![k] =
                   [NewRecord(uids', spec, "none", spec # Submitted) EXCEPT !.protected = FALSE]]
  BY Zenon DEF Apply
<1> DEFINE owned == spec # Submitted
           n == [NewRecord(uids', spec, "none", owned) EXCEPT !.protected = FALSE]
<1>2. /\ uids' = uids + 1
      /\ UNCHANGED <<lease, recon, cm, session, cleaner, ended, mishaps, submit>>
      /\ uids' \in Nat
  BY DEF Apply, UsersUnchanged, IInv, TypeOK
<1>3. owned \in BOOLEAN /\ spec \in Specs
  BY Zenon DEF SpecsOf, Specs
<1>4. rec' = [rec EXCEPT ![k] = n]
  BY Zenon, <1>1
<1> HIDE DEF owned
<1>5. n \in Fields /\ n.uid = uids' /\ n.phase = "none" /\ n.spec = spec
  BY Zenon, <1>2, <1>3 DEF NewRecord, Fields, Phases
<1>6. n \in Record
  BY Zenon, <1>3, <1>5 DEF Record
<1> HIDE DEF n
<1> QED BY Zenon, <1>2, <1>4, <1>5, <1>6, AppearStep

\* The session record is a copy of itself, and so is none at all.
LEMMA CopyOfRecord ==
    ASSUME IInv
    PROVE  CopyOf(cm, cm) /\ CopyOf(cm, NoRecord) /\ cm \in Record
BY NoRecordOK DEF IInv, StoreInv, CopyOf, TypeOK, Record, Fields

\* Whoever leaves the reconciles and their Leases alone keeps the lock discipline.
LEMMA HoldersKept ==
    ASSUME IInv, UNCHANGED <<recon, cm>>,
           \A n \in Namespaces : lease'[n] = lease[n] \/ lease[n] \notin Kinds,
           session'.pc = "work" => lease'[session'.obj.spec] = "session",
           session'.pc \in {"lock", "work"} =>
              /\ Present(session'.obj)
              /\ session'.obj.phase \in {"Planned", "Working", "RollingBack", "Completed"}
    PROVE  LockInv'
<1>1. ASSUME NEW k \in Kinds, recon[k].pc \in Held PROVE lease'[LeaseOf(k)] = k
  BY Zenon, <1>1, LeasePlaces DEF IInv, LockInv
<1> QED BY Zenon, <1>1 DEF IInv, LockInv, LeaseOf, moveWorkflowStorageNamespace

\* A step of the session that leaves the stores alone keeps the invariant when it
\* keeps the lock discipline.
LEMMA SessionMove ==
    ASSUME IInv, UNCHANGED <<rec, cm, recon, cleaner, submit, ended, uids, mishaps>>,
           session' \in Session, lease' \in LeaseType, LockInv', CopyOf(cm, session'.obj)
    PROVE  IInv'
<1>1. TypeOK'
  BY Zenon DEF IInv, TypeOK, Session, LeaseType
<1>2. StoreInv' /\ CleanInv'
  BY Zenon DEF IInv, StoreInv, CleanInv
<1>3. CopyInv'
  BY Zenon DEF IInv, CopyInv, CopyOf
<1>4. PlanInv' /\ ReportInv'
  BY Zenon DEF IInv, PlanInv, Claims, Same, ReportInv, ReportedOwn
<1> QED BY Zenon, <1>1, <1>2, <1>3, <1>4 DEF IInv

\* A session process that ends forgets its copy.
LEMMA SessionIdleEffect ==
    ASSUME SessionIdle
    PROVE  session' \in Session /\ session'.pc = "idle" /\ session'.obj = NoRecord
BY Zenon, NoRecordOK DEF SessionIdle, Session

\* The collision check of a new session keeps the invariant.
LEMMA CheckConfigMapIdentityKeeps ==
    ASSUME IInv, CheckConfigMapIdentityCollision PROVE IInv'
<1>1. /\ UNCHANGED <<rec, cm, recon, cleaner, submit, ended, uids, mishaps, lease>>
      /\ session' = [session EXCEPT !.pc = "create"]
  BY Zenon DEF CheckConfigMapIdentityCollision, ControllersUnchanged
<1>2. session' \in Session /\ session'.pc = "create" /\ session'.obj = session.obj
  BY Zenon, <1>1 DEF IInv, TypeOK, Session
<1>3. LockInv' /\ CopyOf(cm, session'.obj) /\ lease' \in LeaseType
  BY Zenon, <1>1, <1>2, HoldersKept DEF IInv, CopyInv, TypeOK
<1> QED BY Zenon, <1>1, <1>2, <1>3, SessionMove

\* Loading a session record keeps the invariant.
LEMMA LoadSessionKeeps == ASSUME IInv, LoadSession PROVE IInv'
<1>1. /\ UNCHANGED <<rec, cm, recon, cleaner, submit, ended, uids, mishaps, lease>>
      /\ session' = [pc |-> "lock", obj |-> cm] /\ Present(cm)
      /\ cm.phase \in {"Planned", "Working", "RollingBack", "Completed"}
  BY Zenon DEF LoadSession, ControllersUnchanged
<1>2. session' \in Session /\ session'.pc = "lock" /\ session'.obj = cm
  BY Zenon, <1>1 DEF IInv, TypeOK, Session
<1>3. LockInv' /\ lease' \in LeaseType
  BY Zenon, <1>1, <1>2, HoldersKept DEF IInv, TypeOK
<1> QED BY Zenon, <1>1, <1>2, <1>3, SessionMove, CopyOfRecord

\* A session locks only when the Lease beside its record is free.
LEMMA SessionLockKeeps == ASSUME IInv, SessionLock PROVE IInv'
<1>1. UNCHANGED <<rec, cm, recon, cleaner, submit, ended, uids, mishaps>> /\ session.pc = "lock"
  BY Zenon DEF SessionLock, ControllersUnchanged
<1>2. CASE SessionIdle /\ UNCHANGED lease
  <2>1. LockInv' /\ lease' \in LeaseType
    BY Zenon, <1>1, <1>2, SessionIdleEffect, HoldersKept DEF IInv, TypeOK
  <2> QED BY Zenon, <1>1, <1>2, <2>1, SessionIdleEffect, SessionMove, CopyOfRecord
<1>3. CASE /\ lease[session.obj.spec] = Nobody
           /\ lease' = [lease EXCEPT ![session.obj.spec] = "session"]
           /\ session' = [session EXCEPT !.pc = "work"]
  <2>1. session' \in Session /\ session'.pc = "work" /\ session'.obj = session.obj
    BY Zenon, <1>3 DEF IInv, TypeOK, Session
  <2>2. /\ lease' \in LeaseType /\ lease'[session.obj.spec] = "session"
        /\ \A n \in Namespaces : lease'[n] = lease[n] \/ lease[n] = Nobody
    BY Zenon, <1>1, <1>3, LeasePlaces DEF IInv, TypeOK, LeaseType
  <2>3. LockInv'
    <3>1. Nobody \notin Kinds
      BY Zenon DEF Nobody, Kinds
    <3>2. /\ Present(session.obj)
          /\ session.obj.phase \in {"Planned", "Working", "RollingBack", "Completed"}
      BY Zenon, <1>1 DEF IInv, LockInv
    <3> QED BY Zenon, <1>1, <2>1, <2>2, <3>1, <3>2, HoldersKept
  <2>4. CopyOf(cm, session'.obj)
    BY Zenon, <2>1 DEF IInv, CopyInv
  <2> QED BY Zenon, <1>1, <2>1, <2>2, <2>3, <2>4, SessionMove
<1> QED BY Zenon, <1>2, <1>3 DEF SessionLock

\* Creating the session record keeps the invariant: it is only Planned.
LEMMA CreateKeeps == ASSUME IInv, Create PROVE IInv'
<1>1. UNCHANGED <<rec, recon, cleaner, submit, ended, mishaps, lease>> /\ session.pc = "create"
  BY Zenon DEF Create, ControllersUnchanged
<1>2. CASE SessionIdle /\ UNCHANGED <<cm, uids>>
  <2>1. LockInv' /\ lease' \in LeaseType
    BY Zenon, <1>1, <1>2, SessionIdleEffect, HoldersKept DEF IInv, TypeOK
  <2> QED BY Zenon, <1>1, <1>2, <2>1, SessionIdleEffect, SessionMove, CopyOfRecord
<1>3. CASE /\ uids' = uids + 1 /\ \E spec \in Specs : cm' = NewRecord(uids', spec, "Planned", TRUE)
           /\ session' = [pc |-> "lock", obj |-> cm']
  <2>1. /\ uids \in Nat /\ uids' \in Nat /\ uids' > uids
        /\ \A j \in Kinds : rec[j].uid \in Nat /\ recon[j].obj.uid \in Nat
        /\ cm.uid \in Nat /\ cleaner.obj.uid \in Nat /\ \A e \in ended : e[1] \in Nat
        /\ submit.uid \in Nat
    BY <1>3 DEF IInv, TypeOK, Record, Fields, Pass, Session, Cleaner, Submission
  <2>2. cm' \in Record /\ cm'.uid = uids' /\ cm'.phase = "Planned" /\ cm'.rv = 1
    <3>1. PICK spec \in Specs : cm' = NewRecord(uids', spec, "Planned", TRUE)
      BY Zenon, <1>3
    <3>2. /\ cm' \in Fields /\ cm'.uid = uids' /\ cm'.phase = "Planned" /\ cm'.rv = 1
          /\ cm'.spec = spec
      BY Zenon, <2>1, <3>1 DEF NewRecord, Fields, Phases
    <3> QED BY Zenon, <3>2 DEF Record
  <2>3. session' \in Session /\ session'.pc = "lock" /\ session'.obj = cm'
    BY Zenon, <1>3, <2>2 DEF Session
  <2>4. TypeOK'
    BY Zenon, <1>1, <2>1, <2>2, <2>3 DEF IInv, TypeOK, Session
  <2>5. StoreInv' /\ CleanInv'
    BY <1>1, <2>1, <2>2 DEF IInv, StoreInv, CleanInv, Present, None
  <2>6. CopyInv'
    BY <1>1, <2>1, <2>2, <2>3 DEF IInv, CopyInv, CopyOf
  <2>7. PlanInv' /\ ReportInv'
    BY <1>1, <2>1 DEF IInv, PlanInv, Claims, Same, ReportInv, ReportedOwn
  <2>8. LockInv'
    <3>1. Present(cm')
      BY <2>1, <2>2 DEF Present, None
    <3> QED BY Zenon, <1>1, <2>2, <2>3, <3>1
            DEF IInv, LockInv, LeaseOf, moveWorkflowStorageNamespace
  <2> QED BY Zenon, <2>4, <2>5, <2>6, <2>7, <2>8 DEF IInv
<1> QED BY Zenon, <1>2, <1>3 DEF Create

\* A session writes its record while it holds the Lease, so no Rename that relies on
\* an idle session record is under way.
LEMMA SessionSaveKeeps == ASSUME IInv, SessionSave PROVE IInv'
<1> DEFINE n == [session.obj EXCEPT !.phase = SessionNext(@), !.rv = @ + 1]
<1>1. /\ UNCHANGED <<rec, recon, cleaner, submit, ended, uids, mishaps>> /\ session.pc = "work"
      /\ lease[session.obj.spec] = "session" /\ lease \in LeaseType
  BY Zenon DEF SessionSave, ControllersUnchanged, IInv, LockInv, TypeOK
<1>r. /\ "session" \notin Kinds
      /\ \A k \in Kinds : recon[k].pc \in Held => LeaseOf(k) # session.obj.spec
  <2>1. "session" \notin Kinds
    BY Zenon DEF Kinds
  <2> QED BY Zenon, <1>1, <2>1 DEF IInv, LockInv
<1>l. SessionRelease => /\ lease' \in LeaseType
                        /\ \A m \in Namespaces : lease'[m] = lease[m] \/ lease[m] \notin Kinds
  BY Zenon, <1>1, <1>r DEF SessionRelease, LeaseType
<1>2. CASE SessionRelease /\ UNCHANGED cm
  <2>1. LockInv'
    BY Zenon, <1>1, <1>2, <1>l, SessionIdleEffect, HoldersKept DEF SessionRelease
  <2> QED BY Zenon, <1>1, <1>2, <1>l, <2>1, SessionIdleEffect, SessionMove, CopyOfRecord
          DEF SessionRelease
<1>3. CASE /\ Same(cm, session.obj) /\ cm' = n
           /\ \/ SessionRelease /\ n.phase \in Terminal
              \/ /\ session' = [session EXCEPT !.obj = n] /\ UNCHANGED lease
                 /\ n.phase \notin Terminal
  <2>1. /\ session.obj \in Record /\ Present(session.obj)
        /\ session.obj.phase \in {"Planned", "Working", "RollingBack", "Completed"}
    BY Zenon, <1>1 DEF IInv, TypeOK, LockInv, Session
  <2>2. SessionNext(session.obj.phase) \in {"Working", "Completed", "RollingBack", "RolledBack"}
    BY Zenon, <2>1 DEF SessionNext
  <2>3. /\ n \in Record /\ n.uid = session.obj.uid /\ n.spec = session.obj.spec
        /\ n.rv > session.obj.rv
        /\ n.phase = SessionNext(session.obj.phase)
    <3>1. SessionNext(session.obj.phase) \in Phases
      BY Zenon, <2>2 DEF Phases
    <3> QED BY Zenon, <2>1, <3>1, NewPhase
  <2>4. n.uid = cm.uid /\ n.rv > cm.rv /\ n.uid # 0 /\ n.spec = cm.spec
    BY Zenon, <1>1, <1>3, <2>1, <2>3 DEF Same, Present, None, IInv, CopyInv, CopyOf
  <2> HIDE DEF n
  <2>5. /\ session' \in Session /\ session'.pc \in {"idle", "work"}
        /\ session'.pc = "idle" => session'.obj = NoRecord
        /\ session'.pc = "work" => session'.obj = n /\ UNCHANGED lease /\ n.phase \notin Terminal
        /\ lease' \in LeaseType
    <3>1. CASE SessionRelease
      BY Zenon, <1>l, <3>1, SessionIdleEffect DEF SessionRelease
    <3>2. CASE session' = [session EXCEPT !.obj = n] /\ UNCHANGED lease /\ n.phase \notin Terminal
      BY Zenon, <1>1, <2>3, <3>2 DEF IInv, TypeOK, Session
    <3> QED BY Zenon, <1>3, <3>1, <3>2
  <2>6. TypeOK'
    BY Zenon, <1>1, <1>3, <2>3, <2>5 DEF IInv, TypeOK, Session, LeaseType
  <2>7. StoreInv' /\ CleanInv'
    BY Zenon, <1>1, <1>3, <2>4 DEF IInv, StoreInv, CleanInv, Present, None
  <2>8. CopyInv'
    <3>1. n.rv \in Nat /\ cm.rv \in Nat /\ cleaner.obj.rv \in Nat /\ uids \in Nat
      BY Zenon, <2>3 DEF IInv, TypeOK, Record, Fields, Session, Cleaner
    <3>2. CopyOf(n, session'.obj) /\ CopyOf(n, cleaner.obj)
      BY <2>4, <2>5, <3>1, NoRecordOK DEF IInv, CopyInv, StoreInv, CopyOf, Present, None
    <3> QED BY Zenon, <1>1, <1>3, <3>2 DEF IInv, CopyInv, CopyOf
  <2>9. PlanInv' /\ ReportInv'
    BY Zenon, <1>1 DEF IInv, PlanInv, Claims, Same, ReportInv, ReportedOwn
  <2>10. LockInv'
    <3>1. \A m \in Namespaces : lease'[m] = lease[m] \/ lease[m] \notin Kinds
      BY Zenon, <1>3, <1>l
    <3>2. ASSUME NEW k \in Kinds, recon[k].pc \in Held
          PROVE  lease'[LeaseOf(k)] = k /\ LeaseOf(k) # cm'.spec
      BY Zenon, <1>r, <1>3, <2>3, <3>1, <3>2, LeasePlaces DEF IInv, LockInv
    <3>3. session'.pc \in {"lock", "work"} =>
             /\ lease'[session'.obj.spec] = "session" /\ Present(session'.obj)
             /\ session'.obj.phase \in {"Planned", "Working", "RollingBack", "Completed"}
      BY Zenon, <1>1, <2>2, <2>3, <2>4, <2>5 DEF Present, None, Terminal
    <3> QED BY Zenon, <1>1, <3>2, <3>3 DEF LockInv, LeaseOf, moveWorkflowStorageNamespace
  <2> QED BY Zenon, <2>6, <2>7, <2>8, <2>9, <2>10 DEF IInv
<1> QED BY Zenon, <1>2, <1>3 DEF SessionSave

\* A step of the cleanup that leaves the stores alone keeps the invariant when it
\* takes no Lease from a reconcile or a session.
LEMMA CleanerMove ==
    ASSUME IInv, UNCHANGED <<rec, cm, recon, session, submit, ended, uids, mishaps>>,
           cleaner' \in Cleaner, lease' \in LeaseType, CleanInv', CopyOf(cm, cleaner'.obj),
           \A n \in Namespaces : lease'[n] = lease[n] \/ lease[n] \in {"cleaner", Nobody}
    PROVE  IInv'
<1>1. TypeOK'
  BY Zenon DEF IInv, TypeOK, Cleaner, LeaseType
<1>l. \A n \in Namespaces :
         /\ lease'[n] = lease[n] \/ lease[n] \notin Kinds
         /\ lease[n] = "session" => lease'[n] = "session"
  BY Zenon DEF Kinds, Nobody
<1>2. StoreInv' /\ LockInv'
  BY Zenon, <1>l, HoldersKept, LeasePlaces DEF IInv, StoreInv, LockInv
<1>3. CopyInv'
  BY Zenon DEF IInv, CopyInv, CopyOf
<1>4. PlanInv' /\ ReportInv'
  BY Zenon DEF IInv, PlanInv, Claims, Same, ReportInv, ReportedOwn
<1> QED BY Zenon, <1>1, <1>2, <1>3, <1>4 DEF IInv

\* A cleanup that ends forgets its copy.
LEMMA CleanerIdleEffect ==
    ASSUME CleanerIdle
    PROVE  cleaner' \in Cleaner /\ cleaner'.pc = "idle" /\ cleaner'.obj = NoRecord /\ CleanInv'
BY NoRecordOK DEF CleanerIdle, Cleaner, CleanInv, None

\* A cleanup that stops keeps the invariant.
LEMMA CleanerStops ==
    ASSUME IInv, CleanerIdle, UNCHANGED cm, CleanerUnchanged, lease' \in LeaseType,
           \A n \in Namespaces : lease'[n] = lease[n] \/ lease[n] \in {"cleaner", Nobody}
    PROVE  IInv'
<1>1. UNCHANGED <<rec, cm, recon, session, submit, ended, uids, mishaps>>
  BY Zenon DEF CleanerUnchanged, ControllersUnchanged
<1> QED BY Zenon, <1>1, CleanerIdleEffect, CopyOfRecord, CleanerMove

\* A cleanup that goes on keeps the invariant.
LEMMA CleanerGoes ==
    ASSUME IInv, UNCHANGED cm, CleanerUnchanged, cleaner.pc # "idle",
           NEW next \in {"pass", "get", "delete", "retry"},
           cleaner' = [cleaner EXCEPT !.pc = next],
           next \in {"get", "delete"} => cleaner.obj.phase \in Terminal,
           lease' \in LeaseType,
           \A n \in Namespaces : lease'[n] = lease[n] \/ lease[n] \in {"cleaner", Nobody}
    PROVE  IInv'
<1>1. UNCHANGED <<rec, cm, recon, session, submit, ended, uids, mishaps>>
  BY Zenon DEF CleanerUnchanged, ControllersUnchanged
<1>2. /\ cleaner' \in Cleaner /\ cleaner'.pc = next /\ cleaner'.obj = cleaner.obj
      /\ cleaner'.uid = cleaner.uid
  BY Zenon DEF IInv, TypeOK, Cleaner
<1>3. CleanInv' /\ CopyOf(cm, cleaner'.obj)
  BY Zenon, <1>2 DEF IInv, CleanInv, CopyInv
<1> QED BY Zenon, <1>1, <1>2, <1>3, CleanerMove

\* A Lease that is left alone keeps its type.
LEMMA LeaseTyped == ASSUME IInv, UNCHANGED lease PROVE lease' \in LeaseType
BY Zenon DEF IInv, TypeOK, LeaseType

\* Loading the record for a cleanup keeps the invariant.
LEMMA CleanupKeeps == ASSUME IInv, Cleanup PROVE IInv'
<1>1. /\ UNCHANGED <<rec, cm, recon, session, submit, ended, uids, mishaps, lease>>
      /\ Present(cm)
      /\ cleaner' = [pc |-> "lock", obj |-> cm, uid |-> cm.uid, attempt |-> 1]
  BY Zenon DEF Cleanup, CleanerUnchanged, ControllersUnchanged
<1>2. cm \in Record /\ cm.uid \in Nat
  BY Zenon DEF IInv, TypeOK, Record, Fields
<1>3. cleaner' \in Cleaner /\ CleanInv' /\ cleaner'.obj = cm
  BY <1>1, <1>2 DEF Cleaner, CleanInv, Present
<1> QED BY Zenon, <1>1, <1>3, CopyOfRecord, CleanerMove, LeaseTyped

\* The lock of a cleanup keeps the invariant.
LEMMA CleanupLockKeeps == ASSUME IInv, CleanupLock PROVE IInv'
<1>1. CASE CleanerIdle /\ UNCHANGED lease
  BY Zenon, <1>1, CleanerStops, LeaseTyped DEF CleanupLock
<1>2. CASE /\ lease[cleaner.obj.spec] = Nobody
           /\ lease' = [lease EXCEPT ![cleaner.obj.spec] = "cleaner"]
           /\ cleaner' = [cleaner EXCEPT !.pc = "pass"]
  <2>1. /\ lease' \in LeaseType
        /\ \A n \in Namespaces : lease'[n] = lease[n] \/ lease[n] \in {"cleaner", Nobody}
    BY Zenon, <1>2 DEF IInv, TypeOK, LeaseType
  <2> QED BY Zenon, <1>2, <2>1, CleanerGoes DEF CleanupLock
<1> QED BY Zenon, <1>1, <1>2 DEF CleanupLock

\* A pass of the cleanup takes back no Lease but its own.
LEMMA CleanupPassKeeps == ASSUME IInv, cleanup PROVE IInv'
<1>1. /\ lease' \in LeaseType
      /\ \A n \in Namespaces : lease'[n] = lease[n] \/ lease[n] \in {"cleaner", Nobody}
  BY Zenon DEF cleanup, IInv, TypeOK, LeaseType
<1> QED BY Zenon, <1>1, CleanerStops, CleanerGoes DEF cleanup

\* The comparison before the deletion keeps the invariant.
LEMMA GetForDeleteKeeps == ASSUME IInv, GetForDelete PROVE IInv'
<1>1. cleaner.pc = "get" /\ cleaner.obj.phase \in Terminal
  BY Zenon DEF GetForDelete, IInv, CleanInv
<1> QED BY Zenon, <1>1, CleanerStops, CleanerGoes, LeaseTyped DEF GetForDelete

\* The session record may go at any time.
LEMMA RecordGone ==
    ASSUME IInv, cm' = NoRecord, UNCHANGED <<rec, lease, recon, session, submit, ended, uids>>,
           cleaner' = cleaner \/ CleanerIdle, mishaps' \in Nat
    PROVE  IInv'
<1>1. /\ cleaner' \in Cleaner /\ CleanInv'
      /\ cleaner' = cleaner \/ cleaner'.obj = NoRecord
  BY Zenon, CleanerIdleEffect DEF IInv, TypeOK, Cleaner, CleanInv
<1>2. TypeOK'
  BY Zenon, <1>1, NoRecordOK DEF IInv, TypeOK, Cleaner
<1>3. StoreInv' /\ LockInv'
  <2>1. uids \in Nat
    BY Zenon DEF IInv, TypeOK
  <2>2. StoreInv'
    BY <2>1, NoRecordOK DEF IInv, StoreInv
  <2>3. LockInv'
    BY Zenon, NoRecordOK DEF IInv, LockInv, LeaseOf, moveWorkflowStorageNamespace
  <2> QED BY Zenon, <2>2, <2>3
<1>4. CopyInv'
  <2>1. uids \in Nat
    BY Zenon DEF IInv, TypeOK
  <2> QED BY <1>1, <2>1, NoRecordOK DEF IInv, CopyInv, CopyOf, Present, None
<1>5. PlanInv' /\ ReportInv'
  BY Zenon DEF IInv, PlanInv, Claims, Same, ReportInv, ReportedOwn
<1> QED BY Zenon, <1>1, <1>2, <1>3, <1>4, <1>5 DEF IInv

\* The deletion of the compared version keeps the invariant.
LEMMA DeleteRecordKeeps == ASSUME IInv, DeleteRecord PROVE IInv'
<1>1. CASE CleanerIdle /\ cm' = NoRecord
  <2>1. UNCHANGED <<rec, lease, recon, session, submit, ended, uids>> /\ mishaps' \in Nat
    BY Zenon DEF DeleteRecord, CleanerUnchanged, ControllersUnchanged, IInv, TypeOK
  <2> QED BY Zenon, <1>1, <2>1, RecordGone
<1>2. CASE cleaner' = [cleaner EXCEPT !.pc = "retry"] /\ UNCHANGED cm
  BY Zenon, <1>2, CleanerGoes, LeaseTyped DEF DeleteRecord
<1> QED BY Zenon, <1>1, <1>2 DEF DeleteRecord

\* A retry works with a fresh copy of the same record.
LEMMA RetryKeeps == ASSUME IInv, RetryStaleWorkflowWrite PROVE IInv'
<1>1. CASE CleanerIdle
  BY Zenon, <1>1, CleanerStops, LeaseTyped DEF RetryStaleWorkflowWrite
<1>2. CASE /\ cleaner.attempt # 3 /\ cm.uid = cleaner.obj.uid
           /\ cleaner' = [cleaner EXCEPT !.pc = "pass", !.obj = cm, !.attempt = @ + 1]
  <2>1. /\ UNCHANGED <<rec, cm, recon, session, submit, ended, uids, mishaps, lease>>
        /\ cleaner.pc = "retry"
    BY Zenon DEF RetryStaleWorkflowWrite, CleanerUnchanged, ControllersUnchanged
  <2>2. cleaner.attempt + 1 \in 0..3 /\ cleaner \in Cleaner /\ cm \in Record
    BY <1>2 DEF IInv, TypeOK, Cleaner
  <2>3. /\ cleaner' \in Cleaner /\ cleaner'.pc = "pass" /\ cleaner'.obj = cm
        /\ cleaner'.uid = cleaner.uid
    BY Zenon, <1>2, <2>2 DEF Cleaner
  <2>4. CleanInv'
    BY Zenon, <1>2, <2>1, <2>3 DEF IInv, CleanInv
  <2> QED BY Zenon, <2>1, <2>3, <2>4, CopyOfRecord, CleanerMove, LeaseTyped
<1> QED BY Zenon, <1>1, <1>2 DEF RetryStaleWorkflowWrite

\* A step of the submission that leaves the stores alone keeps the invariant when
\* what it waits for and what it reports is its own.
LEMMA SubmitMove ==
    ASSUME IInv, UNCHANGED <<rec, cm, lease, recon, session, cleaner, ended, uids>>,
           mishaps' \in Nat, submit' \in Submission,
           submit'.pc # "ended" => submit'.outcome = "none",
           submit'.pc \in {"kinds", "create", "adopt"} => submit'.spec \in Specs,
           submit'.outcome = "Completed" => <<submit'.uid, submit'.spec>> \in ended,
           submit'.pc = "wait" =>
              /\ Present(rec["Move"]) /\ submit'.uid = rec["Move"].uid
              /\ submit'.spec = rec["Move"].spec
    PROVE  IInv'
<1>1. TypeOK'
  BY Zenon DEF IInv, TypeOK, Submission
<1>2. StoreInv' /\ LockInv' /\ CleanInv'
  BY Zenon DEF IInv, StoreInv, LockInv, CleanInv, LeaseOf, moveWorkflowStorageNamespace
<1>3. CopyInv'
  BY Zenon DEF IInv, CopyInv, CopyOf
<1>4. PlanInv'
  BY Zenon DEF IInv, PlanInv, Claims, Same
<1>5. ReportInv'
  BY Zenon DEF IInv, ReportInv, ReportedOwn, StoreInv, Present, Kinds
<1> QED BY Zenon, <1>1, <1>2, <1>3, <1>4, <1>5 DEF IInv

\* A submission that failed reports no outcome.
LEMMA NoSubmissionOK ==
    /\ NoSubmission \in Submission /\ NoSubmission.pc = "ended" /\ NoSubmission.outcome = "none"
BY Zenon DEF NoSubmission, Submission, None, Phases

\* The first check of a submission keeps the invariant.
LEMMA SubmitConfigMapsKeeps == ASSUME IInv, SubmitConfigMaps PROVE IInv'
<1>1. /\ UNCHANGED <<rec, cm, lease, recon, session, cleaner, ended, uids>> /\ mishaps' \in Nat
      /\ submit' = [pc |-> "kinds", spec |-> Submitted, uid |-> None, outcome |-> "none"]
  BY Zenon DEF SubmitConfigMaps, SubmitterUnchanged, IInv, TypeOK
<1>2. /\ submit' \in Submission /\ submit'.pc = "kinds" /\ submit'.outcome = "none"
      /\ submit'.spec \in Specs
  BY Zenon, <1>1 DEF Submission, None, Specs, Phases, Submitted
<1> QED BY Zenon, <1>1, <1>2, SubmitMove

\* The second check of a submission keeps the invariant.
LEMMA SubmitKindsKeeps == ASSUME IInv, SubmitKinds PROVE IInv'
<1>1. /\ UNCHANGED <<rec, cm, lease, recon, session, cleaner, ended, uids>> /\ mishaps' \in Nat
      /\ submit' = NoSubmission \/ submit' = [submit EXCEPT !.pc = "create"]
      /\ submit.outcome = "none" /\ submit.spec \in Specs
  BY Zenon DEF SubmitKinds, SubmitterUnchanged, IInv, TypeOK, ReportInv
<1>2. /\ submit' \in Submission /\ submit'.pc \in {"create", "ended"} /\ submit'.outcome = "none"
      /\ submit'.pc = "create" => submit'.spec \in Specs
  BY Zenon, <1>1, NoSubmissionOK DEF IInv, TypeOK, Submission
<1> QED BY Zenon, <1>1, <1>2, SubmitMove

\* Creating the object keeps the invariant: its UID is new.
LEMMA SubmitCreateKeeps == ASSUME IInv, SubmitCreate PROVE IInv'
<1>1. /\ UNCHANGED <<cm, lease, recon, session, cleaner, ended, mishaps>> /\ mishaps' \in Nat
      /\ submit.pc = "create" /\ submit.outcome = "none" /\ submit.spec \in Specs /\ "Move" \in Kinds
  BY Zenon DEF SubmitCreate, SubmitterUnchanged, IInv, TypeOK, ReportInv, Kinds
<1>2. CASE submit' = [submit EXCEPT !.pc = "adopt"] /\ UNCHANGED <<rec, uids>>
  <2>1. /\ submit' \in Submission /\ submit'.pc = "adopt" /\ submit'.outcome = "none"
        /\ submit'.spec = submit.spec
    BY Zenon, <1>1, <1>2 DEF IInv, TypeOK, Submission
  <2> QED BY Zenon, <1>1, <1>2, <2>1, SubmitMove
<1>3. CASE /\ uids' = uids + 1
           /\ rec' = [rec EXCEPT !["Move"] = NewRecord(uids', submit.spec, "none", TRUE)]
           /\ submit' = [submit EXCEPT !.pc = "wait", !.uid = uids']
  <2> DEFINE n == NewRecord(uids', submit.spec, "none", TRUE)
  <2>1. n \in Record /\ n.uid = uids' /\ n.phase = "none" /\ n.spec = submit.spec
    <3>1. uids' \in Nat
      BY <1>3 DEF IInv, TypeOK
    <3>2. n \in Fields /\ n.uid = uids' /\ n.phase = "none" /\ n.spec = submit.spec
      BY Zenon, <1>1, <3>1 DEF NewRecord, Fields, Phases
    <3> QED BY Zenon, <1>1, <3>2 DEF Record
  <2>2. rec' = [rec EXCEPT !["Move"] = n]
    BY Zenon, <1>3
  <2> HIDE DEF n
  <2> QED BY Zenon, <1>1, <1>3, <2>1, <2>2, AppearStep
<1> QED BY Zenon, <1>2, <1>3 DEF SubmitCreate

\* submitControllerObject adopts an object of the spec submitted only.
LEMMA AdoptKeeps == ASSUME IInv, submitControllerObject PROVE IInv'
<1>1. /\ UNCHANGED <<rec, cm, lease, recon, session, cleaner, ended, uids>> /\ mishaps' \in Nat
      /\ submit.outcome = "none" /\ rec["Move"].uid \in Nat
  BY Zenon DEF submitControllerObject, SubmitterUnchanged, IInv, TypeOK, ReportInv, Kinds, Record, Fields
<1>2. CASE submit' = NoSubmission
  BY Zenon, <1>1, <1>2, NoSubmissionOK, SubmitMove
<1>3. CASE /\ Present(rec["Move"]) /\ rec["Move"].spec = submit.spec
           /\ submit' = [submit EXCEPT !.pc = "wait", !.uid = rec["Move"].uid]
  <2>1. /\ submit' \in Submission /\ submit'.pc = "wait" /\ submit'.outcome = "none"
        /\ submit'.uid = rec["Move"].uid /\ submit'.spec = submit.spec
    BY Zenon, <1>1, <1>3 DEF IInv, TypeOK, Submission
  <2> QED BY Zenon, <1>1, <1>3, <2>1, SubmitMove
<1> QED BY Zenon, <1>2, <1>3 DEF submitControllerObject

\* WaitForWorkflow reports the phase of the UID it waits for only.
LEMMA WaitForWorkflowKeeps == ASSUME IInv, WaitForWorkflow PROVE IInv'
<1>1. /\ UNCHANGED <<rec, cm, lease, recon, session, cleaner, ended, uids>> /\ mishaps' \in Nat
      /\ submit.pc = "wait"
  BY Zenon DEF WaitForWorkflow, SubmitterUnchanged, IInv, TypeOK
<1>2. CASE submit' = NoSubmission
  BY Zenon, <1>1, <1>2, NoSubmissionOK, SubmitMove
<1>3. CASE /\ rec["Move"].uid = submit.uid
           /\ submit' = [submit EXCEPT !.pc = "ended", !.outcome = rec["Move"].phase]
  <2>1. rec["Move"].phase \in Phases
    BY Zenon DEF IInv, TypeOK, Record, Fields, Kinds
  <2>2. /\ submit' \in Submission /\ submit'.pc = "ended" /\ submit'.outcome = rec["Move"].phase
        /\ submit'.uid = submit.uid /\ submit'.spec = submit.spec
    BY Zenon, <1>3, <2>1 DEF IInv, TypeOK, Submission
  <2>3. submit'.outcome = "Completed" => <<submit'.uid, submit'.spec>> \in ended
    BY Zenon, <1>1, <1>3, <2>2 DEF IInv, ReportInv
  <2> QED BY Zenon, <1>1, <2>2, <2>3, SubmitMove
<1> QED BY Zenon, <1>2, <1>3 DEF WaitForWorkflow

\* An event that comes late is still one of the UID it was asked for.
LEMMA ConsumeKeeps == ASSUME IInv, consumeWorkflowEvents PROVE IInv'
<1>1. /\ UNCHANGED <<rec, cm, lease, recon, session, cleaner, ended, uids>> /\ mishaps' \in Nat
      /\ submit.pc = "wait"
      /\ submit' = [submit EXCEPT !.pc = "ended", !.outcome = "Completed"]
  BY Zenon DEF consumeWorkflowEvents, SubmitterUnchanged, IInv, TypeOK
<1>2. PICK e \in ended : e[1] = submit.uid
  BY Zenon DEF consumeWorkflowEvents
<1>3. e = <<submit.uid, submit.spec>>
  <2>1. e \in Nat \X ({"none"} \cup Specs) /\ e[2] = submit.spec
    BY Zenon, <1>1, <1>2 DEF IInv, TypeOK, ReportInv
  <2> QED BY <1>2, <2>1
<1>4. /\ submit' \in Submission /\ submit'.pc = "ended"
      /\ submit'.uid = submit.uid /\ submit'.spec = submit.spec
  BY Zenon, <1>1 DEF IInv, TypeOK, Submission, Phases
<1> QED BY Zenon, <1>1, <1>2, <1>3, <1>4, SubmitMove

\* Deleting the ConfigMap by hand keeps the invariant.
LEMMA RemoveConfigMapKeeps == ASSUME IInv, RemoveConfigMap PROVE IInv'
BY RecordGone DEF RemoveConfigMap, IInv, TypeOK

\* Leases that expire are those of the process that ended.
LEMMA FreeEffect ==
    ASSUME IInv, NEW holders, Free(holders)
    PROVE  /\ lease' \in LeaseType
           /\ \A n \in Namespaces : lease[n] \notin holders => lease'[n] = lease[n]
BY Zenon DEF Free, IInv, TypeOK, LeaseType

\* The end of any process keeps the invariant.
LEMMA CrashKeeps == ASSUME IInv, Crash PROVE IInv'
<1>1. UNCHANGED <<rec, cm, ended, uids>> /\ mishaps' \in Nat
  BY DEF Crash, IInv, TypeOK
<1>2. CASE /\ recon' = [k \in Kinds |-> [pc |-> "idle", mode |-> "none", obj |-> NoRecord]]
           /\ Free(Kinds) /\ UNCHANGED <<session, cleaner, submit>>
  <2>1. /\ recon' \in [Kinds -> Pass]
        /\ \A k \in Kinds : recon'[k].pc = "idle" /\ recon'[k].obj = NoRecord
    BY Zenon, <1>2, NoRecordOK DEF Pass
  <2>2. /\ lease' \in LeaseType
        /\ \A n \in Namespaces : lease[n] = "session" => lease'[n] = "session"
    <3>1. "session" \notin Kinds
      BY Zenon DEF Kinds
    <3> QED BY Zenon, <1>2, <3>1, FreeEffect
  <2>3. TypeOK'
    BY Zenon, <1>1, <1>2, <2>1, <2>2 DEF IInv, TypeOK, LeaseType
  <2>4. StoreInv' /\ CleanInv' /\ ReportInv'
    BY Zenon, <1>1, <1>2 DEF IInv, StoreInv, CleanInv, ReportInv, ReportedOwn
  <2>5. CopyInv'
    <3>1. uids \in Nat
      BY Zenon DEF IInv, TypeOK
    <3> QED BY <1>1, <1>2, <2>1, <3>1, NoRecordOK DEF IInv, CopyInv, CopyOf
  <2>6. PlanInv'
    BY Zenon, <1>1, <2>1 DEF IInv, PlanInv, Claims, Kinds
  <2>7. LockInv'
    <3>1. "idle" \notin Held
      BY Zenon DEF Held
    <3>2. session.pc = "work" => lease'[session.obj.spec] = "session"
      BY Zenon, <2>2, LeasePlaces DEF IInv, LockInv
    <3> QED BY Zenon, <1>1, <1>2, <2>1, <3>1, <3>2 DEF IInv, LockInv
  <2> QED BY Zenon, <2>3, <2>4, <2>5, <2>6, <2>7 DEF IInv
<1>3. CASE SessionIdle /\ Free({"session"}) /\ UNCHANGED <<recon, cleaner, submit>>
  <2>1. session' \in Session /\ session'.pc = "idle" /\ session'.obj = NoRecord
    BY Zenon, <1>3, SessionIdleEffect
  <2>2. /\ lease' \in LeaseType
        /\ \A n \in Namespaces : lease'[n] = lease[n] \/ lease[n] \notin Kinds
    <3>1. "session" \notin Kinds
      BY Zenon DEF Kinds
    <3>2. \A n \in Namespaces : lease[n] \notin {"session"} => lease'[n] = lease[n]
      BY Zenon, <1>3, FreeEffect
    <3> QED BY Zenon, <1>3, <3>1, <3>2, FreeEffect
  <2>3. TypeOK'
    BY Zenon, <1>1, <1>3, <2>1, <2>2 DEF IInv, TypeOK, LeaseType, Session
  <2>4. StoreInv' /\ CleanInv' /\ ReportInv' /\ PlanInv'
    BY ZenonT(60), <1>1, <1>3 DEF IInv, StoreInv, CleanInv, ReportInv, ReportedOwn, PlanInv, Claims, Same
  <2>5. CopyInv'
    BY Zenon, <1>1, <1>3, <2>1, CopyOfRecord DEF IInv, CopyInv, CopyOf
  <2>6. LockInv'
    <3>1. session'.pc \notin {"lock", "work"} /\ session'.pc # "work"
      BY Zenon, <2>1
    <3> QED BY Zenon, <1>1, <1>3, <2>2, <3>1, HoldersKept
  <2> QED BY Zenon, <2>3, <2>4, <2>5, <2>6 DEF IInv
<1>4. CASE CleanerIdle /\ Free({"cleaner"}) /\ UNCHANGED <<recon, session, submit>>
  <2>1. cleaner' \in Cleaner /\ cleaner'.obj = NoRecord /\ CleanInv'
    BY Zenon, <1>4, CleanerIdleEffect
  <2>2. /\ lease' \in LeaseType
        /\ \A n \in Namespaces : lease'[n] = lease[n] \/ lease[n] = "cleaner"
    <3>1. \A n \in Namespaces : lease[n] \notin {"cleaner"} => lease'[n] = lease[n]
      BY Zenon, <1>4, FreeEffect
    <3> QED BY Zenon, <1>4, <3>1, FreeEffect
  <2>3. TypeOK'
    BY Zenon, <1>1, <1>4, <2>1, <2>2 DEF IInv, TypeOK, LeaseType, Cleaner
  <2>4. StoreInv' /\ ReportInv' /\ PlanInv'
    BY Zenon, <1>1, <1>4 DEF IInv, StoreInv, ReportInv, ReportedOwn, PlanInv, Claims, Same
  <2>5. CopyInv'
    BY Zenon, <1>1, <1>4, <2>1, CopyOfRecord DEF IInv, CopyInv, CopyOf
  <2>6. LockInv'
    <3>1. "cleaner" \notin Kinds /\ "cleaner" # "session"
      BY Zenon DEF Kinds
    <3>2. session.pc = "work" => lease'[session.obj.spec] = "session"
      BY Zenon, <2>2, <3>1, LeasePlaces DEF IInv, LockInv
    <3>3. session.pc \in {"lock", "work"} =>
             /\ Present(session.obj)
             /\ session.obj.phase \in {"Planned", "Working", "RollingBack", "Completed"}
      BY Zenon DEF IInv, LockInv
    <3> QED BY Zenon, <1>1, <1>4, <2>2, <3>1, <3>2, <3>3, HoldersKept
  <2> QED BY Zenon, <2>1, <2>3, <2>4, <2>5, <2>6 DEF IInv
<1>5. CASE /\ submit' = [pc |-> "idle", spec |-> "none", uid |-> None, outcome |-> "none"]
           /\ UNCHANGED <<lease, recon, session, cleaner>>
  <2>1. submit' \in Submission /\ submit'.pc = "idle" /\ submit'.outcome = "none"
    BY Zenon, <1>5 DEF Submission, None, Phases
  <2> QED BY Zenon, <1>1, <1>5, <2>1, SubmitMove
<1> QED BY Zenon, <1>2, <1>3, <1>4, <1>5 DEF Crash

\* No name is claimed at the start.
LEMMA InitInv == Init => IInv
<1> SUFFICES ASSUME Init PROVE IInv
  BY Zenon
<1>1. /\ rec \in [Kinds -> Record] /\ \A k \in Kinds : rec[k] = NoRecord
      /\ recon \in [Kinds -> Pass]
      /\ \A k \in Kinds : recon[k].pc = "idle" /\ recon[k].obj = NoRecord
      /\ cm = NoRecord /\ cm \in Record /\ session \in Session /\ session.obj = NoRecord
      /\ session.pc = "idle"
  BY Zenon, NoRecordOK DEF Init, Pass, Session
<1>2. /\ cleaner \in Cleaner /\ cleaner.obj = NoRecord /\ cleaner.pc = "idle"
      /\ submit \in Submission /\ submit.pc = "idle" /\ submit.outcome = "none"
      /\ lease \in LeaseType /\ ended = {} /\ uids = 0 /\ mishaps = 0
  BY NoRecordOK DEF Init, Cleaner, Submission, LeaseType, None, Phases
<1>3. TypeOK
  BY Zenon, <1>1, <1>2 DEF TypeOK, Session, Cleaner, Submission, LeaseType
<1>4. StoreInv /\ CopyInv
  BY <1>1, <1>2, NoRecordOK DEF StoreInv, CopyInv, CopyOf, Kinds
<1>5. PlanInv /\ LockInv
  BY Zenon, <1>1, <1>2, NoRecordOK DEF PlanInv, Claims, LockInv, Kinds, Held
<1>6. ReportInv /\ CleanInv
  BY Zenon, <1>1, <1>2, NoRecordOK DEF ReportInv, ReportedOwn, CleanInv, Kinds
<1> QED BY Zenon, <1>3, <1>4, <1>5, <1>6 DEF IInv

\* Every step keeps the invariant.
LEMMA NextInv == IInv /\ [Next]_vars => IInv'
<1> SUFFICES ASSUME IInv, [Next]_vars PROVE IInv'
  BY Zenon
<1>1. CASE \E k \in Kinds : ReconcileStep(k) \/ Apply(k) \/ Remove(k) \/ Touch(k)
  BY Zenon, <1>1, ReconcileKeeps, CheckConfigMapsKeeps, CheckKindsKeeps, EnsureProtectionKeeps,
     LockCheckKeeps, AcquireKeeps, AcquireSessionLockKeeps, PlanKeeps, WithWorkflowLeaseKeeps,
     RecheckConfigMapsKeeps, RecheckKindsKeeps, SavePlanningKeeps, SavePlanningFailureKeeps,
     RunKeeps, SaveDeletingKeeps, AbortKeeps, FinalizeDeletedKeeps, DeleteKeeps, ApplyKeeps,
     RemoveKeeps, TouchKeeps DEF ReconcileStep
<1>2. CASE CheckConfigMapIdentityCollision \/ LoadSession \/ SessionStep
  BY Zenon, <1>2, CheckConfigMapIdentityKeeps, LoadSessionKeeps, SessionLockKeeps, SessionSaveKeeps,
     CreateKeeps DEF SessionStep
<1>3. CASE Cleanup \/ CleanerStep
  BY Zenon, <1>3, CleanupKeeps, CleanupLockKeeps, CleanupPassKeeps, GetForDeleteKeeps,
     DeleteRecordKeeps, RetryKeeps DEF CleanerStep
<1>4. CASE SubmitConfigMaps \/ SubmitStep
  BY Zenon, <1>4, SubmitConfigMapsKeeps, SubmitKindsKeeps, SubmitCreateKeeps, AdoptKeeps,
     WaitForWorkflowKeeps, ConsumeKeeps DEF SubmitStep
<1>5. CASE RemoveConfigMap \/ Crash
  BY Zenon, <1>5, RemoveConfigMapKeeps, CrashKeeps
<1>6. CASE UNCHANGED vars
  <2>1. UNCHANGED <<rec, cm, recon, cleaner, submit, ended, uids, mishaps, session, lease>>
    BY Zenon, <1>6 DEF vars
  <2>2. session' \in Session /\ lease' \in LeaseType /\ CopyOf(cm, session'.obj)
    BY Zenon, <2>1 DEF IInv, TypeOK, Session, LeaseType, CopyInv
  <2>3. LockInv'
    BY Zenon, <2>1 DEF IInv, LockInv, LeaseOf, moveWorkflowStorageNamespace
  <2> QED BY Zenon, <2>1, <2>2, <2>3, SessionMove
<1> QED BY Zenon, <1>1, <1>2, <1>3, <1>4, <1>5, <1>6 DEF Next

\* The invariant holds throughout every behaviour, for any number of records created
\* under the name and any number of crashes and foreign writes.
THEOREM Invariance == Spec => []IInv
BY InitInv, NextInv, PTL DEF Spec

\* The collision checks of the reconciles keep two kinds from having a plan under
\* one name, and the Lease with the checks around it keeps a reconcile from working while
\* a session with its Lease in the same namespace is in the middle of its work.
THEOREM OneWorksAtATime == Spec => []OneAtWork
<1>1. IInv => OneAtWork
  <2> SUFFICES ASSUME IInv PROVE OneAtWork
    BY Zenon
  <2>1. OnePlan
    BY Zenon DEF IInv, PlanInv, Claims, OnePlan, Kinds
  <2>2. SessionAlone
    BY Zenon DEF IInv, LockInv, SessionAlone, Held
  <2> QED BY <2>1, <2>2 DEF OneAtWork
<1> QED BY <1>1, Invariance, PTL

\* A submission that reports completion reports that of a workflow with its own
\* spec: submitControllerObject and WaitForWorkflow compare spec and UID.
THEOREM ReportsItsOwn == Spec => []ReportedOwn
<1>1. IInv => ReportedOwn
  BY DEF IInv, ReportInv
<1> QED BY <1>1, Invariance, PTL

\* The deletion is the only step of the cleanup that writes the session record.
LEMMA CleanerWriters ==
    ASSUME Next, cm' # cm, cleaner' # cleaner
    PROVE  DeleteRecord
<1>1. CASE \E k \in Kinds : ReconcileStep(k) \/ Apply(k) \/ Remove(k) \/ Touch(k)
  <2>1. UNCHANGED cm
    BY ZenonT(60), <1>1 DEF ReconcileStep, Apply, Remove, Touch, Reconcile, CheckConfigMaps,
       CheckWorkflowIdentityCollision, EnsureProtection, LockCheck, Acquire, AcquireSessionLock,
       plan, WithWorkflowLease, RecheckConfigMaps, RecheckKinds, savePlanning,
       savePlanningFailure, run, SaveDeleting, abort, FinalizeDeleted, Delete, OthersUnchanged,
       UsersUnchanged
  <2> QED BY Zenon, <2>1
<1>2. CASE CheckConfigMapIdentityCollision \/ LoadSession \/ SessionStep
  BY Zenon, <1>2 DEF CheckConfigMapIdentityCollision, LoadSession, SessionStep, SessionLock, SessionSave,
     Create
<1>3. CASE Cleanup \/ CleanerStep
  BY Zenon, <1>3 DEF Cleanup, CleanerStep, CleanupLock, cleanup, GetForDelete, RetryStaleWorkflowWrite
<1>4. CASE SubmitConfigMaps \/ SubmitStep
  BY Zenon, <1>4 DEF SubmitConfigMaps, SubmitStep, SubmitKinds, SubmitCreate, submitControllerObject,
     WaitForWorkflow, consumeWorkflowEvents, SubmitterUnchanged
<1>5. CASE RemoveConfigMap \/ Crash
  BY Zenon, <1>5 DEF RemoveConfigMap, Crash
<1> QED BY Zenon, <1>1, <1>2, <1>3, <1>4, <1>5 DEF Next

\* A cleanup removes the record it was approved for, in a settled phase: the copy it
\* compares under ConfigMapWorkflowStore.Delete pins UID and version.
THEOREM CleansOnlyItsOwn == Spec => CleansOwn
<1> DEFINE Own == Present(cm) /\ ~Present(cm') /\ cleaner' # cleaner
                     => cm.uid = cleaner.uid /\ cm.phase \in Terminal
<1>1. ASSUME IInv, Next, cm' # cm, cleaner' # cleaner PROVE Own
  <2>1. DeleteRecord
    BY Zenon, <1>1, CleanerWriters
  <2>2. ASSUME Present(cm), ~Present(cm') PROVE cm = cleaner.obj
    BY Zenon, <1>1, <2>1, <2>2 DEF DeleteRecord, Same, Present, IInv, CopyInv, CopyOf
  <2> QED BY Zenon, <1>1, <2>1, <2>2 DEF DeleteRecord, IInv, CleanInv
<1>2. ASSUME cm' = cm \/ cleaner' = cleaner PROVE Own
  BY Zenon, <1>2
<1>3. IInv /\ [Next]_vars => [Own]_vars
  BY <1>1, <1>2
<1> QED BY <1>3, Invariance, PTL DEF Spec, CleansOwn

=============================================================================
