------------------------- MODULE SessionLeaseProofs -------------------------
(***************************************************************************)
(* The inductive invariant of SessionLease, for every set of acquisitions, *)
(* every timing and any number of faults; the lemmas about writes and      *)
(* steps that its preservation rests on; and the properties of the Lease   *)
(* that follow from it.                                                    *)
(***************************************************************************)
EXTENDS SessionLease, TLAPS

-----------------------------------------------------------------------------
(* Timing *)

\* normalizeLeaseTiming never yields an empty duration or renewal interval.
LEMMA TimingPositive ==
    /\ Duration \in Nat \ {0}
    /\ RenewEvery \in Nat \ {0}
    /\ LeaseDuration \in Nat
<1>1. Duration \in Nat \ {0}
  BY TimingAssumption DEF Duration
<1>2. MaxRenewEvery \in Nat \ {0}
  BY <1>1 DEF MaxRenewEvery
<1>3. RenewEvery \in Nat \ {0}
  BY <1>2, TimingAssumption DEF RenewEvery
<1>4. LeaseDuration \in Nat
  <2>1. ASSUME NEW d \in Nat, NEW s \in Nat \ {0}
        PROVE  d \div s \in Nat
    OBVIOUS
  <2>2. ASSUME NEW s \in Nat, NEW q \in Nat PROVE s * q \in Nat
    OBVIOUS
  <2>3. Duration \div Second + (IF Duration % Second # 0 THEN 1 ELSE 0) \in Nat
    BY <1>1, <2>1, TimingAssumption
  <2> QED BY Zenon, <2>2, <2>3, TimingAssumption DEF LeaseDuration
<1> QED BY Zenon, <1>1, <1>3, <1>4

\* The ticker's next tick is a natural number.
LEMMA NextTick ==
    ASSUME NEW d \in Nat, NEW c \in Nat, c >= d
    PROVE  d + RenewEvery * ((c - d) \div RenewEvery + 1) \in Nat
<1>1. (c - d) \div RenewEvery \in Nat
  <2>1. ASSUME NEW x \in Nat, NEW r \in Nat \ {0} PROVE x \div r \in Nat
    OBVIOUS
  <2> QED BY <2>1, TimingPositive
<1>2. ASSUME NEW s \in Nat, NEW q \in Nat PROVE s * q \in Nat
  OBVIOUS
<1> QED BY <1>1, <1>2, TimingPositive

-----------------------------------------------------------------------------
(* Type correctness *)

\* The state of the API server and of the handles, apart.
ApiType ==
    /\ clock \in Nat
    /\ rev \in Nat \ {0}
    /\ lease \in Lease
    /\ flight \in SUBSET Write
    /\ faults \in Nat
    /\ past \in SUBSET Handle

LocalType ==
    /\ main \in [Handle -> Active \cup {"idle", "refused", "end", "crashed"}]
    /\ loop \in [Handle -> {"wait", "get", "put", "lost", "stopped"}]
    /\ now \in [Handle -> Nat]
    /\ seen \in [Handle -> Nat]
    /\ uid \in [Handle -> Nat]
    /\ tries \in [Handle -> 0..2]
    /\ due \in [Handle -> Nat]
    /\ wake \in [Handle -> Nat]
    /\ deadline \in [Handle -> Nat]
    /\ deleted \in [Handle -> BOOLEAN]
    /\ acked \in [Handle -> Nat]

\* A round of the acquisition is counted before the next one starts.
TriesInv ==
    \A h \in Handle : main[h] \in {"idle", "get", "create"} => tries[h] \in 0..1

\* What a handle sends is a write.
LEMMA WriteOfType ==
    ASSUME LocalType, NEW h \in Handle,
           NEW op \in {"create", "claim", "renew", "release", "delete"}
    PROVE  WriteOf(h, op) \in Write
BY Zenon DEF LocalType, WriteOf, Write

\* Whatever the API server stores is a Lease.
LEMMA StoredType ==
    ASSUME ApiType, NEW w \in Write
    PROVE  Stored(w) \in Lease
<1>1. w.by \in Handle /\ w.at \in Nat /\ rev + 1 \in Nat /\ lease \in Lease
  BY DEF ApiType, Write
<1>2. CASE w.op = "create"
  BY Zenon, <1>1, <1>2 DEF Stored, Lease
<1>3. CASE w.op = "claim"
  BY Zenon, <1>1, <1>3 DEF Stored, Lease
<1>4. CASE w.op = "renew"
  BY Zenon, <1>1, <1>4 DEF Stored, Lease
<1>5. CASE w.op = "release"
  BY Zenon, <1>1, <1>5 DEF Stored, Lease
<1>6. CASE w.op = "delete"
  <2>1. Stored(w) = NoLease
    BY Zenon, <1>6 DEF Stored
  <2> QED BY <2>1 DEF NoLease, Lease
<1> QED BY Zenon, <1>2, <1>3, <1>4, <1>5, <1>6 DEF Write

LEMMA CommitType ==
    ASSUME ApiType, NEW w \in Write, Commit(w)
    PROVE  ApiType'
<1>1. lease' \in Lease
  BY Zenon, StoredType DEF Commit
<1>2. past' \in SUBSET Handle
  BY Zenon, <1>1 DEF Commit, ApiType, Lease
<1> QED BY <1>1, <1>2 DEF Commit, ApiType

LEMMA LoseType ==
    ASSUME ApiType, NEW w \in Write, Lose(w)
    PROVE  ApiType'
BY DEF Lose, ApiType

LEMMA ReadFaultType ==
    ASSUME ApiType, ReadFault
    PROVE  ApiType'
BY DEF ReadFault, ApiType

LEMMA SameApiType ==
    ASSUME ApiType, UNCHANGED api
    PROVE  ApiType'
BY Zenon DEF api, ApiType

LEMMA StepType ==
    ASSUME TypeOK, TriesInv, NEW h \in Handle, Step(h)
    PROVE  TypeOK' /\ TriesInv'
<1> USE DEF TriesInv
<1> SUFFICES ApiType' /\ LocalType' /\ TriesInv'
  BY Zenon DEF TypeOK, ApiType, LocalType
<1>0. ApiType /\ LocalType
  BY Zenon DEF TypeOK, ApiType, LocalType
<1>1. CASE StartAcquire(h)
  <2>1. ApiType'
    BY Zenon, <1>0, <1>1, SameApiType DEF StartAcquire
  <2> QED BY Zenon, <1>0, <1>1, <2>1 DEF StartAcquire, LocalType, ApiType, Active
<1>2. CASE AcquireGet(h)
  <2>1. ApiType'
    BY Zenon, <1>0, <1>2, SameApiType, ReadFaultType DEF AcquireGet
  <2>2. AfterAcquireGet \in {"create", "claim", "refused"}
    BY Zenon DEF AfterAcquireGet
  <2>3. main' \in [Handle -> Active \cup {"idle", "refused", "end", "crashed"}]
    BY Zenon, <1>0, <1>2, <2>2 DEF AcquireGet, LocalType, Active
  <2>4. lease.rv \in Nat
    BY Zenon, <1>0 DEF ApiType, Lease
  <2> QED BY Zenon, <1>0, <1>2, <2>1, <2>2, <2>3, <2>4 DEF AcquireGet, LocalType
<1>3. CASE AcquireCreate(h)
  <2>1. ApiType'
    BY Zenon, <1>0, <1>3, SameApiType, CommitType, LoseType, WriteOfType DEF AcquireCreate
  <2>2. CASE Held(h, rev + 1)
    BY <1>0, <2>2, <2>1, TimingPositive DEF Held, LocalType, ApiType, Active
  <2>3. CASE Refuse(h)
    BY Zenon, <1>0, <2>3, <2>1 DEF Refuse, LocalType, Active
  <2> QED BY <1>0, <1>3, <2>1, <2>2, <2>3 DEF AcquireCreate, LocalType, Active
<1>4. CASE AcquireClaim(h)
  <2>1. ApiType'
    BY Zenon, <1>0, <1>4, SameApiType, CommitType, LoseType, WriteOfType DEF AcquireClaim
  <2>2. CASE Held(h, lease.uid)
    BY <1>0, <2>2, <2>1, TimingPositive DEF Held, LocalType, ApiType, Lease, Active
  <2>3. CASE Refuse(h)
    BY Zenon, <1>0, <2>3, <2>1 DEF Refuse, LocalType, Active
  <2> QED BY Zenon, <1>4, <2>1, <2>2, <2>3 DEF AcquireClaim
<1>5. CASE RenewTick(h)
  <2>1. ApiType'
    BY Zenon, <1>0, <1>5, SameApiType DEF RenewTick
  <2>2. due[h] \in Nat /\ clock \in Nat /\ clock >= due[h]
    BY Zenon, <1>0, <1>5 DEF RenewTick, LocalType, ApiType
  <2>3. due' \in [Handle -> Nat]
    BY Zenon, <1>0, <1>5, <2>2, NextTick DEF RenewTick, LocalType
  <2> QED BY <1>0, <1>5, <2>1, <2>2, <2>3, TimingPositive DEF RenewTick, LocalType
<1>6. CASE RenewGet(h)
  <2>1. ApiType'
    BY Zenon, <1>0, <1>6, SameApiType, ReadFaultType DEF RenewGet
  <2>2. CASE RenewLost(h)
    BY Zenon, <1>0, <2>2, <2>1 DEF RenewLost, LocalType
  <2>3. CASE RenewFailed(h)
    BY <1>0, <2>3, <2>1, TimingAssumption DEF RenewFailed, LocalType, ApiType
  <2> QED BY <1>0, <1>6, <2>1, <2>2, <2>3 DEF RenewGet, LocalType, ApiType, Lease
<1>7. CASE RenewPut(h)
  <2>1. ApiType'
    BY Zenon, <1>0, <1>7, SameApiType, CommitType, LoseType, WriteOfType DEF RenewPut
  <2>2. CASE RenewLost(h)
    BY Zenon, <1>0, <2>2, <2>1 DEF RenewLost, LocalType
  <2>3. CASE RenewFailed(h)
    BY <1>0, <2>3, <2>1, TimingAssumption DEF RenewFailed, LocalType, ApiType
  <2> QED BY <1>0, <1>7, <2>1, <2>2, <2>3 DEF RenewPut, LocalType, ApiType
<1>8. CASE StopLoop(h) /\ UNCHANGED <<now, seen, uid, tries, deleted, acked>>
           /\ \/ UNCHANGED main
              \/ main' = [main EXCEPT ![h] = "delGet"]
              \/ main' = [main EXCEPT ![h] = "end"]
              \/ main' = [main EXCEPT ![h] = "relGet"]
  <2>1. ApiType'
    BY Zenon, <1>0, <1>8, WriteOfType DEF StopLoop, ApiType
  <2> QED BY Zenon, <1>0, <1>8, <2>1 DEF StopLoop, LocalType, Active
<1>9. CASE \E where \in {"afterDelete", "delPut", "relPut", "end"} :
             \/ Deleted(h) /\ (UNCHANGED api \/ Commit(WriteOf(h, "delete")))
             \/ ReadThenGoto(h, where)
             \/ /\ Goto(h, where)
                /\ \/ UNCHANGED api
                   \/ ReadFault
                   \/ Commit(WriteOf(h, "release"))
                   \/ Lose(WriteOf(h, "delete"))
                   \/ Lose(WriteOf(h, "release"))
  <2>1. ApiType'
    BY Zenon, <1>0, <1>9, SameApiType, ReadFaultType, CommitType, LoseType, WriteOfType DEF ReadThenGoto
  <2>2. lease.rv \in Nat
    BY Zenon, <1>0 DEF ApiType, Lease
  <2> QED BY ZenonT(30), <1>0, <1>9, <2>1, <2>2 DEF ReadThenGoto, Goto, Deleted, LocalType, Active
<1>10. CASE Crash(h)
  <2>1. ApiType'
    BY Zenon, <1>0, <1>10, WriteOfType DEF Crash, Pending, ApiType
  <2> QED BY <1>0, <1>10, <2>1 DEF Crash, LocalType
<1>11. CancelParent(h) \/ StartDelete(h) \/ StartRelease(h) =>
          /\ StopLoop(h) /\ UNCHANGED <<now, seen, uid, tries, deleted, acked>>
          /\ \/ UNCHANGED main
             \/ main' = [main EXCEPT ![h] = "delGet"]
             \/ main' = [main EXCEPT ![h] = "end"]
             \/ main' = [main EXCEPT ![h] = "relGet"]
  BY Zenon DEF CancelParent, StartDelete, StartRelease
<1>12. DeleteGet(h) \/ DeletePut(h) \/ ReleaseGet(h) \/ ReleasePut(h) =>
         \E where \in {"afterDelete", "delPut", "relPut", "end"} :
             \/ Deleted(h) /\ (UNCHANGED api \/ Commit(WriteOf(h, "delete")))
             \/ ReadThenGoto(h, where)
             \/ /\ Goto(h, where)
                /\ \/ UNCHANGED api
                   \/ ReadFault
                   \/ Commit(WriteOf(h, "release"))
                   \/ Lose(WriteOf(h, "delete"))
                   \/ Lose(WriteOf(h, "release"))
  BY Zenon DEF DeleteGet, DeletePut, ReleaseGet, ReleasePut
<1> QED
  BY Zenon, <1>1, <1>2, <1>3, <1>4, <1>5, <1>6, <1>7, <1>8, <1>9, <1>10, <1>11, <1>12 DEF Step

\* A renewal goroutine, Tick and the delivery of a late write keep the types.
LEMMA NextType ==
    ASSUME TypeOK, TriesInv, [Next]_vars
    PROVE  TypeOK' /\ TriesInv'
<1>1. CASE \E h \in Handle : Step(h)
  BY Zenon, <1>1, StepType
<1>2. ASSUME NEW w \in flight, Deliver(w)
      PROVE  TypeOK' /\ TriesInv'
  <2>1. w \in Write /\ ApiType
    BY Zenon DEF TypeOK, ApiType
  <2>2. Stored(w) \in Lease
    BY Zenon, <2>1, StoredType
  <2>3. past' \in SUBSET Handle
    BY Zenon, <1>2, <2>1, <2>2 DEF Deliver, ApiType, Lease
  <2> QED BY <1>2, <2>2, <2>3 DEF Deliver, TypeOK, TriesInv, local
<1>3. CASE Tick
  BY <1>3 DEF Tick, TypeOK, TriesInv, local
<1>4. CASE UNCHANGED vars
  BY Zenon, <1>4 DEF vars, TypeOK, TriesInv
<1> QED BY Zenon, <1>1, <1>2, <1>3, <1>4 DEF Next

LEMMA InitType == Init => TypeOK /\ TriesInv
<1> SUFFICES ASSUME Init PROVE TypeOK /\ TriesInv
  BY Zenon
<1>1. NoLease \in Lease
  BY Zenon DEF NoLease, Lease
<1>2. ForeignLease \in Lease
  BY Zenon DEF ForeignLease, Lease
<1>3. lease \in Lease
  BY Zenon, <1>1, <1>2 DEF Init
<1> QED BY <1>3 DEF Init, TypeOK, TriesInv, Active

\* Every reachable state is well-typed; in particular no acquisition makes more
\* than two rounds and no time stamp is negative (acquireWorkflowLease).
THEOREM TypeCorrect == Spec => []TypeOK
<1>1. Init => TypeOK /\ TriesInv
  BY Zenon, InitType
<1>2. TypeOK /\ TriesInv /\ [Next]_vars => (TypeOK /\ TriesInv)'
  BY NextType
<1> QED BY <1>1, <1>2, PTL DEF Spec

-----------------------------------------------------------------------------
(* The inductive invariant: what a write that can still be admitted knows   *)
(* about the Lease it was computed from.                                    *)

Acquiring(w) == w.op \in {"create", "claim"}

\* The write was computed from the Lease as it is now.
Current(w) == Exists /\ lease.rv = w.rv

\* A claim that would be admitted finds a free or an expired Lease, a renewal,
\* a release or a deletion its own.
Sound(w) ==
    /\ w.rv <= rev
    /\ w.at <= clock
    /\ Current(w) /\ w.op # "create" =>
         /\ lease.managed
         /\ w.op = "claim" => lease.holder = NoHolder \/ Expired(lease, clock)
         /\ w.op # "claim" => lease.holder = w.by
         /\ w.op = "renew" => lease.renew <= w.at

\* The sender of a write in flight has moved on and never comes back.
Sent(w) ==
    /\ Acquiring(w) => main[w.by] \in {"refused", "crashed"}
    /\ w.op = "release" => main[w.by] \in {"end", "crashed"}
    /\ w.op = "delete" =>
         main[w.by] \in {"afterDelete", "relGet", "relPut", "end", "crashed"}

LeaseInv ==
    /\ lease.rv <= rev
    /\ lease.renew <= clock
    /\ ~Exists => lease = NoLease
    /\ ~lease.managed => lease.holder = NoHolder

LocalInv ==
    \A h \in Handle :
        /\ seen[h] <= rev
        /\ now[h] <= clock
        /\ loop[h] \in {"wait", "get", "put"} => main[h] = "work"

WriteInv ==
    /\ \A w \in flight : Sound(w) /\ Sent(w)
    /\ \A h \in Handle : \A w \in Pending(h) : Sound(w)

HolderInv ==
    \A h \in Handle :
        Working(h) /\ lease.holder = h => acked[h] <= lease.renew

\* The worker has not yet held the Lease.
Before == {"idle", "get", "create", "claim"}

\* An acquisition that has not yet held the Lease has at most one write left
\* that can give it to it.
IntervalInv ==
    /\ lease.holder \notin past
    /\ \A h \in Handle : main[h] \in Before =>
          /\ h \notin past \cup {lease.holder}
          /\ \A w \in flight : Acquiring(w) => w.by # h
    /\ \A w \in flight : Acquiring(w) => w.by \notin past \cup {lease.holder}
    /\ \A v, w \in flight :
          Acquiring(v) /\ Acquiring(w) /\ v.by = w.by => v = w

IInv ==
    /\ TypeOK /\ TriesInv
    /\ LeaseInv /\ LocalInv /\ WriteInv /\ HolderInv
    /\ ValidHolderOwns
    /\ IntervalInv

-----------------------------------------------------------------------------
(* What one write does to the Lease *)

\* The API server admits and stores a write.
Apply(w) ==
    /\ Admits(w)
    /\ lease' = Stored(w)
    /\ rev' = rev + 1
    /\ past' = past \cup ({lease.holder} \ {NoHolder, lease'.holder})
    /\ clock' = clock

\* A write stays sound while time passes and whatever else is stored: a stored
\* Lease has a resourceVersion no earlier write was computed from.
LEMMA SoundStable ==
    ASSUME ApiType, NEW w \in Write, Sound(w), clock' \in Nat,
           \/ clock' >= clock /\ UNCHANGED <<lease, rev>>
           \/ \E v \in Write : Apply(v)
    PROVE  Sound(w)'
<1> USE DEF ApiType, Write
<1>1. CASE clock' >= clock /\ UNCHANGED <<lease, rev>>
  <2>1. Expired(lease, clock) => Expired(lease, clock)'
    BY <1>1, TimingPositive DEF Expired, Lease
  <2> QED BY <1>1, <2>1 DEF Sound, Current, Exists
<1>2. ASSUME NEW v \in Write, Apply(v)
      PROVE  Sound(w)'
  <2>1. lease'.uid = 0 \/ lease'.rv = rev + 1
    BY Zenon, <1>2 DEF Apply, Stored, NoLease, Lease
  <2>2. ~Current(w)'
    BY <2>1 DEF Current, Exists, Sound
  <2> QED BY <1>2, <2>2 DEF Sound, Apply
<1> QED BY Zenon, <1>1, <1>2

\* A sound write that is admitted takes the Lease only when it is free or
\* expired, and renews, releases or deletes only its own.
LEMMA ApplyEffect ==
    ASSUME ApiType, LeaseInv, NEW w \in Write, Sound(w), Apply(w)
    PROVE  /\ LeaseInv'
           /\ w.op = "create" => lease.holder = NoHolder
           /\ w.op = "claim" =>
                /\ lease.managed
                /\ lease.holder = NoHolder \/ Expired(lease, clock)
           /\ Acquiring(w) => lease'.holder = w.by /\ lease'.renew = w.at
           /\ w.op = "renew" =>
                /\ lease.holder = w.by /\ lease'.holder = w.by
                /\ lease.renew <= lease'.renew /\ lease'.renew = w.at
           /\ w.op \in {"release", "delete"} =>
                lease.holder = w.by /\ lease'.holder = NoHolder
           /\ Exists => lease.managed
<1> USE DEF ApiType, Write
<1>1. CASE w.op = "create"
  BY <1>1 DEF Apply, Admits, Stored, LeaseInv, Exists, NoLease, Sound, Acquiring
<1>2. CASE w.op # "create"
  <2>1. Current(w)
    BY Zenon, <1>2 DEF Apply, Admits, Current
  <2>2. CASE w.op = "claim"
    <3>1. /\ lease'.uid = lease.uid /\ lease'.rv = rev + 1
          /\ lease'.managed = lease.managed
          /\ lease'.holder = w.by /\ lease'.renew = w.at
      BY Zenon, <2>2 DEF Apply, Stored, Lease
    <3> QED BY <2>1, <2>2, <3>1 DEF Apply, LeaseInv, Exists, Current, Sound, Acquiring, Lease
  <2>3. CASE w.op = "renew"
    <3>1. /\ lease'.uid = lease.uid /\ lease'.rv = rev + 1
          /\ lease'.managed = lease.managed
          /\ lease'.holder = lease.holder /\ lease'.renew = w.at
      BY Zenon, <2>3 DEF Apply, Stored, Lease
    <3> QED BY <2>1, <2>3, <3>1 DEF Apply, LeaseInv, Exists, Current, Sound, Acquiring, Lease
  <2>4. CASE w.op = "release"
    <3>1. /\ lease'.uid = lease.uid /\ lease'.rv = rev + 1
          /\ lease'.managed = lease.managed
          /\ lease'.holder = NoHolder /\ lease'.renew = 0
      BY Zenon, <2>4 DEF Apply, Stored, Lease
    <3> QED BY <2>1, <2>4, <3>1 DEF Apply, LeaseInv, Exists, Current, Sound, Acquiring, Lease
  <2>5. CASE w.op = "delete"
    <3>1. lease' = NoLease
      BY Zenon, <2>5 DEF Apply, Stored
    <3> QED BY <2>1, <2>5, <3>1 DEF Apply, LeaseInv, Exists, Current, Sound, Acquiring, NoLease
  <2> QED BY Zenon, <1>2, <2>2, <2>3, <2>4, <2>5
<1> QED BY Zenon, <1>1, <1>2

-----------------------------------------------------------------------------
(* Steps of one handle, by what they do at the API server *)

\* Only h's own state changes.
Others(h) ==
    \A g \in Handle \ {h} :
        /\ main'[g] = main[g] /\ loop'[g] = loop[g] /\ acked'[g] = acked[g]
        /\ now'[g] = now[g] /\ seen'[g] = seen[g]

LEMMA OthersFrame ==
    ASSUME NEW h \in Handle, Others(h), NEW g \in Handle, g # h
    PROVE  Pending(g)' = Pending(g) /\ Working(g)' = Working(g)
BY ZenonT(60) DEF Others, Pending, WriteOf, Working

LEMMA PendingType ==
    ASSUME LocalType, NEW h \in Handle, NEW w \in Pending(h)
    PROVE  /\ w \in Write /\ w.by = h
           /\ w.rv = seen[h] /\ w.at = now[h]
           /\ Acquiring(w) => main[h] = w.op
           /\ w.op = "release" => main[h] = "relPut"
           /\ w.op = "delete" => main[h] = "delPut"
           /\ w.op = "renew" => loop[h] = "put"
<1>1. PICK op \in {"create", "claim", "renew", "release", "delete"} :
         /\ w = WriteOf(h, op)
         /\ op \in {"create", "claim"} => main[h] = op
         /\ op = "release" => main[h] = "relPut"
         /\ op = "delete" => main[h] = "delPut"
         /\ op = "renew" => loop[h] = "put"
  BY Zenon DEF Pending, LocalType
<1>2. w.op = op /\ w.by = h /\ w.rv = seen[h] /\ w.at = now[h]
  BY Zenon, <1>1 DEF WriteOf
<1> QED BY Zenon, <1>1, <1>2, WriteOfType DEF Acquiring

\* A step that stores nothing: it may read, and it may abandon its write.
LEMMA QuietStep ==
    ASSUME IInv, TypeOK', TriesInv', NEW h \in Handle, Others(h),
           UNCHANGED <<clock, lease, rev, past>>,
           flight' \subseteq flight \cup Pending(h),
           \A w \in Pending(h)' : Sound(w),
           \A w \in flight' : w.by = h => Sent(w)',
           seen'[h] <= rev, now'[h] <= clock,
           loop'[h] \in {"wait", "get", "put"} => main'[h] = "work",
           Working(h)' => Working(h) /\ acked'[h] = acked[h],
           main'[h] \in Before => main[h] \in Before /\ flight' = flight
    PROVE  IInv'
<1>0. ApiType /\ LocalType /\ clock' \in Nat
  BY Zenon DEF IInv, TypeOK, ApiType, LocalType
<1>1. \A w \in flight \cup Pending(h) : w \in Write /\ Sound(w)
  BY Zenon, <1>0, PendingType DEF IInv, WriteInv, ApiType
<1>2. ASSUME NEW w \in Write, Sound(w) PROVE Sound(w)'
  BY <1>0, <1>2, SoundStable DEF ApiType
<1>3. LeaseInv'
  BY Zenon DEF IInv, LeaseInv, Exists
<1>4. LocalInv'
  BY Zenon DEF IInv, LocalInv, Others
<1>5. \A w \in flight' : Sound(w)' /\ Sent(w)'
  <2> SUFFICES ASSUME NEW w \in flight' PROVE Sound(w)' /\ Sent(w)'
    BY Zenon
  <2>1. Sound(w)'
    BY Zenon, <1>1, <1>2
  <2>2. CASE w.by # h
    <3>1. w \notin Pending(h)
      BY Zenon, <1>0, <2>2, PendingType
    <3>2. w \in flight /\ w.by \in Handle
      BY Zenon, <1>1, <3>1 DEF Write
    <3> QED BY Zenon, <2>1, <2>2, <3>2 DEF IInv, WriteInv, Sent, Others
  <2> QED BY Zenon, <2>1, <2>2
<1>6. ASSUME NEW g \in Handle, NEW w \in Pending(g)' PROVE Sound(w)'
  <2>1. CASE g = h
    <3>1. LocalType'
      BY Zenon DEF TypeOK, LocalType
    <3>2. w \in Write
      BY <2>1, <3>1 DEF Pending, WriteOf, Write, LocalType
    <3> QED BY Zenon, <1>2, <2>1, <3>2
  <2>2. CASE g # h
    <3>1. w \in Pending(g) /\ Sound(w)
      BY Zenon, <2>2, OthersFrame DEF IInv, WriteInv
    <3> QED BY Zenon, <1>0, <1>2, <3>1, PendingType
  <2> QED BY Zenon, <2>1, <2>2
<1>7. WriteInv'
  BY Zenon, <1>5, <1>6 DEF WriteInv
<1>8. HolderInv' /\ ValidHolderOwns'
  <2> SUFFICES ASSUME NEW g \in Handle, Working(g)'
               PROVE  /\ lease'.holder = g => acked'[g] <= lease'.renew
                      /\ clock' < acked'[g] + LeaseDuration => lease'.holder = g
    BY Zenon DEF HolderInv, ValidHolderOwns
  <2>1. Working(g) /\ acked'[g] = acked[g]
    BY Zenon, OthersFrame DEF Others
  <2> QED BY Zenon, <2>1 DEF IInv, HolderInv, ValidHolderOwns
<1>9. IntervalInv'
  <2>1. \A g \in Handle : main'[g] \in Before =>
          /\ g \notin past \cup {lease.holder}
          /\ \A w \in flight' : Acquiring(w) => w.by # g
    <3> SUFFICES ASSUME NEW g \in Handle, main'[g] \in Before
                 PROVE  /\ g \notin past \cup {lease.holder}
                        /\ \A w \in flight' : Acquiring(w) => w.by # g
      BY Zenon
    <3>1. main[g] \in Before
      BY Zenon DEF Others
    <3>2. \A w \in Pending(h) : w.by = h
      BY Zenon, <1>0, PendingType
    <3> QED BY Zenon, <3>1, <3>2 DEF IInv, IntervalInv
  <2>2. \A w \in flight' \ flight : Acquiring(w) => w.by = h /\ main[h] \in Before
    BY ZenonT(60), <1>0, PendingType DEF Acquiring, Before
  <2>3. \A v, w \in Pending(h) : Acquiring(v) /\ Acquiring(w) => v = w
    <3> SUFFICES ASSUME NEW v \in Pending(h), NEW w \in Pending(h), Acquiring(v), Acquiring(w)
                 PROVE  v = w
      BY Zenon
    <3>1. /\ v \in Write /\ v.op = main[h] /\ v.by = h /\ v.rv = seen[h] /\ v.at = now[h]
          /\ w \in Write /\ w.op = main[h] /\ w.by = h /\ w.rv = seen[h] /\ w.at = now[h]
      BY <1>0, PendingType
    <3> QED BY <3>1 DEF Write
  <2>4. \A w \in flight' : Acquiring(w) => w.by \notin past \cup {lease.holder}
    BY Zenon, <2>2 DEF IInv, IntervalInv
  <2>5. \A v, w \in flight' :
          Acquiring(v) /\ Acquiring(w) /\ v.by = w.by => v = w
    BY Zenon, <2>2, <2>3 DEF IInv, IntervalInv
  <2>6. \A w : Acquiring(w)' = Acquiring(w)
    BY Zenon DEF Acquiring
  <2> QED BY Zenon, <2>1, <2>4, <2>5, <2>6 DEF IInv, IntervalInv, Acquiring
<1> QED BY Zenon, <1>3, <1>4, <1>7, <1>8, <1>9 DEF IInv

\* A step whose write is stored and acknowledged: a takeover finds the former
\* holder past its window, everything else concerns the handle's own Lease.
LEMMA StoreStep ==
    ASSUME IInv, TypeOK', TriesInv', NEW h \in Handle, Others(h),
           NEW w \in Pending(h), Apply(w), flight' = flight,
           Pending(h)' = {},
           \A v \in flight : v.by = h => Sent(v)',
           seen'[h] = seen[h], now'[h] = now[h],
           loop'[h] \in {"wait", "get", "put"} => main'[h] = "work",
           Working(h)' => w.op \in {"create", "claim", "renew"} /\ acked'[h] = w.at,
           main'[h] \notin Before
    PROVE  IInv'
<1>0. ApiType /\ LocalType /\ clock' \in Nat
  BY Zenon DEF IInv, TypeOK, ApiType, LocalType
<1>1. w \in Write /\ w.by = h /\ Sound(w) /\ (Acquiring(w) => main[h] \in Before)
  BY ZenonT(60), <1>0, PendingType DEF IInv, WriteInv, Acquiring, Before
<1>2. ASSUME NEW v \in Write, Sound(v) PROVE Sound(v)'
  BY Zenon, <1>0, <1>1, <1>2, SoundStable
<1>e. /\ LeaseInv'
      /\ w.op = "create" => lease.holder = NoHolder
      /\ w.op = "claim" => lease.holder = NoHolder \/ Expired(lease, clock)
      /\ Acquiring(w) => lease'.holder = h /\ lease'.renew = w.at
      /\ w.op = "renew" =>
           lease.holder = h /\ lease'.holder = h /\ lease'.renew = w.at
      /\ w.op \in {"release", "delete"} =>
           lease.holder = h /\ lease'.holder = NoHolder
  BY Zenon, <1>0, <1>1, ApplyEffect DEF IInv
<1>o. w.op \in {"create", "claim", "renew", "release", "delete"}
  BY Zenon, <1>1 DEF Write
<1>3. LocalInv'
  BY <1>0 DEF IInv, LocalInv, Others, Apply, ApiType, LocalType
<1>4. \A v \in flight : Sound(v)' /\ Sent(v)'
  <2> SUFFICES ASSUME NEW v \in flight PROVE Sound(v)' /\ Sent(v)'
    BY Zenon
  <2>1. v \in Write /\ Sound(v) /\ Sent(v) /\ v.by \in Handle
    BY Zenon, <1>0 DEF IInv, WriteInv, ApiType, Write
  <2>2. v.by # h => Sent(v)'
    BY Zenon, <2>1 DEF Sent, Others
  <2> QED BY Zenon, <1>2, <2>1, <2>2
<1>5. ASSUME NEW g \in Handle, NEW v \in Pending(g)' PROVE Sound(v)'
  <2>1. g # h
    BY Zenon
  <2>2. v \in Pending(g) /\ Sound(v)
    BY Zenon, <2>1, OthersFrame DEF IInv, WriteInv
  <2> QED BY Zenon, <1>0, <1>2, <2>2, PendingType
<1>6. WriteInv'
  BY Zenon, <1>4, <1>5 DEF WriteInv
<1>7. HolderInv' /\ ValidHolderOwns'
  <2> SUFFICES ASSUME NEW g \in Handle, Working(g)'
               PROVE  /\ lease'.holder = g => acked'[g] <= lease'.renew
                      /\ clock' < acked'[g] + LeaseDuration => lease'.holder = g
    BY Zenon DEF HolderInv, ValidHolderOwns
  <2>1. CASE g = h
    <3>1. lease'.holder = h /\ lease'.renew = acked'[h] /\ acked'[h] \in Nat
      BY Zenon, <1>e, <2>1 DEF Acquiring, TypeOK
    <3> QED BY <2>1, <3>1
  <2>2. CASE g # h
    <3>1. Working(g) /\ acked'[g] = acked[g] /\ acked[g] \in Nat
      BY Zenon, <1>0, <2>2, OthersFrame DEF Others, LocalType
    <3>2. lease'.holder # g
      BY Zenon, <1>e, <1>o, <2>2, HandleAssumption DEF Acquiring
    <3>3. ASSUME clock < acked[g] + LeaseDuration PROVE FALSE
      <4>1. lease.holder = g /\ acked[g] <= lease.renew
        BY Zenon, <3>1, <3>3 DEF IInv, ValidHolderOwns, HolderInv
      <4>2. lease.holder # NoHolder /\ ~Expired(lease, clock)
        BY <1>0, <3>1, <3>3, <4>1, HandleAssumption, TimingPositive DEF Expired, ApiType, Lease
      <4> QED BY Zenon, <1>e, <1>o, <2>2, <4>1, <4>2
    <3> QED BY Zenon, <3>1, <3>2, <3>3 DEF Apply
  <2> QED BY Zenon, <2>1, <2>2
<1>8. IntervalInv'
  <2>1. lease'.holder \in {h, NoHolder} /\ past' = past \cup ({lease.holder} \ {NoHolder, lease'.holder})
    BY Zenon, <1>e, <1>o DEF Apply, Acquiring
  <2>2. lease'.holder \notin past'
    BY Zenon, <1>0, <1>1, <1>e, <1>o, <2>1, HandleAssumption DEF IInv, IntervalInv, ApiType, Acquiring
  <2>3. \A g \in Handle : main'[g] \in Before =>
          /\ g \notin past' \cup {lease'.holder}
          /\ \A v \in flight : Acquiring(v) => v.by # g
    <3> SUFFICES ASSUME NEW g \in Handle, main'[g] \in Before
                 PROVE  /\ g \notin past' \cup {lease'.holder}
                        /\ \A v \in flight : Acquiring(v) => v.by # g
      BY Zenon
    <3>1. g # h /\ main[g] \in Before
      BY Zenon DEF Others
    <3> QED BY Zenon, <2>1, <3>1, HandleAssumption DEF IInv, IntervalInv
  <2>4. \A v \in flight : Acquiring(v) => v.by \notin past' \cup {lease'.holder}
    <3> SUFFICES ASSUME NEW v \in flight, Acquiring(v)
                 PROVE  v.by \notin past' \cup {lease'.holder}
      BY Zenon
    <3>1. v.by \notin past \cup {lease.holder} /\ v.by \in Handle
      BY Zenon, <1>0 DEF IInv, IntervalInv, ApiType, Write
    <3>2. v.by # lease'.holder
      BY Zenon, <1>1, <1>e, <1>o, <3>1, HandleAssumption DEF IInv, IntervalInv, Acquiring
    <3> QED BY Zenon, <2>1, <3>1, <3>2
  <2> QED BY Zenon, <2>2, <2>3, <2>4 DEF IInv, IntervalInv, Acquiring
<1> QED BY Zenon, <1>e, <1>3, <1>6, <1>7, <1>8 DEF IInv

\* A late write is delivered: its sender is not working, unless it is a renewal.
LEMMA DeliverStep ==
    ASSUME IInv, TypeOK', TriesInv', NEW w \in flight, Deliver(w)
    PROVE  IInv'
<1>0. ApiType /\ LocalType /\ clock' \in Nat /\ clock' = clock
  BY Zenon DEF IInv, TypeOK, ApiType, LocalType, Deliver
<1>1. w \in Write /\ w.by \in Handle /\ Sound(w) /\ Sent(w)
  BY Zenon, <1>0 DEF IInv, WriteInv, ApiType, Write
<1>2. UNCHANGED local /\ flight' = flight \ {w}
  BY Zenon DEF Deliver
<1>3. (Admits(w) /\ Apply(w)) \/ UNCHANGED <<lease, rev, past>>
  BY Zenon DEF Deliver, Apply
<1>4. ASSUME NEW v \in Write, Sound(v) PROVE Sound(v)'
  BY <1>0, <1>1, <1>3, <1>4, SoundStable DEF ApiType
<1>5. \A h \in Handle : Pending(h)' = Pending(h) /\ Working(h)' = Working(h)
  BY ZenonT(60), <1>2 DEF local, Pending, WriteOf, Working
<1>6. \A v : Sent(v)' = Sent(v)
  BY Zenon, <1>2 DEF local, Sent, Acquiring
<1>7. \A v \in flight : v \in Write /\ Sound(v) /\ Sent(v)
  BY Zenon, <1>0 DEF IInv, WriteInv, ApiType
<1>8. \A h \in Handle : \A v \in Pending(h) : v \in Write /\ Sound(v)
  BY Zenon, <1>0, PendingType DEF IInv, WriteInv
<1>9. WriteInv'
  BY Zenon, <1>2, <1>4, <1>5, <1>6, <1>7, <1>8 DEF WriteInv
<1>10. CASE UNCHANGED <<lease, rev, past>>
  <2>1. LeaseInv' /\ LocalInv' /\ HolderInv' /\ ValidHolderOwns'
    BY Zenon, <1>0, <1>2, <1>10 DEF IInv, LeaseInv, LocalInv, HolderInv, ValidHolderOwns, local, Exists, Working
  <2>2. IntervalInv'
    BY Zenon, <1>2, <1>10 DEF IInv, IntervalInv, Acquiring, local
  <2> QED BY Zenon, <1>9, <2>1, <2>2 DEF IInv
<1>11. CASE Admits(w) /\ Apply(w)
  <2>e. /\ LeaseInv'
        /\ w.op = "create" => lease.holder = NoHolder
        /\ w.op = "claim" => lease.holder = NoHolder \/ Expired(lease, clock)
        /\ Acquiring(w) => lease'.holder = w.by /\ lease'.renew = w.at
        /\ w.op = "renew" =>
             lease.holder = w.by /\ lease'.holder = w.by /\ lease.renew <= lease'.renew
        /\ w.op \in {"release", "delete"} =>
             lease.holder = w.by /\ lease'.holder = NoHolder
    BY Zenon, <1>0, <1>1, <1>11, ApplyEffect DEF IInv
  <2>o. w.op \in {"create", "claim", "renew", "release", "delete"}
    BY Zenon, <1>1 DEF Write
  <2>1. LocalInv'
    <3>1. rev' = rev + 1 /\ rev \in Nat /\ UNCHANGED <<seen, now, loop, main>>
      BY Zenon, <1>0, <1>2, <1>11 DEF local, Apply, ApiType
    <3> QED BY <1>0, <3>1 DEF IInv, LocalInv, LocalType
  <2>2. HolderInv' /\ ValidHolderOwns'
    <3> SUFFICES ASSUME NEW g \in Handle, Working(g)
                 PROVE  /\ lease'.holder = g => acked[g] <= lease'.renew
                        /\ clock < acked[g] + LeaseDuration => lease'.holder = g
      BY Zenon, <1>0, <1>2, <1>5 DEF HolderInv, ValidHolderOwns, local
    <3>1. w.op # "renew" => w.by # g
      BY Zenon, <1>1, <2>o DEF Sent, Working, Acquiring
    <3>2. /\ lease.holder = g => acked[g] <= lease.renew
          /\ clock < acked[g] + LeaseDuration => lease.holder = g
      BY Zenon DEF IInv, HolderInv, ValidHolderOwns
    <3>3. acked[g] \in Nat /\ lease.renew \in Nat /\ lease'.renew \in Nat
      BY Zenon, <1>0 DEF LocalType, ApiType, Lease, TypeOK
    <3>4. lease'.holder = g => acked[g] <= lease'.renew
      BY <2>e, <2>o, <3>1, <3>2, <3>3, HandleAssumption DEF Acquiring
    <3>5. ASSUME clock < acked[g] + LeaseDuration PROVE lease'.holder = g
      <4>1. lease.holder = g /\ g # NoHolder
        BY Zenon, <3>2, <3>5, HandleAssumption
      <4>2. ~Expired(lease, clock)
        BY <1>0, <3>2, <3>3, <3>5, <4>1, TimingPositive DEF Expired
      <4> QED BY Zenon, <2>e, <2>o, <3>1, <4>1, <4>2
    <3> QED BY Zenon, <3>4, <3>5
  <2>3. IntervalInv'
    <3>1. past' = past \cup ({lease.holder} \ {NoHolder, lease'.holder})
      BY Zenon, <1>11 DEF Apply
    <3>2. lease'.holder \notin past'
      BY Zenon, <1>0, <2>e, <2>o, <3>1, HandleAssumption DEF IInv, IntervalInv, ApiType, Acquiring
    <3>3. \A g \in Handle : main[g] \in Before =>
            /\ g \notin past' \cup {lease'.holder}
            /\ \A v \in flight' : Acquiring(v) => v.by # g
      BY Zenon, <1>2, <2>e, <2>o, <3>1, HandleAssumption DEF IInv, IntervalInv, Acquiring
    <3>4. \A v \in flight' : Acquiring(v) => v.by \notin past' \cup {lease'.holder}
      <4> SUFFICES ASSUME NEW v \in flight', Acquiring(v)
                   PROVE  v.by \notin past' \cup {lease'.holder}
        BY Zenon
      <4>1. v \in flight /\ v # w /\ v.by \in Handle
        BY Zenon, <1>2, <1>7 DEF Write
      <4>2. v.by \notin past \cup {lease.holder}
        BY Zenon, <4>1 DEF IInv, IntervalInv
      <4>3. Acquiring(w) => v.by # w.by
        BY Zenon, <4>1 DEF IInv, IntervalInv
      <4> QED BY Zenon, <2>e, <2>o, <3>1, <4>1, <4>2, <4>3, HandleAssumption DEF Acquiring
    <3> QED BY Zenon, <1>2, <3>2, <3>3, <3>4 DEF IInv, IntervalInv, Acquiring, local
  <2> QED BY Zenon, <1>9, <2>e, <2>1, <2>2, <2>3 DEF IInv
<1> QED BY Zenon, <1>3, <1>10, <1>11

-----------------------------------------------------------------------------
(* The invariant is preserved by every action *)

\* What a handle is about to send after a step.
LEMMA PendingNext ==
    ASSUME LocalType', NEW h \in Handle, NEW w \in Pending(h)'
    PROVE  /\ w.by = h /\ w.rv = seen'[h] /\ w.at = now'[h]
           /\ \/ w.op = main'[h] /\ w.op \in {"create", "claim"}
              \/ w.op = "release" /\ main'[h] = "relPut"
              \/ w.op = "delete" /\ main'[h] = "delPut"
              \/ w.op = "renew" /\ loop'[h] = "put"
<1>1. PICK op \in {"create", "claim", "renew", "release", "delete"} :
         /\ w = [op |-> op, by |-> h, rv |-> seen'[h], at |-> now'[h]]
         /\ \/ op = main'[h] /\ op \in {"create", "claim"}
            \/ op = "release" /\ main'[h] = "relPut"
            \/ op = "delete" /\ main'[h] = "delPut"
            \/ op = "renew" /\ loop'[h] = "put"
  BY Zenon DEF Pending, WriteOf, LocalType
<1> QED BY Zenon, <1>1

LEMMA NothingPending ==
    ASSUME NEW h \in Handle, loop'[h] # "put",
           main'[h] \notin {"create", "claim", "relPut", "delPut"}
    PROVE  Pending(h)' = {}
BY Zenon DEF Pending

\* The fields of a write.
LEMMA WriteOfFields ==
    ASSUME NEW h, NEW op
    PROVE  /\ WriteOf(h, op).op = op /\ WriteOf(h, op).by = h
           /\ WriteOf(h, op).rv = seen[h] /\ WriteOf(h, op).at = now[h]
BY Zenon DEF WriteOf

LEMMA PendingWrites ==
    ASSUME NEW h \in Handle
    PROVE  /\ main[h] = "create" => WriteOf(h, "create") \in Pending(h)
           /\ main[h] = "claim" => WriteOf(h, "claim") \in Pending(h)
           /\ main[h] = "relPut" => WriteOf(h, "release") \in Pending(h)
           /\ main[h] = "delPut" => WriteOf(h, "delete") \in Pending(h)
           /\ loop[h] = "put" => WriteOf(h, "renew") \in Pending(h)
BY Zenon DEF Pending

LEMMA StepInv ==
    ASSUME IInv, TypeOK', TriesInv', NEW h \in Handle, Step(h)
    PROVE  IInv'
<1>t. ApiType /\ LocalType /\ LocalType'
  BY Zenon DEF IInv, TypeOK, ApiType, LocalType
<1>n. /\ seen[h] <= rev /\ now[h] <= clock /\ lease.rv <= rev
      /\ loop[h] \in {"wait", "get", "put"} => main[h] = "work"
  BY Zenon DEF IInv, LocalInv, LeaseInv
<1>s. \A w \in flight : w.by = h => Sent(w)
  BY Zenon DEF IInv, WriteInv
\* A step that only reads, and sends nothing next.
<1>q. ASSUME Others(h), UNCHANGED <<clock, lease, rev, past>>,
             flight' \subseteq flight \cup Pending(h),
             \A w \in flight' \ flight : Sent(w)',
             UNCHANGED <<now, seen, acked>>,
             loop'[h] \in {"wait", "get", "put"} => main'[h] = "work",
             loop'[h] # "put", main'[h] \notin {"create", "claim", "relPut", "delPut"},
             \/ main'[h] = main[h]
             \/ main[h] \in Before /\ main'[h] = "refused"
             \/ main[h] \in {"create", "idle"} /\ main'[h] = "get"
             \/ main[h] = "work" /\ main'[h] \in {"end", "relGet", "delGet"}
             \/ main[h] \in {"delGet", "delPut"} /\ main'[h] = "afterDelete"
             \/ main[h] = "afterDelete" /\ main'[h] \in {"end", "relGet"}
             \/ main[h] \in {"relGet", "relPut"} /\ main'[h] = "end",
             main'[h] \in Before => flight' = flight
      PROVE  IInv'
  <2>1. Pending(h)' = {}
    BY Zenon, <1>q, NothingPending
  <2>2. \A w \in flight : w.by = h => Sent(w)'
    BY Zenon, <1>s, <1>q DEF Sent, Acquiring, Before
  <2>3. Working(h)' => Working(h)
    BY Zenon, <1>q DEF Working, Before
  <2>4. main'[h] \in Before => main[h] \in Before
    BY Zenon, <1>q DEF Before
  <2> QED BY Zenon, <1>n, <1>q, <2>1, <2>2, <2>3, <2>4, QuietStep
<1>1. CASE StartAcquire(h)
  <2>1. /\ Others(h) /\ UNCHANGED <<clock, lease, rev, past, flight, loop, seen, acked>>
        /\ main[h] = "idle" /\ main'[h] = "get" /\ now'[h] = clock
    BY Zenon, <1>t, <1>1 DEF StartAcquire, Others, LocalType, api
  <2>2. \A w \in flight' : w.by = h => Sent(w)'
    BY Zenon, <1>s, <2>1 DEF Sent, Acquiring
  <2>3. /\ Pending(h)' = {} /\ ~Working(h)' /\ loop'[h] \notin {"wait", "get", "put"}
        /\ main[h] \in Before
    BY Zenon, <1>n, <2>1, NothingPending DEF Working, Before
  <2>4. seen'[h] <= rev /\ now'[h] <= clock
    BY <1>t, <1>n, <2>1 DEF ApiType
  <2> QED BY Zenon, <2>1, <2>2, <2>3, <2>4, QuietStep
<1>2. CASE AcquireGet(h)
  <2>1. /\ Others(h) /\ UNCHANGED <<clock, lease, rev, past, flight, loop, now, acked>>
        /\ main[h] = "get"
        /\ \/ main'[h] = "refused" /\ seen' = seen
           \/ main'[h] = AfterAcquireGet /\ seen'[h] = lease.rv
    BY Zenon, <1>t, <1>2 DEF AcquireGet, Others, LocalType, api, ReadFault
  <2>2. main'[h] \in {"create", "claim", "refused"}
    BY Zenon, <2>1 DEF AfterAcquireGet
  <2>3. \A w \in flight' : w.by = h => Sent(w)'
    BY Zenon, <1>s, <2>1, <2>2 DEF Sent, Acquiring
  <2>4. \A w \in Pending(h)' : Sound(w)
    <3> SUFFICES ASSUME NEW w \in Pending(h)' PROVE Sound(w)
      BY Zenon
    <3>1. /\ w.op = AfterAcquireGet /\ w.op \in {"create", "claim"}
          /\ w.rv = lease.rv /\ w.at = now[h]
      BY ZenonT(30), <1>t, <1>n, <2>1, <2>2, PendingNext
    <3> QED BY Zenon, <1>n, <3>1 DEF AfterAcquireGet, Sound
  <2>5. ~Working(h)' /\ seen'[h] <= rev /\ loop'[h] \notin {"wait", "get", "put"}
    BY Zenon, <1>n, <2>1, <2>2 DEF Working
  <2> QED BY Zenon, <1>n, <2>1, <2>2, <2>3, <2>4, <2>5, QuietStep DEF Before
\* An acquisition whose write is stored.
<1>h. ASSUME NEW op \in {"create", "claim"}, NEW u, main[h] = op,
             Commit(WriteOf(h, op)), Held(h, u)
      PROVE  IInv'
  <2>1. /\ Others(h) /\ main'[h] = "work" /\ loop'[h] = "wait"
        /\ acked'[h] = now[h] /\ UNCHANGED <<now, seen>>
    BY ZenonT(60), <1>t, <1>h DEF Held, Others, LocalType
  <2>2. WriteOf(h, op) \in Pending(h) /\ Apply(WriteOf(h, op)) /\ flight' = flight
    BY Zenon, <1>h, PendingWrites DEF Commit, Apply
  <2>3. Pending(h)' = {}
    BY Zenon, <2>1, NothingPending
  <2>4. \A v \in flight : v.by = h => Sent(v)'
    BY Zenon, <1>s, <1>h, <2>1 DEF Sent, Acquiring
  <2> QED BY Zenon, <1>h, <2>1, <2>2, <2>3, <2>4, WriteOfFields, StoreStep DEF Before
\* An acquisition that gives up, its write abandoned or rejected.
<1>r. ASSUME NEW op \in {"create", "claim"}, main[h] = op, Refuse(h),
             Lose(WriteOf(h, op)) \/ UNCHANGED api
      PROVE  IInv'
  <2>1. /\ Others(h) /\ main'[h] = "refused"
        /\ UNCHANGED <<now, seen, acked, loop>>
    BY Zenon, <1>t, <1>r DEF Refuse, Others, LocalType
  <2>2. /\ flight' \subseteq flight \cup {WriteOf(h, op)}
        /\ UNCHANGED <<clock, lease, rev, past>>
    BY Zenon, <1>r DEF Lose, api
  <2>3. \A w \in flight' \ flight : Sent(w)'
    <3> SUFFICES ASSUME NEW w \in flight' \ flight PROVE Sent(w)'
      BY Zenon
    <3>1. w.op = op /\ w.by = h
      BY <2>2, WriteOfFields
    <3> QED BY Zenon, <2>1, <3>1 DEF Sent, Acquiring
  <2> QED BY Zenon, <1>n, <1>q, <1>r, <2>1, <2>2, <2>3, PendingWrites DEF Before
<1>3. CASE AcquireCreate(h)
  <2>1. CASE /\ main' = [main EXCEPT ![h] = IF tries[h] = 0 THEN "get" ELSE "refused"]
             /\ UNCHANGED <<api, loop, now, seen, uid, due, wake, deadline, deleted, acked>>
    <3>1. Others(h) /\ main'[h] \in {"get", "refused"} /\ main[h] = "create"
      BY Zenon, <1>t, <1>3, <2>1 DEF AcquireCreate, Others, LocalType
    <3> QED BY Zenon, <1>n, <1>q, <2>1, <3>1 DEF api, Before
  <2> QED BY Zenon, <1>3, <1>h, <1>r, <2>1 DEF AcquireCreate
<1>4. CASE AcquireClaim(h)
  BY Zenon, <1>4, <1>h, <1>r DEF AcquireClaim
<1>5. CASE RenewTick(h)
  <2>1. Others(h) /\ loop[h] = "wait" /\ loop'[h] = "get"
    BY Zenon, <1>t, <1>5 DEF RenewTick, Others, LocalType
  <2> QED BY Zenon, <1>n, <1>5, <1>q, <2>1 DEF RenewTick, api, Before
\* The renewal goes on after an error, or is given up.
<1>f. ASSUME RenewFailed(h) \/ RenewLost(h), loop[h] \in {"get", "put"},
             \/ UNCHANGED api
             \/ ReadFault
             \/ loop[h] = "put" /\ Lose(WriteOf(h, "renew"))
      PROVE  IInv'
  <2>1. /\ Others(h) /\ loop'[h] \in {"get", "lost"} /\ main[h] = "work"
        /\ UNCHANGED <<main, now, seen, acked>>
    BY Zenon, <1>t, <1>n, <1>f DEF RenewFailed, RenewLost, Others, LocalType
  <2>2. /\ \/ flight' = flight
           \/ loop[h] = "put" /\ flight' \subseteq flight \cup {WriteOf(h, "renew")}
        /\ UNCHANGED <<clock, lease, rev, past>>
    BY Zenon, <1>f DEF Lose, api, ReadFault
  <2>3. \A w \in flight' \ flight : Sent(w)'
    <3>1. ASSUME NEW w \in flight' \ flight PROVE w.op = "renew"
      BY <2>2, <3>1, WriteOfFields
    <3> QED BY Zenon, <3>1 DEF Sent, Acquiring
  <2>4. flight' \subseteq flight \cup Pending(h)
    BY Zenon, <2>2, PendingWrites
  <2> QED BY Zenon, <1>n, <1>q, <2>1, <2>2, <2>3, <2>4 DEF Before
<1>6. CASE RenewGet(h)
  <2>1. CASE /\ Owns(h)
             /\ loop' = [loop EXCEPT ![h] = "put"]
             /\ seen' = [seen EXCEPT ![h] = lease.rv]
             /\ now' = [now EXCEPT ![h] = clock]
             /\ UNCHANGED <<api, main, uid, tries, due, wake, deadline, deleted, acked>>
    <3>1. /\ Others(h) /\ UNCHANGED <<clock, lease, rev, past, flight, main, acked>>
          /\ main[h] = "work" /\ loop'[h] = "put"
          /\ seen'[h] = lease.rv /\ now'[h] = clock
      BY Zenon, <1>t, <1>n, <1>6, <2>1 DEF RenewGet, Others, LocalType, api
    <3>2. \A w \in Pending(h)' : Sound(w)
      <4> SUFFICES ASSUME NEW w \in Pending(h)' PROVE Sound(w)
        BY Zenon
      <4>1. w.op = "renew" /\ w.by = h /\ w.rv = lease.rv /\ w.at = clock
        BY ZenonT(30), <1>t, <1>n, <3>1, PendingNext
      <4>2. lease.managed /\ lease.holder = h /\ lease.renew <= clock /\ clock <= clock
        <5>1. lease.managed /\ lease.holder = h
          BY Zenon, <2>1 DEF Owns
        <5>2. lease.renew <= clock /\ clock \in Nat
          BY Zenon, <1>t DEF IInv, LeaseInv, ApiType
        <5> QED BY <5>1, <5>2
      <4> QED BY Zenon, <1>n, <4>1, <4>2 DEF Sound
    <3>3. \A w \in flight' : w.by = h => Sent(w)'
      BY Zenon, <1>s, <3>1 DEF Sent, Acquiring
    <3>4. Working(h)' => Working(h)
      BY Zenon, <3>1 DEF Working
    <3>5. main'[h] \notin Before
      BY Zenon, <3>1 DEF Before
    <3>6. seen'[h] <= rev /\ now'[h] <= clock
      BY <1>t, <1>n, <3>1 DEF ApiType
    <3> QED BY Zenon, <3>1, <3>2, <3>3, <3>4, <3>5, <3>6, QuietStep
  <2> QED BY Zenon, <1>6, <1>f, <2>1 DEF RenewGet
<1>7. CASE RenewPut(h)
  <2>1. CASE Commit(WriteOf(h, "renew"))
              /\ loop' = [loop EXCEPT ![h] = "wait"]
              /\ acked' = [acked EXCEPT ![h] = now[h]]
              /\ UNCHANGED <<main, now, seen, uid, tries, due, deleted>>
    <3>1. /\ Others(h) /\ loop'[h] = "wait" /\ acked'[h] = now[h]
          /\ loop[h] = "put" /\ main[h] = "work" /\ UNCHANGED <<main, now, seen>>
      BY ZenonT(30), <1>t, <1>n, <1>7, <2>1 DEF RenewPut, Others, LocalType
    <3>2. WriteOf(h, "renew") \in Pending(h) /\ Apply(WriteOf(h, "renew")) /\ flight' = flight
      BY Zenon, <2>1, <3>1, PendingWrites DEF Commit, Apply
    <3>3. Pending(h)' = {}
      BY Zenon, <3>1, NothingPending
    <3>4. \A v \in flight : v.by = h => Sent(v)'
      BY Zenon, <1>s, <3>1 DEF Sent, Acquiring
    <3> QED BY <3>1, <3>2, <3>3, <3>4, WriteOfFields, StoreStep DEF Before
  <2> QED BY Zenon, <1>7, <1>f, <2>1 DEF RenewPut
<1>8. CASE CancelParent(h) \/ StartDelete(h) \/ StartRelease(h)
  <2>1. /\ Others(h) /\ UNCHANGED <<clock, lease, rev, past, now, seen, acked>>
        /\ loop'[h] \in {"lost", "stopped"}
    BY ZenonT(30), <1>t, <1>n, <1>8 DEF CancelParent, StartDelete, StartRelease, StopLoop, Others, LocalType
  <2>2. \/ flight' = flight
        \/ loop[h] = "put" /\ flight' = flight \cup {WriteOf(h, "renew")}
    BY Zenon, <1>8 DEF CancelParent, StartDelete, StartRelease, StopLoop
  <2>3. \/ main'[h] = main[h] /\ main[h] = "work"
        \/ main[h] = "work" /\ main'[h] \in {"end", "relGet", "delGet"}
        \/ main[h] = "afterDelete" /\ main'[h] \in {"end", "relGet"}
    BY Zenon, <1>t, <1>n, <1>8 DEF CancelParent, StartDelete, StartRelease, LocalType
  <2>4. \A w \in flight' \ flight : Sent(w)'
    <3>1. ASSUME NEW w \in flight' \ flight PROVE w.op = "renew"
      BY <2>2, <3>1, WriteOfFields
    <3> QED BY Zenon, <3>1 DEF Sent, Acquiring
  <2>5. flight' \subseteq flight \cup Pending(h)
    BY <2>2, PendingWrites
  <2> QED BY Zenon, <1>n, <1>q, <2>1, <2>3, <2>4, <2>5 DEF Before
\* Delete and Release go on without having stored anything.
<1>d. ASSUME NEW where \in {"afterDelete", "end"},
             Goto(h, where) \/ (Deleted(h) /\ where = "afterDelete"),
             \/ where = "afterDelete" /\ main[h] \in {"delGet", "delPut"}
             \/ where = "end" /\ main[h] \in {"relGet", "relPut"},
             \/ UNCHANGED api
             \/ ReadFault
             \/ main[h] = "delPut" /\ Lose(WriteOf(h, "delete"))
             \/ main[h] = "relPut" /\ Lose(WriteOf(h, "release"))
      PROVE  IInv'
  <2>1. /\ Others(h) /\ UNCHANGED <<now, seen, acked, loop>> /\ main'[h] = where
        /\ loop[h] \notin {"wait", "get", "put"}
    BY Zenon, <1>t, <1>n, <1>d DEF Goto, Deleted, Others, LocalType
  <2>2. /\ UNCHANGED <<clock, lease, rev, past>>
        /\ \/ flight' = flight
           \/ main[h] = "delPut" /\ flight' = flight \cup {WriteOf(h, "delete")}
           \/ main[h] = "relPut" /\ flight' = flight \cup {WriteOf(h, "release")}
    BY Zenon, <1>d DEF api, ReadFault, Lose
  <2>3. \A w \in flight' \ flight : Sent(w)'
    <3> SUFFICES ASSUME NEW w \in flight' \ flight PROVE Sent(w)'
      BY Zenon
    <3>1. /\ w.by = h
          /\ \/ w.op = "delete" /\ main[h] = "delPut"
             \/ w.op = "release" /\ main[h] = "relPut"
      BY <2>2, WriteOfFields
    <3>2. CASE w.op = "delete" /\ main[h] = "delPut"
      BY Zenon, <1>d, <2>1, <3>1, <3>2 DEF Sent, Acquiring
    <3>3. CASE w.op = "release" /\ main[h] = "relPut"
      BY Zenon, <1>d, <2>1, <3>1, <3>3 DEF Sent, Acquiring
    <3> QED BY Zenon, <3>1, <3>2, <3>3
  <2>4. flight' \subseteq flight \cup Pending(h)
    <3>1. CASE main[h] = "delPut" /\ flight' = flight \cup {WriteOf(h, "delete")}
      BY Zenon, <3>1, PendingWrites
    <3>2. CASE main[h] = "relPut" /\ flight' = flight \cup {WriteOf(h, "release")}
      BY Zenon, <3>2, PendingWrites
    <3> QED BY Zenon, <2>2, <3>1, <3>2
  <2> QED BY Zenon, <1>n, <1>d, <1>q, <2>1, <2>2, <2>3, <2>4 DEF Before
<1>9. CASE DeleteGet(h) \/ ReleaseGet(h)
  <2>1. ASSUME NEW where \in {"delPut", "relPut"}, Owns(h), ReadThenGoto(h, where),
               \/ where = "delPut" /\ main[h] = "delGet"
               \/ where = "relPut" /\ main[h] = "relGet"
        PROVE  IInv'
    <3>1. /\ Others(h) /\ UNCHANGED <<clock, lease, rev, past, flight, loop, now, acked>>
          /\ main'[h] = where /\ seen'[h] = lease.rv /\ loop[h] \notin {"wait", "get", "put"}
      BY Zenon, <1>t, <1>n, <2>1 DEF ReadThenGoto, Others, LocalType, api
    <3>2. \A w \in Pending(h)' : Sound(w)
      <4> SUFFICES ASSUME NEW w \in Pending(h)' PROVE Sound(w)
        BY Zenon
      <4>1. /\ w.op \in {"delete", "release"} /\ w.by = h
            /\ w.rv = lease.rv /\ w.at = now[h]
        BY <1>t, <1>n, <3>1, PendingNext
      <4> QED BY Zenon, <1>n, <2>1, <4>1 DEF Sound, Owns
    <3>3. \A w \in flight' : w.by = h => Sent(w)'
      BY Zenon, <1>s, <2>1, <3>1 DEF Sent, Acquiring
    <3>4. (Working(h)' => Working(h)) /\ main'[h] \notin Before
      BY Zenon, <2>1, <3>1 DEF Working, Before
    <3> QED BY Zenon, <1>n, <3>1, <3>2, <3>3, <3>4, QuietStep
  <2>2. CASE DeleteGet(h)
    BY Zenon, <1>d, <2>1, <2>2 DEF DeleteGet
  <2>3. CASE ReleaseGet(h)
    BY Zenon, <1>d, <2>1, <2>3 DEF ReleaseGet
  <2> QED BY Zenon, <1>9, <2>2, <2>3
\* The final write of Delete or Release is stored.
<1>e. ASSUME NEW op \in {"delete", "release"}, NEW where \in {"afterDelete", "end"},
             Commit(WriteOf(h, op)), Goto(h, where) \/ (Deleted(h) /\ where = "afterDelete"),
             \/ op = "delete" /\ main[h] = "delPut" /\ where = "afterDelete"
             \/ op = "release" /\ main[h] = "relPut" /\ where = "end"
      PROVE  IInv'
  <2>1. /\ Others(h) /\ UNCHANGED <<now, seen, acked, loop>> /\ main'[h] = where
        /\ loop[h] \notin {"wait", "get", "put"}
    BY Zenon, <1>t, <1>n, <1>e DEF Goto, Deleted, Others, LocalType
  <2>2. WriteOf(h, op) \in Pending(h) /\ Apply(WriteOf(h, op)) /\ flight' = flight
    BY Zenon, <1>e, PendingWrites DEF Commit, Apply
  <2>3. Pending(h)' = {} /\ ~Working(h)' /\ main'[h] \notin Before
    BY Zenon, <2>1, NothingPending DEF Working, Before
  <2>4. \A v \in flight : v.by = h => Sent(v)'
    BY Zenon, <1>s, <1>e, <2>1 DEF Sent, Acquiring
  <2> QED BY Zenon, <2>1, <2>2, <2>3, <2>4, StoreStep
<1>10. CASE DeletePut(h)
  BY Zenon, <1>10, <1>d, <1>e DEF DeletePut
<1>11. CASE ReleasePut(h)
  BY Zenon, <1>11, <1>d, <1>e DEF ReleasePut
<1>12. CASE Crash(h)
  <2>1. /\ Others(h) /\ UNCHANGED <<clock, lease, rev, past>>
        /\ main'[h] = "crashed" /\ loop'[h] = "stopped" /\ flight' = flight \cup Pending(h)
    BY <1>t, <1>12 DEF Crash, Others, LocalType
  <2>0. seen'[h] <= rev /\ now'[h] <= clock
    BY <1>t, <1>12 DEF Crash, LocalType, ApiType
  <2>2. Pending(h)' = {} /\ ~Working(h)' /\ main'[h] \notin Before
    BY Zenon, <2>1, NothingPending DEF Working, Before
  <2>3. \A w \in flight' : w.by = h => Sent(w)'
    BY Zenon, <2>1 DEF Sent, Acquiring
  <2> QED BY Zenon, <2>0, <2>1, <2>2, <2>3, QuietStep
<1> QED BY Zenon, <1>1, <1>2, <1>3, <1>4, <1>5, <1>6, <1>7, <1>8, <1>9, <1>10, <1>11, <1>12 DEF Step

LEMMA InitInv == Init => IInv
<1> SUFFICES ASSUME Init PROVE IInv
  BY Zenon
<1>1. TypeOK /\ TriesInv
  BY Zenon, InitType
<1>2. /\ lease.rv <= 1 /\ lease.renew = 0 /\ lease.holder = NoHolder
      /\ lease.uid = 0 => lease = NoLease
  <2>1. CASE lease = NoLease
    BY <2>1 DEF NoLease
  <2>2. CASE lease = ForeignLease
    BY <2>2 DEF ForeignLease
  <2> QED BY Zenon, <2>1, <2>2 DEF Init
<1>3. LeaseInv
  BY <1>1, <1>2 DEF Init, LeaseInv, Exists, TypeOK
<1>4. LocalInv /\ WriteInv
  BY DEF Init, LocalInv, WriteInv, Pending
<1>5. HolderInv /\ ValidHolderOwns
  BY Zenon DEF Init, HolderInv, ValidHolderOwns, Working
<1>6. IntervalInv
  BY Zenon, <1>2, HandleAssumption DEF Init, IntervalInv
<1> QED BY Zenon, <1>1, <1>3, <1>4, <1>5, <1>6 DEF IInv

LEMMA NextInv == IInv /\ [Next]_vars => IInv'
<1> SUFFICES ASSUME IInv, [Next]_vars PROVE IInv'
  BY Zenon
<1>0. TypeOK' /\ TriesInv'
  BY Zenon, NextType DEF IInv
<1>1. CASE \E h \in Handle : Step(h)
  BY Zenon, <1>0, <1>1, StepInv
<1>2. CASE \E w \in flight : Deliver(w)
  BY Zenon, <1>0, <1>2, DeliverStep
<1>3. CASE Tick
  <2>0. ApiType /\ LocalType /\ clock' = clock + 1 /\ clock' \in Nat
    BY <1>3 DEF IInv, TypeOK, ApiType, LocalType, Tick
  <2>1. ASSUME NEW w \in Write, Sound(w) PROVE Sound(w)'
    BY <1>3, <2>0, <2>1, SoundStable DEF Tick, ApiType
  <2>2. \A h \in Handle : Pending(h)' = Pending(h) /\ Working(h)' = Working(h)
    BY ZenonT(60), <1>3 DEF Tick, local, Pending, WriteOf, Working
  <2>3. \A w : Sent(w)' = Sent(w)
    BY Zenon, <1>3 DEF Tick, local, Sent, Acquiring
  <2>4. \A h \in Handle : \A w \in Pending(h) : w \in Write /\ Sound(w)
    BY Zenon, <2>0, PendingType DEF IInv, WriteInv
  <2>5. WriteInv'
    BY Zenon, <1>3, <2>0, <2>1, <2>2, <2>3, <2>4 DEF IInv, WriteInv, Tick, ApiType
  <2>6. LeaseInv' /\ LocalInv'
    BY <1>3, <2>0 DEF Tick, local, IInv, LeaseInv, LocalInv, Exists, ApiType, LocalType, Lease
  <2>7. HolderInv' /\ ValidHolderOwns'
    BY <1>3, <2>0, <2>2, TimingPositive DEF Tick, local, IInv, HolderInv, ValidHolderOwns, ApiType, LocalType
  <2>8. IntervalInv'
    BY Zenon, <1>3 DEF Tick, local, IInv, IntervalInv, Acquiring
  <2> QED BY Zenon, <1>0, <2>5, <2>6, <2>7, <2>8 DEF IInv
<1>4. CASE UNCHANGED vars
  <2>1. LeaseInv' /\ LocalInv' /\ HolderInv' /\ ValidHolderOwns'
    BY Zenon, <1>4 DEF vars, IInv, LeaseInv, LocalInv, HolderInv, ValidHolderOwns, Exists, Working
  <2>2. \A w : Sound(w)' = Sound(w) /\ Sent(w)' = Sent(w)
    BY Zenon, <1>4 DEF vars, Sound, Sent, Current, Exists, Expired, Acquiring
  <2>3. \A h \in Handle : Pending(h)' = Pending(h)
    BY ZenonT(60), <1>4 DEF vars, Pending, WriteOf
  <2>4. WriteInv'
    BY Zenon, <1>4, <2>2, <2>3 DEF vars, IInv, WriteInv
  <2>5. IntervalInv'
    BY Zenon, <1>4 DEF vars, IInv, IntervalInv, Acquiring
  <2> QED BY Zenon, <1>0, <2>1, <2>4, <2>5 DEF IInv
<1> QED BY Zenon, <1>1, <1>2, <1>3, <1>4 DEF Next

-----------------------------------------------------------------------------
(* Theorems *)

\* The invariant holds throughout.
THEOREM Invariance == Spec => []IInv
BY InitInv, NextInv, PTL DEF Spec

\* For every number of sessions, every timing and any number of failed or late
\* calls: until a full lease duration after its last acknowledged renewal, a
\* working session is the one the Lease names (session_lease.go, acquire, renew,
\* Release and Delete together).
THEOREM HolderSafe == Spec => []ValidHolderOwns
<1>1. IInv => ValidHolderOwns
  BY DEF IInv
<1> QED BY <1>1, Invariance, PTL

\* What a step may do to the Lease: nothing, or one sound write.
LEMMA LeaseStep ==
    ASSUME IInv, Next
    PROVE  \/ UNCHANGED <<lease, past>>
           \/ \E w \in Write :
                /\ Sound(w) /\ Apply(w)
                /\ w \in flight \/ w \in Pending(w.by)
<1>0. ApiType /\ LocalType
  BY Zenon DEF IInv, TypeOK, ApiType, LocalType
<1>1. ASSUME NEW h \in Handle, Step(h)
      PROVE  \/ UNCHANGED <<lease, past>>
             \/ \E w \in Pending(h) : Commit(w)
  BY Zenon, <1>1 DEF Step, StartAcquire, AcquireGet, AcquireCreate, AcquireClaim, RenewTick, RenewGet, RenewPut,
     CancelParent, StartDelete, DeleteGet, DeletePut, StartRelease, ReleaseGet, ReleasePut, Crash,
     StopLoop, ReadThenGoto, Lose, ReadFault, api, Pending
<1>2. ASSUME NEW h \in Handle, NEW w \in Pending(h), Commit(w)
      PROVE  w \in Write /\ Sound(w) /\ Apply(w) /\ w \in Pending(w.by)
  BY Zenon, <1>0, <1>2, PendingType DEF Commit, Apply, IInv, WriteInv
<1>3. ASSUME NEW w \in flight, Deliver(w)
      PROVE  UNCHANGED <<lease, past>> \/ (w \in Write /\ Sound(w) /\ Apply(w))
  BY Zenon, <1>0, <1>3 DEF Deliver, Apply, IInv, WriteInv, ApiType
<1>4. Tick => UNCHANGED <<lease, past>>
  BY Zenon DEF Tick
<1> QED BY Zenon, <1>1, <1>2, <1>3, <1>4 DEF Next

\* A Lease changes hands only after it expired, however late the claim arrives
\* (acquireWorkflowLease, line 216, and the resourceVersion of the update).
THEOREM TakeoverSafe == Spec => NoTakeoverBeforeExpiry
<1>1. IInv /\ [Next]_vars =>
        [\A g, h \in Handle :
            g # h /\ lease.holder = g /\ lease'.holder = h
                => Expired(lease, clock)]_vars
  <2> SUFFICES ASSUME IInv, Next, NEW g \in Handle, NEW h \in Handle,
                      g # h, lease.holder = g, lease'.holder = h
               PROVE  Expired(lease, clock)
    BY Zenon
  <2>1. PICK w \in Write : Sound(w) /\ Apply(w)
    BY Zenon, LeaseStep
  <2> QED BY <2>1, ApplyEffect, HandleAssumption DEF IInv, TypeOK, ApiType, Write, Acquiring
<1> QED BY <1>1, Invariance, PTL DEF Spec, NoTakeoverBeforeExpiry

\* Nobody but its owner releases or deletes a Lease (Release, Delete and owns).
THEOREM ReleaseSafe == Spec => OnlyOwnerGivesUp
<1>1. IInv /\ [Next]_vars =>
        [\A g \in Handle :
            lease.holder = g /\ lease'.holder = NoHolder
                => main[g] \in {"relPut", "delPut", "afterDelete", "relGet",
                                "end", "crashed"}]_vars
  <2> SUFFICES ASSUME IInv, Next, NEW g \in Handle,
                      lease.holder = g, lease'.holder = NoHolder
               PROVE  main[g] \in {"relPut", "delPut", "afterDelete", "relGet",
                                   "end", "crashed"}
    BY Zenon
  <2>0. ApiType /\ LocalType
    BY Zenon DEF IInv, TypeOK, ApiType, LocalType
  <2>1. PICK w \in Write : /\ Sound(w) /\ Apply(w)
                           /\ w \in flight \/ w \in Pending(w.by)
    BY Zenon, LeaseStep, HandleAssumption
  <2>2. w.op \in {"release", "delete"} /\ w.by = g
    BY Zenon, <2>0, <2>1, ApplyEffect, HandleAssumption DEF IInv, Write, Acquiring
  <2> QED BY <2>0, <2>1, <2>2, PendingType DEF IInv, WriteInv, Sent
<1> QED BY <1>1, Invariance, PTL DEF Spec, OnlyOwnerGivesUp

\* A foreign object of the Lease's name is never written (the label test of
\* acquireWorkflowLease and of owns).
THEOREM ForeignSafe == Spec => ForeignUntouched
<1>1. IInv /\ [Next]_vars => [Exists /\ ~lease.managed => lease' = lease]_vars
  <2> SUFFICES ASSUME IInv, Next, Exists, ~lease.managed
               PROVE  lease' = lease
    BY Zenon
  <2> QED BY LeaseStep, ApplyEffect DEF IInv, TypeOK, ApiType
<1> QED BY <1>1, Invariance, PTL DEF Spec, ForeignUntouched

\* The Lease protocol implements LeaseOwnership: an acquisition owns the Lease
\* during one uninterrupted interval, however its calls fail or are delayed.
THEOREM Implements == Spec => OwnershipSpec
<1>1. Init => Ownership!Init
  <2>1. NoLease.holder = NoHolder /\ ForeignLease.holder = NoHolder
    BY Zenon DEF NoLease, ForeignLease
  <2> QED BY Zenon, <2>1 DEF Init, Ownership!Init
<1>2. IInv /\ [Next]_vars => [Ownership!Next]_<<lease.holder, past>>
  <2> SUFFICES ASSUME IInv, Next
               PROVE  Ownership!Next \/ UNCHANGED <<lease.holder, past>>
    BY Zenon DEF vars
  <2>0. ApiType /\ LocalType /\ LeaseInv
    BY Zenon DEF IInv, TypeOK, ApiType, LocalType
  <2>1. CASE UNCHANGED <<lease, past>>
    BY Zenon, <2>1
  <2>2. ASSUME NEW w \in Write, Sound(w), Apply(w),
               w \in flight \/ w \in Pending(w.by)
        PROVE  Ownership!Next \/ UNCHANGED <<lease.holder, past>>
    <3>0. /\ w.by \in Handle
          /\ w.op \in {"create", "claim", "renew", "release", "delete"}
          /\ past' = past \cup ({lease.holder} \ {NoHolder, lease'.holder})
      BY Zenon, <2>2 DEF Write, Apply
    <3>1. CASE Acquiring(w)
      <4>1. w.by \notin past \cup {lease.holder}
        BY <2>0, <2>2, <3>0, <3>1, PendingType DEF IInv, IntervalInv, Before, Acquiring
      <4>2. lease'.holder = w.by
        BY Zenon, <2>0, <2>2, <3>1, ApplyEffect
      <4>3. Ownership!Take(w.by)
        BY Zenon, <3>0, <4>1, <4>2 DEF Ownership!Take, Ownership!Ended
      <4> QED BY Zenon, <3>0, <4>3 DEF Ownership!Next
    <3>2. CASE w.op = "renew"
      <4>1. lease'.holder = lease.holder
        BY Zenon, <2>0, <2>2, <3>2, ApplyEffect
      <4> QED BY Zenon, <3>0, <4>1
    <3>3. CASE w.op \in {"release", "delete"}
      <4>1. lease.holder = w.by /\ lease'.holder = NoHolder
        BY Zenon, <2>0, <2>2, <3>3, ApplyEffect
      <4>2. Ownership!Drop
        BY Zenon, <3>0, <4>1, HandleAssumption DEF Ownership!Drop, Ownership!Ended
      <4> QED BY Zenon, <4>2 DEF Ownership!Next
    <3> QED BY Zenon, <3>0, <3>1, <3>2, <3>3 DEF Acquiring
  <2> QED BY <2>1, <2>2, LeaseStep
<1> QED BY <1>1, <1>2, Invariance, PTL DEF Spec, OwnershipSpec, Ownership!Spec

=============================================================================
