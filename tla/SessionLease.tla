---------------------------- MODULE SessionLease ----------------------------
(***************************************************************************)
(* The workflow Lease of internal/kube/session_lease.go.                   *)
(*                                                                         *)
(* A handle is one acquisition: acquireWorkflowLease draws a fresh uuid    *)
(* for every attempt, so an identity is used once and a process that       *)
(* retries or restarts is a further handle.  A handle has two threads: the *)
(* worker that acquires, works, deletes and releases (main) and the        *)
(* renewal goroutine (loop).  Every Kubernetes call is a step of its own.  *)
(* A write whose reply is lost (a timeout, a cancelled context, a crash)   *)
(* stays in flight: it may reach the API server later, or never.           *)
(***************************************************************************)
EXTENDS Integers

CONSTANTS
    Handle,               \* acquisition attempts, one uuid each
    NoHolder,             \* spec.holderIdentity is nil
    Second,               \* time.Second, in units of the clock
    RequestedDuration,    \* the arguments of acquireWorkflowLease
    RequestedRenewEvery,
    MaxClock,             \* bound: the clock stops here
    MaxFaults             \* bound: calls that fail or whose reply is lost

ASSUME HandleAssumption == NoHolder \notin Handle
ASSUME TimingAssumption ==
    /\ Second \in Nat \ {0}
    /\ RequestedDuration \in Int
    /\ RequestedRenewEvery \in Int
    /\ MaxClock \in Nat
    /\ MaxFaults \in Nat

\* normalizeLeaseTiming: defaults, then renewal no later than a third of the
\* duration (and never a zero interval).
Duration ==
    IF RequestedDuration <= 0 THEN 30 * Second ELSE RequestedDuration

MaxRenewEvery == IF Duration \div 3 <= 0 THEN 1 ELSE Duration \div 3

RenewEvery ==
    LET wanted == IF RequestedRenewEvery <= 0 THEN 10 * Second
                                              ELSE RequestedRenewEvery
    IN  IF wanted > MaxRenewEvery THEN MaxRenewEvery ELSE wanted

\* leaseDurationSeconds: whole seconds, rounded up; what every other process
\* reads from the Lease when it judges expiry.
LeaseDuration ==
    Second * (Duration \div Second + IF Duration % Second # 0 THEN 1 ELSE 0)

VARIABLES
    clock,
    rev,       \* the API server's revision counter: uid and resourceVersion
    lease,     \* the Lease object; NoLease when it does not exist
    flight,    \* writes whose sender no longer waits for the reply
    faults,    \* failed calls so far
    main,      \* per handle: where the worker is
    loop,      \* per handle: where the renewal goroutine is
    now,       \* per handle: the time stamp of its pending write
    seen,      \* per handle: the resourceVersion of its last read
    uid,       \* per handle: sessionLease.uid
    tries,     \* per handle: rounds of the acquisition loop used
    due,       \* per handle: next tick of the renewal ticker
    wake,      \* per handle: end of the pause between two renewal attempts
    deadline,  \* per handle: when renewal gives up on transient errors
    deleted,   \* per handle: sessionLease.deleted
    acked,     \* history: renewTime of the handle's last acknowledged write
    past       \* history: handles the Lease named and names no more

api == <<clock, rev, lease, flight, faults, past>>
vars == <<clock, rev, lease, flight, faults, past, main, loop, now, seen, uid,
          tries, due, wake, deadline, deleted, acked>>

NoLease == [uid |-> 0, rv |-> 0, holder |-> NoHolder, renew |-> 0,
            managed |-> FALSE]

Lease == [uid : Nat, rv : Nat, holder : Handle \cup {NoHolder}, renew : Nat,
          managed : BOOLEAN]

Write == [op : {"create", "claim", "renew", "release", "delete"},
          by : Handle, rv : Nat, at : Nat]

\* A Lease of the same name that carries other labels.
ForeignLease == [uid |-> 1, rv |-> 1, holder |-> NoHolder, renew |-> 0,
                 managed |-> FALSE]

-----------------------------------------------------------------------------
(* The API server, as the code relies on it: a create needs an absent       *)
(* object, every other write the resourceVersion it was computed from.      *)

Exists == lease.uid # 0

Admits(w) ==
    IF w.op = "create" THEN ~Exists ELSE Exists /\ lease.rv = w.rv

Stored(w) ==
    CASE w.op = "create" ->
            [uid |-> rev + 1, rv |-> rev + 1, holder |-> w.by,
             renew |-> w.at, managed |-> TRUE]
      [] w.op = "claim" ->
            [lease EXCEPT !.rv = rev + 1, !.holder = w.by, !.renew = w.at]
      [] w.op = "renew" ->
            [lease EXCEPT !.rv = rev + 1, !.renew = w.at]
      [] w.op = "release" ->
            [lease EXCEPT !.rv = rev + 1, !.holder = NoHolder, !.renew = 0]
      [] OTHER -> NoLease

Commit(w) ==
    /\ Admits(w)
    /\ lease' = Stored(w)
    /\ rev' = rev + 1
    /\ past' = past \cup ({lease.holder} \ {NoHolder, lease'.holder})
    /\ UNCHANGED <<clock, flight, faults>>

\* The call fails at the sender; the write may still arrive.
Lose(w) ==
    /\ faults < MaxFaults
    /\ faults' = faults + 1
    /\ flight' = flight \cup {w}
    /\ UNCHANGED <<clock, rev, lease, past>>

ReadFault ==
    /\ faults < MaxFaults
    /\ faults' = faults + 1
    /\ UNCHANGED <<clock, rev, lease, flight, past>>

WriteOf(h, op) == [op |-> op, by |-> h, rv |-> seen[h], at |-> now[h]]

\* Mutant: the duration is not rounded up to whole seconds.
ExpiredUnrounded(l, t) == t - l.renew >= Duration

\* sessionLeaseExpired
Expired(l, t) == t - l.renew >= LeaseDuration

\* sessionLease.owns
Owns(h) ==
    Exists /\ lease.uid = uid[h] /\ lease.managed /\ lease.holder = h

-----------------------------------------------------------------------------
(* acquireWorkflowLease *)

\* The time stamp is taken once, before the loop of two rounds.
StartAcquire(h) ==
    /\ main[h] = "idle"
    /\ main' = [main EXCEPT ![h] = "get"]
    /\ now' = [now EXCEPT ![h] = clock]
    /\ UNCHANGED <<api, loop, seen, uid, tries, due, wake, deadline, deleted, acked>>

\* Mutant: a live holder is not respected.
AfterAcquireGetStealing ==
    IF ~Exists THEN "create" ELSE IF lease.managed THEN "claim" ELSE "refused"

\* Where the worker goes after reading the Lease: create an absent one, refuse
\* a foreign or a live one, claim a free or an expired one.
AfterAcquireGet ==
    IF ~Exists THEN "create"
    ELSE IF lease.managed
            /\ (lease.holder = NoHolder \/ Expired(lease, clock))
         THEN "claim" ELSE "refused"

AcquireGet(h) ==
    /\ main[h] = "get"
    /\ \/ /\ main' = [main EXCEPT ![h] = AfterAcquireGet]
          /\ seen' = [seen EXCEPT ![h] = lease.rv]
          /\ UNCHANGED api
       \/ /\ ReadFault
          /\ main' = [main EXCEPT ![h] = "refused"]
          /\ UNCHANGED seen
    /\ UNCHANGED <<loop, now, uid, tries, due, wake, deadline, deleted, acked>>

\* newSessionLeaseWithTiming: the worker proceeds, the ticker starts.
Held(h, leaseUid) ==
    /\ main' = [main EXCEPT ![h] = "work"]
    /\ loop' = [loop EXCEPT ![h] = "wait"]
    /\ uid' = [uid EXCEPT ![h] = leaseUid]
    /\ due' = [due EXCEPT ![h] = clock + RenewEvery]
    /\ acked' = [acked EXCEPT ![h] = now[h]]
    /\ UNCHANGED <<now, seen, tries, wake, deadline, deleted>>

Refuse(h) ==
    /\ main' = [main EXCEPT ![h] = "refused"]
    /\ UNCHANGED <<loop, now, seen, uid, tries, due, wake, deadline, deleted, acked>>

\* Mutant: a create that timed out is retried under the same identity.
AcquireCreateRetried(h) ==
    /\ main[h] = "create"
    /\ \/ Commit(WriteOf(h, "create")) /\ Held(h, rev + 1)
       \/ /\ Lose(WriteOf(h, "create"))
          /\ main' = [main EXCEPT ![h] = "get"]
          /\ UNCHANGED <<loop, now, seen, uid, tries, due, wake, deadline, deleted, acked>>
       \/ Exists /\ UNCHANGED api /\ Refuse(h)

AcquireCreate(h) ==
    /\ main[h] = "create"
    /\ \/ Commit(WriteOf(h, "create")) /\ Held(h, rev + 1)
       \/ Lose(WriteOf(h, "create")) /\ Refuse(h)
       \/ /\ Exists                       \* AlreadyExists: next round
          /\ tries' = [tries EXCEPT ![h] = @ + 1]
          /\ main' = [main EXCEPT ![h] = IF tries[h] = 0 THEN "get" ELSE "refused"]
          /\ UNCHANGED <<api, loop, now, seen, uid, due, wake, deadline, deleted, acked>>

AcquireClaim(h) ==
    /\ main[h] = "claim"
    /\ \/ Commit(WriteOf(h, "claim")) /\ Held(h, lease.uid)
       \/ Lose(WriteOf(h, "claim")) /\ Refuse(h)
       \/ ~Admits(WriteOf(h, "claim")) /\ UNCHANGED api /\ Refuse(h)

-----------------------------------------------------------------------------
(* renewLoop and renew *)

\* A Go ticker keeps at most one missed tick: the next one is the first
\* period boundary after this tick is consumed.
RenewTick(h) ==
    /\ loop[h] = "wait"
    /\ clock >= due[h]
    /\ loop' = [loop EXCEPT ![h] = "get"]
    /\ deadline' = [deadline EXCEPT ![h] = clock + Duration]
    /\ wake' = [wake EXCEPT ![h] = clock]
    /\ due' = [due EXCEPT
                 ![h] = @ + RenewEvery * ((clock - @) \div RenewEvery + 1)]
    /\ UNCHANGED <<api, main, now, seen, uid, tries, deleted, acked>>

\* A transient error: sleep a second and retry, unless the deadline passed.
RenewFailed(h) ==
    /\ loop' = [loop EXCEPT ![h] = IF clock > deadline[h] THEN "lost" ELSE "get"]
    /\ wake' = [wake EXCEPT ![h] = clock + Second]
    /\ UNCHANGED <<main, now, seen, uid, tries, due, deadline, deleted, acked>>

\* A definite loss: markLost sets Err and cancels every bound context.
RenewLost(h) ==
    /\ loop' = [loop EXCEPT ![h] = "lost"]
    /\ UNCHANGED <<main, now, seen, uid, tries, due, wake, deadline, deleted, acked>>

RenewGet(h) ==
    /\ loop[h] = "get"
    /\ clock >= wake[h]
    /\ \/ /\ Owns(h)
          /\ loop' = [loop EXCEPT ![h] = "put"]
          /\ seen' = [seen EXCEPT ![h] = lease.rv]
          /\ now' = [now EXCEPT ![h] = clock]
          /\ UNCHANGED <<api, main, uid, tries, due, wake, deadline, deleted, acked>>
       \/ ~Owns(h) /\ UNCHANGED api /\ RenewLost(h)
       \/ ReadFault /\ RenewFailed(h)

RenewPut(h) ==
    /\ loop[h] = "put"
    /\ \/ /\ Commit(WriteOf(h, "renew"))
          /\ loop' = [loop EXCEPT ![h] = "wait"]
          /\ acked' = [acked EXCEPT ![h] = now[h]]
          /\ wake' = [wake EXCEPT ![h] = 0]
          /\ deadline' = [deadline EXCEPT ![h] = 0]
          /\ UNCHANGED <<main, now, seen, uid, tries, due, deleted>>
       \/ Exists /\ ~Admits(WriteOf(h, "renew")) /\ UNCHANGED api /\ RenewLost(h)
       \/ ~Exists /\ UNCHANGED api /\ RenewFailed(h)   \* NotFound is no conflict
       \/ Lose(WriteOf(h, "renew")) /\ RenewFailed(h)

\* The context of the acquisition ends: the goroutine returns with its locals,
\* Err stays nil.
StopLoop(h) ==
    /\ loop' = [loop EXCEPT ![h] = IF @ = "lost" THEN "lost" ELSE "stopped"]
    /\ due' = [due EXCEPT ![h] = 0]
    /\ wake' = [wake EXCEPT ![h] = 0]
    /\ deadline' = [deadline EXCEPT ![h] = 0]
    /\ flight' = IF loop[h] = "put" THEN flight \cup {WriteOf(h, "renew")} ELSE flight
    /\ UNCHANGED <<clock, rev, lease, faults, past>>

CancelParent(h) ==
    /\ loop[h] \in {"wait", "get", "put"}
    /\ StopLoop(h)
    /\ UNCHANGED <<main, now, seen, uid, tries, deleted, acked>>

-----------------------------------------------------------------------------
(* Delete and Release *)

Goto(h, where) ==
    /\ main' = [main EXCEPT ![h] = where]
    /\ UNCHANGED <<loop, now, seen, uid, tries, due, wake, deadline, deleted, acked>>

ReadThenGoto(h, where) ==
    /\ main' = [main EXCEPT ![h] = where]
    /\ seen' = [seen EXCEPT ![h] = lease.rv]
    /\ UNCHANGED <<api, loop, now, uid, tries, due, wake, deadline, deleted, acked>>

\* deleted is set; the worker goes on with the final store operations.
Deleted(h) ==
    /\ main' = [main EXCEPT ![h] = "afterDelete"]
    /\ deleted' = [deleted EXCEPT ![h] = TRUE]
    /\ UNCHANGED <<loop, now, seen, uid, tries, due, wake, deadline, acked>>

StartDelete(h) ==
    /\ main[h] = "work"
    /\ StopLoop(h)
    /\ main' = [main EXCEPT ![h] = "delGet"]
    /\ UNCHANGED <<now, seen, uid, tries, deleted, acked>>

DeleteGet(h) ==
    /\ main[h] = "delGet"
    /\ \/ ~Exists /\ UNCHANGED api /\ Deleted(h)
       \/ Exists /\ ~Owns(h) /\ UNCHANGED api /\ Goto(h, "afterDelete")
       \/ Owns(h) /\ ReadThenGoto(h, "delPut")
       \/ ReadFault /\ Goto(h, "afterDelete")

DeletePut(h) ==
    /\ main[h] = "delPut"
    /\ \/ Commit(WriteOf(h, "delete")) /\ Deleted(h)
       \/ ~Exists /\ UNCHANGED api /\ Deleted(h)
       \/ /\ Exists /\ ~Admits(WriteOf(h, "delete"))
          /\ UNCHANGED api /\ Goto(h, "afterDelete")
       \/ Lose(WriteOf(h, "delete")) /\ Goto(h, "afterDelete")

\* Release runs once, also after Delete; a deleted or a lost lock is left alone.
StartRelease(h) ==
    /\ main[h] \in {"work", "afterDelete"}
    /\ StopLoop(h)
    /\ main' = [main EXCEPT ![h] =
                  IF deleted[h] \/ loop[h] = "lost" THEN "end" ELSE "relGet"]
    /\ UNCHANGED <<now, seen, uid, tries, deleted, acked>>

ReleaseGet(h) ==
    /\ main[h] = "relGet"
    /\ \/ ~Owns(h) /\ UNCHANGED api /\ Goto(h, "end")
       \/ Owns(h) /\ ReadThenGoto(h, "relPut")
       \/ ReadFault /\ Goto(h, "end")

ReleasePut(h) ==
    /\ main[h] = "relPut"
    /\ \/ Commit(WriteOf(h, "release")) /\ Goto(h, "end")
       \/ ~Admits(WriteOf(h, "release")) /\ UNCHANGED api /\ Goto(h, "end")
       \/ Lose(WriteOf(h, "release")) /\ Goto(h, "end")

-----------------------------------------------------------------------------
(* The process dies, the network delivers late, time passes. *)

\* The write a handle is about to send, or has sent and waits for.
Pending(h) ==
    {WriteOf(h, op) : op \in
        (IF main[h] \in {"create", "claim"} THEN {main[h]} ELSE {}) \cup
        (IF main[h] = "relPut" THEN {"release"} ELSE {}) \cup
        (IF main[h] = "delPut" THEN {"delete"} ELSE {}) \cup
        (IF loop[h] = "put" THEN {"renew"} ELSE {})}

Active == {"get", "create", "claim", "work", "delGet", "delPut", "afterDelete",
           "relGet", "relPut"}

\* The process dies with everything it remembers.
Crash(h) ==
    /\ main[h] \in Active
    /\ main' = [main EXCEPT ![h] = "crashed"]
    /\ loop' = [loop EXCEPT ![h] = "stopped"]
    /\ flight' = flight \cup Pending(h)
    /\ now' = [now EXCEPT ![h] = 0]
    /\ seen' = [seen EXCEPT ![h] = 0]
    /\ uid' = [uid EXCEPT ![h] = 0]
    /\ tries' = [tries EXCEPT ![h] = 0]
    /\ due' = [due EXCEPT ![h] = 0]
    /\ wake' = [wake EXCEPT ![h] = 0]
    /\ deadline' = [deadline EXCEPT ![h] = 0]
    /\ deleted' = [deleted EXCEPT ![h] = FALSE]
    /\ acked' = [acked EXCEPT ![h] = 0]
    /\ UNCHANGED <<clock, rev, lease, faults, past>>

local == <<main, loop, now, seen, uid, tries, due, wake, deadline, deleted, acked>>

\* A write in flight reaches the API server: stored, or rejected as stale.
Deliver(w) ==
    /\ flight' = flight \ {w}
    /\ IF Admits(w)
       THEN /\ lease' = Stored(w)
            /\ rev' = rev + 1
            /\ past' = past \cup ({lease.holder} \ {NoHolder, lease'.holder})
       ELSE UNCHANGED <<lease, rev, past>>
    /\ UNCHANGED <<clock, faults, local>>

Tick ==
    /\ clock < MaxClock
    /\ clock' = clock + 1
    /\ UNCHANGED <<rev, lease, flight, faults, past, local>>

Init ==
    /\ clock = 0
    /\ rev = 1
    /\ lease \in {NoLease, ForeignLease}
    /\ flight = {}
    /\ faults = 0
    /\ past = {}
    /\ main = [h \in Handle |-> "idle"]
    /\ loop = [h \in Handle |-> "stopped"]
    /\ now = [h \in Handle |-> 0]
    /\ seen = [h \in Handle |-> 0]
    /\ uid = [h \in Handle |-> 0]
    /\ tries = [h \in Handle |-> 0]
    /\ due = [h \in Handle |-> 0]
    /\ wake = [h \in Handle |-> 0]
    /\ deadline = [h \in Handle |-> 0]
    /\ deleted = [h \in Handle |-> FALSE]
    /\ acked = [h \in Handle |-> 0]

Step(h) ==
    \/ StartAcquire(h) \/ AcquireGet(h) \/ AcquireCreate(h) \/ AcquireClaim(h)
    \/ RenewTick(h) \/ RenewGet(h) \/ RenewPut(h) \/ CancelParent(h)
    \/ StartDelete(h) \/ DeleteGet(h) \/ DeletePut(h)
    \/ StartRelease(h) \/ ReleaseGet(h) \/ ReleasePut(h)
    \/ Crash(h)

Next ==
    \/ \E h \in Handle : Step(h)
    \/ \E w \in flight : Deliver(w)
    \/ Tick

Spec == Init /\ [][Next]_vars

-----------------------------------------------------------------------------
(* Properties *)

\* Every variable has its type; an acquisition makes at most two rounds.
TypeOK ==
    /\ clock \in Nat
    /\ rev \in Nat \ {0}
    /\ lease \in Lease
    /\ flight \in SUBSET Write
    /\ faults \in Nat
    /\ past \in SUBSET Handle
    /\ main \in [Handle -> Active \cup {"idle", "refused", "end", "crashed"}]
    /\ loop \in [Handle -> {"wait", "get", "put", "lost", "stopped"}]
    /\ now \in [Handle -> Nat]
    /\ seen \in [Handle -> Nat]
    /\ uid \in [Handle -> Nat]
    /\ tries \in [Handle -> 0..2]
    /\ due \in [Handle -> Nat]
    /\ wake \in [Handle -> Nat]
    /\ deadline \in [Handle -> Nat]
    /\ deleted \in [Handle -> BOOLEAN]
    /\ acked \in [Handle -> Nat]

Working(h) == main[h] \in {"work", "delGet", "delPut"}

\* Until a full lease duration has passed since the renewal it last got an
\* answer to, a session that is working is the one the Lease names: no other
\* acquisition, late write or stale release can have taken it away.  Two
\* sessions can therefore never both be inside that window.
ValidHolderOwns ==
    \A h \in Handle :
        Working(h) /\ clock < acked[h] + LeaseDuration => lease.holder = h

\* A Lease that names a holder is taken over only once it is expired (line
\* 216), even when the claim is delayed between reading and writing: every
\* renewal in between makes the claim fail on its resourceVersion.
NoTakeoverBeforeExpiry ==
    [][\A g, h \in Handle :
          g # h /\ lease.holder = g /\ lease'.holder = h
              => Expired(lease, clock)]_vars

\* A holder disappears from the Lease without a successor only by its own
\* Release or Delete: no session clears or deletes another session's Lease.
OnlyOwnerGivesUp ==
    [][\A g \in Handle :
          lease.holder = g /\ lease'.holder = NoHolder
              => main[g] \in {"relPut", "delPut", "afterDelete", "relGet",
                              "end", "crashed"}]_vars

\* A Lease with other labels (a foreign object of the same name) is never
\* written, taken over or deleted.
ForeignUntouched == [][Exists /\ ~lease.managed => lease' = lease]_vars

\* The Lease protocol keeps what LeaseOwnership promises.
Ownership == INSTANCE LeaseOwnership WITH owner <- lease.holder
OwnershipSpec == Ownership!Spec

\* session_lease.go:366 "retry until the lease itself would expire": renewal
\* is retried after an error no later than one duration after the last
\* renewal that succeeded.
RetryUntilExpiryOnly ==
    [][\A h \in Handle :
          loop[h] \in {"get", "put"} /\ loop'[h] = "get" /\ wake'[h] # wake[h]
              => clock <= acked[h] + Duration]_vars

\* session_lease.go:368 "only a definite loss - the lock disappeared or was
\* fenced - gives up immediately": before the deadline renewal is given up
\* only when the Lease is gone or names somebody else.
GiveUpOnlyOnLoss ==
    [][\A h \in Handle :
          loop[h] # "lost" /\ loop'[h] = "lost" /\ clock <= deadline[h]
              => ~Owns(h)]_vars

=============================================================================
