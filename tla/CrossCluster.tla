---------------------------- MODULE CrossCluster ----------------------------
(***************************************************************************)
(* Cross-cluster reservation and copy: the commands of the CLI over one    *)
(* session.  A command loads the session, takes its Lease and works on the *)
(* copy it loaded; every save compares the resourceVersion.  Processes run *)
(* side by side, may die at every step and may be started again.           *)
(*                                                                         *)
(* Steps between two API writes are one action.  The Lease is a mutex that *)
(* a dead process gives back (SessionLease shows what that rests on).      *)
(***************************************************************************)
EXTENDS CrossClusterSession

CONSTANTS Procs

VARIABLES lease,    \* None or the process that holds the session's Lease
          job,      \* per process: the session it loaded and what its steps hand on
          pc, at,   \* per process: the next step and the volume it is at
          created,  \* a session was created under this ID
          delivered, \* the claims of copies recorded as completed
          unrecorded, \* objects a pass created and could not record
          raced,    \* volumes whose claims somebody changed after the pass that copies them
                    \* had checked them
          faults

procVars == <<lease, job, pc, at>>
vars == <<destVars, rec, fresh, procVars, created, delivered, unrecorded, raced, faults>>

Idle == [s |-> None, drop |-> FALSE, seen |-> None, volume |-> "none", gone |-> 0]

Init ==
    /\ DestInit
    /\ rec = None /\ fresh = {}
    /\ lease = None
    /\ job = [p \in Procs |-> Idle]
    /\ pc = [p \in Procs |-> "idle"]
    /\ at = [p \in Procs |-> 1]
    /\ created = FALSE /\ delivered = {} /\ unrecorded = {} /\ raced = {} /\ faults = 0

-----------------------------------------------------------------------------
(* Control of a process.                                                   *)

Mem(p) == job[p].s
Vol(p) == Mem(p).vol[at[p]]

Goto(p, s, step, v) ==
    /\ job' = [job EXCEPT ![p].s = s]
    /\ pc' = [pc EXCEPT ![p] = step]
    /\ at' = [at EXCEPT ![p] = v]

(* withLock gives the Lease back whatever the operation returned.          *)
End(p) ==
    /\ job' = [job EXCEPT ![p] = Idle]
    /\ pc' = [pc EXCEPT ![p] = "idle"]
    /\ at' = [at EXCEPT ![p] = 1]
    /\ lease' = IF lease = p THEN None ELSE lease

(* The operation returns without another write.                            *)
Quit(p) == End(p) /\ fresh' = fresh \ {p} /\ UNCHANGED rec

(* save and saveReservation refuse what Validate refuses and a record that *)
(* changed since it was read.                                              *)
saveReservation(p, s) == rec # None /\ p \in fresh /\ ValidateReservation(s)

save(p, s) == IF s.kind = "Reservation" THEN saveReservation(p, s)
              ELSE rec # None /\ p \in fresh /\ ValidateCopy(s)

Store(s, p) == rec' = s /\ fresh' = {p}

SaveThen(p, s, step, v) ==
    IF save(p, s) THEN Store(s, p) /\ Goto(p, s, step, v) /\ UNCHANGED lease
                  ELSE Quit(p)

SaveAndEnd(p, s) ==
    IF save(p, s) THEN rec' = s /\ fresh' = {} /\ End(p) ELSE Quit(p)

(* fail and failReservation record the failure and return it.              *)
fail(p) == SaveAndEnd(p, [Mem(p) EXCEPT !.phase = "Failed"])

(* The next volume that has no completed reservation.                      *)
NextReservation(s, from) ==
    LET open == {v \in Volumes : v >= from /\ ~s.vol[v].ready}
    IN  IF open = {} THEN N + 1 ELSE CHOOSE v \in open : \A w \in open : v <= w

ReserveFrom(s, from) == IF NextReservation(s, from) > N THEN "reserved" ELSE "claim"

-----------------------------------------------------------------------------
(* The commands.  Which command a process runs and with which flags is     *)
(* settled at the step that first depends on it.                           *)

Take(p, s) ==
    /\ job' = [job EXCEPT ![p] = [Idle EXCEPT !.s = s]]
    /\ pc' = [pc EXCEPT ![p] = "lock"]
    /\ UNCHANGED <<at, lease>>

(* run without --session: a plan that passed every check is shown; nothing *)
(* is written yet.  The sources a session records are the planned ones.    *)
Unplanned(p) == pc[p] = "idle" /\ ~created /\ \A q \in Procs : pc[q] # "planned"

Plan(p, kind, online, r) ==
    /\ planCrossCluster(kind, online, r)
    /\ moved' = {}
    /\ Goto(p, NewSession(kind, online), "planned", 1)
    /\ UNCHANGED <<claim, pod, pv, retain, user, busy, filled, nclaims, npods, site,
                   rec, fresh, lease, created, delivered, unrecorded, raced, faults>>

newCrossClusterCopyRunCommand(p) ==
    Unplanned(p) /\ \E online \in site.online, r \in Requests : Plan(p, "Copy", online, r)

newCrossClusterReserveRunCommand(p) ==
    Unplanned(p) /\ \E r \in Requests : Plan(p, "Reservation", FALSE, r)

(* Then the record is created and the command goes on with it.             *)
CreateSession(p) ==
    /\ IF \A v \in Volumes : buildSessionVolume(v)
       THEN /\ created' = TRUE
            /\ Store(Mem(p), p)
            /\ Goto(p, Mem(p), "new", 1) /\ UNCHANGED lease
       ELSE Quit(p) /\ UNCHANGED created
    /\ UNCHANGED <<destVars, delivered, unrecorded, raced, faults>>

createCopySession(p) == pc[p] = "planned" /\ Mem(p).kind = "Copy" /\ CreateSession(p)

CreateReservationSession(p) ==
    pc[p] = "planned" /\ Mem(p).kind = "Reservation" /\ CreateSession(p)

(* resume, cleanup and the copy of a reservation: the session is loaded    *)
(* before the Lease is taken.                                              *)
Load(p) ==
    /\ pc[p] = "idle" /\ rec # None
    /\ fresh' = fresh \union {p}
    /\ Take(p, rec)
    /\ UNCHANGED <<destVars, rec, created, delivered, unrecorded, raced, faults>>

Command(p) ==
    \/ Load(p)
    \/ newCrossClusterCopyRunCommand(p) \/ createCopySession(p)
    \/ newCrossClusterReserveRunCommand(p) \/ CreateReservationSession(p)

(* A copy command that finds a reservation promotes it first.              *)
loadCrossClusterCopy(p) ==
    IF Mem(p).kind = "Copy" THEN {"copy"}
    ELSE IF Mem(p).phase = "Reserved" THEN {"promote"} ELSE {}

newCrossClusterCopyCleanupCommand(p) == IF Mem(p).kind = "Copy" THEN {"cleanup"} ELSE {}

newCrossClusterReserveResumeCommand(p) == IF Mem(p).kind = "Reservation" THEN {"reserve"} ELSE {}

newCrossClusterReserveCleanupCommand(p) == IF Mem(p).kind = "Reservation" THEN {"cleanup"} ELSE {}

(* A command that created its session, or promoted it, goes on with it.    *)
Operations(p) ==
    IF pc[p] = "lock"
    THEN loadCrossClusterCopy(p) \union newCrossClusterCopyCleanupCommand(p)
         \union newCrossClusterReserveResumeCommand(p)
         \union newCrossClusterReserveCleanupCommand(p)
    ELSE {IF Mem(p).kind = "Copy" THEN "copy" ELSE "reserve"}

(* A copy of a session that was there before may come with other settings. *)
Settings(p, op) ==
    IF op = "copy" /\ pc[p] # "new" THEN configureExistingCrossClusterCopy(Mem(p)) ELSE {Mem(p)}

Waiting == {"lock", "new", "promoted"}

withLock(p, op) ==
    /\ pc[p] \in Waiting /\ lease = None
    /\ op \in Operations(p)
    /\ lease' = p
    /\ \E s \in Settings(p, op) : Goto(p, s, op, 1)
    /\ UNCHANGED <<destVars, rec, fresh, created, delivered, unrecorded, raced, faults>>

(* A process that waits for the Lease gives up.                            *)
GiveUpLock(p) ==
    /\ pc[p] \in Waiting /\ lease # None
    /\ Quit(p)
    /\ UNCHANGED <<destVars, created, delivered, unrecorded, raced, faults>>

PromoteReservation(p) ==
    /\ pc[p] = "promote"
    /\ IF save(p, Promoted(Mem(p)))
       THEN /\ Store(Promoted(Mem(p)), p)
            /\ Goto(p, Promoted(Mem(p)), "promoted", 1)
            /\ lease' = None
       ELSE Quit(p)
    /\ UNCHANGED <<destVars, created, delivered, unrecorded, raced, faults>>

-----------------------------------------------------------------------------
(* Reservation.  A reservation enters its volumes with the phase changed   *)
(* in memory only; a copy saves it first.                                  *)

reserve(p) ==
    LET s == [Mem(p) EXCEPT !.phase = "Reserving"]
    IN  /\ pc[p] = "reserve"
        /\ IF Mem(p).phase \in Ended \union Provided THEN Quit(p)
           ELSE /\ Goto(p, s, ReserveFrom(s, 1), NextReservation(s, 1))
                /\ UNCHANGED <<rec, fresh, lease>>
        /\ UNCHANGED <<destVars, created, delivered, unrecorded, raced, faults>>

reserveCopy(p) ==
    LET s == [Mem(p) EXCEPT !.phase = "Reserving"]
    IN  /\ pc[p] = "copy"
        /\ \/ /\ Mem(p).phase \in Ended
              /\ Quit(p)
           \/ /\ Mem(p).phase \in Provided
              /\ Goto(p, Mem(p), "transfer", 1) /\ UNCHANGED <<rec, fresh, lease>>
           \/ /\ Mem(p).phase \notin Ended \union Provided
              /\ SaveThen(p, s, ReserveFrom(s, 1), NextReservation(s, 1))
        /\ UNCHANGED <<destVars, created, delivered, unrecorded, raced, faults>>

(* reserveVolume, first part: the claim is created, or found with the      *)
(* session's labels; its UID must be the recorded one if there is one.     *)
(* Then its StorageClass may turn out to be gone or another one.           *)
reserveClaim(p) ==
    LET v == at[p] IN
    /\ pc[p] = "claim"
    /\ \/ /\ ~Live(v) /\ nclaims < MaxClaims
          /\ nclaims' = nclaims + 1
          /\ claim' = [claim EXCEPT ![v] =
                         [uid |-> nclaims', owner |-> "us", bound |-> FALSE, term |-> FALSE]]
          /\ unrecorded' = IF p \in fresh THEN unrecorded
                           ELSE unrecorded \union {<<"claim", nclaims'>>}
       \/ Live(v) /\ UNCHANGED <<nclaims, claim, unrecorded>>
    /\ IF claim'[v].owner = "us" /\ Vol(p).pvc \in {0, claim'[v].uid}
       THEN LET s == [Mem(p) EXCEPT !.vol[v].pvc = claim'[v].uid] IN
            \/ /\ Goto(p, s, IF site.waits /\ ~Vol(p).known THEN "pod" ELSE "bind", v)
               /\ UNCHANGED <<rec, fresh, lease>>
            \/ SaveAndEnd(p, [s EXCEPT !.phase = "Failed"])
       ELSE fail(p)
    /\ UNCHANGED <<pod, pv, retain, user, moved, busy, filled, npods, site, created, delivered, raced, faults>>

(* createReservationConsumer: the Pod is created or taken over, recorded   *)
(* in memory, and awaited; then its ownership is saved.                    *)
createReservationConsumer(p) ==
    LET v == at[p] IN
    /\ pc[p] = "pod"
    /\ \/ /\ pod[v] = None /\ npods < MaxPods
          /\ npods' = npods + 1
          /\ pod' = [pod EXCEPT ![v] = [uid |-> npods', st |-> "pending"]]
          /\ unrecorded' = IF p \in fresh THEN unrecorded
                           ELSE unrecorded \union {<<"pod", npods'>>}
       \/ pod[v] # None /\ UNCHANGED <<npods, pod, unrecorded>>
    /\ Goto(p, [Mem(p) EXCEPT !.vol[v].pod = pod'[v].uid], "scheduled", v)
    /\ UNCHANGED <<claim, pv, retain, user, moved, busy, filled, nclaims, site,
                   rec, fresh, lease, created, delivered, raced, faults>>

awaitConsumer(p) ==
    LET v == at[p] IN
    /\ pc[p] = "scheduled"
    /\ IF pod[v] = None \/ pod[v].uid # Vol(p).pod \/ pod[v].st = "failed" THEN fail(p)
       ELSE pod[v].st # "pending" /\ SaveThen(p, Mem(p), "bind", v)
    /\ UNCHANGED <<destVars, created, delivered, unrecorded, raced, faults>>

(* reserveVolume, last part: the claim is bound, its volume is recorded    *)
(* and the recorded Pod deleted.                                           *)
awaitBinding(p) ==
    LET v == at[p]
        s == [Mem(p) EXCEPT !.vol[v].pv = claim[v].uid, !.vol[v].known = TRUE]
    IN
    /\ pc[p] = "bind"
    /\ IF ~Live(v) \/ (Live(v) /\ claim[v].uid # Vol(p).pvc) THEN fail(p)
       ELSE /\ claim[v].bound /\ pv[claim[v].uid] # "none"
            /\ Goto(p, s, "release", v) /\ UNCHANGED <<rec, fresh, lease>>
    /\ UNCHANGED <<destVars, created, delivered, unrecorded, raced, faults>>

(* deleteReservationConsumer deletes only the Pod with the recorded UID.   *)
PodGone(v) == pod' = [pod EXCEPT ![v] = None]
ConsumerAlien(p, v) == Vol(p).pod # 0 /\ pod[v] # None /\ pod[v].uid # Vol(p).pod

ConsumerLeft(p, v) == Vol(p).pod # 0 /\ pod[v] # None /\ pod[v].uid = Vol(p).pod

releaseConsumer(p) ==
    LET v == at[p] IN
    /\ pc[p] = "release"
    /\ IF ConsumerAlien(p, v) THEN fail(p) /\ UNCHANGED pod
       ELSE /\ IF ConsumerLeft(p, v) THEN PodGone(v) ELSE UNCHANGED pod
            /\ Goto(p, [Mem(p) EXCEPT !.vol[v].ready = TRUE], "checkpoint", v)
            /\ UNCHANGED <<rec, fresh, lease>>
    /\ UNCHANGED <<claim, pv, retain, user, moved, busy, filled, nclaims, npods, site,
                   created, delivered, unrecorded, raced, faults>>

checkpointReservation(p) ==
    /\ pc[p] = "checkpoint"
    /\ SaveThen(p, Mem(p), ReserveFrom(Mem(p), at[p]), NextReservation(Mem(p), at[p]))
    /\ UNCHANGED <<destVars, created, delivered, unrecorded, raced, faults>>

reserved(p) ==
    LET s == [Mem(p) EXCEPT !.phase = "Reserved"] IN
    /\ pc[p] = "reserved"
    /\ IF s.kind = "Copy" THEN SaveThen(p, s, "transfer", 1) ELSE SaveAndEnd(p, s)
    /\ UNCHANGED <<destVars, created, delivered, unrecorded, raced, faults>>

(* A wait runs into its timeout, or the cluster refuses the claim or Pod.  *)
reservationFails(p) ==
    /\ \/ pc[p] \in {"scheduled", "bind"}
       \/ pc[p] = "claim" /\ ~Live(at[p])
       \/ pc[p] = "pod" /\ pod[at[p]] = None
    /\ fail(p)
    /\ UNCHANGED <<destVars, created, delivered, unrecorded, raced, faults>>

-----------------------------------------------------------------------------
(* Transfer.                                                               *)

(* Tool scheduling and service accounts may fail; then Transferring is     *)
(* saved and the volumes are taken in order.                               *)
toolSchedulingValues(p) ==
    /\ pc[p] = "transfer"
    /\ fail(p)
    /\ UNCHANGED <<destVars, created, delivered, unrecorded, raced, faults>>

beginTransfer(p) ==
    /\ pc[p] = "transfer"
    /\ SaveThen(p, [Mem(p) EXCEPT !.phase = "Transferring"], "volume", 1)
    /\ UNCHANGED <<destVars, created, delivered, unrecorded, raced, faults>>

(* A transferred volume must still have its destination; any other one is  *)
(* validated as a whole before its first attempt.                          *)
validateVolume(p) ==
    LET v == at[p] IN
    /\ pc[p] = "volume"
    /\ \/ /\ v > N
          /\ SaveAndEnd(p, [Mem(p) EXCEPT !.phase = "Completed", !.completed = TRUE])
          /\ delivered' = IF save(p, Mem(p))
                          THEN delivered \union {Mem(p).vol[w].pvc : w \in Volumes} ELSE delivered
       \/ /\ v <= N /\ Vol(p).done
          /\ IF validateDestinationVolume(Mem(p), v)
             THEN Goto(p, Mem(p), "volume", v + 1) /\ UNCHANGED <<rec, fresh, lease>>
             ELSE fail(p)
          /\ UNCHANGED delivered
       \/ /\ v <= N /\ ~Vol(p).done
          /\ IF validateTransferVolume(Mem(p), v)
             THEN Goto(p, Mem(p), "copying", v) /\ UNCHANGED <<rec, fresh, lease>>
             ELSE fail(p)
          /\ UNCHANGED delivered
    /\ raced' = IF pc'[p] = "copying" THEN raced \ {v} ELSE raced
    /\ UNCHANGED <<destVars, created, unrecorded, faults>>

(* The copier addresses both claims by name.  A failed attempt is repeated *)
(* as often as the command allows, then the failure is recorded.  Nothing  *)
(* holds the claims and nothing looks at them again until it ends.         *)
copyVolume(p) ==
    LET v == at[p] IN
    /\ pc[p] = "copying"
    /\ \/ /\ Live(v) /\ claim[v].bound
          /\ filled' = IF v \in moved THEN filled
                       ELSE filled \union {<<claim[v].uid, v \in busy>>}
          /\ Goto(p, [Mem(p) EXCEPT !.vol[v].tried = TRUE, !.vol[v].done = TRUE], "copied", v)
          /\ UNCHANGED <<rec, fresh, lease, raced>>
       \/ /\ SaveAndEnd(p, [Mem(p) EXCEPT !.phase = "Failed", !.vol[v].tried = TRUE])
          /\ raced' = raced \ {v} /\ UNCHANGED filled
    /\ UNCHANGED <<claim, pod, pv, retain, user, moved, busy, nclaims, npods, site,
                   created, delivered, unrecorded, faults>>

checkpointTransfer(p) ==
    /\ pc[p] = "copied"
    /\ SaveThen(p, Mem(p), "volume", at[p] + 1)
    /\ UNCHANGED <<destVars, created, delivered, unrecorded, raced, faults>>

-----------------------------------------------------------------------------
(* Cleanup.                                                                *)

(* Nothing is written unless every volume passes the inspection; Cleaning  *)
(* is saved before the first object is touched.                            *)
cleanup(p, policy) ==
    LET s == [Inspected(Mem(p)) EXCEPT !.phase = "Cleaning"]
        drop == cleanupDeletesDestination(Mem(p), policy)
    IN
    /\ pc[p] = "cleanup"
    /\ IF ValidateCleanup(Mem(p), policy) /\ save(p, s)
       THEN /\ Store(s, p)
            /\ job' = [job EXCEPT ![p].s = s, ![p].drop = drop]
            /\ pc' = [pc EXCEPT ![p] = "consumer"]
            /\ UNCHANGED <<at, lease>>
       ELSE Quit(p)
    /\ UNCHANGED <<destVars, created, delivered, unrecorded, raced, faults>>

cleanupConsumer(p) ==
    LET v == at[p] IN
    /\ pc[p] = "consumer"
    /\ IF ConsumerAlien(p, v) THEN Quit(p) /\ UNCHANGED pod
       ELSE /\ IF ConsumerLeft(p, v) THEN PodGone(v) ELSE UNCHANGED pod
            /\ Goto(p, Mem(p), IF job[p].drop THEN "delete" ELSE "retain", v)
            /\ UNCHANGED <<rec, fresh, lease>>
    /\ UNCHANGED <<claim, pv, retain, user, moved, busy, filled, nclaims, npods, site,
                   created, delivered, unrecorded, raced, faults>>

(* cleanupDestinationVolume: the recorded claim, still labelled and unused,*)
(* is deleted with its UID as precondition; the volume it was bound to is  *)
(* the one to wait for.                                                    *)
MayDelete(p, v) ==
    /\ Vol(p).pvc \in {0, claim[v].uid}
    /\ claim[v].owner = "us"
    /\ ensureNoActiveConsumers(v)

cleanupDestinationVolume(p) ==
    LET v == at[p]
        s == [Mem(p) EXCEPT !.vol[v].pvc = claim[v].uid]
        released == IF claim[v].bound THEN claim[v].uid ELSE 0
    IN
    /\ pc[p] = "delete"
    /\ \/ /\ ~Live(v)
          /\ Goto(p, Mem(p), "volumegone", v) /\ UNCHANGED <<claim, rec, fresh, lease>>
       \/ /\ Live(v) /\ ~MayDelete(p, v)
          /\ Quit(p) /\ UNCHANGED claim
       \/ /\ Live(v) /\ MayDelete(p, v)
          /\ claim' = [claim EXCEPT ![v].term = TRUE]
          /\ job' = [job EXCEPT ![p].s = s, ![p].gone = released]
          /\ pc' = [pc EXCEPT ![p] = "volumegone"]
          /\ UNCHANGED <<at, rec, fresh, lease>>
    /\ UNCHANGED <<pod, pv, retain, user, moved, busy, filled, nclaims, npods, site,
                   created, delivered, unrecorded, raced, faults>>

(* cleanupDestinationPV waits until the volume is released and deletes it; *)
(* without a recorded claim UID its claimRef cannot be trusted.            *)
ReleasedVolume(p) == IF job[p].gone # 0 THEN job[p].gone ELSE Vol(p).pv

cleanupDestinationPV(p) ==
    LET c == ReleasedVolume(p) IN
    /\ pc[p] = "volumegone"
    /\ \/ /\ c = 0 \/ (c # 0 /\ pv[c] = "none")
          /\ Goto(p, Mem(p), "swept", at[p]) /\ UNCHANGED <<pv, rec, fresh, lease>>
       \/ /\ c # 0 /\ pv[c] # "none" /\ Vol(p).pvc # c
          /\ Quit(p) /\ UNCHANGED pv
       \/ /\ c # 0 /\ pv[c] = "Released" /\ Vol(p).pvc = c
          /\ pv' = [pv EXCEPT ![c] = "none"]
          /\ Goto(p, Mem(p), "swept", at[p]) /\ UNCHANGED <<rec, fresh, lease>>
       \/ /\ c # 0 /\ pv[c] = "Bound"
          /\ Quit(p) /\ UNCHANGED pv   \* the wait runs into its timeout
    /\ UNCHANGED <<claim, pod, retain, user, moved, busy, filled, nclaims, npods, site,
                   created, delivered, unrecorded, raced, faults>>

(* retainDestinationVolume: what the inspection recovered is saved before  *)
(* ownership is released, so that a retry knows the claim it kept.  The    *)
(* reservation's version saves the claim and the volume's name first, then *)
(* reads the volume and saves it too.                                      *)
WithVolume(vol, name) ==
    IF name # 0 /\ pv[name] # "none" THEN [vol EXCEPT !.pv = name, !.known = TRUE] ELSE vol

StateOf(name) == IF name = 0 THEN "none" ELSE pv[name]

(* A volume whose claim is gone or going is to be kept with policy Retain. *)
Unclaimed(seen) == seen = None \/ (seen # None /\ seen.term)

AfterRetained(seen, name) ==
    IF StateOf(name) # "none" /\ Unclaimed(seen) /\ name \notin retain THEN "keep" ELSE "unlabel"

SaveRetained(p, s, step, seen, name) ==
    IF save(p, s)
    THEN /\ Store(s, p)
         /\ job' = [job EXCEPT ![p].s = s, ![p].seen = seen, ![p].volume = StateOf(name)]
         /\ pc' = [pc EXCEPT ![p] = step]
         /\ UNCHANGED <<at, lease>>
    ELSE Quit(p)

retainDestinationVolume(p) ==
    LET v == at[p]
        name == VolumeName(Mem(p), v)
        found == [Mem(p).vol[v] EXCEPT !.pvc = IF Live(v) THEN claim[v].uid ELSE @]
    IN
    /\ pc[p] = "retain" /\ Mem(p).kind = "Copy"
    /\ IF inspectCleanupDestination(Mem(p), v, FALSE)
       THEN SaveRetained(p, [Mem(p) EXCEPT !.vol[v] = WithVolume(found, name)],
                         AfterRetained(claim[v], name), claim[v], name)
       ELSE Quit(p)
    /\ UNCHANGED <<destVars, created, delivered, unrecorded, raced, faults>>

retainReservationDestinationVolume(p) ==
    LET v == at[p] IN
    /\ pc[p] = "retain" /\ Mem(p).kind = "Reservation"
    /\ IF inspectCleanupDestination(Mem(p), v, FALSE)
       THEN SaveRetained(p, [Mem(p) EXCEPT !.vol[v] =
                                inspectReservationCleanupDestination(Mem(p), v)],
                         "retained", claim[v], 0)
       ELSE Quit(p)
    /\ UNCHANGED <<destVars, created, delivered, unrecorded, raced, faults>>

recordRetainedVolume(p) ==
    LET v == at[p] IN
    /\ pc[p] = "retained"
    /\ SaveRetained(p, [Mem(p) EXCEPT !.vol[v] = WithVolume(@, Vol(p).pv)],
                    AfterRetained(job[p].seen, Vol(p).pv), job[p].seen, Vol(p).pv)
    /\ UNCHANGED <<destVars, created, delivered, unrecorded, raced, faults>>

(* The policy is set by an update of the volume as it was read ...         *)
keepVolume(p) ==
    LET c == Vol(p).pv IN
    /\ pc[p] = "keep"
    /\ IF pv[c] = job[p].volume
       THEN /\ retain' = retain \union {c}
            /\ Goto(p, Mem(p), "unlabel", at[p]) /\ UNCHANGED <<rec, fresh, lease>>
       ELSE Quit(p) /\ UNCHANGED retain
    /\ UNCHANGED <<claim, pod, pv, user, moved, busy, filled, nclaims, npods, site,
                   created, delivered, unrecorded, raced, faults>>

(* On to the next volume, or to the end with the phase Cleaned in memory.  *)
NextCleanup(p) ==
    /\ IF at[p] < N
       THEN /\ pc' = [pc EXCEPT ![p] = "consumer"]
            /\ at' = [at EXCEPT ![p] = @ + 1]
            /\ job' = [job EXCEPT ![p].seen = None, ![p].volume = "none", ![p].gone = 0]
       ELSE /\ pc' = [pc EXCEPT ![p] = "finish"]
            /\ job' = [job EXCEPT ![p].seen = None, ![p].volume = "none", ![p].gone = 0,
                                      ![p].s.phase = "Cleaned"]
            /\ UNCHANGED at
    /\ UNCHANGED lease

(* ... then the labels are taken off the claim as it was read.             *)
releaseOwnership(p) ==
    LET v == at[p] IN
    /\ pc[p] = "unlabel"
    /\ IF job[p].seen # None /\ job[p].seen # claim[v] THEN Quit(p) /\ UNCHANGED claim
       ELSE /\ claim' = IF job[p].seen = None THEN claim
                        ELSE [claim EXCEPT ![v].owner = "free"]
            /\ IF Mem(p).kind = "Copy" THEN NextCleanup(p)
               ELSE Goto(p, Mem(p), "swept", v) /\ UNCHANGED lease
            /\ UNCHANGED <<rec, fresh>>
    /\ UNCHANGED <<pod, pv, retain, user, moved, busy, filled, nclaims, npods, site,
                   created, delivered, unrecorded, raced, faults>>

checkpointCleanup(p) ==
    /\ pc[p] = "swept"
    /\ IF save(p, Mem(p)) THEN Store(Mem(p), p) /\ NextCleanup(p) ELSE Quit(p)
    /\ UNCHANGED <<destVars, created, delivered, unrecorded, raced, faults>>

(* Cleaned is saved, or the Lease and then the record are deleted.         *)
finishCleanup(p, forget) ==
    /\ pc[p] = "finish"
    /\ \/ ~forget /\ SaveAndEnd(p, Mem(p))
       \/ /\ forget
          /\ lease' = None
          /\ pc' = [pc EXCEPT ![p] = "forget"]
          /\ UNCHANGED <<job, at, rec, fresh>>
    /\ UNCHANGED <<destVars, created, delivered, unrecorded, raced, faults>>

deleteSession(p) ==
    /\ pc[p] = "forget"
    /\ IF p \in fresh THEN rec' = None /\ fresh' = {} /\ End(p) ELSE Quit(p)
    /\ UNCHANGED <<destVars, created, delivered, unrecorded, raced, faults>>

-----------------------------------------------------------------------------
(* A process dies; its Lease expires and is free again.                    *)
Crash(p) ==
    /\ pc[p] # "idle" /\ faults < site.faults
    /\ faults' = faults + 1
    /\ unrecorded' = IF pc[p] = "scheduled" THEN unrecorded \union {<<"pod", Vol(p).pod>>}
                     ELSE unrecorded
    /\ Quit(p)
    /\ raced' = IF pc[p] = "copying" THEN raced \ {at[p]} ELSE raced
    /\ UNCHANGED <<destVars, created, delivered>>

Reserving(p) ==
    \/ reserve(p) \/ reserveCopy(p) \/ reserveClaim(p) \/ createReservationConsumer(p)
    \/ awaitConsumer(p) \/ awaitBinding(p) \/ releaseConsumer(p)
    \/ checkpointReservation(p) \/ reserved(p) \/ reservationFails(p)

Transferring(p) ==
    \/ toolSchedulingValues(p) \/ beginTransfer(p) \/ validateVolume(p)
    \/ copyVolume(p) \/ checkpointTransfer(p)

Cleaning(p) ==
    \/ \E policy \in {"Keep", "Delete"} : cleanup(p, policy)
    \/ cleanupConsumer(p) \/ cleanupDestinationVolume(p) \/ cleanupDestinationPV(p)
    \/ retainDestinationVolume(p) \/ retainReservationDestinationVolume(p)
    \/ recordRetainedVolume(p) \/ keepVolume(p) \/ releaseOwnership(p) \/ checkpointCleanup(p)
    \/ \E forget \in BOOLEAN : finishCleanup(p, forget)
    \/ deleteSession(p)

Pass(p) ==
    \/ \E op \in {"reserve", "copy", "promote", "cleanup"} : withLock(p, op)
    \/ GiveUpLock(p) \/ PromoteReservation(p)
    \/ Reserving(p) \/ Transferring(p) \/ Cleaning(p)

Cluster ==
    /\ \/ \E v \in Volumes : ScheduleAndBind(v) \/ BindImmediately(v) \/ CollectClaim(v) \/ UserLeaves(v)
       \/ \E c \in Claims : Reclaim(c)
    /\ UNCHANGED <<rec, fresh, procVars, created, delivered, unrecorded, raced, faults>>

Users ==
    /\ faults < site.faults
    /\ faults' = faults + 1
    /\ \E v \in Volumes :
          \/ (EndPod(v) \/ UserOf(v)) /\ UNCHANGED raced
          \/ /\ DeletedByUser(v) \/ ForeignClaim(v) \/ SourceChanges(v)
             /\ raced' = IF \E p \in Procs : pc[p] = "copying" /\ at[p] = v
                         THEN raced \union {v} ELSE raced
    /\ UNCHANGED <<rec, fresh, procVars, created, delivered, unrecorded>>

Next ==
    \/ \E p \in Procs : Command(p) \/ Pass(p) \/ Crash(p)
    \/ Cluster \/ Users

Spec == Init /\ [][Next]_vars

-----------------------------------------------------------------------------
(* Properties.                                                             *)

Settled == /\ \A p \in Procs : pc[p] = "idle"
           /\ created
           /\ rec = None \/ (rec # None /\ rec.phase = "Cleaned")

(* A claim delivered by a completed copy is never deleted by a cleanup,    *)
(* whatever policy it is run with, however often it is resumed and whatever*)
(* session it had loaded; neither is a claim that does not carry the       *)
(* session's labels, and no volume of either is deleted (cleanup.go).      *)
KeptByStep ==
    /\ \A v \in Volumes : (Live(v) /\ claim'[v] # claim[v]) =>
          /\ claim[v].owner = "us" /\ claim'[v] # None
          /\ claim'[v].term # claim[v].term => claim[v].uid \notin delivered
    /\ \A c \in delivered : pv'[c] = pv[c]

DeliveredKept == [][KeptByStep \/ ~ \E p \in Procs : Pass(p)]_vars

(* A volume recorded as transferred names the very volume that was filled, *)
(* from the source recorded when the session was planned, and while nobody *)
(* used it unless the session is one of an online copy of a shared source  *)
(* (copy, validateTransferVolume, configureExistingCrossClusterCopy).  The *)
(* code looks at the claims once per pass, before the first attempt, and   *)
(* holds nothing: what somebody does to them while the attempts run goes   *)
(* unnoticed, and the property leaves those volumes out.                   *)
TransferredWhole ==
    rec # None => \A v \in Volumes : rec.vol[v].done /\ v \notin raced =>
        \E used \in BOOLEAN : /\ <<rec.vol[v].pv, used>> \in filled
                              /\ used => rec.online /\ site.shared

(* When a session was cleaned or deleted and no command is running, no     *)
(* claim carries its labels unless it is about to go, and no reservation   *)
(* Pod is left (cleanup.go, reservation_cleanup.go, reclaim.go).  Two kinds*)
(* of objects escape: what a pass creates that had loaded the session      *)
(* before it was cleaned, and a Pod whose process died before saving it.   *)
NothingLeftBehind ==
    Settled => \A v \in Volumes :
        /\ Owned(v) => claim[v].term \/ <<"claim", claim[v].uid>> \in unrecorded
        /\ pod[v] # None => <<"pod", pod[v].uid>> \in unrecorded

(* As long as nobody else took the claim's name and no process died with a *)
(* Pod it had not recorded, a cleanup that keeps the storage of a copy is  *)
(* never refused: not by its inspection and not by the validation of the   *)
(* session it saves, in whatever phase the copy stopped.                   *)
Taken(v) == Live(v) /\ (claim[v].owner = "other" \/ rec.vol[v].pvc \notin {0, claim[v].uid})
AlienPod(v) == pod[v] # None /\ rec.vol[v].pod \notin {0, pod[v].uid}

KeepsAccepted(s) == ValidateCleanup(s, "Keep") /\ Validate(Inspected(s))

Undisturbed ==
    /\ rec # None /\ \A p \in Procs : pc[p] = "idle"
    /\ \A v \in Volumes : ~Taken(v) /\ ~AlienPod(v)

CopyCleanable == (Undisturbed /\ rec.kind = "Copy") => KeepsAccepted(rec)

(* As long as nobody else took the claim's name and nobody uses the claim, *)
(* a reservation that was not cleaned up yet can be, with either policy:   *)
(* "Keep or Delete reserved storage ... Delete removes destination PVCs    *)
(* this reservation created" (cli/crosscluster_reserve_commands.go).       *)
ReservationCleanable ==
    (/\ Undisturbed /\ rec.kind = "Reservation" /\ rec.phase \notin Ended
     /\ \A v \in Volumes : validateCleanupConsumers(rec, v))
    => \A policy \in {"Keep", "Delete"} :
          ValidateCleanup(rec, policy) /\ Validate(Inspected(rec))

(* A session ends without a trace, and a copy can be brought to that end   *)
(* from wherever it stopped.                                               *)
CleansUp == NothingLeftBehind /\ CopyCleanable

=============================================================================
