----------------------------- MODULE ObjectStore -----------------------------
(***************************************************************************)
(* The S3 side of a recovery point, as internal/objectstore/s3.go uses it: *)
(* a lock object that is written and deleted conditionally on its ETag,    *)
(* the data objects of the backup and the manifest that publishes them.    *)
(*                                                                         *)
(* A repository resource names one location; when a user edits it the      *)
(* recovery point of the same name lies elsewhere, so everything here is   *)
(* per location.  Times are counted in units of a third of the lock's      *)
(* TTL: ttl is what is left of it, 0 once ExpiresAt has passed.            *)
(***************************************************************************)
EXTENDS Integers

CONSTANTS Backup,        \* backups that name this recovery point
          MaxAttempts,   \* bound: attempts of one backup
          Location,      \* where a repository resource may point to
          TTL,           \* operationLockTTL in units of the clock
          None

VARIABLES lock,      \* per location: the lock object
          etag,      \* per location: the attempts that know its current ETag
          manifest,  \* per location: None, or the publishing backup and its inventory
          objects    \* per location: what every data object holds

objectStore == <<lock, etag, manifest, objects>>

\* operationLockHolder: every attempt is a holder of its own.
Attempt == Backup \X (1..MaxAttempts)

Keys == 1..2
Contents == [Keys -> (Backup \X (0..MaxAttempts)) \cup {None}]
NoLock == [holder |-> None, ttl |-> 0]

\* A write of the lock: everybody's ETag is out of date, except the writer's if the
\* answer reaches it.
PutLock(l, a, answered) ==
    /\ lock' = [lock EXCEPT ![l] = [holder |-> a, ttl |-> TTL]]
    /\ etag' = [etag EXCEPT ![l] = IF answered THEN {a} ELSE {}]

\* PutObject If-None-Match: *
CreateLock(l, a, answered) == lock[l].holder = None /\ PutLock(l, a, answered)

\* PutObject If-Match: the ETag the attempt has read
ReplaceLock(l, a, answered) == a \in etag[l] /\ PutLock(l, a, answered)

\* readLock
ReadLock(l, a) == etag' = [etag EXCEPT ![l] = @ \cup {a}] /\ UNCHANGED lock

\* DeleteObject If-Match; a lock that is gone counts as released.
ReleaseLock(l, a) ==
    /\ a \in etag[l] \/ lock[l].holder = None
    /\ lock' = [lock EXCEPT ![l] = NoLock]
    /\ etag' = [etag EXCEPT ![l] = {}]

\* PutManifest: If-None-Match, a published recovery point is never replaced.
PutManifest(l, b, inventory) ==
    /\ manifest[l] = None
    /\ manifest' = [manifest EXCEPT ![l] = [by |-> b, inventory |-> inventory]]

\* Inventory: count, size and digest of every object under the prefix.
Inventory(l) == objects[l]

\* VerifyInventory
VerifyInventory(l) == Inventory(l) = manifest[l].inventory

\* Time passes for every lock.
Expire == lock' = [l \in Location |-> [lock[l] EXCEPT !.ttl = IF @ = 0 THEN 0 ELSE @ - 1]]

=============================================================================
