----------------------------- MODULE ClientLock -----------------------------
(***************************************************************************)
(* The lock of one client id, LockEntry of rmqtt/src/broker/default.rs.    *)
(* The concurrent map lockers holds a mutex per client for as long as the  *)
(* client is locked: try_lock creates it when it is missing, and the drop  *)
(* of the LockEntry takes it out of the map and then frees the guard, two  *)
(* steps between which other threads run.                                  *)
(***************************************************************************)
CONSTANTS
    Threads,    \* tasks that lock the client: handshakes, cluster handlers
    Mutexes,    \* Arc<Mutex<()>> objects
    None

ASSUME ClientLockAssumption == None \notin Threads /\ None \notin Mutexes

VARIABLES
    entry,      \* lockers[client id], or None
    owner,      \* owner[m]: the thread whose guard locks m, or None
    pc,         \* pc[t]: "idle", "held" or "dropping"
    guard,      \* guard[t]: the mutex of t's guard, or None
    outcome     \* outcome[t]: what t's last try_lock gave

lockVars == <<entry, owner, pc, guard, outcome>>

LockInit ==
    /\ entry = None
    /\ owner = [m \in Mutexes |-> None]
    /\ pc = [t \in Threads |-> "idle"]
    /\ guard = [t \in Threads |-> None]
    /\ outcome = [t \in Threads |-> "none"]

\* mutant: a new mutex replaces the one in the map
TryLock_insert(t, m) ==
    /\ pc[t] = "idle"
    /\ owner[m] = None
    /\ entry' = m
    /\ owner' = [owner EXCEPT ![m] = t]
    /\ pc' = [pc EXCEPT ![t] = "held"]
    /\ guard' = [guard EXCEPT ![t] = m]
    /\ outcome' = [outcome EXCEPT ![t] = "ok"]

(***************************************************************************)
(* LockEntry::try_lock that succeeds: the mutex of the map, or a new one,  *)
(* is locked before the map's own lock is given back (the guard returned   *)
(* by or_insert lives to the end of the statement).                        *)
(***************************************************************************)
TryLock(t, m) ==
    /\ pc[t] = "idle"
    /\ entry \in {None, m}
    /\ owner[m] = None
    /\ entry' = m
    /\ owner' = [owner EXCEPT ![m] = t]
    /\ pc' = [pc EXCEPT ![t] = "held"]
    /\ guard' = [guard EXCEPT ![t] = m]
    /\ outcome' = [outcome EXCEPT ![t] = "ok"]

\* try_lock_owned fails: the error goes to the caller, nothing else changes
TryLockFails(t) ==
    /\ pc[t] = "idle"
    /\ entry # None /\ owner[entry] # None
    /\ outcome' = [outcome EXCEPT ![t] = "refused"]
    /\ UNCHANGED <<entry, owner, pc, guard>>

\* Drop for LockEntry: the key leaves the map, whoever's it is
DropEntry(t) ==
    /\ pc[t] = "held"
    /\ entry' = None
    /\ pc' = [pc EXCEPT ![t] = "dropping"]
    /\ UNCHANGED <<owner, guard, outcome>>

\* After drop() the fields go: the OwnedMutexGuard frees its mutex
DropGuard(t) ==
    /\ pc[t] = "dropping"
    /\ owner' = [owner EXCEPT ![guard[t]] = None]
    /\ pc' = [pc EXCEPT ![t] = "idle"]
    /\ guard' = [guard EXCEPT ![t] = None]
    /\ UNCHANGED <<entry, outcome>>

\* mutant: the guard is freed first and the key taken out afterwards
Drop_guardFirst(t) ==
    \/ /\ pc[t] = "held"
       /\ owner' = [owner EXCEPT ![guard[t]] = None]
       /\ pc' = [pc EXCEPT ![t] = "dropping"]
       /\ UNCHANGED <<entry, guard, outcome>>
    \/ /\ pc[t] = "dropping"
       /\ entry' = None
       /\ pc' = [pc EXCEPT ![t] = "idle"]
       /\ guard' = [guard EXCEPT ![t] = None]
       /\ UNCHANGED <<owner, outcome>>

\* The drop of a LockEntry, in this order
Drop(t) == DropEntry(t) \/ DropGuard(t)

LockNext ==
    \E t \in Threads :
        \/ \E m \in Mutexes : TryLock(t, m)
        \/ TryLockFails(t) \/ Drop(t)

LockSpec == LockInit /\ [][LockNext]_lockVars

-----------------------------------------------------------------------------
\* The variables keep to their types.
LockTypeOK ==
    /\ entry \in Mutexes \cup {None}
    /\ owner \in [Mutexes -> Threads \cup {None}]
    /\ pc \in [Threads -> {"idle", "held", "dropping"}]
    /\ guard \in [Threads -> Mutexes \cup {None}]
    /\ outcome \in [Threads -> {"none", "ok", "refused"}]

(***************************************************************************)
(* The inductive invariant.  The key in the map is the mutex of the thread *)
(* inside, and no other thread's; a thread that has taken the key out but  *)
(* still owns its mutex owns one the map no longer names.                  *)
(***************************************************************************)
KeyIsHolders ==
    /\ \A t \in Threads : pc[t] = "held" => entry = guard[t] /\ entry # None
    /\ \A t \in Threads : pc[t] # "idle" => guard[t] # None /\ owner[guard[t]] = t
    /\ \A t \in Threads : pc[t] = "dropping" => entry # guard[t]
    /\ entry # None => \E t \in Threads : pc[t] = "held"

Holder ==
    IF \E t \in Threads : pc[t] = "held"
    THEN CHOOSE t \in Threads : pc[t] = "held" ELSE None

Abs == INSTANCE Mutex WITH holder <- Holder

(***************************************************************************)
(* LockEntry implements Mutex: removing the key is the release, the guard  *)
(* freed afterwards changes nothing a caller can see, and two mutexes may  *)
(* be locked at once without two callers being inside.                     *)
(***************************************************************************)
Implements == Abs!Spec

(***************************************************************************)
(* The map keeps no mutex of a client nobody is locking: Drop for          *)
(* LockEntry never leaves a key behind, nor does a failed try_lock.        *)
(***************************************************************************)
LockersReclaimed == (\A t \in Threads : pc[t] # "held") => entry = None

(***************************************************************************)
(* A mutex per client that costs nothing when no one uses it: the promise  *)
(* of Mutex, kept by a map that every step leaves empty when nobody is     *)
(* inside.                                                                 *)
(***************************************************************************)
LockPromise == Implements /\ [][LockersReclaimed']_lockVars
=============================================================================
