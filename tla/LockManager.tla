---------------------------- MODULE LockManager ----------------------------
(***************************************************************************)
(* The lock of one resource key.  A LockManager (one per CentralCore)      *)
(* first reserves the key in its own set `held`, then takes the operating  *)
(* system's lock on <digest>.lock, then records the owner in that file.    *)
(* Every task asks from a blocking thread, so the steps of different tasks *)
(* interleave; a lock attempt gives up when its timeout has elapsed.       *)
(*                                                                         *)
(* Different keys share no state, so one key is modelled.                  *)
(***************************************************************************)
CONSTANTS
    Tasks,      \* tasks that ask for the lock
    Managers,   \* LockManager values, each in some process
    ManagerOf,  \* task -> the manager it uses
    IoErrors,   \* TRUE: the lock file may fail to lock or to be written
    NoOwner,    \* the lock file is new
    Torn        \* the lock file was truncated, its owner record is not there yet

ASSUME ManagerAssumption == ManagerOf \in [Tasks -> Managers]
ASSUME OwnerAssumption   == NoOwner \notin Managers /\ Torn \notin Managers /\ NoOwner # Torn
ASSUME ErrorAssumption   == IoErrors \in BOOLEAN

VARIABLES
    held,      \* managers that have reserved the key
    os,        \* tasks whose open file holds the operating system's lock
    mode,      \* the mode a task asked for
    elapsed,   \* tasks whose timeout is over
    owner,     \* the record in the lock file
    pc         \* where each task is in acquire_blocking or drop

vars == <<held, os, mode, elapsed, owner, pc>>

Modes  == {"Shared", "Exclusive"}
Labels == {"idle", "reserve", "lock", "truncate", "record", "guard", "unlock", "unreserve"}

Goto(t, l) == pc' = [pc EXCEPT ![t] = l]

Init ==
    /\ held = {}
    /\ os = {}
    /\ mode = [t \in Tasks |-> "Shared"]
    /\ elapsed = {}
    /\ owner = NoOwner
    /\ pc = [t \in Tasks |-> "idle"]

(***************************************************************************)
(* acquire_blocking.                                                       *)
(***************************************************************************)
\* acquire_shared, acquire_exclusive(_for), or try_acquire_exclusive: no time to wait
Request(t, m, timeout) ==
    /\ pc[t] = "idle"
    /\ mode' = [mode EXCEPT ![t] = m]
    /\ elapsed' = IF timeout = "zero" THEN elapsed \cup {t} ELSE elapsed \ {t}
    /\ Goto(t, "reserve")
    /\ UNCHANGED <<held, os, owner>>

\* the clock: a waiting attempt runs out of time
Expire(t) ==
    /\ pc[t] \in {"reserve", "lock"}
    /\ t \notin elapsed
    /\ elapsed' = elapsed \cup {t}
    /\ UNCHANGED <<held, os, mode, owner, pc>>

\* mutant: the key counts as reserved whether or not it was already in the set
ReserveAnyway(t) ==
    /\ pc[t] = "reserve"
    /\ held' = held \cup {ManagerOf[t]}
    /\ Goto(t, "lock")
    /\ UNCHANGED <<os, mode, elapsed, owner>>

\* mutant: the owner record is written before the file is locked
ReserveRecords(t) ==
    /\ pc[t] = "reserve"
    /\ ManagerOf[t] \notin held
    /\ held' = held \cup {ManagerOf[t]}
    /\ owner' = ManagerOf[t]
    /\ Goto(t, "lock")
    /\ UNCHANGED <<os, mode, elapsed>>

\* held.insert(resource) returns true
Reserve(t) ==
    /\ pc[t] = "reserve"
    /\ ManagerOf[t] \notin held
    /\ held' = held \cup {ManagerOf[t]}
    /\ Goto(t, "lock")
    /\ UNCHANGED <<os, mode, elapsed, owner>>

\* mutant: the first loop sleeps on, whatever the clock says
ReserveWaits(t) ==
    /\ pc[t] = "reserve"
    /\ ManagerOf[t] \in held
    /\ UNCHANGED vars

\* held.insert(resource) returns false and the time is over: Busy
ReserveBusy(t) ==
    /\ pc[t] = "reserve"
    /\ ManagerOf[t] \in held
    /\ t \in elapsed
    /\ Goto(t, "idle")
    /\ UNCHANGED <<held, os, mode, elapsed, owner>>

\* mutant: an exclusive lock is granted beside shared ones
CompatibleWithShared(t) == \A u \in os : mode[u] = "Shared"

\* flock: the locks of other open files allow this one
Compatible(t) ==
    /\ mode[t] = "Shared"    => \A u \in os : mode[u] = "Shared"
    /\ mode[t] = "Exclusive" => os = {}

LockFile(t) ==
    /\ pc[t] = "lock"
    /\ Compatible(t)
    /\ os' = os \cup {t}
    /\ Goto(t, IF mode[t] = "Exclusive" THEN "truncate" ELSE "guard")
    /\ UNCHANGED <<held, mode, elapsed, owner>>

\* mutant: Busy is returned and the key stays reserved
LockBusyLeaks(t) ==
    /\ pc[t] = "lock"
    /\ \/ ~Compatible(t) /\ t \in elapsed
       \/ IoErrors
    /\ Goto(t, "idle")
    /\ UNCHANGED <<held, os, mode, elapsed, owner>>

\* the file stays busy until the time is over, or locking it fails: the key is freed
LockBusy(t) ==
    /\ pc[t] = "lock"
    /\ \/ ~Compatible(t) /\ t \in elapsed
       \/ IoErrors
    /\ held' = held \ {ManagerOf[t]}
    /\ Goto(t, "idle")
    /\ UNCHANGED <<os, mode, elapsed, owner>>

\* set_len(0), under the exclusive lock
Truncate(t) ==
    /\ pc[t] = "truncate"
    /\ owner' = Torn
    /\ Goto(t, "record")
    /\ UNCHANGED <<held, os, mode, elapsed>>

\* the LockOwner record; the guard is returned
Record(t) ==
    /\ pc[t] = "record"
    /\ owner' = ManagerOf[t]
    /\ Goto(t, "guard")
    /\ UNCHANGED <<held, os, mode, elapsed>>

\* an I/O error in between drops the guard
RecordFails(t) ==
    /\ IoErrors
    /\ pc[t] \in {"truncate", "record"}
    /\ Goto(t, "unlock")
    /\ UNCHANGED <<held, os, mode, elapsed, owner>>

(***************************************************************************)
(* Drop for ResourceLock, and the death of a process.                      *)
(***************************************************************************)
DropGuard(t) ==
    /\ pc[t] = "guard"
    /\ Goto(t, "unlock")
    /\ UNCHANGED <<held, os, mode, elapsed, owner>>

Unlock(t) ==
    /\ pc[t] = "unlock"
    /\ os' = os \ {t}
    /\ Goto(t, "unreserve")
    /\ UNCHANGED <<held, mode, elapsed, owner>>

Unreserve(t) ==
    /\ pc[t] = "unreserve"
    /\ held' = held \ {ManagerOf[t]}
    /\ Goto(t, "idle")
    /\ UNCHANGED <<os, mode, elapsed, owner>>

\* the operating system closes the files of a dead process; a new one has an empty set
Crash(m) ==
    LET gone == {t \in Tasks : ManagerOf[t] = m} IN
    /\ held' = held \ {m}
    /\ os' = os \ gone
    /\ pc' = [t \in Tasks |-> IF t \in gone THEN "idle" ELSE pc[t]]
    /\ UNCHANGED <<mode, elapsed, owner>>

(***************************************************************************)
(* The specification.                                                      *)
(***************************************************************************)
\* what a thread does once acquire_blocking or drop runs
Step(t) ==
    \/ Reserve(t) \/ ReserveBusy(t) \/ LockFile(t) \/ LockBusy(t)
    \/ Truncate(t) \/ Record(t) \/ RecordFails(t) \/ Unlock(t) \/ Unreserve(t)

Next ==
    \/ \E t \in Tasks :
         \/ Step(t) \/ Expire(t) \/ DropGuard(t)
         \/ \E m \in Modes, timeout \in {"zero", "bounded"} : Request(t, m, timeout)
    \/ \E m \in Managers : Crash(m)

Spec == Init /\ [][Next]_vars

\* threads run and time passes; no guard is ever assumed to be dropped
FairSpec == Spec /\ \A t \in Tasks : WF_vars(Step(t)) /\ WF_vars(Expire(t))

-----------------------------------------------------------------------------
(***************************************************************************)
(* Properties.                                                             *)
(***************************************************************************)
\* Every variable stays within its type.
TypeOK ==
    /\ held \subseteq Managers
    /\ os \subseteq Tasks
    /\ mode \in [Tasks -> Modes]
    /\ elapsed \subseteq Tasks
    /\ owner \in Managers \cup {NoOwner, Torn}
    /\ pc \in [Tasks -> Labels]

\* tasks that have been given a ResourceLock
Guards == {t \in Tasks : pc[t] = "guard"}

\* Two ResourceLock values exist at once only if both are shared and they come from two
\* managers: the reservation makes even shared guards exclusive within one manager, the
\* operating system makes exclusive ones exclusive across processes.
MutualExclusion ==
    \A t, u \in Guards : t # u =>
        /\ mode[t] = "Shared" /\ mode[u] = "Shared"
        /\ ManagerOf[t] # ManagerOf[u]

\* The key is reserved exactly while one task of the manager is using it: no Busy, I/O
\* error, cancellation or crash leaves a reservation nobody will ever remove, and no
\* drop removes the reservation of another task.
ReservationOwned ==
    \A m \in Managers :
        LET users == {t \in Tasks : ManagerOf[t] = m /\ pc[t] \notin {"idle", "reserve"}} IN
        /\ m \in held <=> users # {}
        /\ \A t, u \in users : t = u

\* While an exclusive guard exists the lock file names the manager that holds it, whoever
\* truncated or wrote the file before.
OwnerIsHolder ==
    \A t \in Guards : mode[t] = "Exclusive" => owner = ManagerOf[t]

\* Asking for the lock always comes to an end, with a guard or with Busy, even if the
\* guards of others are never dropped.
AcquireReturns ==
    \A t \in Tasks : pc[t] = "reserve" ~> pc[t] \in {"guard", "idle"}

\* the open files that are locked are the guards of the abstract lock
RL == INSTANCE ResourceLock WITH
        shared    <- {t \in os : mode[t] = "Shared"},
        exclusive <- {t \in os : mode[t] = "Exclusive"}

\* The steps of acquire_blocking and drop together behave as one lock that is taken and
\* given back atomically.
IsResourceLock == RL!Spec
=============================================================================
