------------------------- MODULE LockManagerProofs -------------------------
(***************************************************************************)
(* For every set of tasks and managers: the lock excludes, no reservation  *)
(* leaks, the owner record is right, and the detailed steps implement the  *)
(* abstract lock.                                                          *)
(***************************************************************************)
EXTENDS LockManager, TLAPS

\* the labels at which a task has its manager's reservation
Reserving == Labels \ {"idle", "reserve"}

\* the labels at which a task's open file is locked
Locking == {"truncate", "record", "guard", "unlock"}

\* the operating system's lock is held exactly there, and exclusively while recording
FileState ==
    /\ \A t \in Tasks : t \in os <=> pc[t] \in Locking
    /\ \A t \in Tasks : pc[t] \in {"truncate", "record"} => mode[t] = "Exclusive"

\* open files locked together are locked in shared mode
FilesCompatible == \A t, u \in os : t # u => mode[t] = "Shared"

\* one task per reservation, one reservation per task that needs it
Reservations ==
    /\ \A t \in Tasks : pc[t] \in Reserving => ManagerOf[t] \in held
    /\ \A t, u \in Tasks :
          pc[t] \in Reserving /\ pc[u] \in Reserving /\ ManagerOf[t] = ManagerOf[u] => t = u
    /\ \A m \in held : \E t \in Tasks : ManagerOf[t] = m /\ pc[t] \in Reserving

\* the inductive invariant
LockInv ==
    /\ TypeOK
    /\ FileState
    /\ FilesCompatible
    /\ Reservations
    /\ OwnerIsHolder

\* The invariant holds before anything was asked for.
LEMMA LockInit == Init => LockInv
BY ManagerAssumption
   DEF Init, LockInv, TypeOK, FileState, FilesCompatible, Reservations, OwnerIsHolder,
       Guards, Labels, Modes, Locking, Reserving

\* Every step of a task, of the clock and the death of a process preserve the types.
LEMMA LockTypes == TypeOK /\ [Next]_vars => TypeOK'
<1> SUFFICES ASSUME TypeOK, [Next]_vars PROVE TypeOK'
  OBVIOUS
<1> USE ManagerAssumption DEF TypeOK, Labels, Modes, Goto
<1>1. CASE UNCHANGED vars
  BY <1>1 DEF vars
<1>2. ASSUME NEW t \in Tasks, Step(t) PROVE TypeOK'
  BY <1>2 DEF Step, Reserve, ReserveBusy, LockFile, LockBusy, Truncate, Record,
              RecordFails, Unlock, Unreserve
<1>3. ASSUME NEW t \in Tasks, Expire(t) \/ DropGuard(t) PROVE TypeOK'
  BY <1>3 DEF Expire, DropGuard
<1>4. ASSUME NEW t \in Tasks, NEW m \in Modes, NEW timeout \in {"zero", "bounded"},
             Request(t, m, timeout)
      PROVE TypeOK'
  BY <1>4 DEF Request
<1>5. ASSUME NEW m \in Managers, Crash(m) PROVE TypeOK'
  BY <1>5 DEF Crash
<1> QED BY <1>1, <1>2, <1>3, <1>4, <1>5 DEF Next

\* The step of one task preserves the invariant.
LEMMA LockStep ==
    ASSUME LockInv, NEW t \in Tasks,
           Step(t) \/ Expire(t) \/ DropGuard(t)
           \/ \E m \in Modes, timeout \in {"zero", "bounded"} : Request(t, m, timeout)
    PROVE  (FileState /\ FilesCompatible /\ Reservations /\ OwnerIsHolder)'
<1> USE ManagerAssumption
    DEF LockInv, TypeOK, FileState, FilesCompatible, Reservations, OwnerIsHolder, Guards,
        Labels, Modes, Locking, Reserving, Goto
<1>1. CASE \E m \in Modes, timeout \in {"zero", "bounded"} : Request(t, m, timeout)
  BY <1>1 DEF Request
<1>2. CASE Expire(t)
  BY <1>2 DEF Expire
<1>3. CASE Reserve(t)
  BY <1>3 DEF Reserve
<1>4. CASE ReserveBusy(t)
  BY <1>4 DEF ReserveBusy
<1>5. CASE LockFile(t)
  <2>1. FileState'
    BY <1>5 DEF LockFile
  <2>2. FilesCompatible'
    BY <1>5 DEF LockFile, Compatible
  <2>3. Reservations'
    BY <1>5 DEF LockFile
  <2>4. OwnerIsHolder'
    BY <1>5 DEF LockFile
  <2> QED BY <2>1, <2>2, <2>3, <2>4
<1>6. CASE LockBusy(t)
  BY <1>6 DEF LockBusy
<1>7. CASE Truncate(t)
  BY <1>7 DEF Truncate
<1>8. CASE Record(t)
  BY <1>8 DEF Record
<1>9. CASE RecordFails(t)
  BY <1>9 DEF RecordFails
<1>10. CASE DropGuard(t)
  BY <1>10 DEF DropGuard
<1>11. CASE Unlock(t)
  BY <1>11 DEF Unlock
<1>12. CASE Unreserve(t)
  BY <1>12 DEF Unreserve
<1> QED
  BY <1>1, <1>2, <1>3, <1>4, <1>5, <1>6, <1>7, <1>8, <1>9, <1>10, <1>11, <1>12 DEF Step

\* So does the death of a process: its tasks vanish with its reservation and its files.
LEMMA LockCrash ==
    ASSUME LockInv, NEW m \in Managers, Crash(m)
    PROVE  (FileState /\ FilesCompatible /\ Reservations /\ OwnerIsHolder)'
<1> USE ManagerAssumption
    DEF LockInv, TypeOK, Crash, Labels, Modes, Locking, Reserving
<1>1. FileState'
  BY DEF FileState
<1>2. FilesCompatible'
  BY DEF FilesCompatible
<1>3. Reservations'
  BY DEF Reservations
<1>4. OwnerIsHolder'
  BY DEF OwnerIsHolder, Guards
<1> QED BY <1>1, <1>2, <1>3, <1>4

\* The inductive invariant holds in every reachable state.
THEOREM LockInvariant == Spec => []LockInv
<1>1. LockInv /\ [Next]_vars => LockInv'
  <2> SUFFICES ASSUME LockInv, [Next]_vars PROVE LockInv'
    OBVIOUS
  <2>1. TypeOK'
    BY LockTypes DEF LockInv
  <2>2. CASE UNCHANGED vars
    BY <2>1, <2>2 DEF LockInv, vars, TypeOK, FileState, FilesCompatible, Reservations,
                      OwnerIsHolder, Guards
  <2>3. CASE Next
    <3>1. (FileState /\ FilesCompatible /\ Reservations /\ OwnerIsHolder)'
      BY <2>3, LockStep, LockCrash DEF Next
    <3> QED BY <2>1, <3>1 DEF LockInv
  <2> QED BY <2>2, <2>3
<1> QED BY <1>1, LockInit, PTL DEF Spec

\* Types hold in every reachable state, for every set of tasks and managers.
THEOREM LockTypeOK == Spec => []TypeOK
BY LockInvariant, PTL DEF LockInv

\* Guards exclude each other: two at a time are shared and come from two managers.
THEOREM LockExcludes == Spec => []MutualExclusion
<1>1. LockInv => MutualExclusion
  BY DEF LockInv, FileState, FilesCompatible, Reservations, MutualExclusion, Guards,
         Locking, Reserving, Labels
<1> QED BY <1>1, LockInvariant, PTL

\* No reservation leaks and none is removed under another task.
THEOREM LockReservations == Spec => []ReservationOwned
<1>1. LockInv => ReservationOwned
  BY DEF LockInv, TypeOK, Reservations, ReservationOwned, Reserving
<1> QED BY <1>1, LockInvariant, PTL

\* The lock file names the manager that holds the lock exclusively.
THEOREM LockOwnerRecord == Spec => []OwnerIsHolder
BY LockInvariant, PTL DEF LockInv

\* The steps of acquire_blocking, drop and a crash implement the abstract lock.
THEOREM LockRefines == Spec => IsResourceLock
<1>1. Init => RL!Init
  BY DEF Init, RL!Init
<1>2. LockInv /\ [Next]_vars => [RL!Next]_RL!vars
  <2> SUFFICES ASSUME LockInv, [Next]_vars PROVE [RL!Next]_RL!vars
    OBVIOUS
  <2> USE ManagerAssumption DEF LockInv, TypeOK, FileState, Locking
  <2>1. CASE UNCHANGED <<os, mode>>
    BY <2>1 DEF RL!vars
  <2>2. ASSUME NEW t \in Tasks, NEW m \in Modes, NEW timeout \in {"zero", "bounded"},
               Request(t, m, timeout)
        PROVE  UNCHANGED RL!vars
    BY <2>2 DEF Request, RL!vars, Labels, Modes
  <2>3. ASSUME NEW t \in Tasks, LockFile(t)
        PROVE  RL!AcquireShared(t) \/ RL!AcquireExclusive(t)
    <3>1. CASE mode[t] = "Shared"
      BY <2>3, <3>1 DEF LockFile, Compatible, RL!AcquireShared
    <3>2. CASE mode[t] = "Exclusive"
      BY <2>3, <3>2 DEF LockFile, Compatible, RL!AcquireExclusive
    <3> QED BY <3>1, <3>2 DEF Modes
  <2>4. ASSUME NEW t \in Tasks, Unlock(t) PROVE RL!Release({t})
    BY <2>4 DEF Unlock, RL!Release
  <2>5. ASSUME NEW m \in Managers, Crash(m)
        PROVE  RL!Release({t \in Tasks : ManagerOf[t] = m})
    BY <2>5 DEF Crash, RL!Release
  <2>6. CASE \E t \in Tasks : Step(t) \/ Expire(t) \/ DropGuard(t)
    BY <2>1, <2>3, <2>4, <2>6
       DEF Step, Expire, DropGuard, Reserve, ReserveBusy, LockBusy, Truncate, Record,
           RecordFails, Unreserve, RL!Next
  <2>7. CASE \E m \in Managers : Crash(m)
    <3>1. \A m \in Managers : {t \in Tasks : ManagerOf[t] = m} \in SUBSET Tasks
      OBVIOUS
    <3> QED BY <2>5, <2>7, <3>1 DEF RL!Next
  <2> QED BY <2>1, <2>2, <2>6, <2>7 DEF Next, vars
<1> QED BY <1>1, <1>2, LockInvariant, PTL DEF Spec, IsResourceLock, RL!Spec
=============================================================================
