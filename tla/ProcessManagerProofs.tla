------------------------ MODULE ProcessManagerProofs ------------------------
(***************************************************************************)
(* Proofs about ProcessManager, for any managers, tasks and games: its     *)
(* types, that a manager watches at most one live game, and in which ways   *)
(* the record of a live game can be removed.                               *)
(***************************************************************************)
EXTENDS ProcessManager, TLAPS

\* what a launch does after is_running has answered no
Launching == {"spawn", "persist", "rename", "insert", "undo", "reap"}

\* what a kill does under the lock besides reading, probing and dropping the record
Killing == {"entry", "send", "stop", "force", "confirm"}

\* which labels belong to which method
LabelInv ==
    \A t \in Tasks :
        /\ pc[t] = "idle" <=> op[t] = "none"
        /\ pc[t] \in Launching => op[t] \in Launches
        /\ pc[t] \in Killing \cup {"lock"} => op[t] = "kill"
        /\ pc[t] = "check" => op[t] \notin {"kill", "recover"}

\* the lock is held by a launch, and by a kill that has got it
LockInv ==
    \A t \in Tasks :
        lock = t <=> op[t] \in Launches \/ (op[t] = "kill" /\ pc[t] # "lock")

\* a call that removes a record has seen its game dead; under the lock the record is still
\* the one that was read, or gone, and gone when a launch that has no entry goes on
RecordInv ==
    /\ record \notin fresh
    /\ \A t \in Tasks :
        /\ game[t] \notin fresh
        /\ pc[t] = "drop" => game[t] \notin alive
        /\ lock = t =>
            /\ pc[t] \in {"probe", "stop", "force", "confirm", "drop"} =>
                 record \in {game[t], NoGame}
            /\ pc[t] \in {"spawn", "persist", "rename"} =>
                 record = NoGame \/ entry[ManagerOf[t]] # NoGame
            /\ pc[t] = "rename" => record = NoGame

\* a game is spawned once, and its exit published only when it is dead
GameInv ==
    /\ alive \cap fresh = {}
    /\ \A m \in Managers : entry[m] \notin fresh
    /\ \A g \in Games :
        /\ monitor[g] = "none" <=> host[g] = NoManager
        /\ monitor[g] # "none" => g \notin fresh
        /\ monitor[g] \in {"killed", "clean", "done"} => g \notin alive

\* the live game a manager watches is its entry
EntryInv ==
    \A m \in Managers :
        /\ entry[m] # NoGame => host[entry[m]] = m
        /\ \A g \in alive : host[g] = m => entry[m] = g

\* a launch that goes on found no entry or an exited one, and spawned a game nobody watches
LaunchInv ==
    \A t \in Tasks : op[t] \in Launches =>
        /\ pc[t] \in {"read", "probe", "drop"} => entry[ManagerOf[t]] = NoGame
        /\ pc[t] \in Launching =>
             entry[ManagerOf[t]] = NoGame \/ Exited(entry[ManagerOf[t]])
        /\ pc[t] \in Launching \ {"spawn"} =>
             /\ game[t] \in Games \ fresh
             /\ host[game[t]] = NoManager

IInv ==
    /\ TypeOK /\ LabelInv /\ LockInv /\ RecordInv /\ GameInv /\ EntryInv /\ LaunchInv

USE ProcessAssumption DEF IInv, TypeOK, Launches, Ops, Labels, MonitorLabels, QueueSize,
    Launching, Killing, LabelInv, LockInv, RecordInv, GameInv, EntryInv, LaunchInv,
    Exited, Goto, children

\* every step of a call in progress preserves the invariant
LEMMA StepKeeps ==
    ASSUME IInv, NEW t \in Tasks, Step(t)
    PROVE  IInv'
<1>1. CASE CheckEntry(t)
  <2>1. CASE entry[ManagerOf[t]] = NoGame
    BY <1>1, <2>1 DEF CheckEntry, Continue
  <2>2. CASE entry[ManagerOf[t]] # NoGame
    <3>1. CASE op[t] \in Launches /\ Exited(entry[ManagerOf[t]])
      BY <1>1, <2>2, <3>1 DEF CheckEntry, Answer, Continue
    <3>2. CASE ~(op[t] \in Launches /\ Exited(entry[ManagerOf[t]]))
      BY <1>1, <2>2, <3>2 DEF CheckEntry, Answer, Return
    <3> QED BY <3>1, <3>2
  <2> QED BY <2>1, <2>2
<1>2. CASE ReadPersisted(t)
  BY <1>2 DEF ReadPersisted, Return, Continue, ContinueWith, Answer
<1>3. CASE ProbeProcess(t)
  BY <1>3 DEF ProbeProcess, Return, Continue, Answer
<1>4. CASE DropRecord(t)
  BY <1>4 DEF DropRecord, Return, Continue, Answer
<1>5. CASE Spawn(t)
  BY <1>5 DEF Spawn, ContinueWith
<1>6. CASE SpawnFails(t)
  BY <1>6 DEF SpawnFails, Return
<1>7. CASE Abandon(t)
  BY <1>7 DEF Abandon, Return
<1>8. CASE PersistFails(t)
  BY <1>8 DEF PersistFails, Continue
<1>9. CASE Undo(t)
  BY <1>9 DEF Undo, Continue
<1>21. CASE Reap(t)
  BY <1>21 DEF Reap, Return
<1>10. CASE PersistRemove(t)
  BY <1>10 DEF PersistRemove, Continue
<1>11. CASE PersistRename(t)
  <2>1. CASE op[t] = "attached"
    BY <1>11, <2>1 DEF PersistRename, Continue
  <2>2. CASE op[t] # "attached"
    BY <1>11, <2>2 DEF PersistRename, Return
  <2> QED BY <2>1, <2>2
<1>12. CASE Insert(t)
  BY <1>12 DEF Insert, Return
<1>13. CASE KillLock(t)
  BY <1>13 DEF KillLock
<1>14. CASE KillBusy(t)
  BY <1>14 DEF KillBusy, Return
<1>15. CASE KillEntry(t)
  BY <1>15 DEF KillEntry, ContinueWith
<1>16. CASE KillSend(t)
  BY <1>16 DEF KillSend, Return
<1>17. CASE StopPersisted(t)
  <2>1. CASE game[t] \in alive
    BY <1>17, <2>1 DEF StopPersisted, Continue
  <2>2. CASE game[t] \notin alive
    BY <1>17, <2>2 DEF StopPersisted, Return
  <2> QED BY <2>1, <2>2
<1>18. CASE ForceStop(t)
  BY <1>18 DEF ForceStop, Continue
<1>19. CASE Confirm(t)
  BY <1>19 DEF Confirm, Continue
<1>20. CASE StopTimeout(t)
  BY <1>20 DEF StopTimeout, Return
<1> QED BY <1>1, <1>2, <1>3, <1>4, <1>5, <1>6, <1>7, <1>8, <1>9, <1>10, <1>11, <1>12, <1>13, <1>14, <1>15, <1>16, <1>17, <1>18, <1>19, <1>20, <1>21 DEF Step

\* so does the beginning of a call
LEMMA CallKeeps ==
    ASSUME IInv, NEW t \in Tasks,
           (\E kind \in Launches : Launch(t, kind)) \/ Status(t) \/ Kill(t) \/ Recover(t)
    PROVE  IInv'
<1>1. ASSUME NEW kind \in Launches, Launch(t, kind) PROVE IInv'
  BY <1>1 DEF Launch, Call
<1>2. CASE Status(t)
  BY <1>2 DEF Status, Call
<1>3. CASE Kill(t)
  BY <1>3 DEF Kill, Call
<1>4. CASE Recover(t)
  BY <1>4 DEF Recover, Call
<1> QED BY <1>1, <1>2, <1>3, <1>4

\* so do the monitors, the handles and the games themselves
LEMMA GameKeeps ==
    ASSUME IInv, NEW g \in Games, MonitorStep(g) \/ HandleKill(g) \/ GameExits(g)
    PROVE  IInv'
<1>1. CASE MonitorKill(g)
  BY <1>1 DEF MonitorKill
<1>2. CASE MonitorExit(g)
  BY <1>2 DEF MonitorExit
<1>3. CASE MonitorClean(g)
  BY <1>3 DEF MonitorClean
<1>4. CASE HandleKill(g)
  BY <1>4 DEF HandleKill
<1>5. CASE GameExits(g)
  BY <1>5 DEF GameExits
<1> QED BY <1>1, <1>2, <1>3, <1>4, <1>5 DEF MonitorStep

\* and the end of a manager's process
LEMMA ExitKeeps ==
    ASSUME IInv, NEW m \in Managers, Exit(m)
    PROVE  IInv'
  BY DEF Exit

-----------------------------------------------------------------------------
\* The inductive invariant, for any number of managers, calls and games.
THEOREM ProcessInvariant == Spec => []IInv
<1>1. Init => IInv
  BY DEF Init
<1>2. IInv /\ [Next]_vars => IInv'
  <2> SUFFICES ASSUME IInv, [Next]_vars PROVE IInv'
    OBVIOUS
  <2>1. CASE UNCHANGED vars
    BY <2>1 DEF vars
  <2>2. CASE Next
    BY <2>2, StepKeeps, CallKeeps, GameKeeps, ExitKeeps DEF Next
  <2> QED BY <2>1, <2>2
<1> QED BY <1>1, <1>2, PTL DEF Spec

\* The state of the process manager keeps its types (TypeOK).
THEOREM ProcessTypes == Spec => []TypeOK
<1>1. IInv => TypeOK
  OBVIOUS
<1> QED BY <1>1, ProcessInvariant, PTL

\* A manager never watches two live games of an instance, whatever launches, kills and
\* exits do (OneWatchedGame).
THEOREM WatchesOneGame == Spec => []OneWatchedGame
<1>1. IInv => OneWatchedGame
  BY DEF OneWatchedGame, Watched
<1> QED BY <1>1, ProcessInvariant, PTL

\* The record of a live game is removed by a call or monitor without the lock that saw
\* another game dead, or by a launch whose manager has the entry of an exited game, and
\* in no other way (LiveRecordKept).
THEOREM LiveRecordsKept == Spec => LiveRecordKept
<1>1. IInv /\ [Next]_vars => [(record \in alive /\ record' # record) => ReplacedRecordGoes]_vars
  <2> SUFFICES ASSUME IInv, Next, record \in alive, record' # record
               PROVE  ReplacedRecordGoes
    BY DEF vars
  <2> USE DEF ReplacedRecordGoes
  <2>1. ASSUME NEW t \in Tasks, Step(t) PROVE ReplacedRecordGoes
    <3>1. record' # record => DropRecord(t) \/ PersistRemove(t) \/ PersistRename(t)
      BY <2>1 DEF Step, CheckEntry, ReadPersisted, ProbeProcess, Spawn, SpawnFails, Abandon,
                  PersistFails, Undo, Reap, Insert, KillLock, KillBusy, KillEntry, KillSend,
                  StopPersisted, ForceStop, Confirm, StopTimeout
    <3>2. CASE DropRecord(t)
      <4>1. pc[t] = "drop" /\ game[t] \notin alive
        BY <3>2 DEF DropRecord
      <4>2. game[t] # record /\ lock # t
        BY <4>1
      <4> QED BY <3>2, <4>1, <4>2
    <3>3. CASE PersistRemove(t)
      <4> DEFINE m == ManagerOf[t]
      <4>1. pc[t] = "persist" /\ op[t] \in Launches /\ lock = t
        BY <3>3 DEF PersistRemove
      <4>2. entry[m] # NoGame /\ Exited(entry[m])
        BY <4>1
      <4>3. entry[m] \notin alive /\ host[record] # m
        BY <4>2
      <4> QED BY <3>3, <4>2, <4>3
    <3>4. CASE PersistRename(t)
      BY <3>4 DEF PersistRename
    <3> QED BY <3>1, <3>2, <3>3, <3>4
  <2>2. ASSUME NEW g \in Games, MonitorStep(g) PROVE ReplacedRecordGoes
    <3>1. MonitorClean(g) /\ g \notin alive
      BY <2>2 DEF MonitorStep, MonitorKill, MonitorExit, MonitorClean
    <3> QED BY <3>1
  <2>3. ASSUME NEW t \in Tasks,
               (\E kind \in Launches : Launch(t, kind)) \/ Status(t) \/ Kill(t) \/ Recover(t)
        PROVE  record' = record
    BY <2>3 DEF Launch, Status, Kill, Recover, Call
  <2>4. ASSUME NEW g \in Games, HandleKill(g) \/ GameExits(g) PROVE record' = record
    BY <2>4 DEF HandleKill, GameExits
  <2>5. ASSUME NEW m \in Managers, Exit(m) PROVE record' = record
    BY <2>5 DEF Exit
  <2> QED BY <2>1, <2>2, <2>3, <2>4, <2>5 DEF Next
<1> QED BY <1>1, ProcessInvariant, PTL DEF LiveRecordKept, Spec
=============================================================================
