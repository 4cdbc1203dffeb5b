--------------------------- MODULE ProcessManager ---------------------------
(***************************************************************************)
(* Game processes of one instance (process/mod.rs).                        *)
(*                                                                         *)
(* A manager is the ProcessManager of one CentralCore process.  It knows   *)
(* the games it launched attached from its map of entries, each with a     *)
(* monitor task that owns the child, and every other game from the record  *)
(* on disk, processes/<instance>.json.  Launch and kill hold the lock      *)
(* process:<instance>; status, the startup recovery, the monitors and the  *)
(* kill of a RunningInstance handle do not.  Every await that separates    *)
(* two accesses to shared state is a step.                                 *)
(*                                                                         *)
(* A game stands for its persisted identity: PID, start time, executable   *)
(* and working directory.  The PID of a dead game is free or belongs to a  *)
(* process with another identity; both answers of probe_process lead to    *)
(* the removal of the record and are one outcome here.  Output streams and *)
(* events are left out: nothing in the manager reads them.                 *)
(***************************************************************************)
EXTENDS Naturals

CONSTANTS
    Managers,   \* CentralCore processes
    Tasks,      \* calls that can be in progress at once
    ManagerOf,  \* the manager whose method a task calls
    Games,      \* the processes that can be spawned: bounds the launches
    IoErrors,   \* whether spawning, persisting and killing may fail
    NoTask, NoGame, NoManager

QueueSize == 2  \* mpsc::channel(2): commands a monitor has not received

ASSUME ProcessAssumption ==
    /\ ManagerOf \in [Tasks -> Managers]
    /\ IoErrors \in BOOLEAN
    /\ NoTask \notin Tasks /\ NoGame \notin Games /\ NoManager \notin Managers

VARIABLES
    alive,    \* the games running on the machine
    fresh,    \* the games not spawned yet
    record,   \* the game in processes/<instance>.json
    entry,    \* per manager: the last game it launched attached
    monitor,  \* per game: where its monitor task is
    host,     \* per game: the manager that runs its monitor
    killq,    \* per game: commands in the monitor's channel
    lock,     \* the task that holds process:<instance>
    up,       \* the managers whose builder has returned
    pc,       \* per task: the next step of its call
    op,       \* per task: the method
    game      \* per task: the game it spawned, read or sends to

vars == <<alive, fresh, record, entry, monitor, host, killq, lock, up, pc, op, game>>
children == <<entry, monitor, host, killq>>

Launches == {"attached", "detached"}
Ops == Launches \cup {"none", "status", "recover", "kill"}
Labels == {"idle", "check", "read", "probe", "drop",
           "spawn", "persist", "rename", "insert", "undo", "reap",
           "lock", "entry", "send", "stop", "force", "confirm"}
MonitorLabels == {"none", "wait", "killed", "refused", "clean", "done"}

Init ==
    /\ alive = {} /\ fresh = Games /\ record = NoGame
    /\ entry = [m \in Managers |-> NoGame]
    /\ monitor = [g \in Games |-> "none"]
    /\ host = [g \in Games |-> NoManager]
    /\ killq = [g \in Games |-> 0]
    /\ lock = NoTask /\ up = {}
    /\ pc = [t \in Tasks |-> "idle"]
    /\ op = [t \in Tasks |-> "none"]
    /\ game = [t \in Tasks |-> NoGame]

-----------------------------------------------------------------------------
\* the exit status has been published on the watch channel
Exited(g) == monitor[g] \in {"clean", "done"}

Goto(t, label) == pc' = [pc EXCEPT ![t] = label]

\* the call returns, dropping its locals and the lock if it holds it
Return(t) ==
    /\ Goto(t, "idle")
    /\ lock' = IF lock = t THEN NoTask ELSE lock
    /\ op' = [op EXCEPT ![t] = "none"]
    /\ game' = [game EXCEPT ![t] = NoGame]

\* the call goes on, with the lock if it has it
Continue(t, label) == Goto(t, label) /\ UNCHANGED <<lock, op, game>>

\* the call goes on with a game it spawned, read or looked up
ContinueWith(t, label, g) ==
    /\ Goto(t, label)
    /\ game' = [game EXCEPT ![t] = g]
    /\ UNCHANGED <<lock, op>>

-----------------------------------------------------------------------------
(***************************************************************************)
(* Calls begin.                                                            *)
(***************************************************************************)
Call(t, method, label) ==
    /\ pc[t] = "idle"
    /\ op' = [op EXCEPT ![t] = method]
    /\ Goto(t, label)
    /\ UNCHANGED <<alive, fresh, record, children, game>>

\* launch and launch_detached return at once when the lock is taken
Launch(t, kind) ==
    /\ ManagerOf[t] \in up
    /\ lock = NoTask
    /\ lock' = t
    /\ Call(t, kind, "check")
    /\ UNCHANGED up

Status(t) ==
    /\ ManagerOf[t] \in up
    /\ Call(t, "status", "check")
    /\ UNCHANGED <<lock, up>>

Kill(t) ==
    /\ ManagerOf[t] \in up
    /\ Call(t, "kill", "lock")
    /\ UNCHANGED <<lock, up>>

\* the builder reconciles the records before anyone has the CentralCore value
Recover(t) ==
    /\ ManagerOf[t] \notin up
    /\ \A u \in Tasks : ManagerOf[u] = ManagerOf[t] => pc[u] = "idle"
    /\ Call(t, "recover", "read")
    /\ UNCHANGED <<lock, up>>

-----------------------------------------------------------------------------
(***************************************************************************)
(* is_running, called by launch, launch_detached and status; recover does  *)
(* the same to each record without looking at the entries.                 *)
(***************************************************************************)
\* the answer: status returns it, a launch refuses or spawns, the builder is done
Answer(t, running) ==
    /\ IF op[t] \in Launches /\ ~running THEN Continue(t, "spawn") ELSE Return(t)
    /\ up' = IF op[t] = "recover" THEN up \cup {ManagerOf[t]} ELSE up

CheckEntry(t) ==
    /\ pc[t] = "check"
    /\ IF entry[ManagerOf[t]] = NoGame
         THEN Continue(t, "read") /\ UNCHANGED up
         ELSE Answer(t, ~Exited(entry[ManagerOf[t]]))
    /\ UNCHANGED <<alive, fresh, record, children>>

ReadPersisted(t) ==
    /\ pc[t] = "read"
    /\ IF record # NoGame THEN ContinueWith(t, "probe", record) /\ UNCHANGED up
       ELSE IF op[t] = "kill" THEN Return(t) /\ UNCHANGED up
       ELSE Answer(t, FALSE)
    /\ UNCHANGED <<alive, fresh, record, children>>

ProbeProcess(t) ==
    /\ pc[t] = "probe"
    /\ IF game[t] \notin alive THEN Continue(t, "drop") /\ UNCHANGED up
       ELSE IF op[t] = "kill" THEN Continue(t, "stop") /\ UNCHANGED up
       ELSE Answer(t, TRUE)
    /\ UNCHANGED <<alive, fresh, record, children>>

\* remove_file of the state path, whatever it holds by now; only recover minds if
\* somebody removed it before, and then the builder fails
DropRecord(t) ==
    /\ pc[t] = "drop"
    /\ record' = NoGame
    /\ IF op[t] = "kill" \/ (op[t] = "recover" /\ record = NoGame)
         THEN Return(t) /\ UNCHANGED up
         ELSE Answer(t, FALSE)
    /\ UNCHANGED <<alive, fresh, children>>

-----------------------------------------------------------------------------
(***************************************************************************)
(* launch and launch_detached after the check.                             *)
(***************************************************************************)
Spawn(t) ==
    /\ pc[t] = "spawn"
    /\ \E g \in fresh :
         /\ alive' = alive \cup {g}
         /\ fresh' = fresh \ {g}
         /\ ContinueWith(t, "persist", g)
    /\ UNCHANGED <<record, children, up>>

\* nothing was started (also the end of the launches the model allows)
SpawnFails(t) ==
    /\ pc[t] = "spawn"
    /\ IoErrors \/ fresh = {}
    /\ Return(t)
    /\ UNCHANGED <<alive, fresh, record, children, up>>

\* launch cannot canonicalize the executable, or launch_detached cannot persist: the
\* error returns and the child, not killed on drop, runs on
Abandon(t) ==
    /\ IoErrors
    /\ \/ pc[t] = "persist"
       \/ pc[t] = "rename" /\ op[t] = "detached"
    /\ Return(t)
    /\ UNCHANGED <<alive, fresh, record, children, up>>

\* launch cannot persist: it will kill the child and wait for it
PersistFails(t) ==
    /\ IoErrors
    /\ pc[t] \in {"persist", "rename"} /\ op[t] = "attached"
    /\ Continue(t, "undo")
    /\ UNCHANGED <<alive, fresh, record, children, up>>

\* start_kill, whose failure is ignored
Undo(t) ==
    /\ pc[t] = "undo"
    /\ alive' = alive \ {game[t]} \/ (IoErrors /\ UNCHANGED alive)
    /\ Continue(t, "reap")
    /\ UNCHANGED <<fresh, record, children, up>>

\* however long the child takes to end
Reap(t) ==
    /\ pc[t] = "reap"
    /\ game[t] \notin alive
    /\ Return(t)
    /\ UNCHANGED <<alive, fresh, record, children, up>>

\* persist: the old record is removed, then the temporary renamed in
PersistRemove(t) ==
    /\ pc[t] = "persist"
    /\ record' = NoGame
    /\ Continue(t, "rename")
    /\ UNCHANGED <<alive, fresh, children, up>>

PersistRename(t) ==
    /\ pc[t] = "rename"
    /\ record' = game[t]
    /\ IF op[t] = "attached" THEN Continue(t, "insert") ELSE Return(t)
    /\ UNCHANGED <<alive, fresh, children, up>>

\* the entry is published and its monitor spawned
Insert(t) ==
    LET g == game[t]  m == ManagerOf[t] IN
    /\ pc[t] = "insert"
    /\ entry' = [entry EXCEPT ![m] = g]
    /\ monitor' = [monitor EXCEPT ![g] = "wait"]
    /\ host' = [host EXCEPT ![g] = m]
    /\ Return(t)
    /\ UNCHANGED <<alive, fresh, record, killq, up>>

-----------------------------------------------------------------------------
(***************************************************************************)
(* kill.  Its reading, probing and dropping of a record are the steps      *)
(* above; here are the lock, the entry and the forced stop.                *)
(***************************************************************************)
KillLock(t) ==
    /\ pc[t] = "lock"
    /\ lock = NoTask
    /\ lock' = t
    /\ Goto(t, "entry")
    /\ UNCHANGED <<alive, fresh, record, children, op, game, up>>

\* acquire_exclusive gives up after its timeout
KillBusy(t) ==
    /\ pc[t] = "lock"
    /\ lock # NoTask
    /\ Return(t)
    /\ UNCHANGED <<alive, fresh, record, children, up>>

KillEntry(t) ==
    LET g == entry[ManagerOf[t]] IN
    /\ pc[t] = "entry"
    /\ ContinueWith(t, IF g = NoGame THEN "read" ELSE "send", g)
    /\ UNCHANGED <<alive, fresh, record, children, up>>

\* mutant: a closed channel is waited on
KillSendWaits(t) ==
    LET g == game[t] IN
    /\ pc[t] = "send"
    /\ monitor[g] # "done" /\ killq[g] < QueueSize
    /\ killq' = [killq EXCEPT ![g] = @ + 1]
    /\ Return(t)
    /\ UNCHANGED <<alive, fresh, record, entry, monitor, host, up>>

\* the channel takes the command, waits for room, or is closed with the monitor
KillSend(t) ==
    LET g == game[t] IN
    /\ pc[t] = "send"
    /\ \/ /\ monitor[g] # "done" /\ killq[g] < QueueSize
          /\ killq' = [killq EXCEPT ![g] = @ + 1]
       \/ monitor[g] = "done" /\ UNCHANGED killq
    /\ Return(t)
    /\ UNCHANGED <<alive, fresh, record, entry, monitor, host, up>>

\* stop_persisted: the identity is compared once more; a game that went meanwhile is
\* StopFailed and keeps its record
StopPersisted(t) ==
    /\ pc[t] = "stop"
    /\ IF game[t] \in alive THEN Continue(t, "force") ELSE Return(t)
    /\ UNCHANGED <<alive, fresh, record, children, up>>

\* request_forced_stop ends the process or is rejected by the operating system
ForceStop(t) ==
    /\ pc[t] = "force"
    /\ alive' = alive \ {game[t]} \/ (IoErrors /\ UNCHANGED alive)
    /\ Continue(t, "confirm")
    /\ UNCHANGED <<fresh, record, children, up>>

\* mutant: the record goes as soon as the stop has been requested
ConfirmAnyway(t) ==
    /\ pc[t] = "confirm"
    /\ Continue(t, "drop")
    /\ UNCHANGED <<alive, fresh, record, children, up>>

\* the identity has disappeared: the record may go
Confirm(t) ==
    /\ pc[t] = "confirm"
    /\ game[t] \notin alive
    /\ Continue(t, "drop")
    /\ UNCHANGED <<alive, fresh, record, children, up>>

\* five seconds later it is still there: StopFailed
StopTimeout(t) ==
    /\ pc[t] = "confirm"
    /\ game[t] \in alive
    /\ Return(t)
    /\ UNCHANGED <<alive, fresh, record, children, up>>

-----------------------------------------------------------------------------
(***************************************************************************)
(* The monitor of an attached game, and the handle its launcher got.       *)
(***************************************************************************)

\* RunningInstance::kill: no lock, no look at the state
HandleKill(g) ==
    /\ monitor[g] \notin {"none", "done"}
    /\ killq[g] < QueueSize
    /\ killq' = [killq EXCEPT ![g] = @ + 1]
    /\ UNCHANGED <<alive, fresh, record, entry, monitor, host, lock, up, pc, op, game>>

\* mutant: the command is taken from the channel and dropped
MonitorKillLost(g) ==
    /\ monitor[g] = "wait"
    /\ killq[g] > 0
    /\ killq' = [killq EXCEPT ![g] = @ - 1]
    /\ monitor' = [monitor EXCEPT ![g] = "killed"]
    /\ UNCHANGED <<alive, fresh, record, entry, host, lock, up, pc, op, game>>

\* a command arrives: start_kill, whose failure is ignored; then only wait is left, and
\* no later command is received
MonitorKill(g) ==
    /\ monitor[g] = "wait"
    /\ killq[g] > 0
    /\ killq' = [killq EXCEPT ![g] = @ - 1]
    /\ \/ /\ alive' = alive \ {g}
          /\ monitor' = [monitor EXCEPT ![g] = "killed"]
       \/ /\ IoErrors
          /\ monitor' = [monitor EXCEPT ![g] = "refused"]
          /\ UNCHANGED alive
    /\ UNCHANGED <<fresh, record, entry, host, lock, up, pc, op, game>>

\* mutant: the exit status is published when the kill is requested
MonitorExitEarly(g) ==
    /\ \/ monitor[g] \in {"wait", "killed"} /\ g \notin alive
       \/ monitor[g] = "wait" /\ killq[g] > 0
    /\ monitor' = [monitor EXCEPT ![g] = "clean"]
    /\ UNCHANGED <<alive, fresh, record, entry, host, killq, lock, up, pc, op, game>>

\* the child is reaped and its exit status published
MonitorExit(g) ==
    /\ monitor[g] \in {"wait", "killed", "refused"}
    /\ g \notin alive
    /\ monitor' = [monitor EXCEPT ![g] = "clean"]
    /\ UNCHANGED <<alive, fresh, record, entry, host, killq, lock, up, pc, op, game>>

\* the record is removed, whatever it holds by now, and the channel closed
MonitorClean(g) ==
    /\ monitor[g] = "clean"
    /\ record' = NoGame
    /\ monitor' = [monitor EXCEPT ![g] = "done"]
    /\ killq' = [killq EXCEPT ![g] = 0]
    /\ UNCHANGED <<alive, fresh, entry, host, lock, up, pc, op, game>>

-----------------------------------------------------------------------------
(***************************************************************************)
(* The environment.                                                        *)
(***************************************************************************)
\* a player quits, or the game crashes
GameExits(g) ==
    /\ g \in alive
    /\ alive' = alive \ {g}
    /\ UNCHANGED <<fresh, record, children, lock, up, pc, op, game>>

\* the process of a manager ends or is killed: its calls, monitors and entries are gone,
\* the operating system frees its lock and its games run on
Exit(m) ==
    LET mine == {t \in Tasks : ManagerOf[t] = m} IN
    /\ \E t \in mine : pc[t] # "idle" \/ m \in up
    /\ up' = up \ {m}
    /\ pc' = [t \in Tasks |-> IF t \in mine THEN "idle" ELSE pc[t]]
    /\ lock' = IF lock \in mine THEN NoTask ELSE lock
    /\ entry' = [entry EXCEPT ![m] = NoGame]
    /\ monitor' = [g \in Games |-> IF host[g] = m THEN "none" ELSE monitor[g]]
    /\ host' = [g \in Games |-> IF host[g] = m THEN NoManager ELSE host[g]]
    /\ killq' = [g \in Games |-> IF host[g] = m THEN 0 ELSE killq[g]]
    /\ op' = [t \in Tasks |-> IF t \in mine THEN "none" ELSE op[t]]
    /\ game' = [t \in Tasks |-> IF t \in mine THEN NoGame ELSE game[t]]
    /\ UNCHANGED <<alive, fresh, record>>

-----------------------------------------------------------------------------
\* the next step of a call that is in progress
Step(t) ==
    \/ CheckEntry(t) \/ ReadPersisted(t) \/ ProbeProcess(t) \/ DropRecord(t)
    \/ Spawn(t) \/ SpawnFails(t) \/ Abandon(t) \/ PersistFails(t) \/ Undo(t) \/ Reap(t)
    \/ PersistRemove(t) \/ PersistRename(t) \/ Insert(t)
    \/ KillLock(t) \/ KillBusy(t) \/ KillEntry(t) \/ KillSend(t)
    \/ StopPersisted(t) \/ ForceStop(t) \/ Confirm(t) \/ StopTimeout(t)

MonitorStep(g) == MonitorKill(g) \/ MonitorExit(g) \/ MonitorClean(g)

Next ==
    \/ \E t \in Tasks :
         \/ Step(t)
         \/ (\E kind \in Launches : Launch(t, kind)) \/ Status(t) \/ Kill(t) \/ Recover(t)
    \/ \E g \in Games : MonitorStep(g) \/ HandleKill(g) \/ GameExits(g)
    \/ \E m \in Managers : Exit(m)

Spec == Init /\ [][Next]_vars

\* the runtime polls the calls and the monitors; no game is assumed to end
FairSpec ==
    /\ Spec
    /\ \A t \in Tasks : WF_vars(Step(t))
    /\ \A g \in Games : WF_vars(MonitorStep(g))

-----------------------------------------------------------------------------
(***************************************************************************)
(* Properties.                                                             *)
(***************************************************************************)
\* Every variable stays within its type; the channel never overflows.
TypeOK ==
    /\ alive \subseteq Games /\ fresh \subseteq Games
    /\ record \in Games \cup {NoGame}
    /\ entry \in [Managers -> Games \cup {NoGame}]
    /\ monitor \in [Games -> MonitorLabels]
    /\ host \in [Games -> Managers \cup {NoManager}]
    /\ killq \in [Games -> 0..QueueSize]
    /\ lock \in Tasks \cup {NoTask}
    /\ up \subseteq Managers
    /\ pc \in [Tasks -> Labels]
    /\ op \in [Tasks -> Ops]
    /\ game \in [Tasks -> Games \cup {NoGame}]

\* the live games a manager is watching or about to watch
Watched(m) ==
    {g \in alive :
        \/ host[g] = m
        \/ \E t \in Tasks : /\ ManagerOf[t] = m /\ op[t] = "attached"
                            /\ game[t] = g /\ pc[t] \in {"rename", "insert"}}

\* However launches, kills, exits, detached games and other managers interleave, one
\* manager never watches two live games of the instance: the next attached launch passes
\* is_running only when the exit of the last one has been published.
OneWatchedGame == \A m \in Managers : \A g, h \in Watched(m) : g = h

\* the steps that may remove the record of a live game
ReplacedRecordGoes ==
    \/ \E t \in Tasks : /\ DropRecord(t) /\ lock # t
                        /\ game[t] \notin alive /\ game[t] # record
    \/ \E g \in Games : MonitorClean(g) /\ g \notin alive /\ g # record
    \/ \E t \in Tasks : LET m == ManagerOf[t] IN
          PersistRemove(t) /\ entry[m] # NoGame /\ Exited(entry[m]) /\ host[record] # m

\* The record of a live game is removed in two ways only.  The calls and monitors without
\* the lock remove whatever record has replaced that of the dead game they saw (lines 193
\* and 342).  And a launch whose manager still has the entry of an exited game asks no
\* record, so persist removes that of a detached game or of another manager's (line 335
\* with 492).  No probe, confirmed stop or persist under the lock removes another: between
\* the look at a record and its removal nobody can persist a new one.
LiveRecordKept == [][(record \in alive /\ record' # record) => ReplacedRecordGoes]_vars

\* a call that waits for the end of a game the operating system has refused to kill
Stranded(t) ==
    /\ game[t] \in alive
    /\ pc[t] = "reap" \/ (pc[t] = "send" /\ monitor[game[t]] = "refused")

\* Every launch, status, recovery and kill returns: a kill that finds the command queue
\* full holds the process lock until the monitor is through, and not for ever, unless
\* the one signal that was sent has been refused and the game goes on.
CallsReturn == \A t \in Tasks : pc[t] # "idle" ~> (pc[t] = "idle" \/ Stranded(t))

\* A stop command a monitor's channel has accepted ends the game, unless the process
\* that runs the monitor ends first or the operating system refuses the signal: the
\* monitor sends one and receives no further command.
StopsHonoured ==
    \A g \in Games :
        killq[g] > 0 ~> (g \notin alive \/ monitor[g] \in {"none", "refused"})
=============================================================================
