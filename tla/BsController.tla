---------------------------- MODULE BsController ----------------------------
(***************************************************************************)
(* "BS", the pair of a local relay process and the remote worker, as       *)
(* main.py starts, stops and watches it.  start_bs, stop_bs, the pipeline  *)
(* and the install each run in a thread of their own; every relay that was *)
(* started has a thread that watches it.  They share the bs_ fields under  *)
(* bs_lock and, with no lock, the relay process and the console.           *)
(*                                                                         *)
(* An action is one section under the lock, one remote command, or one     *)
(* operation on a process.                                                 *)
(***************************************************************************)
CONSTANTS
  Threads,     \* threads of the user's clicks and jobs (bounds the model)
  Relays,      \* relay processes that exist or are remembered at once (bounds it)
  None,        \* no process
  Faults       \* what may happen in a run, out of FaultKinds

FaultKinds ==
  {"relayExits",   \* a relay ends by itself
   "sshDrops",     \* the SSH transport goes down, and may come back
   "startFails",   \* a tool is missing, an upload or the launch fails
   "killHangs",    \* a relay that is killed stays: the second wait of stop_bs fails, and
                   \* start_bs, which does not wait for its kill, leaves it behind
   "jobs"}         \* installs and pipelines run beside the button

ASSUME BsAssumption == None \notin Relays /\ Faults \subseteq FaultKinds

VARIABLES
  running,       \* bs_running
  busy,          \* bs_busy
  stopRequested, \* bs_stop_requested
  process,       \* bs_process
  alive,         \* the relay processes that run
  worker,        \* TRUE while a sarver runs on the console
  ssh,           \* has_active_ssh()
  tpc,           \* where each thread stands
  job,           \* what it was started for
  mine,          \* its local variable process or relay_process
  wpc            \* where _watch_bs_process stands, for each relay

fields == <<running, busy, stopRequested, process>>
vars == <<fields, alive, worker, ssh, tpc, job, mine, wpc>>

Starting == {"prepare", "spawn", "settle", "launch", "publish", "undo", "terminate", "reset"}
Stopping == {"stopRemote", "stopLocal", "clear", "giveUp"}
Steps == Starting \cup Stopping \cup {"idle", "start", "stop", "watch", "check", "work"}

InProgress(t) == tpc[t] \in Starting \cup Stopping

TypeOK ==
  /\ running \in BOOLEAN /\ busy \in BOOLEAN /\ stopRequested \in BOOLEAN
  /\ process \in Relays \cup {None}
  /\ alive \subseteq Relays
  /\ worker \in BOOLEAN /\ ssh \in BOOLEAN
  /\ tpc \in [Threads -> Steps]
  /\ job \in [Threads -> {"click", "install", "pipeline"}]
  /\ mine \in [Threads -> Relays \cup {None}]
  /\ \A t \in Threads : tpc[t] \in {"settle", "launch", "publish", "watch"} => mine[t] # None
  /\ wpc \in [Relays -> {"off", "watching", "stopping"}]

Init ==
  /\ running = FALSE /\ busy = FALSE /\ stopRequested = FALSE /\ process = None
  /\ alive = {} /\ worker = FALSE /\ ssh = TRUE
  /\ tpc = [t \in Threads |-> "idle"]
  /\ job = [t \in Threads |-> "click"]
  /\ mine = [t \in Threads |-> None]
  /\ wpc = [r \in Relays |-> "off"]

-----------------------------------------------------------------------------
Step(t, from, to) == tpc[t] = from /\ tpc' = [tpc EXCEPT ![t] = to]

SetFields(run, bsy, req, proc) ==
  running' = run /\ busy' = bsy /\ stopRequested' = req /\ process' = proc

ResetFields == SetFields(FALSE, FALSE, FALSE, None)

\* _stop_remote_process("sarver.exe"): every sarver is killed, whoever launched
\* it; without SSH nothing happens, and errors are swallowed.
StopRemoteProcess == worker' = (worker /\ ~ssh)

\* start_bs and stop_bs return: a click is over, as is a pipeline that has started
\* BS; a job that has stopped BS goes on.
Return(t, from, to) ==
  /\ Step(t, from, to)
  /\ mine' = [mine EXCEPT ![t] = None]

AfterStop(t) == IF job[t] = "click" THEN "idle" ELSE "work"

-----------------------------------------------------------------------------
\* start_bs.

StartRefused(t) ==
  /\ busy \/ running
  /\ Return(t, "start", "idle")
  /\ UNCHANGED <<fields, alive, worker, ssh, job, wpc>>

\* Mutant: bs_busy is not looked at.
StartBeginsAnyway(t) ==
  /\ ~running
  /\ Step(t, "start", "prepare")
  /\ SetFields(running, TRUE, FALSE, process)
  /\ UNCHANGED <<alive, worker, ssh, job, mine, wpc>>

StartBegins(t) ==
  /\ ~busy /\ ~running
  /\ Step(t, "start", "prepare")
  /\ SetFields(running, TRUE, FALSE, process)
  /\ UNCHANGED <<alive, worker, ssh, job, mine, wpc>>

\* The local cliant and the remote sarver are made ready; a sarver that runs is
\* stopped so that it can be replaced.
Prepare(t) ==
  /\ StopRemoteProcess
  /\ \/ ssh /\ Step(t, "prepare", "spawn")
     \/ (~ssh \/ "startFails" \in Faults) /\ Step(t, "prepare", "undo")
  /\ UNCHANGED <<fields, alive, ssh, job, mine, wpc>>

\* A process that nobody refers to any more: its place is free for a new one.
Free(r) ==
  /\ r \notin alive /\ process # r /\ wpc[r] = "off"
  /\ \A t \in Threads : mine[t] # r

\* Mutant: the new process is not kept in relay_process.
SpawnForgets(t) ==
  /\ Step(t, "spawn", "settle")
  /\ \E r \in Relays : Free(r) /\ alive' = alive \cup {r}
  /\ UNCHANGED <<fields, worker, ssh, job, mine, wpc>>

Spawn(t) ==
  /\ Step(t, "spawn", "settle")
  /\ \E r \in Relays :
       /\ Free(r)
       /\ alive' = alive \cup {r}
       /\ mine' = [mine EXCEPT ![t] = r]
  /\ UNCHANGED <<fields, worker, ssh, job, wpc>>

\* The relay must live for 0.35 s; then a sarver is stopped again.
Settle(t) ==
  /\ \/ /\ mine[t] \in alive
        /\ Step(t, "settle", "launch")
        /\ StopRemoteProcess
     \/ /\ mine[t] \notin alive
        /\ Step(t, "settle", "undo")
        /\ UNCHANGED worker
  /\ UNCHANGED <<fields, alive, ssh, job, mine, wpc>>

\* Mutant: the exit status of the launch is not looked at.
LaunchUnchecked(t) ==
  /\ worker' \in {worker, worker \/ ssh}
  /\ Step(t, "launch", "publish")
  /\ UNCHANGED <<fields, alive, ssh, job, mine, wpc>>

\* The launch over SSH may fail before or after the sarver runs.
Launch(t) ==
  /\ \/ ssh /\ worker' = TRUE /\ Step(t, "launch", "publish")
     \/ /\ ~ssh \/ "startFails" \in Faults
        /\ worker' \in {worker, worker \/ ssh}
        /\ Step(t, "launch", "undo")
  /\ UNCHANGED <<fields, alive, ssh, job, mine, wpc>>

Publish(t) ==
  /\ Step(t, "publish", "watch")
  /\ SetFields(TRUE, FALSE, FALSE, mine[t])
  /\ UNCHANGED <<alive, worker, ssh, job, mine, wpc>>

\* Mutant: nobody watches the relay.
StartWatchNever(t) ==
  /\ Return(t, "watch", "idle")
  /\ UNCHANGED <<fields, alive, worker, ssh, job, wpc>>

StartWatch(t) ==
  /\ Return(t, "watch", "idle")
  /\ wpc' = [wpc EXCEPT ![mine[t]] = "watching"]
  /\ UNCHANGED <<fields, alive, worker, ssh, job>>

\* Mutant: the sarver is left to poll a relay that ends.
UndoLocalOnly(t) ==
  /\ Step(t, "undo", "terminate")
  /\ UNCHANGED <<fields, alive, worker, ssh, job, mine, wpc>>

\* The except branch: the sarver, the relay, the fields.
Undo(t) ==
  /\ Step(t, "undo", "terminate")
  /\ StopRemoteProcess
  /\ UNCHANGED <<fields, alive, ssh, job, mine, wpc>>

\* Mutant: the relay of a failed start is left running.
TerminateNever(t) ==
  /\ Step(t, "terminate", "reset")
  /\ UNCHANGED <<fields, alive, worker, ssh, job, mine, wpc>>

\* terminate, wait, kill.  Nobody waits for the kill and its errors are swallowed, so
\* the relay may stay (as long as there is room for another, which bounds the model).
Terminate(t) ==
  /\ Step(t, "terminate", "reset")
  /\ \/ alive' = alive \ {mine[t]}
     \/ "killHangs" \in Faults /\ (\E r \in Relays : Free(r)) /\ UNCHANGED alive
  /\ UNCHANGED <<fields, worker, ssh, job, mine, wpc>>

\* Mutant: bs_busy is not reset.
ResetKeepsBusy(t) ==
  /\ Return(t, "reset", "idle")
  /\ SetFields(FALSE, busy, FALSE, None)
  /\ UNCHANGED <<alive, worker, ssh, job, wpc>>

Reset(t) ==
  /\ Return(t, "reset", "idle")
  /\ ResetFields
  /\ UNCHANGED <<alive, worker, ssh, job, wpc>>

StartBs(t) ==
  \/ StartRefused(t) \/ StartBegins(t) \/ Prepare(t) \/ Spawn(t) \/ Settle(t)
  \/ Launch(t) \/ Publish(t) \/ StartWatch(t)
  \/ Undo(t) \/ Terminate(t) \/ Reset(t)

-----------------------------------------------------------------------------
\* stop_bs.

StopRefused(t) ==
  /\ busy
  /\ Return(t, "stop", AfterStop(t))
  /\ UNCHANGED <<fields, alive, worker, ssh, job, wpc>>

StopBegins(t) ==
  /\ ~busy
  /\ Step(t, "stop", "stopRemote")
  /\ mine' = [mine EXCEPT ![t] = process]
  /\ SetFields(running, TRUE, TRUE, process)
  /\ UNCHANGED <<alive, worker, ssh, job, wpc>>

StopRemote(t) ==
  /\ Step(t, "stopRemote", "stopLocal")
  /\ StopRemoteProcess
  /\ UNCHANGED <<fields, alive, ssh, job, mine, wpc>>

\* terminate, wait, kill, wait: the relay ends, or the second wait fails too.
StopLocal(t) ==
  /\ \/ Step(t, "stopLocal", "clear") /\ alive' = alive \ {mine[t]}
     \/ /\ "killHangs" \in Faults /\ mine[t] \in alive
        /\ Step(t, "stopLocal", "giveUp") /\ UNCHANGED alive
  /\ UNCHANGED <<fields, worker, ssh, job, mine, wpc>>

Clear(t) ==
  /\ Return(t, "clear", AfterStop(t))
  /\ \/ process = mine[t] /\ ResetFields
     \/ process # mine[t] /\ UNCHANGED fields
  /\ UNCHANGED <<alive, worker, ssh, job, wpc>>

\* Mutant: bs_busy is not reset.
StopGivesUpBusy(t) ==
  /\ Return(t, "giveUp", AfterStop(t))
  /\ UNCHANGED <<fields, alive, worker, ssh, job, wpc>>

StopGivesUp(t) ==
  /\ Return(t, "giveUp", AfterStop(t))
  /\ SetFields(running, FALSE, stopRequested, process)
  /\ UNCHANGED <<alive, worker, ssh, job, wpc>>

StopBs(t) ==
  \/ StopRefused(t) \/ StopBegins(t) \/ StopRemote(t) \/ StopLocal(t)
  \/ Clear(t) \/ StopGivesUp(t)

-----------------------------------------------------------------------------
\* The other threads.

\* _watch_bs_process: the relay's output has ended and the process with it.
RelayEnded(r) ==
  /\ wpc[r] = "watching" /\ r \notin alive
  /\ \/ /\ process = r
        /\ wpc' = [wpc EXCEPT ![r] = IF stopRequested THEN "off" ELSE "stopping"]
        /\ ResetFields
     \/ /\ process # r
        /\ wpc' = [wpc EXCEPT ![r] = "off"]
        /\ UNCHANGED fields
  /\ UNCHANGED <<alive, worker, ssh, tpc, job, mine>>

WatcherStops(r) ==
  /\ wpc[r] = "stopping"
  /\ wpc' = [wpc EXCEPT ![r] = "off"]
  /\ StopRemoteProcess
  /\ UNCHANGED <<fields, alive, ssh, tpc, job, mine>>

WatchBsProcess(r) == RelayEnded(r) \/ WatcherStops(r)

\* can_toggle_bs: BS can be started while no job is at work.
CanToggle ==
  /\ ~busy
  /\ running \/ (ssh /\ \A t \in Threads : tpc[t] = "idle" \/ job[t] = "click")

\* The button, and close() for a BS that runs: a thread for stop_bs or start_bs.
Click(t) ==
  /\ CanToggle
  /\ Step(t, "idle", IF running THEN "stop" ELSE "start")
  /\ job' = [job EXCEPT ![t] = "click"]
  /\ UNCHANGED <<fields, alive, worker, ssh, mine, wpc>>

\* install_package and _build_triangle_cpp_impl begin ...
JobBegins(t) ==
  /\ "jobs" \in Faults /\ ssh
  /\ Step(t, "idle", "check")
  /\ \E j \in {"install", "pipeline"} : job' = [job EXCEPT ![t] = j]
  /\ UNCHANGED <<fields, alive, worker, ssh, mine, wpc>>

\* ... and stop BS if it runs when they look, else any sarver.
JobStopsBs(t) ==
  /\ \/ running /\ Step(t, "check", "stop") /\ UNCHANGED worker
     \/ ~running /\ Step(t, "check", AfterStop(t)) /\ StopRemoteProcess
  /\ UNCHANGED <<fields, alive, ssh, job, mine, wpc>>

\* The rest of a job, which may kill the sarver (the install before it wipes the
\* remote folder, the pipeline before it replaces the sarver), fail, or end.  The
\* pipeline goes on to start BS, after an install if there is no sarver.
Work(t) ==
  /\ \/ Step(t, "work", "idle")
     \/ job[t] = "pipeline" /\ Step(t, "work", "start")
     \/ job[t] = "pipeline" /\ Step(t, "work", "check")
  /\ UNCHANGED worker \/ StopRemoteProcess
  /\ UNCHANGED <<fields, alive, ssh, job, mine, wpc>>

RelayExits(r) ==
  /\ "relayExits" \in Faults
  /\ r \in alive
  /\ alive' = alive \ {r}
  /\ UNCHANGED <<fields, worker, ssh, tpc, job, mine, wpc>>

SshChanges ==
  /\ "sshDrops" \in Faults
  /\ ssh' = ~ssh
  /\ UNCHANGED <<fields, alive, worker, tpc, job, mine, wpc>>

-----------------------------------------------------------------------------
ThreadStep(t) == StartBs(t) \/ StopBs(t) \/ JobStopsBs(t) \/ Work(t)

Next ==
  \/ \E t \in Threads : ThreadStep(t) \/ Click(t) \/ JobBegins(t)
  \/ \E r \in Relays : WatchBsProcess(r) \/ RelayExits(r)
  \/ SshChanges

\* Threads run; their remote commands and uploads return.
Fairness ==
  /\ \A t \in Threads : WF_vars(ThreadStep(t))
  /\ \A r \in Relays : WF_vars(WatchBsProcess(r))

Spec == Init /\ [][Next]_vars /\ Fairness

-----------------------------------------------------------------------------
\* Safety.

\* Two relays would fight for one port: at most one runs, though stops, starts,
\* watchers and jobs overlap.
OneRelay == \A r, q \in alive : r = q

\* No relay process is forgotten: one that runs is the published one, which the
\* button and close() can stop, or in the hands of the start_bs that spawned it.
RelayIsKnown ==
  \A r \in alive :
    \/ running /\ process = r
    \/ \E t \in Threads : tpc[t] \in Starting /\ mine[t] = r

\* BS is never left busy, which would disable the button for good: some start_bs
\* or stop_bs is still going to reset the field.
BusyIsOwned == busy => \E t \in Threads : InProgress(t)

\* No sarver is left on the console to poll a relay that is gone: while one runs,
\* BS is running or a thread is about to stop it (start_bs in its except branch,
\* stop_bs, the watcher).
WorkerIsWanted ==
  worker =>
    \/ running
    \/ \E t \in Threads : tpc[t] \in Starting \cup {"stopRemote"}
    \/ \E r \in Relays : wpc[r] = "stopping"

\* What the button shows as running does run, on both sides, as long as nobody else
\* stops it: a stop that gives up, which leaves its request standing, is the only
\* way to keep a relay without its sarver.
RunningIsWhole == running /\ ~busy /\ ~stopRequested => process \in alive /\ worker

-----------------------------------------------------------------------------
\* Liveness.

\* A start or a stop ends, and the button can be used again.
BusyEnds == busy ~> ~busy

\* A relay that ends is noticed, whether by itself or stopped, and even if it ends
\* before its watcher is started.
DeadRelayIsNoticed ==
  \A r \in Relays : process = r /\ r \notin alive ~> process # r \/ r \in alive

-----------------------------------------------------------------------------
\* A statement of main.py that the code does not keep.

\* "BS start/stop already in progress.": one start_bs or stop_bs at a time.
OneAtATime == \A t, u \in Threads : InProgress(t) /\ InProgress(u) => t = u
=============================================================================
