----------------------------- MODULE BsProofs -----------------------------
(***************************************************************************)
(* Proofs about BsController, for all sets of threads and relays: the      *)
(* types, and that BS is never busy without somebody at work; where a kill *)
(* succeeds, that no relay is forgotten and that two never run; and when   *)
(* the sarver is wanted and the shown state is the real one.               *)
(***************************************************************************)
EXTENDS BsController, TLAPS

-----------------------------------------------------------------------------
\* Types.

\* Every step of a start keeps the types.
LEMMA TypeStart ==
  ASSUME TypeOK, NEW t \in Threads, StartBs(t)
  PROVE  TypeOK'
<1> USE BsAssumption
    DEF TypeOK, Step, Steps, Starting, Stopping, fields, SetFields, ResetFields,
        Return, StopRemoteProcess
<1>1. CASE StartRefused(t)  BY <1>1 DEF StartRefused
<1>2. CASE StartBegins(t)   BY <1>2 DEF StartBegins
<1>3. CASE Prepare(t)       BY <1>3 DEF Prepare
<1>4. CASE Spawn(t)         BY <1>4 DEF Spawn, Free
<1>5. CASE Settle(t)        BY <1>5 DEF Settle
<1>6. CASE Launch(t)        BY <1>6 DEF Launch
<1>7. CASE Publish(t)       BY <1>7 DEF Publish
<1>8. CASE StartWatch(t)    BY <1>8 DEF StartWatch
<1>9. CASE Undo(t)          BY <1>9 DEF Undo
<1>10. CASE Terminate(t)    BY <1>10 DEF Terminate
<1>11. CASE Reset(t)        BY <1>11 DEF Reset
<1>. QED
  BY <1>1, <1>2, <1>3, <1>4, <1>5, <1>6, <1>7, <1>8, <1>9, <1>10, <1>11 DEF StartBs

\* So does every step of a stop, ...
LEMMA TypeStop ==
  ASSUME TypeOK, NEW t \in Threads, StopBs(t)
  PROVE  TypeOK'
<1> USE BsAssumption
    DEF TypeOK, Step, Steps, Starting, Stopping, fields, SetFields, ResetFields,
        Return, StopRemoteProcess, AfterStop
<1>1. CASE StopRefused(t)  BY <1>1 DEF StopRefused
<1>2. CASE StopBegins(t)   BY <1>2 DEF StopBegins
<1>3. CASE StopRemote(t)   BY <1>3 DEF StopRemote
<1>4. CASE StopLocal(t)    BY <1>4 DEF StopLocal
<1>5. CASE Clear(t)        BY <1>5 DEF Clear
<1>6. CASE StopGivesUp(t)  BY <1>6 DEF StopGivesUp
<1>. QED  BY <1>1, <1>2, <1>3, <1>4, <1>5, <1>6 DEF StopBs

\* ... of a job or a click, ...
LEMMA TypeCaller ==
  ASSUME TypeOK, NEW t \in Threads, JobStopsBs(t) \/ Work(t) \/ Click(t) \/ JobBegins(t)
  PROVE  TypeOK'
<1> USE BsAssumption
    DEF TypeOK, Step, Steps, Starting, Stopping, fields, StopRemoteProcess, AfterStop
<1>1. CASE JobStopsBs(t)  BY <1>1 DEF JobStopsBs
<1>2. CASE Work(t)        BY <1>2 DEF Work
<1>3. CASE Click(t)       BY <1>3 DEF Click
<1>4. CASE JobBegins(t)   BY <1>4 DEF JobBegins
<1>. QED  BY <1>1, <1>2, <1>3, <1>4

\* ... of a watcher, and of the environment.
LEMMA TypeOther ==
  ASSUME TypeOK, SshChanges \/ \E r \in Relays : WatchBsProcess(r) \/ RelayExits(r)
  PROVE  TypeOK'
<1> USE BsAssumption DEF TypeOK, fields, SetFields, ResetFields, StopRemoteProcess
<1>1. CASE SshChanges  BY <1>1 DEF SshChanges
<1>2. ASSUME NEW r \in Relays, RelayEnded(r) PROVE TypeOK'
  BY <1>2 DEF RelayEnded
<1>3. ASSUME NEW r \in Relays, WatcherStops(r) PROVE TypeOK'
  BY <1>3 DEF WatcherStops
<1>4. ASSUME NEW r \in Relays, RelayExits(r) PROVE TypeOK'
  BY <1>4 DEF RelayExits
<1>. QED  BY <1>1, <1>2, <1>3, <1>4 DEF WatchBsProcess

\* The fields, the process table and the program counters keep their types, and a
\* start that has spawned a relay knows it, up to the thread that watches it.
THEOREM TypeCorrect == Spec => []TypeOK
<1>1. ASSUME Init PROVE TypeOK
  <2>1. tpc \in [Threads -> Steps] /\ \A t \in Threads : tpc[t] = "idle"
    BY <1>1 DEF Init, Steps
  <2>2. mine \in [Threads -> Relays \cup {None}]
    BY <1>1 DEF Init
  <2>3. wpc \in [Relays -> {"off", "watching", "stopping"}]
    BY <1>1 DEF Init
  <2>4. job \in [Threads -> {"click", "install", "pipeline"}]
    BY <1>1 DEF Init
  <2>. QED  BY <1>1, <2>1, <2>2, <2>3, <2>4, Zenon DEF Init, TypeOK
<1>2. ASSUME TypeOK, [Next]_vars PROVE TypeOK'
  <2>1. CASE UNCHANGED vars  BY <1>2, <2>1 DEF TypeOK, vars, fields
  <2>2. ASSUME NEW t \in Threads, ThreadStep(t) \/ Click(t) \/ JobBegins(t)
        PROVE TypeOK'
    BY <1>2, <2>2, TypeStart, TypeStop, TypeCaller DEF ThreadStep
  <2>3. CASE SshChanges \/ \E r \in Relays : WatchBsProcess(r) \/ RelayExits(r)
    BY <1>2, <2>3, TypeOther
  <2>. QED  BY <1>2, <2>1, <2>2, <2>3 DEF Next
<1>. QED  BY <1>1, <1>2, PTL DEF Spec
-----------------------------------------------------------------------------
\* The inductive invariant, where no relay that a stop has failed to kill ends later:
\* a killed relay ends at once, or none ends by itself.

NoLateEnd == "killHangs" \notin Faults \/ "relayExits" \notin Faults

Holding == Stopping \cup {"settle", "launch", "publish", "watch", "undo", "terminate", "reset"}

\* The thread that will reset bs_busy: the start in progress, or the stop that has
\* read the bs_process of now.  A stop whose relay the watcher has cleared is none.
Owns(t) == tpc[t] \in Starting \/ (tpc[t] \in Stopping /\ mine[t] = process)

\* BS is busy just while one thread owns it.
OwnerInv ==
  /\ \A t \in Threads : Owns(t) => busy
  /\ busy => \E t \in Threads : Owns(t)
  /\ \A t, u \in Threads : Owns(t) /\ Owns(u) => t = u

\* bs_running goes with bs_process, and a start has neither.
FieldsInv ==
  /\ running <=> process # None
  /\ \A t \in Threads : tpc[t] \in Starting => process = None

\* Who holds a process: a stop that has none met no bs_process, and never the one
\* of a start; what is about to be forgotten has ended (or, in a start, hangs), and what
\* a stop gives up has not.  The bs_process a stop has read stays that until it ends.
HandsInv ==
  /\ \A t \in Threads :
       /\ tpc[t] \notin Holding => mine[t] = None
       /\ tpc[t] = "clear" => mine[t] \notin alive
       /\ tpc[t] = "reset" => "killHangs" \in Faults \/ mine[t] \notin alive
       /\ tpc[t] = "giveUp" =>
            "killHangs" \in Faults /\ "relayExits" \notin Faults /\ mine[t] \in alive
       /\ tpc[t] \in Stopping /\ mine[t] = None => process = None
       /\ tpc[t] \in Stopping /\ mine[t] \in alive => mine[t] = process
  /\ \A t, u \in Threads :
       tpc[t] \in Starting /\ tpc[u] \in Stopping /\ mine[t] = mine[u] => mine[t] = None

\* Only a kill that hangs lets a start forget its relay.
KnownInv == "killHangs" \in Faults \/ RelayIsKnown

BsInv == TypeOK /\ OwnerInv /\ FieldsInv /\ HandsInv /\ KnownInv

\* With no thread in a start or a stop and no process known, every part holds.
LEMMA InvInit == Init => OwnerInv /\ FieldsInv /\ HandsInv /\ KnownInv
  BY BsAssumption
  DEF Init, Owns, OwnerInv, FieldsInv, HandsInv, KnownInv, RelayIsKnown, Starting, Stopping, Holding

\* Every step of a start keeps the invariant.
LEMMA InvStart ==
  ASSUME BsInv, TypeOK', NEW t \in Threads, StartBs(t)
  PROVE  OwnerInv' /\ FieldsInv' /\ HandsInv' /\ KnownInv'
<1> USE BsAssumption
    DEF BsInv, TypeOK, OwnerInv, FieldsInv, HandsInv, KnownInv, RelayIsKnown, Owns, Starting,
        Stopping, Holding, Step, fields, SetFields, ResetFields, Return
<1>1. CASE StartRefused(t)  BY <1>1 DEF StartRefused
<1>2. CASE StartBegins(t)   BY <1>2 DEF StartBegins
<1>3. CASE Prepare(t)       BY <1>3 DEF Prepare
<1>4. CASE Spawn(t)         BY <1>4 DEF Spawn, Free
<1>5. CASE Settle(t)        BY <1>5 DEF Settle
<1>6. CASE Launch(t)        BY <1>6 DEF Launch
<1>7. CASE Publish(t)       BY <1>7 DEF Publish
<1>8. CASE StartWatch(t)    BY <1>8 DEF StartWatch
<1>9. CASE Undo(t)          BY <1>9 DEF Undo
<1>10. CASE Terminate(t)    BY <1>10 DEF Terminate, Free
<1>11. CASE Reset(t)        BY <1>11 DEF Reset
<1>. QED
  BY <1>1, <1>2, <1>3, <1>4, <1>5, <1>6, <1>7, <1>8, <1>9, <1>10, <1>11 DEF StartBs

\* Every step of a stop keeps it; one that gives up leaves the relay to the next.
LEMMA InvStop ==
  ASSUME NoLateEnd, BsInv, TypeOK', NEW t \in Threads, StopBs(t)
  PROVE  OwnerInv' /\ FieldsInv' /\ HandsInv' /\ KnownInv'
<1> USE BsAssumption
    DEF BsInv, TypeOK, OwnerInv, FieldsInv, HandsInv, KnownInv, RelayIsKnown, Owns, Starting,
        Stopping, Holding, Step, fields, SetFields, ResetFields, Return, AfterStop, NoLateEnd
<1>1. CASE StopRefused(t)  BY <1>1 DEF StopRefused
<1>2. CASE StopBegins(t)   BY <1>2 DEF StopBegins
<1>3. CASE StopRemote(t)   BY <1>3 DEF StopRemote
<1>4. CASE StopLocal(t)
  <2>1. OwnerInv' /\ FieldsInv'  BY <1>4 DEF StopLocal
  <2>2. HandsInv'  BY <1>4 DEF StopLocal
  <2>3. KnownInv'  BY <1>4 DEF StopLocal
  <2>. QED  BY <2>1, <2>2, <2>3
<1>5. CASE Clear(t)        BY <1>5 DEF Clear
<1>6. CASE StopGivesUp(t)
  <2>1. OwnerInv'  BY <1>6 DEF StopGivesUp
  <2>2. FieldsInv' /\ HandsInv'  BY <1>6 DEF StopGivesUp
  <2>3. KnownInv'  BY <1>6 DEF StopGivesUp
  <2>. QED  BY <2>1, <2>2, <2>3
<1>. QED  BY <1>1, <1>2, <1>3, <1>4, <1>5, <1>6 DEF StopBs

\* Callers move between steps that hold nothing.
LEMMA InvCaller ==
  ASSUME BsInv, TypeOK', NEW t \in Threads,
         JobStopsBs(t) \/ Work(t) \/ Click(t) \/ JobBegins(t)
  PROVE  OwnerInv' /\ FieldsInv' /\ HandsInv' /\ KnownInv'
<1> USE BsAssumption
    DEF BsInv, TypeOK, OwnerInv, FieldsInv, HandsInv, KnownInv, RelayIsKnown, Owns, Starting,
        Stopping, Holding, Step, fields, AfterStop
<1>1. CASE JobStopsBs(t)  BY <1>1 DEF JobStopsBs
<1>2. CASE Work(t)        BY <1>2 DEF Work
<1>3. CASE Click(t)       BY <1>3 DEF Click
<1>4. CASE JobBegins(t)   BY <1>4 DEF JobBegins
<1>. QED  BY <1>1, <1>2, <1>3, <1>4

\* A watcher clears the fields of a relay that has ended, beside a stop at most.
LEMMA InvOther ==
  ASSUME BsInv, TypeOK', SshChanges \/ \E r \in Relays : WatchBsProcess(r) \/ RelayExits(r)
  PROVE  OwnerInv' /\ FieldsInv' /\ HandsInv' /\ KnownInv'
<1> USE BsAssumption
    DEF BsInv, TypeOK, OwnerInv, FieldsInv, HandsInv, KnownInv, RelayIsKnown, Owns, Starting,
        Stopping, Holding, fields, SetFields, ResetFields
<1>1. CASE SshChanges  BY <1>1 DEF SshChanges
<1>2. ASSUME NEW r \in Relays, RelayEnded(r)
      PROVE  OwnerInv' /\ FieldsInv' /\ HandsInv' /\ KnownInv'
  BY <1>2 DEF RelayEnded
<1>3. ASSUME NEW r \in Relays, WatcherStops(r)
      PROVE  OwnerInv' /\ FieldsInv' /\ HandsInv' /\ KnownInv'
  BY <1>3 DEF WatcherStops
<1>4. ASSUME NEW r \in Relays, RelayExits(r)
      PROVE  OwnerInv' /\ FieldsInv' /\ HandsInv' /\ KnownInv'
  BY <1>4 DEF RelayExits
<1>. QED  BY <1>1, <1>2, <1>3, <1>4 DEF WatchBsProcess

\* Where no relay ends late, BS has one owner while it is busy and none otherwise,
\* and every relay that runs is published or in the hands of its start, unless the kill
\* of a start has failed.
THEOREM BsInvariant ==
  ASSUME NoLateEnd
  PROVE  Spec => []BsInv
<1>1. Init => OwnerInv /\ FieldsInv /\ HandsInv /\ KnownInv
  BY InvInit
<1>2. ASSUME BsInv, TypeOK', [Next]_vars
      PROVE  OwnerInv' /\ FieldsInv' /\ HandsInv' /\ KnownInv'
  <2>1. CASE UNCHANGED vars
    BY <1>2, <2>1 DEF vars, fields, BsInv, OwnerInv, FieldsInv, HandsInv, KnownInv, RelayIsKnown, Owns
  <2>2. ASSUME NEW t \in Threads, ThreadStep(t) \/ Click(t) \/ JobBegins(t)
        PROVE OwnerInv' /\ FieldsInv' /\ HandsInv' /\ KnownInv'
    BY <1>2, <2>2, InvStart, InvStop, InvCaller DEF ThreadStep
  <2>3. CASE SshChanges \/ \E r \in Relays : WatchBsProcess(r) \/ RelayExits(r)
    BY <1>2, <2>3, InvOther
  <2>. QED  BY <1>2, <2>1, <2>2, <2>3 DEF Next
<1>3. Spec => []TypeOK  BY TypeCorrect
<1>. QED  BY <1>1, <1>2, <1>3, PTL DEF Spec, BsInv

\* BS is never left busy: a start or a stop is at work that will reset bs_busy, also
\* after a watcher has cleared it beside a stop (main.py:833), and whatever relays do
\* when they are killed.  Every section that changes bs_process resets bs_busy with it,
\* so the stop that has set it still finds the process it has read.
THEOREM BusyStaysOwned == Spec => []BusyIsOwned
<1> DEFINE Owned == busy => \E t \in Threads : Owns(t)
<1>1. Init => Owned
  BY DEF Init
<1>2. ASSUME TypeOK, Owned, [Next]_vars PROVE Owned'
  <2> USE DEF TypeOK, Owns, Starting, Stopping, Step, fields, SetFields, ResetFields, Return
  <2>1. CASE UNCHANGED vars
    BY <1>2, <2>1 DEF vars
  <2>2. ASSUME NEW t \in Threads, StartBs(t) PROVE Owned'
    <3>1. CASE StartRefused(t)  BY <1>2, <3>1 DEF StartRefused
    <3>2. CASE StartBegins(t)   BY <1>2, <3>2 DEF StartBegins
    <3>3. CASE Prepare(t)       BY <1>2, <3>3 DEF Prepare
    <3>4. CASE Spawn(t)         BY <1>2, <3>4 DEF Spawn
    <3>5. CASE Settle(t)        BY <1>2, <3>5 DEF Settle
    <3>6. CASE Launch(t)        BY <1>2, <3>6 DEF Launch
    <3>7. CASE Publish(t)       BY <1>2, <3>7 DEF Publish
    <3>8. CASE StartWatch(t)    BY <1>2, <3>8 DEF StartWatch
    <3>9. CASE Undo(t)          BY <1>2, <3>9 DEF Undo
    <3>10. CASE Terminate(t)    BY <1>2, <3>10 DEF Terminate
    <3>11. CASE Reset(t)        BY <1>2, <3>11 DEF Reset
    <3>. QED
      BY <2>2, <3>1, <3>2, <3>3, <3>4, <3>5, <3>6, <3>7, <3>8, <3>9, <3>10, <3>11 DEF StartBs
  <2>3. ASSUME NEW t \in Threads, StopBs(t) PROVE Owned'
    <3>1. CASE StopRefused(t)  BY <1>2, <3>1 DEF StopRefused, AfterStop
    <3>2. CASE StopBegins(t)   BY <1>2, <3>2 DEF StopBegins
    <3>3. CASE StopRemote(t)   BY <1>2, <3>3 DEF StopRemote
    <3>4. CASE StopLocal(t)    BY <1>2, <3>4 DEF StopLocal
    <3>5. CASE Clear(t)        BY <1>2, <3>5 DEF Clear, AfterStop
    <3>6. CASE StopGivesUp(t)  BY <1>2, <3>6 DEF StopGivesUp
    <3>. QED
      BY <2>3, <3>1, <3>2, <3>3, <3>4, <3>5, <3>6 DEF StopBs
  <2>4. ASSUME NEW t \in Threads, JobStopsBs(t) \/ Work(t) \/ Click(t) \/ JobBegins(t)
        PROVE  Owned'
    BY <1>2, <2>4 DEF JobStopsBs, Work, Click, JobBegins, AfterStop
  <2>5. CASE SshChanges \/ \E r \in Relays : WatchBsProcess(r) \/ RelayExits(r)
    BY <1>2, <2>5 DEF SshChanges, WatchBsProcess, RelayEnded, WatcherStops, RelayExits
  <2>. QED  BY <1>2, <2>1, <2>2, <2>3, <2>4, <2>5 DEF Next, ThreadStep
<1>3. Owned => BusyIsOwned
  BY DEF BusyIsOwned, InProgress, Owns
<1>. QED  BY <1>1, <1>2, <1>3, TypeCorrect, PTL DEF Spec

\* No relay process is forgotten by starts that fail, stops or watchers, if kills succeed:
\* a start that fails does not look whether its kill did (main.py:917).
THEOREM RelaysStayKnown ==
  ASSUME "killHangs" \notin Faults
  PROVE  Spec => []RelayIsKnown
<1>1. BsInv => RelayIsKnown  BY DEF BsInv, KnownInv
<1>2. NoLateEnd  BY DEF NoLateEnd
<1>. QED  BY <1>1, <1>2, BsInvariant, PTL

\* Two relays never run at once, whatever starts, stops, jobs and watchers
\* overlap, if kills succeed.
THEOREM OneRelayRuns ==
  ASSUME "killHangs" \notin Faults
  PROVE  Spec => []OneRelay
<1>1. ASSUME BsInv, NEW r \in alive, NEW q \in alive PROVE r = q
  <2>1. CASE running
    BY <1>1, <2>1 DEF BsInv, FieldsInv, KnownInv, RelayIsKnown
  <2>2. CASE ~running
    <3>1. PICK t \in Threads : tpc[t] \in Starting /\ mine[t] = r
      BY <1>1, <2>2 DEF BsInv, KnownInv, RelayIsKnown
    <3>2. PICK u \in Threads : tpc[u] \in Starting /\ mine[u] = q
      BY <1>1, <2>2 DEF BsInv, KnownInv, RelayIsKnown
    <3>3. t = u  BY <1>1, <3>1, <3>2 DEF BsInv, OwnerInv, Owns
    <3>. QED  BY <3>1, <3>2, <3>3
  <2>. QED  BY <2>1, <2>2
<1>2. BsInv => OneRelay  BY <1>1 DEF OneRelay
<1>3. NoLateEnd  BY DEF NoLateEnd
<1>. QED  BY <1>2, <1>3, BsInvariant, PTL

-----------------------------------------------------------------------------
\* The sarver, where SSH stays up besides.

\* A request to stop is one of a stop that will clear the fields, or of one that has
\* given up after it had killed the sarver; a start has taken it back.
SentInv ==
  /\ stopRequested =>
       ~worker \/ \E t \in Threads : tpc[t] \in Stopping /\ mine[t] = process
  /\ \A t \in Threads : tpc[t] \in Starting => ~stopRequested

\* A stop that has passed its remote command, or a start that has failed and undone
\* its launch, has left no sarver.
StoppedInv ==
  \A t \in Threads :
    /\ tpc[t] \in {"stopLocal", "clear", "giveUp"} /\ mine[t] = process /\ process # None => ~worker
    /\ tpc[t] \in {"terminate", "reset"} => ~worker

\* A relay has no watcher until the one thread that has spawned it starts one.
Spawned(t) == tpc[t] \in Starting \cup {"watch"} /\ mine[t] # None

FreshInv ==
  \A t \in Threads : Spawned(t) =>
    /\ wpc[mine[t]] = "off"
    /\ \A u \in Threads : Spawned(u) /\ mine[u] = mine[t] => u = t

SarverInv == ssh /\ FreshInv /\ SentInv /\ StoppedInv /\ WorkerIsWanted

\* A start launches a sarver only to publish or undo it.
LEMMA SarverStart ==
  ASSUME BsInv, SarverInv, NEW t \in Threads, StartBs(t)
  PROVE  SarverInv'
<1> USE BsAssumption
    DEF BsInv, TypeOK, OwnerInv, FieldsInv, HandsInv, Owns, SarverInv, Spawned, FreshInv,
        SentInv, StoppedInv, WorkerIsWanted, Starting, Stopping, Holding, Step, fields, SetFields, ResetFields,
        StopRemoteProcess, Return
<1>1. CASE StartRefused(t)  BY <1>1 DEF StartRefused
<1>2. CASE StartBegins(t)   BY <1>2 DEF StartBegins
<1>3. CASE Prepare(t)       BY <1>3 DEF Prepare
<1>4. CASE Spawn(t)         BY <1>4 DEF Spawn, Free
<1>5. CASE Settle(t)        BY <1>5 DEF Settle
<1>6. CASE Launch(t)        BY <1>6 DEF Launch
<1>7. CASE Publish(t)       BY <1>7 DEF Publish
<1>8. CASE StartWatch(t)    BY <1>8 DEF StartWatch
<1>9. CASE Undo(t)          BY <1>9 DEF Undo
<1>10. CASE Terminate(t)    BY <1>10 DEF Terminate
<1>11. CASE Reset(t)        BY <1>11 DEF Reset
<1>. QED
  BY <1>1, <1>2, <1>3, <1>4, <1>5, <1>6, <1>7, <1>8, <1>9, <1>10, <1>11 DEF StartBs

\* A stop clears the fields after the sarver is gone.
LEMMA SarverCaller ==
  ASSUME BsInv, SarverInv, NEW t \in Threads,
         StopBs(t) \/ JobStopsBs(t) \/ Work(t) \/ Click(t) \/ JobBegins(t)
  PROVE  SarverInv'
<1> USE BsAssumption
    DEF BsInv, TypeOK, OwnerInv, FieldsInv, HandsInv, Owns, SarverInv, Spawned, FreshInv,
        SentInv, StoppedInv, WorkerIsWanted, Starting, Stopping, Holding, Step, fields,
        SetFields, ResetFields, StopRemoteProcess, Return, AfterStop
<1>1. CASE StopRefused(t)  BY <1>1 DEF StopRefused
<1>2. CASE StopBegins(t)   BY <1>2 DEF StopBegins
<1>3. CASE StopRemote(t)
  <2>1. ~worker'  BY <1>3 DEF StopRemote
  <2>2. FreshInv'  BY <1>3 DEF StopRemote
  <2>3. ssh' /\ SentInv'  BY <1>3 DEF StopRemote
  <2>. QED  BY <2>1, <2>2, <2>3
<1>4. CASE StopLocal(t)    BY <1>4 DEF StopLocal
<1>5. CASE Clear(t)        BY <1>5 DEF Clear
<1>6. CASE StopGivesUp(t)  BY <1>6 DEF StopGivesUp
<1>7. CASE JobStopsBs(t)   BY <1>7 DEF JobStopsBs
<1>8. CASE Work(t)         BY <1>8 DEF Work
<1>9. CASE Click(t)        BY <1>9 DEF Click
<1>10. CASE JobBegins(t)   BY <1>10 DEF JobBegins
<1>. QED  BY <1>1, <1>2, <1>3, <1>4, <1>5, <1>6, <1>7, <1>8, <1>9, <1>10 DEF StopBs

\* A watcher whose relay has ended under a stop leaves the sarver to that stop.
LEMMA SarverOther ==
  ASSUME "sshDrops" \notin Faults, BsInv, SarverInv,
         SshChanges \/ \E r \in Relays : WatchBsProcess(r) \/ RelayExits(r)
  PROVE  SarverInv'
<1> USE BsAssumption
    DEF BsInv, TypeOK, OwnerInv, FieldsInv, HandsInv, Owns, SarverInv, Spawned, FreshInv,
        SentInv, StoppedInv, WorkerIsWanted, Starting, Stopping, fields, SetFields, ResetFields, StopRemoteProcess
<1>1. CASE SshChanges  BY <1>1 DEF SshChanges
<1>2. ASSUME NEW r \in Relays, RelayEnded(r) PROVE SarverInv'
  <2>1. CASE process # r  BY <1>2, <2>1 DEF RelayEnded
  <2>2. CASE process = r /\ ~stopRequested  BY <1>2, <2>2 DEF RelayEnded
  <2>3. CASE process = r /\ stopRequested
    <3>1. CASE ~worker  BY <1>2, <2>3, <3>1 DEF RelayEnded
    <3>2. CASE \E t \in Threads : tpc[t] \in Stopping /\ mine[t] = process
      <4>1. PICK t \in Threads : tpc[t] \in Stopping /\ mine[t] = process
        BY <3>2
      <4>2. tpc[t] = "stopRemote" \/ ~worker
        BY <2>3, <4>1
      <4>. QED  BY <1>2, <2>3, <4>2 DEF RelayEnded
    <3>. QED  BY <2>3, <3>1, <3>2
  <2>. QED  BY <2>1, <2>2, <2>3
<1>3. ASSUME NEW r \in Relays, WatcherStops(r) PROVE SarverInv'
  BY <1>3 DEF WatcherStops
<1>4. ASSUME NEW r \in Relays, RelayExits(r) PROVE SarverInv'
  BY <1>4 DEF RelayExits
<1>. QED  BY <1>1, <1>2, <1>3, <1>4 DEF WatchBsProcess

\* No sarver is left on the console for a relay that is gone: while one runs, BS runs
\* or a thread is going to stop it, whatever starts fail and relays end meanwhile.
THEOREM WorkerStaysWanted ==
  ASSUME NoLateEnd, "sshDrops" \notin Faults
  PROVE  Spec => []WorkerIsWanted
<1>1. Init => SarverInv
  BY DEF Init, SarverInv, Spawned, FreshInv, SentInv, StoppedInv, WorkerIsWanted, Starting
<1>2. ASSUME BsInv, SarverInv, [Next]_vars PROVE SarverInv'
  <2>1. CASE UNCHANGED vars
    BY <1>2, <2>1 DEF vars, fields, SarverInv, Spawned, FreshInv, SentInv, StoppedInv, WorkerIsWanted
  <2>2. ASSUME NEW t \in Threads, ThreadStep(t) \/ Click(t) \/ JobBegins(t)
        PROVE  SarverInv'
    BY <1>2, <2>2, SarverStart, SarverCaller DEF ThreadStep
  <2>3. CASE SshChanges \/ \E r \in Relays : WatchBsProcess(r) \/ RelayExits(r)
    BY <1>2, <2>3, SarverOther
  <2>. QED  BY <1>2, <2>1, <2>2, <2>3 DEF Next
<1>3. SarverInv => WorkerIsWanted  BY DEF SarverInv
<1>. QED  BY <1>1, <1>2, <1>3, BsInvariant, PTL DEF Spec
-----------------------------------------------------------------------------
\* What the button shows, where no relay ends by itself and no job runs.

\* A stop that has not yet killed the relay of now is the only one, and its request
\* stands.  A relay that is published or about to be has ended only when a stop is
\* about to clear the fields, so no watcher ever goes for the sarver.
CalmInv ==
  /\ \A t \in Threads :
       /\ job[t] = "click" /\ tpc[t] \notin {"check", "work"}
       /\ tpc[t] \in {"settle", "launch", "publish"} => mine[t] \in alive
       /\ tpc[t] = "publish" => worker
       /\ tpc[t] \in {"stopRemote", "stopLocal", "giveUp"} => mine[t] = process
       /\ tpc[t] \in Stopping /\ mine[t] = process => stopRequested
  /\ process # None /\ process \notin alive =>
       \E t \in Threads : tpc[t] = "clear" /\ mine[t] = process
  /\ running /\ ~stopRequested => worker
  /\ \A r \in Relays : wpc[r] # "stopping"

\* A start publishes a relay that runs, after it has launched its sarver.
LEMMA CalmStart ==
  ASSUME BsInv, BsInv', CalmInv, NEW t \in Threads, StartBs(t)
  PROVE  CalmInv'
<1> USE BsAssumption
    DEF BsInv, TypeOK, OwnerInv, FieldsInv, HandsInv, Owns, CalmInv, Starting, Stopping,
        Holding, Step, fields, SetFields, ResetFields, StopRemoteProcess, Return
<1>1. CASE StartRefused(t)  BY <1>1 DEF StartRefused
<1>2. CASE StartBegins(t)   BY <1>2 DEF StartBegins
<1>3. CASE Prepare(t)       BY <1>3 DEF Prepare
<1>4. CASE Spawn(t)         BY <1>4 DEF Spawn, Free
<1>5. CASE Settle(t)        BY <1>5 DEF Settle
<1>6. CASE Launch(t)        BY <1>6 DEF Launch
<1>7. CASE Publish(t)       BY <1>7 DEF Publish
<1>8. CASE StartWatch(t)    BY <1>8 DEF StartWatch
<1>9. CASE Undo(t)          BY <1>9 DEF Undo
<1>10. CASE Terminate(t)    BY <1>10 DEF Terminate
<1>11. CASE Reset(t)        BY <1>11 DEF Reset
<1>. QED
  BY <1>1, <1>2, <1>3, <1>4, <1>5, <1>6, <1>7, <1>8, <1>9, <1>10, <1>11 DEF StartBs

\* A stop kills the sarver under a request that stands until the fields are cleared.
LEMMA CalmStop ==
  ASSUME BsInv, BsInv', CalmInv, NEW t \in Threads, StopBs(t)
  PROVE  CalmInv'
<1> USE BsAssumption
    DEF BsInv, TypeOK, OwnerInv, FieldsInv, HandsInv, Owns, CalmInv, Starting,
        Stopping, Holding, Step, fields, SetFields, ResetFields, StopRemoteProcess, Return,
        AfterStop
<1>1. CASE StopRefused(t)  BY <1>1 DEF StopRefused
<1>2. CASE StopBegins(t)   BY <1>2 DEF StopBegins
<1>3. CASE StopRemote(t)   BY <1>3 DEF StopRemote
<1>4. CASE StopLocal(t)    BY <1>4 DEF StopLocal
<1>5. CASE Clear(t)        BY <1>5 DEF Clear
<1>6. CASE StopGivesUp(t)  BY <1>6 DEF StopGivesUp
<1>. QED  BY <1>1, <1>2, <1>3, <1>4, <1>5, <1>6 DEF StopBs

\* There are only clicks.
LEMMA CalmCaller ==
  ASSUME "jobs" \notin Faults, BsInv, CalmInv, NEW t \in Threads,
         JobStopsBs(t) \/ Work(t) \/ Click(t) \/ JobBegins(t)
  PROVE  CalmInv'
<1> USE BsAssumption DEF BsInv, TypeOK, CalmInv, Stopping, Step, fields
<1>1. CASE JobStopsBs(t)  BY <1>1 DEF JobStopsBs
<1>2. CASE Work(t)        BY <1>2 DEF Work
<1>3. CASE Click(t)       BY <1>3 DEF Click
<1>4. CASE JobBegins(t)   BY <1>4 DEF JobBegins
<1>. QED  BY <1>1, <1>2, <1>3, <1>4

\* A watcher that finds its relay published has been told of the stop.
LEMMA CalmOther ==
  ASSUME "relayExits" \notin Faults, BsInv, CalmInv,
         SshChanges \/ \E r \in Relays : WatchBsProcess(r) \/ RelayExits(r)
  PROVE  CalmInv'
<1> USE BsAssumption
    DEF BsInv, TypeOK, OwnerInv, FieldsInv, HandsInv, Owns, CalmInv, Starting, Stopping,
        Holding, fields, SetFields, ResetFields
<1>1. CASE SshChanges  BY <1>1 DEF SshChanges
<1>2. ASSUME NEW r \in Relays, RelayEnded(r) PROVE CalmInv'
  <2>1. CASE process # r  BY <1>2, <2>1 DEF RelayEnded
  <2>2. CASE process = r
    <3>1. PICK t \in Threads : tpc[t] = "clear" /\ mine[t] = process
      BY <1>2, <2>2 DEF RelayEnded
    <3>2. \A u \in Threads : tpc[u] \in Stopping /\ mine[u] = process => u = t
      BY <3>1
    <3>3. stopRequested
      BY <3>1
    <3>. QED  BY <1>2, <2>2, <3>1, <3>2, <3>3 DEF RelayEnded
  <2>. QED  BY <2>1, <2>2
<1>3. ASSUME NEW r \in Relays, WatcherStops(r) PROVE CalmInv'
  BY <1>3 DEF WatcherStops
<1>4. ASSUME NEW r \in Relays, RelayExits(r) PROVE CalmInv'
  BY <1>4 DEF RelayExits
<1>. QED  BY <1>1, <1>2, <1>3, <1>4 DEF WatchBsProcess

\* What the button shows as running runs on both sides, for any number of clicks and
\* relays, starts that fail, kills that hang and an SSH that drops, as long as no relay
\* ends by itself and no job stops the sarver.
THEOREM RunningStaysWhole ==
  ASSUME "relayExits" \notin Faults, "jobs" \notin Faults
  PROVE  Spec => []RunningIsWhole
<1>1. Init => CalmInv
  BY DEF Init, CalmInv, Stopping
<1>2. ASSUME BsInv, BsInv', CalmInv, [Next]_vars PROVE CalmInv'
  <2>1. CASE UNCHANGED vars
    BY <1>2, <2>1 DEF vars, fields, CalmInv
  <2>2. ASSUME NEW t \in Threads, ThreadStep(t) \/ Click(t) \/ JobBegins(t)
        PROVE  CalmInv'
    BY <1>2, <2>2, CalmStart, CalmStop, CalmCaller DEF ThreadStep
  <2>3. CASE SshChanges \/ \E r \in Relays : WatchBsProcess(r) \/ RelayExits(r)
    BY <1>2, <2>3, CalmOther
  <2>. QED  BY <1>2, <2>1, <2>2, <2>3 DEF Next
<1>3. BsInv /\ CalmInv => RunningIsWhole
  BY DEF BsInv, OwnerInv, FieldsInv, Owns, CalmInv, Stopping, RunningIsWhole
<1>4. Spec => []BsInv
  BY BsInvariant DEF NoLateEnd
<1>. QED  BY <1>1, <1>2, <1>3, <1>4, PTL DEF Spec
=============================================================================
