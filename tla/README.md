# A verification project for xbax-stream

TLA+ models of the parts of `xbax-stream` in which several processes or threads
share state, checked with TLC on small instances, and proofs about them checked
with TLAPS for every size. Paths are relative to the repository.

## 1. The system

A developer's host talks to an Xbox devkit. `main.py` shows the console's video,
opens a shell, installs the packaged tools and starts them. A remote build goes
through three programs: `cliant build` posts an archive of the sources to the
relay `cliant serve` on the host; `sarver -reverse` on the console polls that
relay, builds, and posts the artifact (or an error) back; the relay hands it to
the waiting `cliant`.

| Component | State | Operations | Hard behaviour |
|---|---|---|---|
| Build relay (`Cliant/main.go`, `relayServer`) | queue of 16 jobs, table of active jobs, a one-place result channel per job, temporary archives and results | `POST /build`, `/reverse/pull`, `/reverse/archive/`, `/reverse/result/`, `/reverse/error/` | one goroutine per request; look-up and use apart; full queue; cancelled builds; duplicated and late results; file errors; restart |
| Reverse worker (`Sarver/main.go`) | the job in hand | poll, download, `executeBuild`, post result or error | lost answers, a 45 s timeout over whole bodies, nothing is retried, killed and restarted by the host |
| Build client (`runBuild`, `submitArchiveBuild`) | the file at `-o` | post, wait, save | timeout or Ctrl-C at any time, partial files |
| Build plans (`Cliant/cmake.go`, `Sarver/plan.go`) | the commands of a CMake target, rewritten by one program and resolved by another | rewrite every path, archive the sources; resolve, prepare and run each step | two definitions of a safe path that must agree; absolute, relative and escaping paths; steps that build on each other |
| Build execution (`executeBuild`) | a workspace directory | extract, check, run, deliver, clean up | a dozen error paths, a command killed half-way |
| BS controller (`main.py`, `start_bs`, `stop_bs`, `_watch_bs_process`) | `bs_running`, `bs_busy`, `bs_stop_requested`, `bs_process`, the remote process | start, stop, watch, restart by pipelines and installs | threads that let go of the lock between check and effect |
| Install and repair (`install_package`, `_ensure_remote_cleng_bundle`, with `cleener` and `anzipper`) | the files, the manifest and the helper tools on the console | compare with the manifest, wipe, extract a bundle or upload file by file, write the manifest; expand the toolchain again | every remote step may stop half-way; a fallback after a wipe; the package is rebuilt meanwhile |
| Package and pipeline jobs (`main.py`) | `installing`, `package_busy` | package, deploy, TriangleCpp pipeline | flags without a lock |
| Shell session (`start_telnet`, `connect_ssh`, `close`) | socket, SSH client, `connected`, `retry_count` | connect, drop, reconnect, close | threads of an old session beside a new one |
| Deploy, dump, XVD, streams, input, UI, command line (`main.py`) | little | see `PROJECT.json` | polling, stop against an update thread |
| `gatter`, `led`, `dastrabution`, `cleng`, `campiler` | none between runs | one command each | sequential |
| `go/`, `third_party/`, `HelloWin/` | | | vendored or sample code, left aside |

Calls and shared state: clients and workers meet only at the relay, over HTTP.
`main.py` starts the relay as a child process and the worker over SSH, and kills
the worker by name. Within the relay the handlers share `relayServer` and the
temporary directory.

What makes the core correct:

* a build is handed to one worker at most, once (there is no retry, so twice
  would mean two builds of one request);
* a client that saves a file has the artifact made for its own build, whole;
* whatever fails, the table, the queue and the disk do not fill up;
* every client is told something, and a worker always comes back to poll;
* a path of a plan names the same file on the console as on the host, and a build
  leaves nothing behind but the caches of go (and the file of an absolute `--pdb`,
  section 5);
* the manifest on the console never calls a file current that is not.

## 2. The modules

| Module | What it is |
|---|---|
| `Relay` | The relay alone, open: any request may come for any job, in any order, any number of times. |
| `ReverseWorker` | The loop of `sarver -reverse`; what the relay answers is a parameter. |
| `BuildClient` | A `cliant build`, from the POST to the file at `-o`. |
| `RemoteBuild` | The three joined (`R`, `W`, `C`), with faults. |
| `BuildService` | What a remote build promises, with no relay, queue or connection in it. |
| `RelayProofs` | Proofs about `Relay`. |
| `RemoteBuildProofs` | Proofs about `RemoteBuild`: its safety properties and the refinement. |
| `CleanupProofs` | The proof of `CleanWhenDone`, on top of `RemoteBuildProofs`. |
| `BsController` | The start, the stop and the watch of the relay and the worker by `main.py`, and who calls them. |
| `BsProofs` | Proofs about `BsController`. |
| `PlanPaths` | Paths, and the two functions on them that must agree: what `cliant` writes and what `sarver` resolves. |
| `PlanBuild` | A build from the host's plan to the workspace on the console. |
| `PlanPathsProofs` | What the operators on paths compute, for paths of any length. |
| `PlanProofs` | Proofs about `PlanBuild`, on top of `PlanPathsProofs`. |
| `Install` | Install, fallback and repair of the tools on the console. |
| `InstallProofs` | Proofs about `Install`. |
| `MCRelay`, `MCRemoteBuild`, `MCPlanBuild` | Symmetry, and the commands of the plans, for TLC; the `.cfg` files give the constants. |

`RemoteBuild` composes `Relay`, `ReverseWorker` and `BuildClient`; `PlanBuild`
extends `PlanPaths` and is what `ReverseWorker` has as one step. `BsController`
and `Install` stand alone: to an install, BS is only something to be stopped
first, which is an action of `BsController`.

**Relay.** An action is what one goroutine does between two points at which
another can interfere: a section under `mu`, a channel operation, a file
operation. `bpc[b]` is where the `handleBuild` of request `b` stands: `Arrive`,
`Receive`/`Reject` (`receiveBuildRequest`), `Register`, `Enqueue`/`Overflow`,
`Withdraw` (`newJob`), `Refuse`, then the `select` (`TakeResult`, `Cancel`),
`Serve`, and the deferred calls in the order in which Go runs them
(`RemoveArtifact`, `Deregister`, `RemoveArchive`). `hpc[c]` is where the handler
of a worker's request stands: `Take`, `Check`, `Deadline` (`handleReversePull`),
`FindArchive`, `SendArchive`, `OpenResult`, `ReadResult`/`ReadFails`,
`ReadError`, and `completeJob` in its two halves, `Complete` (the look-up under
the lock) and `SendResult` (the send after the unlock). `temps` is the temporary
directory: for each file name, the build it was posted for. `whole` holds the files
to which the body of the post has been copied to its end: between `OpenResult` and
`ReadResult` a file is partial, and so is one whose body breaks off. `payload`,
`result` and `bfile` follow the path of a result file from the request that writes
it, through the channel, to the handler that streams and removes it; `body` is what
that handler has streamed, which is what the file held then (`Contents`). `Remove`
is `os.Remove`, which is taken to succeed. `Restart` is the death of the process:
memory is lost, files stay.

**ReverseWorker.** `wpc` is where the loop stands; `Send` makes a request,
`Polled`, `Fetched`, `Posted` use its answer, `CallFails` is every way in which
`client.Do` returns an error, the 45 s timeout among them. `executeBuild` is one
step with three outcomes: `BuildSucceeds`, `BuildFails` and `OutputMissing` (the
command succeeds and leaves no file, as with `-fsyntax-only`).

**BuildClient.** `output` tells apart the file as it was, a partial one (`os.Create`
truncates `-o` before the body is read) and the artifact of each build. `EndSave`
takes what the relay has streamed, whatever that is; a body that is shorter than its
`Content-Length` makes `io.Copy` fail and is a `GiveUp`.

**RemoteBuild.** A request the worker waits for is a slot of `Conns`. If the
worker stops waiting, the handler of the relay goes on, since it watches no
context: the slot is *orphaned* until the handler ends. A timed-out call that
the relay still answers, a result posted to a relay that has been restarted and
a worker that was restarted with its requests in flight are all interleavings of
these. `Faults` picks what may go wrong in a run.

**BsController** is the other side of the same processes: not what relay and
worker say to each other, but how `main.py` starts and kills them. `running`,
`busy`, `stopRequested` and `process` are the `bs_` fields; an action that
touches them is one section under `bs_lock`. Between the sections lie the remote
commands and the operations on the child process, an action each, because that
is where other threads come in. `tpc[t]` is where a thread of the user stands,
in `start_bs` (`StartBegins` ... `Publish`, `StartWatch`, and `Undo`,
`Terminate`, `Reset` for its `except` branch), in `stop_bs` (`StopBegins` ...
`Clear` or `StopGivesUp`) or in a job; `mine[t]` is its local variable
`relay_process` or `process`. `wpc[r]` is where the `_watch_bs_process` of relay
`r` stands. `worker` is whether a sarver runs on the console: `StopRemoteProcess`
kills it by name, whoever launched it. `JobBegins`, `JobStopsBs` and `Work` are
what installs and pipelines do to BS. `Work` lets a job end at any time; the
button stays disabled for longer than the model has it, which only adds
behaviours. `close` does to BS what the button does, and SSH may drop after it. The
fault `killHangs` is a relay that does not end when it is killed: in `StopLocal`
the second wait then fails and the stop gives up; in `Terminate`, the `except` branch
of `start_bs`, nobody waits for the kill, and the relay is left behind.

**PlanPaths.** A path is absolute or not and is a sequence of names. `Clean`, `Join`,
`Dir`, `Rel` do what those of `path/filepath` do: `Pushed` follows the names of a path
one by one from where it begins, `Common` is how far two paths are the same.
`RewriteCommandPath` is `cliant`'s, `ResolveWorkspacePath` and `ResolvePlanStepPath`
are `sarver`'s, and both return `Refused` where the code returns an error. The host is
taken to be a Unix system, the console is Windows: an absolute path of the host has no
drive letter there, `filepath.IsAbs` is false of it, and both functions of `sarver`
join it below the directory they are given instead of refusing it.

**PlanBuild.** `AddCommand` rewrites one command that `ninja` prints (its
directory, `-o`, input and one linker option) and `Submit` sends the plan; then
`pc` goes through `executeBuild`: `MakeWorkspace`, `MakeSource`, `Extract`,
`ResolveArtifact`, then `Prepare` and `RunStep` for each step or a single
`RunCommand`, `CheckArtifact`, `Deliver`, `Cleanup`. Each may fail, and `Extract`,
`Prepare` and the commands may fail half-way. `dirs` and `files` are what the build
has made below the directory for temporary files, where the workspace is, and
`outside` what builds have made elsewhere and nobody removes: the caches of `go build`
(`GoCaches`, one name for `GOCACHE`, `GOMODCACHE` and `GOPATH`) and the file of a
`--pdb` whose path is absolute, which the linker writes at the root of the drive
although its folder was prepared in the workspace. `-I`, `-L`, `-include` and
response files have no case. `-MF` and `--output-def` are treated by
both programs as `-o` and `--out-implib` are and have no case of their own.

**Install.** Contents of files are told apart by their time: `local` on the host,
`console` on the devkit, `manifest` in the last install's list, `scanned` in the job's
own scan, `bundle` in the zip. `cut` holds the files whose contents were cut off.
`Scan` decides by the manifest; `Zip`, `Upload`, `EnsureTool`, `Wipe` and `Extract`
are the bundle, `Put` and `Record` the fallback, which begins again with the cleener.
`tool` is the time of each of the two helper programs in the bootstrap directory and
`swap` how the last copy to its name has left it. `KeepTool` is the test by which
`EnsureTool` keeps a helper, by size and time; `Swap` is the copy, which may stop
before it has begun, half-way (the file is then gone, short, or, where the system
reserves its size at the start, filled) or after it was done. `Wipe` is what `cleener`
and `Extract` what `anzipper` may have done when they stop. `ZipCleng` and
`ExtractCleng` are the repair. `Edit` changes the package at any time, as a build on
the host does.

## 3. What the runs check

| Run | Instance | Shows |
|---|---|---|
| `relay` | 2 builds, 2 requests, 1 file, capacity 1, file errors | `ActiveJobsHaveArchive`, `JobsAreSingle`, `ResultsAreIntact`, `NoFileForgotten` against arbitrary requests |
| `faults` | 2 builds, 2 workers, 2 connections, 1 file, capacity 1; clients give up, workers restart, outputs are missing | `JobInOnePlace`, `SavedIsProduced`, `CleanWhenDone`, and that the whole implements `BuildService` |
| `answers` | 2 builds, 2 workers, 2 connections, 2 files, no fault | `EveryClientIsAnswered` |
| `releases` | 1 build, 1 worker, 2 connections, 1 file, every fault | the safety properties of `faults` under every fault, and `EveryJobIsReleased`, `StaleJobsLeaveQueue`, `WorkersComeBack` |
| `orphan_pull`, `late_result`, `no_output` | 1 build, 1 worker | three statements of the repository that the code does not keep (section 5) |
| `bs` | 2 threads, 2 relays; clicks and jobs, relays that exit, starts that fail | `OneRelay`, `RelayIsKnown`, `BusyIsOwned`, `WorkerIsWanted`, `DeadRelayIsNoticed` |
| `bs_calm` | 3 threads, 3 relays; clicks only, starts that fail, kills that hang, SSH that drops | `RunningIsWhole`, `BusyEnds` |
| `bs_one_at_a_time` | 2 threads, 2 relays | one more statement the code does not keep |
| `install` | 3 files: the compiler and the two helpers; 2 times | `ManifestIsTrue`, `InstalledIsCurrent`, `ToolsAreCurrent` over installs and repairs one after the other |
| `plan_build` | every plan of up to 2 commands out of 114 | `FilesMirrorTheHost`, `InputsArrive`, `PlanIsAccepted`, `ArtifactIsLinked`, `NothingIsLeft` |

*Bounds.* A queue of one is full with one job, so two builds reach every case of
a full queue and of a stale job in front of a live one. Two requests are enough
for an orphaned pull beside a live one, two results for one job, and an archive
fetched while its job is cleaned up. With one file a second result waits until the
name is free, and a file is reused after it was removed; that two results are never
in one file rests on the theorem, which has any number of files. The safety runs
use the symmetry of the sets; the liveness runs do not, which is why they are
smaller. `releases` has one worker because a slot of `Conns` bounds the model and
not the code: with two workers and two slots, orphaned requests could keep a worker
from ever getting one. `faults` leaves out broken connections and a relay that
restarts, which `releases` has; for all of them at once, with any number of builds
and workers, the safety properties and the refinement are proved. A build id is
used once, as `newJobID` makes them. Deadlock is not checked in `Relay` and
`RemoteBuild`: the open relay may stop when all builds are over and no request
comes, and so may the client's side; liveness properties say what must not stop.

In `BsController` two threads are a stop beside a start, the third of `bs_calm` a
second click beside both; a relay is a name that is used again once nobody refers
to the process. Deadlock is not checked, since BS may be left alone. What `bs`
shows of two threads is proved for any number.

In `install` one of the three files is the compiler, by which a repair decides and
which stands for all of `cleng`, and two are the helpers, which stand for all that is
not; two times after "not there" let a file change between scan and zip and again
between two installs. The commands of `plan_build` are those of a source root `/p`
with a generated build tree: working directories above, at and below it, outside it,
and one whose name begins with two dots; absolute and relative outputs and inputs, an
output that is its own directory, paths that leave the source root and come back;
every linker option that either program treats by itself, and a `--pdb` with each kind
of path, an absolute one among them. Two commands are a compilation and a link that
uses its output, two links of which the last counts, or two that are in each other's
way.

*What the BS runs leave out.* `WorkerIsWanted` needs SSH up, since without it
nobody can stop the sarver. `RunningIsWhole` needs a relay that does not end by
itself and no job: after such an end the watcher kills the sarver late
(`main.py:838`) and may hit the one a new start has launched, and a job that was
refused its stop kills the sarver of a BS that is then shown as running.
`RelayIsKnown` and `OneRelay` need relays that end when they are killed (no
`killHangs`): a start that fails kills its relay, does not look whether it has ended
(`main.py:917`) and clears `bs_process`, so that one which stays is forgotten and the
next start puts a second one beside it. `WorkerIsWanted` needs that or else relays
that do not end by themselves (no `relayExits`): with both, a `stop_bs` whose second
wait fails while the watcher sees the relay end clears, at `main.py:971`, the `bs_busy`
of a start that has got in since; another start gets in beside it, and if one of the
two fails it resets the fields that the other has published. `BusyIsOwned` needs nothing.

*What the exceptions leave out.* Some properties state what the code does keep beside
a known leak, and do not catch the leak itself. `NoFileForgotten` excepts the restart,
a send that comes after its build has gone on (the finding `late_result`), and a
result that is in the channel of a build when it is cancelled (the code path of
`Overflow` never meets one, but the open relay allows it). `CleanWhenDone` excepts the
results of cancelled builds for the same reason. `EveryJobIsReleased` lets the archive
of a handler stay that died with the relay, for no start of the relay clears it.
`ActiveJobsHaveArchive` is about the table: a handler that found its job there a moment
ago may still find the archive gone, and answers 500. `SavedIsProduced` has the
mix-up of two builds in `faults`, where one file name serves both, and partial bodies
and broken files in `releases`, which has one build; the theorem has both at once.

*Fairness* (`RemoteBuild!Fairness`) is weak fairness for each goroutine of the
relay, each worker and each client: Go schedules every runnable goroutine, a
pull has its deadline, and a build has a timeout. A client may time out, and is
weakly fair to do so, only where the fault `giveUp` is on: the default timeout
is ten minutes, `-timeout 0` has none, and `EveryClientIsAnswered` is about the
latter. `TakeJob` is strongly fair: a pull that finds a job when it begins to
wait takes it, so polls cannot pass a queued job for ever. `StaleJobsLeaveQueue`
assumes in its statement that polls keep reaching the relay. The builds are
assumed to end; a grandchild that keeps the pipe of `CombinedOutput` open would
break that, and is listed as a hazard.

`BsController` is weakly fair to each thread that is in a start, a stop or a job
and to each watcher; its remote commands are assumed to return. Clicks, new jobs,
relays that exit and SSH are not fair. `Install` and `PlanBuild` state safety only.

*What `Install` assumes.* One job at a time, as the flags `installing` and
`package_busy` mean it; that they are tested and set apart is a hazard no property
covers. The clocks of host and console agree, and a helper program that was built anew
has a new time, so that the times `KeepTool` compares are those of contents; a helper
that a copy has left cut off at its full size passes that test, is run, and is
excepted in `ToolsAreCurrent`. Files of the package are added or get newer, never
older; sizes are compared by the code only at equal times, and here every change has a
new time. A wipe that stops half-way has removed the manifest first: `cleener` takes
the entries as the file system lists them, NTFS lists by name, and
`.xbax-install-manifest.json` begins with a dot. A remote command whose connection is
lost is taken to stop.

*Refinement.* `ImplementsService` maps a build to *open* while its handler, the
queue or a pull has it, to *running* while a worker has it, and to *over* after;
no step of `BuildService` leads from *over* or *running* back to *open*, so it
says that no build is run twice under any of the faults.

## 4. What is proved

`RelayProofs` proves, for all sets of builds, requests and files and every
capacity of the queue: `RelayTypeCorrect`, `ArchivesStay`, `JobsStaySingle`,
`ResultsStayIntact` and, as an action property, `NoFileIsForgotten`. The only
assumption is `RelayAssumption` (a positive capacity, and `None` and `Failed`
that are not files). Because `Relay` is open, these hold whatever clients and
workers do.

None of the properties is inductive. `RelayInv` strengthens them in three parts:

* `TableInv`: where `handleBuild` stands decides whether its job is in the table
  and its archive on disk. `ArchivesStay` follows at once.
* `JobInv`: a job is in one place, and one whose handler has not reached the
  queue is nowhere. Without the second half `Enqueue` could add a job twice.
* `FileInv`: a handler of a request holds a file just between `OpenResult` and
  the end of `completeJob`, `handleBuild` just while it serves and removes it; a
  file in any hand is on disk for the build of that hand; no two hands hold the
  same one. Without the second clause a send could put the file of one build
  into the channel of another.

Each part has a lemma with one step per action (`TableNext`, `JobNext`,
`FileNext`); `RelayInvariant` joins them. `FilesKept` adds what a step does to
an owned file, from which the action property follows.

`JobsNeverReturn` adds that a job which has left the queue and the pulls is never
there again, not even after a restart.

`NoFileIsForgotten` counts a channel as the owner of a file only while the build may
still receive from it (`Receiving`), so that its exceptions are the steps by which
the code loses a file, and no other step is.

`RemoteBuildProofs` proves, for all sets and every choice of faults, the type
invariant, `JobsInOnePlace`, `SavedWasProduced`, and the refinement
`BuildsImplementService`; `CleanupProofs` adds `CleanAfterBuild`. With them every
safety property of `RemoteBuild` is proved. The assumption is
`RemoteBuildAssumption` (a positive capacity, and `None` and `Failed` that are
nothing else).

* The relay of `RemoteBuild` is `Relay`: `RelayStep` shows that every step is a step
  of the open relay or leaves it alone, because what a worker sends is a poll or
  names its job. `RelayIsRelay` states it for the specifications, so that all of
  `RelayProofs` holds of the composition.
* `WorkerInv` ties a worker's job and its request to where its loop stands; above
  all, only the request of a poll can be a pull, so no job is handed to a worker
  that is at work.
* `PlaceInv` says that the job of a worker is with no other and is `Gone` from the
  relay. It needs `GoneStays` of `RelayProofs`: were a job put back, by a restart
  for example, a second worker could be given it.
* `OnceInv` (a build is made once) and `ArtifactInv` (results, files, bodies and what
  is saved belong to the build they were made for and are whole) follow the saved
  bytes back to the worker.
* `MapInv` restates the stages of `BuildService` by these: *new* is `bpc` "idle",
  *over* is `Gone` with no worker. `WorkerMoves` splits a step by what it does to a
  worker's job, and each part refines one action: `Submit`, `Drop`, `Start`, `Make`,
  `End` or `Tell`.
* `CleanWhenDone` is not true of the open relay, which may be sent a second result
  after the first was served. `TokenInv` is what the workers add: for each build
  there is at most one worker that may still post, one request that posts, one
  result in the channel, or a handler that has had it. `HeldInv` says who still
  holds a file on disk; a restart leaves files only for builds that it kills or
  that had been cancelled.

`BsProofs` proves `TypeCorrect` and `BusyStaysOwned` for all threads, relays and
faults; `RelaysStayKnown` and `OneRelayRuns` where `killHangs` is not among the faults;
`WorkerStaysWanted` from `NoLateEnd`, that `killHangs` and `relayExits` are not both
among them, and SSH that does not drop (section 3 says why these are needed); and
`RunningStaysWhole` where there is neither `relayExits` nor `jobs`. The
invariant `BsInv` rests on the notion of an *owner*: the thread in a start, or
in a stop whose `process` is still `bs_process`. `OwnerInv` says that BS is busy
just while it has one owner. That is what makes the code right although the
watcher clears `bs_busy` beside a stop: such a stop has lost its relay and thus
stops being the owner, and its last section, which compares the two, leaves the
fields alone. `FieldsInv` ties `bs_running` to `bs_process`; `HandsInv` says that
a stop never holds the relay of a start, that a relay is forgotten only when it has
ended, and that a stop which gives up has its relay alive and hence is still the owner.
`CalmInv` adds for `RunningIsWhole` that a relay which is published and has ended is
in the hands of a stop that is about to clear it: the watcher then finds the request
of that stop and leaves the sarver alone, and the only other thread that kills a sarver
is the owner, whose request shows.

`InstallProofs` proves, for every package and toolchain and any number of times,
`InstallTypeCorrect`, `ManifestStaysTrue`, `InstallsAreCurrent` and
`HelpersAreCurrent`. The invariant says what each step of a job may rely on: what was
scanned is no newer than the host has it, what was zipped or put no older than the
scan, and the manifest no newer than the console. The order of the code carries it:
the manifest is the last entry of the bundle and the last upload of the fallback,
and the first thing a wipe removes. `ToolInv` carries a helper from the step that
made it ready to the one that runs it: `KeepTool` compares
it with the host's, which has only got newer since the scan.

`PlanPathsProofs` proves what the path operators compute for paths of any length, and
`PlanProofs` every property of `plan_build` for all commands, sources and plans. The
assumptions are `NamesAssumption` (".." is a name) and `PlanAssumption` (the commands
have paths of names, the files on the host are not empty paths and none is a folder of
another).

* The induction over a path is stated of sets: the library's well-founded order of the
  numbers gives a least element, from that `NumberInduction` and `SequenceInduction`,
  of sets that hold a property's elements. `WalkDef` makes the recursive function
  `Walk` known by its equation.
* `PushedConcat` and `PushedClean` say that a path may be followed in parts and may be
  made clean first; `RelMoves` that `Rel` of a folder and a file leads from the one to
  the other below *any* root. `RewriteMirrors` is that for the rewrite of `cliant`, and
  `RewrittenIsResolved` joins it with `sarver`'s resolution: the two programs agree on
  every path, whatever its dots.
* None of the properties of `PlanBuild` is inductive. `PlanInv` ties each step to the
  command it came from; `WithinInv` keeps `dirs` and `files` below the workspace, which
  is why its removal leaves none of them, and `OutsideInv` says what alone is made
  elsewhere, because a rooted path that `sarver` is given can only be that of a `--pdb`
  (`RootedIsPdb`); `ArchiveInv` keeps the archive on the console, without
  which `InputsArrive` could fail after a step; `ReadyInv` says that a step which runs
  had its outputs resolved, without which one could write outside; `ServedInv` ties what
  is handed over to the resolved path of the artifact. `PlanInvariant` is their
  conjunction with the properties.
* Proving it brought up three cases that the properties had not excepted and the
  instance did not have; both have them now (a relative input and a relative `--pdb`
  that leave the root and come back, and an output that is a directory; section 5).

## 5. Where code and documents disagree

* `orphan_pull`: a pull whose worker has gone takes a job and loses it. README.MD
  says the job goes to `sarver.exe` on its next poll. The client finds out by its
  own timeout.
* `late_result`: `completeJob` accepts a result for a build that has stopped
  waiting, although it has an error for that; the worker is told 200 and the
  file stays on disk.
* `no_output`: a build without an output file is reported to nobody.
* `bs_one_at_a_time`: a start gets in beside a stop, which the code means to
  refuse as "already in progress". A stop that is then still at its remote
  commands kills the new sarver.

What else came up while modelling, and is visible in a property's exceptions:

* A forced repair of `cleng` (`main.py:3013`) expands over installed files and
  does not touch the manifest. Cut off half-way it leaves a truncated file that the
  next install skips ("Remote install already current", `main.py:3582`), and the
  check before a build only looks whether `cleng.exe` exists. Hence "unless it is
  `cleng`'s" in `ManifestIsTrue` and `InstalledIsCurrent`.
* `--pdb` is not rewritten by `cliant` but prepared and checked by `sarver`; a
  relative one that leaves the source root is refused on the console. An absolute one
  is not: `filepath.IsAbs` of `/p/y` is false on Windows, so `plan.go:181`, which means
  to refuse a path that does not "stay within the uploaded workspace", lets it pass,
  its folder is made below the working directory, and the linker writes the file at
  the root of the drive, where it stays. This is an exception of `NothingIsLeft`;
  the step goes on as on the host. `-Map` is
  rewritten and its folder not prepared. Names that begin with two dots are taken
  for ".." by `sarver` (`plan.go:197`). These are the exceptions of
  `PlanIsAccepted`.
* A relative input is not rewritten (`rewritePositionalArgument`). If it leaves the
  source root and comes back by the root's own name, as `../p/m.c` in `/p`, it is not
  found on the console, where the sources are in a folder `src`.
* A relative `--pdb` that leaves the root and comes back by that name, `../src/y`, lands
  among the sources although the host would have it beside them. (`Leaves` names both
  cases.)
* An output that is the directory of its own command becomes ".", which
  `resolvePlanStepPath` refuses; no linker could write it either.
* Sources below a folder `build` or `cmake-build-*` are left out of the archive
  (`shouldSkipArchivePath`), so a plan that compiles one fails on the console:
  `InputsArrive` speaks of the files that go into the archive.
* `go build` keeps `GOCACHE`, `GOMODCACHE` and `GOPATH` below `sarver-go`
  (`Sarver/main.go:654`, `782`) for all builds, and nothing removes them: the other
  exception of `NothingIsLeft`, and meant to be so.
* A failed start forgets a relay that survives its kill (`main.py:913`-`921`), see
  section 3.

## 6. What is only checked, and what is not modelled

Only model-checked: liveness, which the prover cannot do, in `RemoteBuild`
(`EveryClientIsAnswered`, `EveryJobIsReleased`, `StaleJobsLeaveQueue`,
`WorkersComeBack`) and `BsController` (`DeadRelayIsNoticed`, `BusyEnds`). Every
invariant that a run checks is proved, and the refinement. The theorems about
`BsController` have hypotheses on the faults, each of which some run or section 3 shows
to be needed.

Not modelled: the content of requests, payloads and logs; `/healthz`; methods
other than the expected ones; the moment at which a dead relay is down (it comes
back at once); deletion of open files on Windows, where the relay's removals
before `Close` would fail; a `sarver` killed in the middle of a build, which leaves
its workspace behind, and the errors of `os.RemoveAll`, which the code ignores; the
window between the test and the setting of `installing` and `package_busy`
(`main.py:3632`); the splitting of command lines; the compiler itself.

The components that `PROJECT.json` lists as `not_modelled` each have their reason
there. The two with state of their own are the shell session and the deployment:
the threads of a session share sockets with those of the next one by no rule that
the code states, so that there is nothing to check but the absence of any, and a
deployment waits for a device portal whose answers are not in this repository.
`go/` and `third_party/`, most of the lines here, are other projects.

## 7. Plan

1. *(done)* `Relay`, `ReverseWorker`, `BuildClient`, `RemoteBuild` against
   `BuildService`; proofs about `Relay`.
2. *(done)* `BsController` and proofs about it.
3. *(done)* `PlanPaths` and `PlanBuild`: what `cliant` emits, `sarver` accepts, and
   the workspace on every path of `executeBuild`.
4. *(done)* `Install` and proofs about it.
5. *(done)* Proofs about `RemoteBuild`: its relay is `Relay`, its safety properties,
   the refinement.
6. *(done)* Proofs about `PlanPaths`, by induction over paths, and `PlanBuild`;
   `RunningIsWhole` of `BsController`.
7. Left: the two flags of the jobs beside `Install`; the reconnects of the shell
   session, once the code says which thread owns the socket.
