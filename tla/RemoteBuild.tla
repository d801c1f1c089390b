---------------------------- MODULE RemoteBuild ----------------------------
(***************************************************************************)
(* Remote builds over a relay: clients (BuildClient) post builds to the    *)
(* relay (Relay), workers (ReverseWorker) poll it for them.  A request     *)
(* that the worker waits for is a slot of Conns; when the worker stops     *)
(* waiting the handler of the relay goes on, for it watches no context:    *)
(* its slot is then orphaned until the handler ends.                       *)
(***************************************************************************)
EXTENDS Naturals, Sequences

CONSTANTS
  Builds, Workers, Conns, Files, Cap, None, Failed,
  Faults       \* what may go wrong in a run, out of FaultKinds

FaultKinds ==
  {"giveUp",         \* a client times out or is interrupted
   "break",          \* a request of a worker fails, before or after the relay has it
   "workerRestart", "relayRestart",
   "noOutput",       \* a build succeeds and leaves no output file
   "ioErrors"}       \* temporary files cannot be created, written or opened

ASSUME RemoteBuildAssumption ==
  /\ Faults \subseteq FaultKinds
  /\ Cap \in Nat \ {0}
  /\ None \notin Builds \cup Workers \cup Conns \cup Files
  /\ Failed \notin Files /\ None # Failed

VARIABLES
  active, jobs, result, archives, temps, whole, bpc, bfile, reply, body, hpc, hjob,
  payload,
  wpc, wjob, wconn, produced,
  cpc, output

R == INSTANCE Relay WITH IOErrors <- "ioErrors" \in Faults
W == INSTANCE ReverseWorker
C == INSTANCE BuildClient

relayVars == <<active, jobs, result, archives, temps, whole, bpc, bfile, reply,
               body, hpc, hjob, payload>>
workerVars == <<wpc, wjob, wconn, produced>>
clientVars == <<cpc, output>>
vars == <<relayVars, workerVars, clientVars>>

TypeOK == R!RelayTypeOK /\ W!WorkerTypeOK /\ C!ClientTypeOK

Init == R!RelayInit /\ W!WorkerInit /\ C!ClientInit

-----------------------------------------------------------------------------
\* The client and the handler of its build.

Submit(b) == C!Post(b) /\ R!Arrive(b) /\ UNCHANGED workerVars

ServeBuild(b) == R!BuildHandler(b) /\ UNCHANGED <<workerVars, clientVars>>

\* net/http cancels the context of the handler once the client is gone.
NoticeCancel(b) ==
  /\ cpc[b] = "failed"
  /\ R!Cancel(b)
  /\ UNCHANGED <<workerVars, clientVars>>

ReadReply(b) ==
  /\ \/ reply[b] = "artifact" /\ (C!BeginSave(b) \/ C!EndSave(b, body[b]))
     \/ reply[b] \notin {"none", "artifact"} /\ C!Rejected(b)
     \/ bpc[b] = "killed" /\ C!GiveUp(b)
     \/ "ioErrors" \in Faults /\ reply[b] = "artifact" /\ C!GiveUp(b)
  /\ UNCHANGED <<relayVars, workerVars>>

GiveUp(b) ==
  /\ "giveUp" \in Faults
  /\ C!GiveUp(b)
  /\ UNCHANGED <<relayVars, workerVars>>

-----------------------------------------------------------------------------
\* The worker and the handlers of its requests.

RequestOf ==
  [idle |-> "pulling", claimed |-> "archive", built |-> "result", failed |-> "error"]

Call(w, c) ==
  /\ W!Send(w, c)
  /\ R!Accept(c, RequestOf[wpc[w]], wjob[w])
  /\ UNCHANGED clientVars

HandleRequest(c) == R!RequestHandler(c) /\ UNCHANGED <<workerVars, clientVars>>

TakeJob(c) == R!Take(c) /\ UNCHANGED <<workerVars, clientVars>>

Orphaned(c) == \A w \in Workers : wconn[w] # c

\* The body of a result breaks off with its connection, or the disk is full.
LoseBody(c) ==
  /\ Orphaned(c) \/ "ioErrors" \in Faults
  /\ R!ReadFails(c)
  /\ UNCHANGED <<workerVars, clientVars>>

\* The answer arrives, and the handler is done; or nobody waits for it.
Answered(w) ==
  /\ wconn[w] # None
  /\ LET c == wconn[w] IN
     /\ R!Finish(c)
     /\ W!Polled(w, hpc[c], hjob[c]) \/ W!Fetched(w, hpc[c]) \/ W!Posted(w)
  /\ UNCHANGED clientVars

Unheard(c) ==
  /\ Orphaned(c)
  /\ R!Finish(c)
  /\ UNCHANGED <<workerVars, clientVars>>

Build(w) ==
  /\ W!BuildSucceeds(w) \/ W!BuildFails(w) \/ ("noOutput" \in Faults /\ W!OutputMissing(w))
  /\ UNCHANGED <<relayVars, clientVars>>

Wake(w) == W!Wake(w) /\ UNCHANGED <<relayVars, clientVars>>

CallFails(w) ==
  /\ "break" \in Faults
  /\ W!CallFails(w)
  /\ UNCHANGED <<relayVars, clientVars>>

RestartWorker(w) ==
  /\ "workerRestart" \in Faults
  /\ W!WorkerRestart(w)
  /\ UNCHANGED <<relayVars, clientVars>>

RestartRelay ==
  /\ "relayRestart" \in Faults
  /\ R!Restart
  /\ UNCHANGED <<workerVars, clientVars>>

-----------------------------------------------------------------------------
WorkerStep(w) == (\E c \in Conns : Call(w, c)) \/ Answered(w) \/ Build(w) \/ Wake(w)

RequestStep(c) == HandleRequest(c) \/ Unheard(c)

Next ==
  \/ \E b \in Builds :
       Submit(b) \/ ServeBuild(b) \/ NoticeCancel(b) \/ ReadReply(b) \/ GiveUp(b)
  \/ \E c \in Conns : RequestStep(c) \/ LoseBody(c)
  \/ \E w \in Workers : WorkerStep(w) \/ CallFails(w) \/ RestartWorker(w)
  \/ RestartRelay

\* Goroutines and processes that can run do run, a build ends (its context has
\* a timeout), a client that may time out does.  A job in the queue is not
\* passed over for ever by pulls that reach their deadline: a pull that finds a
\* job when it starts to wait always takes it.
Fairness ==
  /\ \A b \in Builds :
       /\ WF_vars(ServeBuild(b)) /\ WF_vars(NoticeCancel(b))
       /\ WF_vars(ReadReply(b)) /\ WF_vars(GiveUp(b))
  /\ \A c \in Conns : WF_vars(RequestStep(c))
  /\ \A w \in Workers : WF_vars(WorkerStep(w))
  /\ SF_vars(\E c \in Conns : TakeJob(c))

Spec == Init /\ [][Next]_vars /\ Fairness

-----------------------------------------------------------------------------
\* Safety.

\* A job is in one place at most: the queue, one pull that holds it, or one
\* worker that works on it.  A pull whose worker has gone does not put it back,
\* so a second worker never starts it (newJob, handleReversePull,
\* pullReverseJob).
Places(b) ==
  {<<"queue", i>> : i \in {x \in 1..Len(jobs) : jobs[x] = b}} \cup
  {<<"pull", c>> : c \in {x \in Conns : R!HasTaken(x, b)}} \cup
  {<<"worker", w>> : w \in {x \in Workers : wjob[x] = b}}

JobInOnePlace == \A b \in Builds : \A p, q \in Places(b) : p = q

\* A client that ends well has at -o what a worker made for that very build, all of
\* it: on the way through the worker's post, the relay's file, channel and response
\* it is not cut short and not taken for another build's, though bodies break off,
\* files are removed and their names used again (postReverseResult,
\* handleReverseResult, handleBuild, runBuild).
SavedIsProduced ==
  \A b \in Builds : cpc[b] = "saved" => output[b] = b /\ b \in produced

\* When handleBuild has ended, its archive is off the disk of the relay and,
\* unless it had been cancelled, so is every result posted for it, though the
\* worker's requests may outlive it.  (A cancelled build may leave a result that
\* completeJob accepted too late: see AcceptedIsAwaited.)
CleanWhenDone ==
  \A b \in Builds : bpc[b] = "done" =>
    /\ b \notin archives
    /\ reply[b] # "cancelled" => \A f \in Files : temps[f] # b

\* The service of BuildService, seen in the state of the program: a build may
\* still be run while its handler has not queued it, it is queued, or a pull
\* holds it.
Offered(b) ==
  \/ bpc[b] \in {"uploading", "received", "registered"}
  \/ \E i \in 1..Len(jobs) : jobs[i] = b
  \/ \E c \in Conns : R!HasTaken(c, b)

Runs(w, b) == wjob[w] = b

Stage(b) ==
  IF \E w \in Workers : Runs(w, b) THEN "running"
  ELSE IF cpc[b] = "idle" THEN "new"
  ELSE IF Offered(b) THEN "open"
  ELSE "over"

Runner(b) ==
  IF \E w \in Workers : Runs(w, b) THEN CHOOSE w \in Workers : Runs(w, b) ELSE None

Told(b) ==
  CASE cpc[b] = "saved" -> "artifact"
    [] cpc[b] = "failed" -> "failure"
    [] OTHER -> "none"

Service == INSTANCE BuildService WITH
  stage <- [b \in Builds |-> Stage(b)],
  runner <- [b \in Builds |-> Runner(b)],
  made <- produced,
  answer <- [b \in Builds |-> Told(b)]

\* Clients, relay and workers together implement the service: no build is run
\* twice, whatever connections, processes and clients do.
ImplementsService == Service!ServiceSpec

-----------------------------------------------------------------------------
\* Liveness.

\* Without faults every client gets an answer, though the queue may be full and
\* the workers busy (runBuild may wait with no timeout: -timeout 0).
EveryClientIsAnswered ==
  \A b \in Builds : cpc[b] = "waiting" ~> cpc[b] \in {"saved", "failed"}

\* Whatever fails, a job leaves the table of active jobs once its client gives up,
\* and its archive the disk.  Only an archive whose handler dies with the relay
\* stays, for nothing clears the directory when the relay starts (handleBuild,
\* cleanupJob).
EveryJobIsReleased ==
  \A b \in Builds :
    /\ b \in active ~> b \notin active
    /\ b \in archives ~> b \notin archives \/ bpc[b] = "killed"

\* A cancelled job stays in the queue and takes up room there until a pull
\* throws it out for good, which happens as long as polls keep reaching the relay.
StaleJobsLeaveQueue ==
  ([]<>(\E c \in Conns : hpc[c] = "pulling")) =>
    \A b \in Builds :
      bpc[b] = "done" ~> [](\A i \in 1..Len(jobs) : jobs[i] # b)

\* No failure leaves a worker waiting or building for ever: it always comes back
\* to poll (runReverseLoop).
WorkersComeBack == \A w \in Workers : []<>(wpc[w] = "idle")

-----------------------------------------------------------------------------
\* Statements of the repository that the code does not keep.

\* README.MD: a job that a poll takes from the queue goes to the worker that
\* polls.  handleReversePull does not watch the context of its request.
DispatchReachesWorker ==
  [][\A c \in Conns :
       hpc[c] # "dispatched" /\ hpc'[c] = "dispatched" => ~Orphaned(c)]_vars

\* completeJob's refusal ("job is no longer waiting for a result"): a result is
\* accepted only for a build that waits for it.
AcceptedIsAwaited ==
  [][\A b \in Builds :
       result[b] = None /\ result'[b] # None => bpc[b] = "waiting"]_vars
=============================================================================
