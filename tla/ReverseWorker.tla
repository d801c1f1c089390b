--------------------------- MODULE ReverseWorker ---------------------------
(***************************************************************************)
(* A `sarver` in reverse mode (Sarver/main.go, runReverseLoop): one        *)
(* goroutine that polls the relay for a job, downloads its archive, runs   *)
(* the build, and posts the artifact or an error.  What the relay answers  *)
(* is a parameter of these actions; RemoteBuild joins them to the relay's. *)
(***************************************************************************)
CONSTANTS
  Builds,      \* the jobs a relay can hand out
  Workers,     \* the sarver processes
  Conns,       \* HTTP requests in progress (bounds the model)
  None         \* no job, no request

VARIABLES
  wpc,         \* where the loop of each worker stands
  wjob,        \* the job handleReverseJob works on
  wconn,       \* the request whose response the worker waits for
  produced     \* history: the builds some worker has an artifact of

workerVars == <<wpc, wjob, wconn, produced>>

\* Points at which the worker is about to send a request, and the point at
\* which it then waits for the answer.
Awaiting ==
  [idle |-> "polling", claimed |-> "fetching", built |-> "delivering",
   failed |-> "reporting"]

WorkerSteps == {"idle", "polling", "backoff", "claimed", "fetching",
                "building", "built", "delivering", "failed", "reporting"}

WorkerTypeOK ==
  /\ wpc \in [Workers -> WorkerSteps]
  /\ wjob \in [Workers -> Builds \cup {None}]
  /\ wconn \in [Workers -> Conns \cup {None}]
  /\ produced \subseteq Builds

WorkerInit ==
  /\ wpc = [w \in Workers |-> "idle"]
  /\ wjob = [w \in Workers |-> None]
  /\ wconn = [w \in Workers |-> None]
  /\ produced = {}

\* The worker goes on at step `to`, with no request in progress.  It keeps its
\* job only where handleReverseJob has not returned.
GoTo(w, to) ==
  /\ wpc' = [wpc EXCEPT ![w] = to]
  /\ wconn' = [wconn EXCEPT ![w] = None]
  /\ wjob' = [wjob EXCEPT ![w] = IF to \in {"idle", "backoff"} THEN None ELSE @]

\* A request is sent: the poll, the archive, the result or the error.
Send(w, c) ==
  /\ wpc[w] \in DOMAIN Awaiting
  /\ wpc' = [wpc EXCEPT ![w] = Awaiting[@]]
  /\ wconn' = [wconn EXCEPT ![w] = c]
  /\ UNCHANGED <<wjob, produced>>

\* pullReverseJob returns a job, nothing (204) or an error; after an error the
\* loop sleeps three seconds.
Polled(w, response, b) ==
  /\ wpc[w] = "polling"
  /\ \/ /\ response = "dispatched"
        /\ wpc' = [wpc EXCEPT ![w] = "claimed"]
        /\ wconn' = [wconn EXCEPT ![w] = None]
        /\ wjob' = [wjob EXCEPT ![w] = b]
     \/ response = "nocontent" /\ GoTo(w, "idle")
     \/ response \notin {"dispatched", "nocontent"} /\ GoTo(w, "backoff")
  /\ UNCHANGED produced

Wake(w) ==
  /\ wpc[w] = "backoff"
  /\ GoTo(w, "idle")
  /\ UNCHANGED produced

\* Mutant: the download is tried again until it works.
FetchedRetries(w, response) ==
  /\ wpc[w] = "fetching"
  /\ GoTo(w, IF response = "sent" THEN "building" ELSE "claimed")
  /\ UNCHANGED produced

\* handleReverseJob: anything but a 200 with the archive is reported as a 502.
Fetched(w, response) ==
  /\ wpc[w] = "fetching"
  /\ GoTo(w, IF response = "sent" THEN "building" ELSE "failed")
  /\ UNCHANGED produced

\* executeBuild returns an artifact or, from a bad request, archive or build or
\* after its timeout, an error.
BuildSucceeds(w) ==
  /\ wpc[w] = "building"
  /\ GoTo(w, "built")
  /\ produced' = produced \cup {wjob[w]}

\* Mutant: a failed build is only logged.
BuildFailsSilently(w) ==
  /\ wpc[w] = "building"
  /\ GoTo(w, "idle")
  /\ UNCHANGED produced

BuildFails(w) ==
  /\ wpc[w] = "building"
  /\ GoTo(w, "failed")
  /\ UNCHANGED produced

\* The command succeeds and leaves no file at OutputPath (as with
\* -fsyntax-only): postReverseResult cannot open it, which is only logged.
OutputMissing(w) ==
  /\ wpc[w] = "building"
  /\ GoTo(w, "idle")
  /\ UNCHANGED produced

\* postReverseResult and postReverseError: whatever the answer, the job is over.
Posted(w) ==
  /\ wpc[w] \in {"delivering", "reporting"}
  /\ GoTo(w, "idle")
  /\ UNCHANGED produced

\* client.Do returns an error: the relay is not reached, the connection breaks,
\* or the 45 seconds of the client have passed.
CallFails(w) ==
  /\ \/ wpc[w] \in {"idle", "polling"} /\ GoTo(w, "backoff")
     \/ wpc[w] \in {"claimed", "fetching"} /\ GoTo(w, "failed")
     \/ wpc[w] \in {"built", "delivering", "failed", "reporting"} /\ GoTo(w, "idle")
  /\ UNCHANGED produced

\* The process is killed (the host's "stop sarver", a reboot of the console)
\* and started again: its job is forgotten.
WorkerRestart(w) ==
  /\ wpc[w] # "idle"
  /\ GoTo(w, "idle")
  /\ UNCHANGED produced
=============================================================================
