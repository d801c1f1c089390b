------------------------------- MODULE Relay -------------------------------
(***************************************************************************)
(* The build relay of `cliant serve` (Cliant/main.go): the HTTP handlers   *)
(* that share the queue of jobs, the table of active jobs, one result      *)
(* channel per job and the temporary files.                                *)
(*                                                                         *)
(* Every handler runs in a goroutine of its own.  Each action below is one *)
(* step of one handler between two points at which another handler can     *)
(* interfere: the mutex is taken and released within a step, a channel     *)
(* operation is a step, a file operation is a step.                        *)
(*                                                                         *)
(* The module is open: any build may be submitted, cancelled at any time,  *)
(* and any request may arrive for any job, in any order and any number of  *)
(* times.  RemoteBuild closes it with the real worker and client.          *)
(***************************************************************************)
EXTENDS Naturals, Sequences

CONSTANTS
  Builds,      \* the POST /build requests, each with the job and archive it creates
  Conns,       \* requests of workers in progress at once (bounds the model)
  Files,       \* names os.CreateTemp can return for results (bounds the model)
  Cap,         \* the capacity of relayServer.jobs: 16 in the code
  None,        \* no job, no file, an empty channel
  Failed,      \* a relayResult that carries an error and no artifact
  IOErrors     \* TRUE when creating, writing or opening a temporary file may fail

ASSUME RelayAssumption ==
  /\ Cap \in Nat \ {0}
  /\ None \notin Builds
  /\ None \notin Files
  /\ Failed \notin Files
  /\ None # Failed
  /\ IOErrors \in BOOLEAN

VARIABLES
  active,      \* the keys of relayServer.active
  jobs,        \* the buffer of the channel relayServer.jobs
  result,      \* the buffer of each job's Result channel, of capacity 1
  archives,    \* the builds whose source archive is on disk
  temps,       \* result files on disk, each with the build it was posted for
  whole,       \* those that hold the whole body of their post
  bpc,         \* where each handleBuild stands
  bfile,       \* the artifact handleBuild has received, and must remove
  reply,       \* what handleBuild has written to its client
  body,        \* what the body of that 200 is made of
  hpc,         \* where the handler of each worker request stands
  hjob,        \* the job that handler holds
  payload      \* the relayResult that handler is about to deliver

relayVars == <<active, jobs, result, archives, temps, whole, bpc, bfile, reply,
               body, hpc, hjob, payload>>

BuildSteps ==
  {"idle", "uploading", "received", "registered", "overflow", "refusing", "waiting",
   "serving", "removing", "closing", "unlinking", "done", "killed"}

HandlerSteps ==
  {"pulling", "checking", "archive", "opening", "result", "reading",
   "error", "completing", "sending"}

\* A handler that has answered.  "dispatched" is a 200 with a job, "nocontent"
\* a 204, "sent" a 200 with the archive, "accepted" a 200 to a result or an
\* error, "notfound" a 404, "gone" a 410, "failed" a 400 or 500; "reset" stands
\* for the connection that a dying relay leaves behind.
Responses ==
  {"dispatched", "nocontent", "sent", "accepted", "notfound", "gone",
   "failed", "reset"}

\* "artifact" is a 200 with the size of the file as its Content-Length.
Replies == {"none", "artifact", "error", "cancelled", "reset"}

Bodies == Builds \cup {None, "partial"}

RelayTypeOK ==
  /\ active \subseteq Builds
  /\ jobs \in Seq(Builds) /\ Len(jobs) <= Cap
  /\ result \in [Builds -> Files \cup {None, Failed}]
  /\ archives \subseteq Builds
  /\ temps \in [Files -> Builds \cup {None}]
  /\ whole \subseteq Files
  /\ bpc \in [Builds -> BuildSteps]
  /\ bfile \in [Builds -> Files \cup {None}]
  /\ reply \in [Builds -> Replies]
  /\ body \in [Builds -> Bodies]
  /\ hpc \in [Conns -> HandlerSteps \cup Responses \cup {"free"}]
  /\ hjob \in [Conns -> Builds \cup {None}]
  /\ payload \in [Conns -> Files \cup {None, Failed}]

RelayInit ==
  /\ active = {}
  /\ jobs = <<>>
  /\ result = [b \in Builds |-> None]
  /\ archives = {}
  /\ temps = [f \in Files |-> None]
  /\ whole = {}
  /\ bpc = [b \in Builds |-> "idle"]
  /\ bfile = [b \in Builds |-> None]
  /\ reply = [b \in Builds |-> "none"]
  /\ body = [b \in Builds |-> None]
  /\ hpc = [c \in Conns |-> "free"]
  /\ hjob = [c \in Conns |-> None]
  /\ payload = [c \in Conns |-> None]

-----------------------------------------------------------------------------
\* handleBuild: one goroutine per build b.

BuildStep(b, from, to) ==
  /\ bpc[b] = from
  /\ bpc' = [bpc EXCEPT ![b] = to]

Answer(b, r) ==
  /\ reply' = [reply EXCEPT ![b] = r]
  /\ UNCHANGED body

\* What a result file holds, and os.Remove of one.
Contents(f) == IF f \in whole THEN temps[f] ELSE "partial"

Remove(f) ==
  /\ temps' = [g \in Files |-> IF g = f THEN None ELSE temps[g]]
  /\ whole' = whole \ {f}

\* A POST /build arrives.
Arrive(b) ==
  /\ BuildStep(b, "idle", "uploading")
  /\ UNCHANGED <<active, jobs, result, archives, temps, whole, bfile, reply, body, hpc,
                 hjob, payload>>

\* receiveBuildRequest has saved the uploaded archive, or rejects an upload that
\* is too large, malformed, broken off or cannot be saved.
Receive(b) ==
  /\ BuildStep(b, "uploading", "received")
  /\ archives' = archives \cup {b}
  /\ UNCHANGED <<active, jobs, result, temps, whole, bfile, reply, body, hpc, hjob,
                 payload>>

Reject(b) ==
  /\ BuildStep(b, "uploading", "done")
  /\ Answer(b, "error")
  /\ UNCHANGED <<active, jobs, result, archives, temps, whole, bfile, hpc, hjob, payload>>

\* newJob: the job enters the table before it enters the queue.
Register(b) ==
  /\ BuildStep(b, "received", "registered")
  /\ active' = active \cup {b}
  /\ UNCHANGED <<jobs, result, archives, temps, whole, bfile, reply, body, hpc, hjob,
                 payload>>

\* Mutant: the send appends without regard to the capacity of the channel.
EnqueueUnbounded(b) ==
  /\ BuildStep(b, "registered", "waiting")
  /\ jobs' = Append(jobs, b)
  /\ UNCHANGED <<active, result, archives, temps, whole, bfile, reply, body, hpc, hjob,
                 payload>>

\* newJob: the non-blocking send on the queue, one action per case.
Enqueue(b) ==
  /\ Len(jobs) < Cap
  /\ BuildStep(b, "registered", "waiting")
  /\ jobs' = Append(jobs, b)
  /\ UNCHANGED <<active, result, archives, temps, whole, bfile, reply, body, hpc, hjob,
                 payload>>

Overflow(b) ==
  /\ Len(jobs) >= Cap
  /\ BuildStep(b, "registered", "overflow")
  /\ UNCHANGED <<active, jobs, result, archives, temps, whole, bfile, reply, body, hpc,
                 hjob, payload>>

\* newJob takes the job back out of the table; handleBuild then removes the
\* archive and answers 503.
Withdraw(b) ==
  /\ BuildStep(b, "overflow", "refusing")
  /\ active' = active \ {b}
  /\ UNCHANGED <<jobs, result, archives, temps, whole, bfile, reply, body, hpc, hjob,
                 payload>>

Refuse(b) ==
  /\ BuildStep(b, "refusing", "done")
  /\ archives' = archives \ {b}
  /\ Answer(b, "error")
  /\ UNCHANGED <<active, jobs, result, temps, whole, bfile, hpc, hjob, payload>>

\* The select of handleBuild: a result has come.  An error is answered at once
\* with its status (500 when it is zero); an artifact is still to be opened.
TakeResult(b) ==
  /\ result[b] # None
  /\ result' = [result EXCEPT ![b] = None]
  /\ \/ /\ result[b] = Failed
        /\ BuildStep(b, "waiting", "closing")
        /\ Answer(b, "error")
        /\ UNCHANGED bfile
     \/ /\ result[b] # Failed
        /\ BuildStep(b, "waiting", "serving")
        /\ bfile' = [bfile EXCEPT ![b] = result[b]]
        /\ UNCHANGED <<reply, body>>
  /\ UNCHANGED <<active, jobs, archives, temps, whole, hpc, hjob, payload>>

\* Mutant: a cancelled handler returns before its cleanup is deferred.
CancelUnclean(b) ==
  /\ BuildStep(b, "waiting", "done")
  /\ Answer(b, "cancelled")
  /\ UNCHANGED <<active, jobs, result, archives, temps, whole, bfile, hpc, hjob, payload>>

\* The select of handleBuild: r.Context() is done.
Cancel(b) ==
  /\ BuildStep(b, "waiting", "closing")
  /\ Answer(b, "cancelled")
  /\ UNCHANGED <<active, jobs, result, archives, temps, whole, bfile, hpc, hjob, payload>>

\* Opening and streaming the artifact, or a 500 when it cannot be opened.  (If it
\* cannot be read to the end the body is shorter than its Content-Length.)
Serve(b) ==
  /\ BuildStep(b, "serving", "removing")
  /\ \/ /\ temps[bfile[b]] # None
        /\ reply' = [reply EXCEPT ![b] = "artifact"]
        /\ body' = [body EXCEPT ![b] = Contents(bfile[b])]
     \/ (temps[bfile[b]] = None \/ IOErrors) /\ Answer(b, "error")
  /\ UNCHANGED <<active, jobs, result, archives, temps, whole, bfile, hpc, hjob, payload>>

\* Mutant: the artifact is only closed.
KeepArtifact(b) ==
  /\ BuildStep(b, "removing", "closing")
  /\ bfile' = [bfile EXCEPT ![b] = None]
  /\ UNCHANGED <<active, jobs, result, archives, temps, whole, reply, body, hpc, hjob,
                 payload>>

\* Mutant: cleanupJob removes the archive first.
ArchiveFirst(b) ==
  /\ BuildStep(b, "closing", "unlinking")
  /\ archives' = archives \ {b}
  /\ UNCHANGED <<active, jobs, result, temps, whole, bfile, reply, body, hpc, hjob,
                 payload>>

\* The deferred calls, last one first: the artifact is removed, then cleanupJob
\* takes the job out of the table and, outside the lock, removes the archive.
RemoveArtifact(b) ==
  /\ BuildStep(b, "removing", "closing")
  /\ Remove(bfile[b])
  /\ bfile' = [bfile EXCEPT ![b] = None]
  /\ UNCHANGED <<active, jobs, result, archives, reply, body, hpc, hjob, payload>>

Deregister(b) ==
  /\ BuildStep(b, "closing", "unlinking")
  /\ active' = active \ {b}
  /\ UNCHANGED <<jobs, result, archives, temps, whole, bfile, reply, body, hpc, hjob,
                 payload>>

RemoveArchive(b) ==
  /\ BuildStep(b, "unlinking", "done")
  /\ archives' = archives \ {b}
  /\ UNCHANGED <<active, jobs, result, temps, whole, bfile, reply, body, hpc, hjob,
                 payload>>

BuildHandler(b) ==
  \/ Receive(b) \/ Reject(b)
  \/ Register(b) \/ Enqueue(b) \/ Overflow(b) \/ Withdraw(b) \/ Refuse(b)
  \/ TakeResult(b) \/ Serve(b)
  \/ RemoveArtifact(b) \/ Deregister(b) \/ RemoveArchive(b)

-----------------------------------------------------------------------------
\* The handlers of the worker's requests: one goroutine per request c.

HandlerStep(c, from, to) ==
  /\ hpc[c] = from
  /\ hpc' = [hpc EXCEPT ![c] = to]

\* A request arrives: a pull, or one of the three that name a job.
Accept(c, request, b) ==
  /\ HandlerStep(c, "free", request)
  /\ hjob' = [hjob EXCEPT ![c] = b]
  /\ UNCHANGED <<active, jobs, result, archives, temps, whole, bpc, bfile, reply, body,
                 payload>>

\* Mutant: the job is read and stays in the queue.
Peek(c) ==
  /\ jobs # <<>>
  /\ HandlerStep(c, "pulling", "checking")
  /\ hjob' = [hjob EXCEPT ![c] = Head(jobs)]
  /\ UNCHANGED <<active, jobs, result, archives, temps, whole, bpc, bfile, reply, body,
                 payload>>

\* handleReversePull: a job is received from the queue ...
Take(c) ==
  /\ jobs # <<>>
  /\ HandlerStep(c, "pulling", "checking")
  /\ hjob' = [hjob EXCEPT ![c] = Head(jobs)]
  /\ jobs' = Tail(jobs)
  /\ UNCHANGED <<active, result, archives, temps, whole, bpc, bfile, reply, body,
                 payload>>

\* Mutant: a job that is not active goes back to the queue.
CheckRequeues(c) ==
  /\ \/ /\ hjob[c] \in active
        /\ HandlerStep(c, "checking", "dispatched")
        /\ UNCHANGED <<hjob, jobs>>
     \/ /\ hjob[c] \notin active
        /\ HandlerStep(c, "checking", "pulling")
        /\ hjob' = [hjob EXCEPT ![c] = None]
        /\ jobs' = IF Len(jobs) < Cap THEN Append(jobs, hjob[c]) ELSE jobs
  /\ UNCHANGED <<active, result, archives, temps, whole, bpc, bfile, reply, body,
                 payload>>

\* ... and is dispatched if hasJob finds it, else the loop goes on without it.
Check(c) ==
  /\ \/ /\ hjob[c] \in active
        /\ HandlerStep(c, "checking", "dispatched")
        /\ UNCHANGED hjob
     \/ /\ hjob[c] \notin active
        /\ HandlerStep(c, "checking", "pulling")
        /\ hjob' = [hjob EXCEPT ![c] = None]
  /\ UNCHANGED <<active, jobs, result, archives, temps, whole, bpc, bfile, reply, body,
                 payload>>

\* relayPullTimeout has passed.  The loop ends however many jobs are queued.
Deadline(c) ==
  /\ HandlerStep(c, "pulling", "nocontent")
  /\ UNCHANGED <<active, jobs, result, archives, temps, whole, bpc, bfile, reply, body,
                 hjob, payload>>

\* handleReverseArchive: getJob, then os.Open of the job's archive.
FindArchive(c) ==
  /\ \/ hjob[c] \in active /\ HandlerStep(c, "archive", "opening")
     \/ hjob[c] \notin active /\ HandlerStep(c, "archive", "notfound")
  /\ UNCHANGED <<active, jobs, result, archives, temps, whole, bpc, bfile, reply, body,
                 hjob, payload>>

SendArchive(c) ==
  /\ \/ hjob[c] \in archives /\ HandlerStep(c, "opening", "sent")
     \/ (hjob[c] \notin archives \/ IOErrors) /\ HandlerStep(c, "opening", "failed")
  /\ UNCHANGED <<active, jobs, result, archives, temps, whole, bpc, bfile, reply, body,
                 hjob, payload>>

\* handleReverseResult: getJob and os.CreateTemp.
OpenResult(c) ==
  \/ /\ hjob[c] \in active
     /\ HandlerStep(c, "result", "reading")
     /\ \E f \in Files :
          /\ temps[f] = None
          /\ temps' = [temps EXCEPT ![f] = hjob[c]]
          /\ whole' = whole \ {f}
          /\ payload' = [payload EXCEPT ![c] = f]
     /\ UNCHANGED <<active, jobs, result, archives, bpc, bfile, reply, body, hjob>>
  \/ /\ \/ hjob[c] \notin active /\ HandlerStep(c, "result", "notfound")
        \/ IOErrors /\ hjob[c] \in active /\ HandlerStep(c, "result", "failed")
     /\ UNCHANGED <<active, jobs, result, archives, temps, whole, bpc, bfile, reply,
                    body, hjob, payload>>

\* handleReverseResult: io.Copy of the request body to the file.
ReadResult(c) ==
  /\ HandlerStep(c, "reading", "completing")
  /\ whole' = {f \in Files : f \in whole \/ f = payload[c]}
  /\ UNCHANGED <<active, jobs, result, archives, temps, bpc, bfile, reply, body, hjob,
                 payload>>

\* handleReverseError: getJob; an unreadable body is passed on as it is.
ReadError(c) ==
  /\ \/ /\ hjob[c] \in active
        /\ HandlerStep(c, "error", "completing")
        /\ payload' = [payload EXCEPT ![c] = Failed]
     \/ /\ hjob[c] \notin active
        /\ HandlerStep(c, "error", "notfound")
        /\ UNCHANGED payload
  /\ UNCHANGED <<active, jobs, result, archives, temps, whole, bpc, bfile, reply, body,
                 hjob>>

\* Mutant: the file of a result that is dropped stays.
DiscardKeeps(c, from, to) ==
  /\ HandlerStep(c, from, to)
  /\ payload' = [payload EXCEPT ![c] = None]
  /\ UNCHANGED <<active, jobs, result, archives, temps, whole, bpc, bfile, reply, body,
                 hjob>>

\* The result is dropped: its file, if it has one, is removed.
Discard(c, from, to) ==
  /\ HandlerStep(c, from, to)
  /\ Remove(payload[c])
  /\ payload' = [payload EXCEPT ![c] = None]
  /\ UNCHANGED <<active, jobs, result, archives, bpc, bfile, reply, body, hjob>>

\* Mutant: what was read of a body that breaks off is passed on.
ReadFailsIgnored(c) ==
  /\ HandlerStep(c, "reading", "completing")
  /\ UNCHANGED <<active, jobs, result, archives, temps, whole, bpc, bfile, reply, body,
                 hjob, payload>>

\* handleReverseResult: the body breaks off, or the disk is full.
ReadFails(c) == Discard(c, "reading", "failed")

\* completeJob: the look-up under the lock ...
Complete(c) ==
  \/ /\ hjob[c] \in active
     /\ HandlerStep(c, "completing", "sending")
     /\ UNCHANGED <<active, jobs, result, archives, temps, whole, bpc, bfile, reply,
                    body, hjob, payload>>
  \/ hjob[c] \notin active /\ Discard(c, "completing", "gone")

\* Mutant: the file is removed when the handler returns, accepted or not.
SendResultRemoves(c) ==
  /\ HandlerStep(c, "sending", "accepted")
  /\ result[hjob[c]] = None
  /\ result' = [result EXCEPT ![hjob[c]] = payload[c]]
  /\ payload' = [payload EXCEPT ![c] = None]
  /\ Remove(payload[c])
  /\ UNCHANGED <<active, jobs, archives, bpc, bfile, reply, body, hjob>>

\* ... and, after the unlock, the non-blocking send on the job's channel.
SendResult(c) ==
  \/ /\ HandlerStep(c, "sending", "accepted")
     /\ result[hjob[c]] = None
     /\ result' = [result EXCEPT ![hjob[c]] = payload[c]]
     /\ payload' = [payload EXCEPT ![c] = None]
     /\ UNCHANGED <<active, jobs, archives, temps, whole, bpc, bfile, reply, body, hjob>>
  \/ Discard(c, "sending", "gone") /\ result[hjob[c]] # None

\* The response has left, or there is nobody to read it: the goroutine ends.
Finish(c) ==
  /\ hpc[c] \in Responses
  /\ hpc' = [hpc EXCEPT ![c] = "free"]
  /\ hjob' = [hjob EXCEPT ![c] = None]
  /\ UNCHANGED <<active, jobs, result, archives, temps, whole, bpc, bfile, reply, body,
                 payload>>

RequestHandler(c) ==
  \/ Take(c) \/ Check(c) \/ Deadline(c)
  \/ FindArchive(c) \/ SendArchive(c)
  \/ OpenResult(c) \/ ReadResult(c) \/ ReadError(c)
  \/ Complete(c) \/ SendResult(c)

-----------------------------------------------------------------------------
\* The process dies and is started again.  The queue, the table and every
\* goroutine are gone; the temporary files stay.
Restart ==
  LET running(b) == bpc[b] \notin {"idle", "done", "killed"} IN
  /\ active' = {}
  /\ jobs' = <<>>
  /\ result' = [b \in Builds |-> None]
  /\ bpc' = [b \in Builds |-> IF running(b) THEN "killed" ELSE bpc[b]]
  /\ bfile' = [b \in Builds |-> None]
  /\ reply' = [b \in Builds |-> IF running(b) /\ reply[b] = "none"
                                THEN "reset" ELSE reply[b]]
  /\ hpc' = [c \in Conns |-> IF hpc[c] = "free" THEN "free" ELSE "reset"]
  /\ hjob' = [c \in Conns |-> None]
  /\ payload' = [c \in Conns |-> None]
  /\ UNCHANGED <<archives, temps, whole, body>>

RelayNext ==
  \/ \E b \in Builds : Arrive(b) \/ BuildHandler(b) \/ Cancel(b)
  \/ \E c \in Conns :
       \/ Accept(c, "pulling", None)
       \/ \E b \in Builds, r \in {"archive", "result", "error"} : Accept(c, r, b)
       \/ RequestHandler(c) \/ ReadFails(c) \/ Finish(c)
  \/ Restart

RelaySpec == RelayInit /\ [][RelayNext]_relayVars

-----------------------------------------------------------------------------
\* Properties of the relay, whatever its clients and workers do.

\* A job that getJob or hasJob finds has its sources: while it is in the table its
\* archive is on disk (newJob comes after the upload, cleanupJob leaves the table
\* before it removes the file).
ActiveJobsHaveArchive == active \subseteq archives

\* The handlers between them never have a job twice: a job is at most once in
\* the queue or in the hands of one pull, so no two workers are given it by the
\* same relay (newJob, handleReversePull).
HasTaken(c, b) == hpc[c] \in {"checking", "dispatched"} /\ hjob[c] = b

JobsAreSingle ==
  /\ \A i, j \in 1..Len(jobs) : jobs[i] = jobs[j] => i = j
  /\ \A c \in Conns, i \in 1..Len(jobs) : ~HasTaken(c, jobs[i])
  /\ \A b \in Builds, c, d \in Conns :
       HasTaken(c, b) /\ HasTaken(d, b) => c = d

\* Who holds a result file: the request that writes it until completeJob has
\* passed it on, then the channel, then handleBuild.
Holders(f) ==
  {<<"request", c>> : c \in {x \in Conns : payload[x] = f}} \cup
  {<<"channel", b>> : b \in {x \in Builds : result[x] = f}} \cup
  {<<"build", b>> : b \in {x \in Builds : bfile[x] = f}}

\* A result passed on to a build is on disk, whole and its own until that build
\* removes it: no error path of another handler (a second result, a refused one)
\* removes or reuses the file.
ResultsAreIntact ==
  /\ \A b \in Builds : result[b] \in Files => Contents(result[b]) = b
  /\ \A b \in Builds : bfile[b] \in Files => Contents(bfile[b]) = b
  /\ \A f \in Files, o, p \in UNION {Holders(g) : g \in Files} :
       o \in Holders(f) /\ p \in Holders(f) => o = p

\* Somebody will remove the file or pass it on.  A channel counts while its build
\* may still receive from it.
Receiving(b) == bpc[b] \in {"registered", "waiting"}

HasOwner(f) ==
  \/ \E c \in Conns : payload[c] = f
  \/ \E b \in Builds : result[b] = f /\ Receiving(b)
  \/ \E b \in Builds : bfile[b] = f

\* The two ways in which the code leaves a result in a channel that nobody reads:
\* completeJob sends it after the build has gone on (see AcceptedIsAwaited in
\* RemoteBuild), or the build ends without a look at its channel, cancelled or
\* refused by a full queue.
SentLate(f) ==
  \E c \in Conns : payload[c] = f /\ ~Receiving(hjob[c]) /\ SendResult(c)

LeftInChannel(f) ==
  \E b \in Builds : result[b] = f /\ (Cancel(b) \/ Overflow(b))

\* No other step of a living relay forgets a result file: every file on disk that
\* somebody had to remove is removed or still has an owner (handleReverseResult,
\* completeJob, handleBuild).
NoFileForgotten ==
  [][Restart \/ \A f \in Files :
       HasOwner(f) /\ temps'[f] # None =>
         HasOwner(f)' \/ SentLate(f) \/ LeftInChannel(f)]_relayVars
=============================================================================
