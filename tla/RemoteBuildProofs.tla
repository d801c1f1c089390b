------------------------- MODULE RemoteBuildProofs -------------------------
(***************************************************************************)
(* Proofs about RemoteBuild, for all sets of builds, workers, requests and *)
(* files, every capacity of the queue and every choice of faults: that its *)
(* relay is the one of Relay, that no job is with two workers, that what a *)
(* client saves was made for it, and that the whole implements             *)
(* BuildService.                                                           *)
(***************************************************************************)
EXTENDS RemoteBuild, TLAPS

P == INSTANCE RelayProofs WITH IOErrors <- "ioErrors" \in Faults

-----------------------------------------------------------------------------
\* The relay of RemoteBuild is that of RelayProofs.

\* The constants are as RelayProofs assumes them.
LEMMA RelayAssumed == P!RelayAssumption
  BY RemoteBuildAssumption DEF P!RelayAssumption

\* R and P are two instances of one module: their initial states are the same ...
LEMMA SameInit == R!RelayInit => P!RelayInit
  BY DEF R!RelayInit, P!RelayInit

\* ... and so are the steps of builds ...
LEMMA SameBuilds ==
  ASSUME NEW b \in Builds
  PROVE  /\ R!Arrive(b) => P!Arrive(b)
         /\ R!Cancel(b) => P!Cancel(b)
         /\ R!BuildHandler(b) => P!BuildHandler(b)
<1> USE DEF R!BuildStep, P!BuildStep, R!Answer, P!Answer, R!Contents, P!Contents,
           R!Remove, P!Remove
<1>1. R!Arrive(b) => P!Arrive(b)  BY DEF R!Arrive, P!Arrive
<1>2. R!Cancel(b) => P!Cancel(b)  BY DEF R!Cancel, P!Cancel
<1>3. R!Receive(b) => P!Receive(b)  BY DEF R!Receive, P!Receive
<1>4. R!Reject(b) => P!Reject(b)  BY DEF R!Reject, P!Reject
<1>5. R!Register(b) => P!Register(b)  BY DEF R!Register, P!Register
<1>6. R!Enqueue(b) => P!Enqueue(b)  BY DEF R!Enqueue, P!Enqueue
<1>7. R!Overflow(b) => P!Overflow(b)  BY DEF R!Overflow, P!Overflow
<1>8. R!Withdraw(b) => P!Withdraw(b)  BY DEF R!Withdraw, P!Withdraw
<1>9. R!Refuse(b) => P!Refuse(b)  BY DEF R!Refuse, P!Refuse
<1>10. R!TakeResult(b) => P!TakeResult(b)  BY DEF R!TakeResult, P!TakeResult
<1>11. R!Serve(b) => P!Serve(b)  BY DEF R!Serve, P!Serve
<1>12. R!RemoveArtifact(b) => P!RemoveArtifact(b)  BY DEF R!RemoveArtifact, P!RemoveArtifact
<1>13. R!Deregister(b) => P!Deregister(b)  BY DEF R!Deregister, P!Deregister
<1>14. R!RemoveArchive(b) => P!RemoveArchive(b)  BY DEF R!RemoveArchive, P!RemoveArchive
<1>. QED
  BY <1>1, <1>2, <1>3, <1>4, <1>5, <1>6, <1>7, <1>8, <1>9, <1>10, <1>11, <1>12, <1>13, <1>14
  DEF R!BuildHandler, P!BuildHandler

\* ... and of requests.
LEMMA SameRequests ==
  ASSUME NEW c \in Conns
  PROVE  /\ R!RequestHandler(c) => P!RequestHandler(c)
         /\ R!Take(c) => P!Take(c)
         /\ R!ReadFails(c) => P!ReadFails(c)
         /\ R!Finish(c) => P!Finish(c)
         /\ \A r, b : R!Accept(c, r, b) => P!Accept(c, r, b)
<1> USE DEF R!HandlerStep, P!HandlerStep, R!Discard, P!Discard, R!Responses, P!Responses,
           R!Remove, P!Remove
<1>1. R!Take(c) => P!Take(c)  BY DEF R!Take, P!Take
<1>2. R!Check(c) => P!Check(c)  BY DEF R!Check, P!Check
<1>3. R!Deadline(c) => P!Deadline(c)  BY DEF R!Deadline, P!Deadline
<1>4. R!FindArchive(c) => P!FindArchive(c)  BY DEF R!FindArchive, P!FindArchive
<1>5. R!SendArchive(c) => P!SendArchive(c)  BY DEF R!SendArchive, P!SendArchive
<1>6. R!OpenResult(c) => P!OpenResult(c)  BY DEF R!OpenResult, P!OpenResult
<1>7. R!ReadResult(c) => P!ReadResult(c)  BY DEF R!ReadResult, P!ReadResult
<1>8. R!ReadError(c) => P!ReadError(c)  BY DEF R!ReadError, P!ReadError
<1>9. R!Complete(c) => P!Complete(c)  BY DEF R!Complete, P!Complete
<1>10. R!SendResult(c) => P!SendResult(c)  BY DEF R!SendResult, P!SendResult
<1>11. R!ReadFails(c) => P!ReadFails(c)  BY DEF R!ReadFails, P!ReadFails
<1>12. R!Finish(c) => P!Finish(c)  BY DEF R!Finish, P!Finish
<1>13. ASSUME NEW r, NEW b PROVE R!Accept(c, r, b) => P!Accept(c, r, b)
  BY DEF R!Accept, P!Accept
<1>. QED
  BY <1>1, <1>2, <1>3, <1>4, <1>5, <1>6, <1>7, <1>8, <1>9, <1>10, <1>11, <1>12, <1>13
  DEF R!RequestHandler, P!RequestHandler

\* So is the restart.
LEMMA SameRestart == R!Restart => P!Restart
  BY DEF R!Restart, P!Restart

-----------------------------------------------------------------------------
\* The inductive invariant.

\* A worker has a job just from the poll that gives it one to the end of
\* handleReverseJob, and a request of its own just while it waits for one; only
\* the request of a poll can hand out a job.
Working == {"claimed", "fetching", "building", "built", "delivering", "failed", "reporting"}
Waits == {"polling", "fetching", "delivering", "reporting"}

WorkerInv ==
  \A w \in Workers :
    /\ wjob[w] # None <=> wpc[w] \in Working
    /\ wconn[w] # None <=> wpc[w] \in Waits
    /\ wconn[w] # None => hpc[wconn[w]] # "free"
    /\ wconn[w] # None /\ wpc[w] # "polling" =>
         hpc[wconn[w]] \notin {"pulling", "checking", "dispatched"}
    /\ \A v \in Workers : wconn[w] # None /\ wconn[v] = wconn[w] => v = w

\* The job of a worker is with no other, and has left the relay for good.
PlaceInv ==
  \A w \in Workers, b \in Builds : Runs(w, b) =>
    P!Gone(b) /\ \A v \in Workers : Runs(v, b) => v = w

\* A build is made once: it has left the relay, and a worker that has it still is
\* about to deliver it.
OnceInv ==
  /\ \A b \in produced : P!Gone(b)
  /\ \A w \in Workers : wjob[w] \in produced <=> wpc[w] \in {"built", "delivering"}

\* A result travels to the client of the build it was made for, and all of it.
ArtifactInv ==
  /\ \A c \in Conns : hpc[c] \in {"result", "reading"} => hjob[c] \in produced
  /\ \A f \in Files : temps[f] # None => temps[f] \in produced
  /\ \A b \in Builds : reply[b] = "artifact" => body[b] = b /\ b \in produced
  /\ \A b \in Builds : cpc[b] = "saved" => output[b] = b /\ b \in produced

\* A build arrives at the relay when its client posts it, and only then.
ArrivalInv == \A b \in Builds : cpc[b] = "idle" <=> bpc[b] = "idle"

TypeInv == P!RelayInv /\ P!TakenInv /\ W!WorkerTypeOK /\ C!ClientTypeOK

BuildInv == TypeInv /\ WorkerInv /\ PlaceInv /\ OnceInv /\ ArtifactInv /\ ArrivalInv

\* Init satisfies it.
LEMMA BuildInvInit == Init => BuildInv
<1> SUFFICES ASSUME Init PROVE BuildInv
  OBVIOUS
<1>1. P!RelayInit
  BY SameInit DEF Init
<1>2. P!RelayInv
  BY <1>1, RelayAssumed, P!InvInit DEF P!InvInit
<1> USE DEF Init, P!RelayInit, W!WorkerInit, C!ClientInit
<1>3. P!TakenInv /\ W!WorkerTypeOK /\ C!ClientTypeOK
  BY <1>1 DEF P!TakenInv, W!WorkerTypeOK, W!WorkerSteps, C!ClientTypeOK
<1>4. WorkerInv /\ ArrivalInv
  BY <1>1 DEF WorkerInv, Working, Waits, ArrivalInv
<1>5. PlaceInv /\ OnceInv /\ ArtifactInv
  BY <1>1, RemoteBuildAssumption DEF PlaceInv, Runs, OnceInv, ArtifactInv
<1>. QED
  BY <1>2, <1>3, <1>4, <1>5 DEF BuildInv, TypeInv

-----------------------------------------------------------------------------
\* Every step keeps it.

\* A step of the whole is a step of the relay, or the relay stands still: what a
\* worker sends is a poll, or names a job.
LEMMA RelayStep ==
  ASSUME BuildInv, [Next]_vars PROVE [P!RelayNext]_(P!relayVars)
<1> USE DEF P!RelayNext
<1>1. ASSUME NEW b \in Builds, Submit(b) PROVE P!RelayNext
  BY <1>1, SameBuilds DEF Submit
<1>2. ASSUME NEW b \in Builds, ServeBuild(b) PROVE P!RelayNext
  BY <1>2, SameBuilds DEF ServeBuild
<1>3. ASSUME NEW b \in Builds, NoticeCancel(b) PROVE P!RelayNext
  BY <1>3, SameBuilds DEF NoticeCancel
<1>4. ASSUME NEW c \in Conns, HandleRequest(c) PROVE P!RelayNext
  BY <1>4, SameRequests DEF HandleRequest
<1>5. ASSUME NEW c \in Conns, Unheard(c) PROVE P!RelayNext
  BY <1>5, SameRequests DEF Unheard
<1>6. ASSUME NEW c \in Conns, LoseBody(c) PROVE P!RelayNext
  BY <1>6, SameRequests DEF LoseBody
<1>7. ASSUME NEW w \in Workers, NEW c \in Conns, Call(w, c) PROVE P!RelayNext
  <2>1. wpc[w] \in {"idle", "claimed", "built", "failed"}
    BY <1>7 DEF Call, W!Send, W!Awaiting
  <2>2. P!Accept(c, RequestOf[wpc[w]], wjob[w])
    BY <1>7, SameRequests DEF Call
  <2>3. wjob[w] \in Builds \cup {None}
    BY DEF BuildInv, TypeInv, W!WorkerTypeOK
  <2>4. CASE wpc[w] = "idle"
    <3>1. RequestOf[wpc[w]] = "pulling" /\ wjob[w] = None
      BY <2>3, <2>4 DEF RequestOf, BuildInv, WorkerInv, Working
    <3>. QED  BY <2>2, <3>1
  <2>5. CASE wpc[w] # "idle"
    <3>1. RequestOf[wpc[w]] \in {"archive", "result", "error"} /\ wjob[w] \in Builds
      BY <2>1, <2>3, <2>5 DEF RequestOf, BuildInv, WorkerInv, Working
    <3>. QED  BY <2>2, <3>1
  <2>. QED  BY <2>4, <2>5
<1>8. ASSUME NEW w \in Workers, Answered(w) PROVE P!RelayNext
  <2>1. wconn[w] \in Conns
    BY <1>8 DEF Answered, BuildInv, TypeInv, W!WorkerTypeOK
  <2>. QED  BY <1>8, <2>1, SameRequests DEF Answered
<1>9. CASE RestartRelay
  BY <1>9, SameRestart DEF RestartRelay
<1>10. ASSUME UNCHANGED relayVars PROVE UNCHANGED P!relayVars
  BY <1>10 DEF relayVars, P!relayVars
<1>11. ASSUME NEW b \in Builds, ReadReply(b) \/ GiveUp(b) PROVE UNCHANGED relayVars
  BY <1>11 DEF ReadReply, GiveUp
<1>12. ASSUME NEW w \in Workers, Build(w) \/ Wake(w) \/ CallFails(w) \/ RestartWorker(w)
       PROVE  UNCHANGED relayVars
  BY <1>12 DEF Build, Wake, CallFails, RestartWorker
<1>13. CASE UNCHANGED vars
  BY <1>13 DEF vars, relayVars, P!relayVars
<1>. QED
  BY <1>1, <1>2, <1>3, <1>4, <1>5, <1>6, <1>7, <1>8, <1>9, <1>10, <1>11, <1>12, <1>13
  DEF Next, RequestStep, WorkerStep

\* It keeps the types, and the relay its invariant.
LEMMA TypeStep == ASSUME BuildInv, [Next]_vars PROVE TypeInv'
<1>1. P!RelayInv' /\ P!TakenInv'
  <2>1. [P!RelayNext]_(P!relayVars)
    BY RelayStep
  <2>2. P!RelayInv /\ P!TakenInv
    BY DEF BuildInv, TypeInv
  <2>. QED
    BY <2>1, <2>2, RelayAssumed, P!InvNext, P!TakenNext DEF P!InvNext, P!TakenNext
<1>2. W!WorkerTypeOK'
  <2> USE DEF W!WorkerTypeOK, W!WorkerSteps
  <2>0. W!WorkerTypeOK /\ P!RelayTypeOK /\ P!TakenInv
    BY DEF BuildInv, TypeInv, P!RelayInv
  <2>1. ASSUME UNCHANGED workerVars PROVE W!WorkerTypeOK'
    BY <2>0, <2>1 DEF workerVars
  <2>2. ASSUME NEW w \in Workers, NEW c \in Conns, Call(w, c) PROVE W!WorkerTypeOK'
    BY <2>0, <2>2 DEF Call, W!Send, W!Awaiting
  <2>3. ASSUME NEW w \in Workers, Answered(w) PROVE W!WorkerTypeOK'
    <3>1. wconn[w] \in Conns /\ hjob[wconn[w]] \in Builds \cup {None}
      BY <2>0, <2>3 DEF Answered, P!RelayTypeOK
    <3>2. CASE \E c \in Conns : W!Polled(w, hpc[c], hjob[c])
      BY <2>0, <3>2 DEF W!Polled, W!GoTo, P!RelayTypeOK
    <3>3. CASE \E c \in Conns : W!Fetched(w, hpc[c])
      BY <2>0, <3>3 DEF W!Fetched, W!GoTo
    <3>4. CASE W!Posted(w)
      BY <2>0, <3>4 DEF W!Posted, W!GoTo
    <3>. QED  BY <2>3, <3>1, <3>2, <3>3, <3>4 DEF Answered
  <2>4. ASSUME NEW w \in Workers, Build(w) PROVE W!WorkerTypeOK'
    <3>1. wjob[w] \in Builds
      BY <2>0, <2>4 DEF Build, W!BuildSucceeds, W!BuildFails, W!OutputMissing, BuildInv,
         WorkerInv, Working
    <3>. QED
      BY <2>0, <2>4, <3>1 DEF Build, W!BuildSucceeds, W!BuildFails, W!OutputMissing, W!GoTo
  <2>5. ASSUME NEW w \in Workers, Wake(w) \/ CallFails(w) \/ RestartWorker(w)
        PROVE  W!WorkerTypeOK'
    BY <2>0, <2>5 DEF Wake, CallFails, RestartWorker, W!Wake, W!CallFails, W!WorkerRestart, W!GoTo
  <2>. QED
    BY <2>1, <2>2, <2>3, <2>4, <2>5 DEF Next, WorkerStep, RequestStep, Submit, ServeBuild,
       NoticeCancel, ReadReply, GiveUp, HandleRequest, Unheard, LoseBody, RestartRelay, vars
<1>3. C!ClientTypeOK'
  <2>0. C!ClientTypeOK
    BY DEF BuildInv, TypeInv
  <2>1. ASSUME UNCHANGED clientVars PROVE C!ClientTypeOK'
    BY <2>0, <2>1 DEF clientVars, C!ClientTypeOK
  <2>2. ASSUME NEW b \in Builds, Submit(b) \/ ReadReply(b) \/ GiveUp(b)
        PROVE  C!ClientTypeOK'
    <3>1. reply[b] = "artifact" => body[b] \in Builds
      BY DEF BuildInv, ArtifactInv
    <3>. QED
      BY <2>0, <2>2, <3>1 DEF Submit, ReadReply, GiveUp, C!Post, C!BeginSave, C!EndSave, C!Rejected,
       C!GiveUp, C!ClientStep, C!ClientTypeOK
  <2>. QED
    BY <2>1, <2>2 DEF Next, WorkerStep, RequestStep, ServeBuild, NoticeCancel, HandleRequest,
       Unheard, LoseBody, RestartRelay, Call, Answered, Build, Wake, CallFails, RestartWorker,
       vars
<1>. QED
  BY <1>1, <1>2, <1>3 DEF TypeInv

Pulls == {"pulling", "checking", "dispatched"}

\* Builds leave the requests alone ...
LEMMA BuildFrame ==
  ASSUME NEW b \in Builds, Submit(b) \/ ServeBuild(b) \/ NoticeCancel(b)
  PROVE  UNCHANGED <<hpc, hjob>>
<1>1. P!Arrive(b) \/ P!BuildHandler(b) \/ P!Cancel(b)
  BY SameBuilds DEF Submit, ServeBuild, NoticeCancel
<1>. QED
  BY <1>1 DEF P!Arrive, P!BuildHandler, P!Cancel, P!Receive, P!Reject, P!Register, P!Enqueue,
     P!Overflow, P!Withdraw, P!Refuse, P!TakeResult, P!Serve, P!RemoveArtifact, P!Deregister,
     P!RemoveArchive

\* ... and a handler goes on by itself, or a restart ends all: no request becomes
\* a pull, and none is over while somebody waits for it.
LEMMA RequestStays ==
  ASSUME TypeInv, NEW c \in Conns, hpc[c] # "free",
         \/ \E d \in Conns : HandleRequest(d) \/ LoseBody(d) \/ (Unheard(d) /\ d # c)
         \/ RestartRelay
  PROVE  hpc'[c] # "free" /\ (hpc[c] \notin Pulls => hpc'[c] \notin Pulls)
<1> USE DEF TypeInv, P!RelayInv, P!RelayTypeOK, Pulls
<1>1. ASSUME NEW d \in Conns, P!RequestHandler(d) \/ P!ReadFails(d)
      PROVE  hpc'[c] # "free" /\ (hpc[c] \notin Pulls => hpc'[c] \notin Pulls)
  BY <1>1 DEF P!RequestHandler, P!Take, P!Check, P!Deadline, P!FindArchive, P!SendArchive,
     P!OpenResult, P!ReadResult, P!ReadError, P!ReadFails, P!Complete, P!SendResult, P!Discard,
     P!HandlerStep
<1>2. ASSUME NEW d \in Conns, P!Finish(d), d # c
      PROVE  hpc'[c] = hpc[c]
  BY <1>2 DEF P!Finish
<1>3. CASE P!Restart
  BY <1>3 DEF P!Restart
<1>. QED
  BY <1>1, <1>2, <1>3, SameRequests, SameRestart
  DEF HandleRequest, LoseBody, Unheard, RestartRelay

\* Where the workers stand still, the requests they wait for go on.
LEMMA WorkersStand ==
  ASSUME TypeInv, WorkerInv, UNCHANGED workerVars,
         \A w \in Workers : wconn[w] # None =>
           /\ hpc'[wconn[w]] # "free"
           /\ hpc[wconn[w]] \notin Pulls => hpc'[wconn[w]] \notin Pulls
  PROVE  WorkerInv'
  BY DEF workerVars, WorkerInv, Pulls

\* What GoTo leaves of a worker, with the relay standing still or with the end of
\* the request it has waited for.
LEMMA WorkerGoes ==
  ASSUME TypeInv, WorkerInv, NEW w \in Workers, NEW to \in W!WorkerSteps \ Waits,
         W!GoTo(w, to), wpc[w] \in Working \/ to \notin Working,
         to \in Working \/ to \in {"idle", "backoff"},
         \/ UNCHANGED hpc
         \/ wconn[w] \in Conns /\ hpc' = [hpc EXCEPT ![wconn[w]] = "free"]
  PROVE  WorkerInv'
<1> USE DEF TypeInv, W!WorkerTypeOK, P!RelayInv, P!RelayTypeOK
<1>1. /\ wpc' = [wpc EXCEPT ![w] = to]
      /\ wconn' = [wconn EXCEPT ![w] = None]
      /\ wjob' = [wjob EXCEPT ![w] = IF to \in {"idle", "backoff"} THEN None ELSE @]
  BY DEF W!GoTo
<1>2. ASSUME NEW v \in Workers, v # w
      PROVE  /\ wpc'[v] = wpc[v] /\ wconn'[v] = wconn[v] /\ wjob'[v] = wjob[v]
             /\ wconn[v] # None => hpc'[wconn[v]] = hpc[wconn[v]]
  BY <1>1, <1>2 DEF WorkerInv
<1>3. wpc'[w] = to /\ wconn'[w] = None
      /\ wjob'[w] = IF to \in {"idle", "backoff"} THEN None ELSE wjob[w]
  BY <1>1
<1>4. "idle" \notin Working /\ "backoff" \notin Working
  BY DEF Working
<1>. QED
  BY <1>2, <1>3, <1>4 DEF WorkerInv

\* Every step keeps the workers in line with their jobs and their requests.
LEMMA WorkerNext ==
  ASSUME BuildInv, [Next]_vars PROVE WorkerInv'
<1> USE DEF BuildInv
<1>1. ASSUME NEW b \in Builds, Submit(b) \/ ServeBuild(b) \/ NoticeCancel(b) PROVE WorkerInv'
  <2>1. UNCHANGED <<hpc, hjob>> /\ UNCHANGED workerVars
    BY <1>1, BuildFrame DEF Submit, ServeBuild, NoticeCancel
  <2>. QED  BY <2>1, WorkersStand DEF WorkerInv
<1>2. ASSUME NEW b \in Builds, ReadReply(b) \/ GiveUp(b) PROVE WorkerInv'
  BY <1>2 DEF ReadReply, GiveUp, relayVars, workerVars, WorkerInv
<1>3. ASSUME \/ \E c \in Conns : HandleRequest(c) \/ LoseBody(c) \/ Unheard(c)
             \/ RestartRelay
      PROVE  WorkerInv'
  <2>1. UNCHANGED workerVars
    BY <1>3 DEF HandleRequest, LoseBody, Unheard, RestartRelay
  <2>2. \A w \in Workers : wconn[w] # None => wconn[w] \in Conns /\ hpc[wconn[w]] # "free"
    BY DEF TypeInv, W!WorkerTypeOK, WorkerInv
  <2>3. \A c \in Conns, w \in Workers : Unheard(c) => c # wconn[w]
    BY DEF Unheard, Orphaned
  <2>4. \A w \in Workers : wconn[w] # None =>
           /\ hpc'[wconn[w]] # "free"
           /\ hpc[wconn[w]] \notin Pulls => hpc'[wconn[w]] \notin Pulls
    BY <1>3, <2>2, <2>3, RequestStays
  <2>. QED  BY <2>1, <2>4, WorkersStand
<1>4. ASSUME NEW w \in Workers, NEW c \in Conns, Call(w, c) PROVE WorkerInv'
  <2>1. /\ wpc[w] \in {"idle", "claimed", "built", "failed"}
        /\ wpc' = [wpc EXCEPT ![w] = W!Awaiting[wpc[w]]]
        /\ wconn' = [wconn EXCEPT ![w] = c] /\ wjob' = wjob
    BY <1>4 DEF Call, W!Send, W!Awaiting
  <2>2. hpc[c] = "free" /\ hpc' = [hpc EXCEPT ![c] = RequestOf[wpc[w]]]
    BY <1>4 DEF Call, R!Accept, R!HandlerStep
  <2>3. /\ wpc[w] = "idle" => W!Awaiting[wpc[w]] = "polling" /\ RequestOf[wpc[w]] = "pulling"
        /\ wpc[w] # "idle" =>
             /\ W!Awaiting[wpc[w]] \in {"fetching", "delivering", "reporting"}
             /\ RequestOf[wpc[w]] \in {"archive", "result", "error"}
    BY <2>1 DEF W!Awaiting, RequestOf
  <2>6. c # None
    BY RemoteBuildAssumption
  <2>4. ASSUME NEW v \in Workers, v # w
        PROVE  /\ wpc'[v] = wpc[v] /\ wconn'[v] = wconn[v]
               /\ wconn[v] # c
               /\ wconn[v] # None => hpc'[wconn[v]] = hpc[wconn[v]]
    BY <2>1, <2>2, <2>4, <2>6 DEF TypeInv, W!WorkerTypeOK, P!RelayInv, P!RelayTypeOK, WorkerInv
  <2>5. wpc'[w] = W!Awaiting[wpc[w]] /\ wconn'[w] = c /\ hpc'[c] = RequestOf[wpc[w]]
    BY <2>1, <2>2 DEF TypeInv, W!WorkerTypeOK, P!RelayInv, P!RelayTypeOK
  <2>7. wpc'[w] \in Waits /\ (wpc'[w] \in Working <=> wpc[w] \in Working)
    BY <2>1, <2>3, <2>5 DEF Waits, Working
  <2>8. hpc'[c] # "free" /\ (wpc'[w] # "polling" => hpc'[c] \notin Pulls)
    BY <2>3, <2>5 DEF Pulls
  <2>. QED
    BY <2>1, <2>4, <2>5, <2>6, <2>7, <2>8 DEF WorkerInv, Pulls
<1>5. ASSUME NEW w \in Workers, Answered(w) PROVE WorkerInv'
  <2> DEFINE c == wconn[w]
  <2>1. c \in Conns /\ P!Finish(c)
        /\ (W!Polled(w, hpc[c], hjob[c]) \/ W!Fetched(w, hpc[c]) \/ W!Posted(w))
    BY <1>5, SameRequests DEF Answered, TypeInv, W!WorkerTypeOK
  <2>2. hpc' = [hpc EXCEPT ![c] = "free"]
    BY <2>1 DEF P!Finish
  <2>3. CASE hpc[c] = "dispatched" /\ W!Polled(w, hpc[c], hjob[c])
    <3>1. /\ wpc[w] = "polling" /\ wpc' = [wpc EXCEPT ![w] = "claimed"]
          /\ wconn' = [wconn EXCEPT ![w] = None]
          /\ wjob' = [wjob EXCEPT ![w] = hjob[c]]
      BY <2>3 DEF W!Polled
    <3>2. hjob[c] \in Builds /\ hjob[c] # None
      BY <2>1, <2>3, RemoteBuildAssumption DEF TypeInv, P!TakenInv
    <3>3. ASSUME NEW v \in Workers, v # w
          PROVE  /\ wpc'[v] = wpc[v] /\ wconn'[v] = wconn[v] /\ wjob'[v] = wjob[v]
                 /\ wconn[v] # None => hpc'[wconn[v]] = hpc[wconn[v]]
      BY <2>1, <2>2, <3>1, <3>3
      DEF TypeInv, W!WorkerTypeOK, P!RelayInv, P!RelayTypeOK, WorkerInv
    <3>4. wpc'[w] = "claimed" /\ wconn'[w] = None /\ wjob'[w] # None
      BY <3>1, <3>2 DEF TypeInv, W!WorkerTypeOK
    <3>5. "claimed" \in Working /\ "claimed" \notin Waits
      BY DEF Working, Waits
    <3>. QED  BY <3>3, <3>4, <3>5 DEF WorkerInv
  <2>4. CASE ~(hpc[c] = "dispatched" /\ W!Polled(w, hpc[c], hjob[c]))
    <3>1. PICK to \in {"idle", "backoff", "building", "failed"} :
            W!GoTo(w, to) /\ (wpc[w] \in Working \/ to \notin Working)
      BY <2>1, <2>4 DEF W!Polled, W!Fetched, W!Posted, Working
    <3>2. to \in W!WorkerSteps \ Waits /\ (to \in Working \/ to \in {"idle", "backoff"})
      BY DEF W!WorkerSteps, Waits, Working
    <3>. QED  BY <2>1, <2>2, <3>1, <3>2, WorkerGoes
  <2>. QED  BY <2>3, <2>4
<1>6. ASSUME NEW w \in Workers, Build(w) \/ Wake(w) \/ CallFails(w) \/ RestartWorker(w)
      PROVE  WorkerInv'
  <2>1. UNCHANGED hpc
    BY <1>6 DEF Build, Wake, CallFails, RestartWorker, relayVars
  <2>2. PICK to \in {"idle", "backoff", "built", "failed"} :
          W!GoTo(w, to) /\ (wpc[w] \in Working \/ to \notin Working)
    BY <1>6 DEF Build, Wake, CallFails, RestartWorker, W!BuildSucceeds, W!BuildFails,
       W!OutputMissing, W!Wake, W!CallFails, W!WorkerRestart, Working
  <2>3. to \in W!WorkerSteps \ Waits /\ (to \in Working \/ to \in {"idle", "backoff"})
    BY DEF W!WorkerSteps, Waits, Working
  <2>. QED  BY <2>1, <2>2, <2>3, WorkerGoes
<1>7. CASE UNCHANGED vars
  BY <1>7 DEF vars, relayVars, workerVars, WorkerInv
<1>. QED
  BY <1>1, <1>2, <1>3, <1>4, <1>5, <1>6, <1>7 DEF Next, WorkerStep, RequestStep

\* The worker of a poll that is answered with a job takes it over, and the request
\* is over.
Dispatched(w) ==
  LET c == wconn[w] IN
  /\ c \in Conns /\ hpc[c] = "dispatched" /\ hjob[c] \in Builds
  /\ P!Finish(c)
  /\ wpc[w] = "polling" /\ wpc' = [wpc EXCEPT ![w] = "claimed"]
  /\ wjob' = [wjob EXCEPT ![w] = hjob[c]]
  /\ UNCHANGED <<produced, cpc, output>>

\* The other ways on: with nothing new made, or a build that has made its artifact.
\* No job leaves the relay then.
Stands ==
  /\ UNCHANGED <<bpc, cpc, output>>
  /\ \A b \in Builds : P!Gone(b)' => P!Gone(b)

Moved(w, to) ==
  /\ W!GoTo(w, to) /\ Stands
  /\ UNCHANGED produced
  /\ to \in {"idle", "backoff"} \/ (to \in {"building", "failed"}
                                    /\ wpc[w] \in {"claimed", "fetching", "building"})

Made(w) ==
  /\ W!GoTo(w, "built") /\ Stands
  /\ wpc[w] = "building" /\ produced' = produced \cup {wjob[w]}

\* Those are all.
LEMMA WorkerMoves ==
  ASSUME BuildInv, [Next]_vars
  PROVE  \/ UNCHANGED <<wjob, produced>> /\ UNCHANGED wpc
         \/ \E w \in Workers :
              \/ \E c \in Conns : Call(w, c)
              \/ Dispatched(w)
              \/ \E to \in {"idle", "backoff", "building", "failed"} : Moved(w, to)
              \/ Made(w)
<1> DEFINE Goal == \/ UNCHANGED <<wjob, produced>> /\ UNCHANGED wpc
                   \/ \E w \in Workers :
                        \/ \E c \in Conns : Call(w, c)
                        \/ Dispatched(w)
                        \/ \E to \in {"idle", "backoff", "building", "failed"} : Moved(w, to)
                        \/ Made(w)
<1>1. ASSUME NEW w \in Workers, Answered(w) PROVE Goal
  <2> DEFINE c == wconn[w]
  <2>1. c \in Conns /\ P!Finish(c)
        /\ (W!Polled(w, hpc[c], hjob[c]) \/ W!Fetched(w, hpc[c]) \/ W!Posted(w))
    BY <1>1, SameRequests DEF Answered, BuildInv, TypeInv, W!WorkerTypeOK
  <2>2. CASE hpc[c] = "dispatched" /\ W!Polled(w, hpc[c], hjob[c])
    <3>1. hjob[c] \in Builds
      BY <2>1, <2>2 DEF BuildInv, TypeInv, P!TakenInv
    <3>2. Dispatched(w)
      BY <1>1, <2>1, <2>2, <3>1 DEF Dispatched, W!Polled, Answered, clientVars
    <3>. QED  BY <3>2
  <2>3. CASE ~(hpc[c] = "dispatched" /\ W!Polled(w, hpc[c], hjob[c]))
    <3>1. hpc[c] # "dispatched"
      BY <2>1, <2>3, RemoteBuildAssumption DEF BuildInv, WorkerInv, W!Fetched, W!Posted
    <3>2. bpc' = bpc /\ jobs' = jobs
          /\ \A d \in Conns, b \in Builds : P!HasTaken(d, b) => P!HasTaken(d, b)'
      BY <2>1, <3>1 DEF P!Finish, P!HasTaken, P!Responses, BuildInv, TypeInv, P!RelayInv,
         P!RelayTypeOK
    <3>3. Stands
      BY <1>1, <3>2 DEF Stands, Answered, clientVars, P!Gone
    <3>4. \E to \in {"idle", "backoff", "building", "failed"} : Moved(w, to)
      BY <2>1, <2>3, <3>3 DEF W!Polled, W!Fetched, W!Posted, Moved
    <3>. QED  BY <3>4
  <2>. QED  BY <2>2, <2>3
<1>2. ASSUME NEW w \in Workers, Build(w) \/ Wake(w) \/ CallFails(w) \/ RestartWorker(w)
      PROVE  Goal
  <2>1. Stands
    BY <1>2 DEF Build, Wake, CallFails, RestartWorker, relayVars, clientVars, Stands, P!Gone,
       P!HasTaken
  <2>2. Made(w) \/ \E to \in {"idle", "backoff", "building", "failed"} : Moved(w, to)
    BY <1>2, <2>1 DEF Build, Wake, CallFails, RestartWorker, W!BuildSucceeds, W!BuildFails,
       W!OutputMissing, W!Wake, W!CallFails, W!WorkerRestart, Moved, Made
  <2>. QED  BY <2>2
<1>3. ASSUME UNCHANGED workerVars PROVE Goal
  BY <1>3 DEF workerVars
<1>4. ASSUME NEW w \in Workers, NEW c \in Conns, Call(w, c) PROVE Goal
  BY <1>4
<1>. QED
  BY <1>1, <1>2, <1>3, <1>4 DEF Next, WorkerStep, RequestStep, Submit, ServeBuild,
     NoticeCancel, ReadReply, GiveUp, HandleRequest, Unheard, LoseBody, RestartRelay, vars

\* A job that leaves the relay with a poll is gone from it, and was with no worker.
LEMMA DispatchedGone ==
  ASSUME BuildInv, NEW w \in Workers, NEW b \in Builds, Dispatched(w), b = hjob[wconn[w]]
  PROVE  ~P!Gone(b) /\ P!Gone(b)' /\ b \notin produced /\ \A v \in Workers : ~Runs(v, b)
<1>1. PICK c \in Conns : b = hjob[c] /\ hpc[c] = "dispatched" /\ P!Finish(c)
  BY DEF Dispatched
<1>2. P!HasTaken(c, b) /\ P!JobInv /\ P!RelayTypeOK
  BY <1>1 DEF P!HasTaken, BuildInv, TypeInv, P!RelayInv
<1>3. ~P!Gone(b)
  BY <1>1, <1>2 DEF P!Gone
<1>4. b \notin produced /\ \A v \in Workers : ~Runs(v, b)
  BY <1>1, <1>3 DEF BuildInv, OnceInv, PlaceInv
<1>5. /\ bpc[b] \notin P!Unqueued
      /\ \A i \in 1..Len(jobs) : jobs[i] # b
      /\ \A d \in Conns : P!HasTaken(d, b) => d = c
  BY <1>1, <1>2 DEF P!JobInv, P!JobsAreSingle
<1>6. /\ bpc' = bpc /\ jobs' = jobs
      /\ hpc' = [hpc EXCEPT ![c] = "free"] /\ hjob' = [hjob EXCEPT ![c] = None]
  BY <1>1 DEF P!Finish
<1>7. \A d \in Conns : ~P!HasTaken(d, b)'
  BY <1>1, <1>2, <1>5, <1>6 DEF P!HasTaken, P!RelayTypeOK
<1>8. P!Gone(b)'
  BY <1>5, <1>6, <1>7 DEF P!Gone, P!Unqueued
<1>. QED
  BY <1>3, <1>4, <1>8

\* What has left the relay stays away.
LEMMA StaysGone ==
  ASSUME BuildInv, [Next]_vars, NEW b \in Builds, P!Gone(b) PROVE P!Gone(b)'
<1>1. [P!RelayNext]_(P!relayVars)
  BY RelayStep
<1>. QED
  BY <1>1, RelayAssumed, P!GoneStays DEF P!GoneStays, BuildInv, TypeInv

\* Every step keeps a job with one worker at most: only a poll gives one out.
LEMMA PlaceNext == ASSUME BuildInv, [Next]_vars PROVE PlaceInv'
<1> USE DEF Runs
<1>0. W!WorkerTypeOK /\ None \notin Builds
  BY RemoteBuildAssumption DEF BuildInv, TypeInv
<1>1. ASSUME \A w \in Workers : wjob'[w] \in {wjob[w], None}
      PROVE  PlaceInv'
  BY <1>0, <1>1, StaysGone DEF BuildInv, PlaceInv
<1>2. ASSUME NEW w \in Workers, Dispatched(w)
      PROVE  PlaceInv'
  <2>1. PICK d \in Builds : d = hjob[wconn[w]]
    BY <1>2 DEF Dispatched
  <2>2. \A v \in Workers : wjob'[v] = IF v = w THEN d ELSE wjob[v]
    BY <1>0, <1>2, <2>1 DEF Dispatched, W!WorkerTypeOK
  <2>3. \A v \in Workers, b \in Builds : Runs(v, b) => P!Gone(b)'
    BY StaysGone DEF BuildInv, PlaceInv
  <2>4. P!Gone(d)' /\ \A v \in Workers : wjob[v] # d
    BY <1>2, <2>1, DispatchedGone
  <2>. QED
    BY <2>2, <2>3, <2>4 DEF BuildInv, PlaceInv
<1>3. ASSUME NEW w \in Workers, NEW to, W!GoTo(w, to)
      PROVE  \A v \in Workers : wjob'[v] \in {wjob[v], None}
  BY <1>0, <1>3 DEF W!GoTo, W!WorkerTypeOK
<1>4. ASSUME NEW w \in Workers, NEW c \in Conns, Call(w, c) PROVE wjob' = wjob
  BY <1>4 DEF Call, W!Send
<1>. QED
  BY <1>1, <1>2, <1>3, <1>4, WorkerMoves DEF Moved, Made

\* Every step keeps a build from being made twice.
LEMMA OnceNext == ASSUME BuildInv, [Next]_vars PROVE OnceInv'
<1>0. W!WorkerTypeOK /\ None \notin Builds /\ OnceInv /\ WorkerInv /\ PlaceInv
  BY RemoteBuildAssumption DEF BuildInv, TypeInv
<1> DEFINE Late == {"built", "delivering"}
<1>1. ASSUME UNCHANGED produced,
             \A w \in Workers : wjob'[w] \in produced <=> wpc'[w] \in Late
      PROVE  OnceInv'
  BY <1>0, <1>1, StaysGone DEF OnceInv, W!WorkerTypeOK
<1>2. CASE UNCHANGED <<wjob, produced>> /\ UNCHANGED wpc
  BY <1>0, <1>1, <1>2 DEF OnceInv
<1>3. ASSUME NEW w \in Workers, NEW c \in Conns, Call(w, c) PROVE OnceInv'
  <2>1. /\ wpc' = [wpc EXCEPT ![w] = W!Awaiting[wpc[w]]] /\ wjob' = wjob
        /\ wpc[w] \in DOMAIN W!Awaiting /\ produced' = produced
    BY <1>3 DEF Call, W!Send
  <2>2. W!Awaiting[wpc[w]] \in Late <=> wpc[w] \in Late
    BY <2>1 DEF W!Awaiting
  <2>. QED  BY <1>0, <1>1, <2>1, <2>2 DEF OnceInv, W!WorkerTypeOK
<1>4. ASSUME NEW w \in Workers, Dispatched(w) PROVE OnceInv'
  <2>1. /\ wpc' = [wpc EXCEPT ![w] = "claimed"] /\ produced' = produced
        /\ wjob' = [wjob EXCEPT ![w] = hjob[wconn[w]]]
    BY <1>4 DEF Dispatched
  <2>2. hjob[wconn[w]] \notin produced
    BY <1>4, DispatchedGone DEF Dispatched
  <2>. QED  BY <1>0, <1>1, <2>1, <2>2 DEF OnceInv, W!WorkerTypeOK
<1>5. ASSUME NEW w \in Workers, NEW to \in {"idle", "backoff", "building", "failed"},
             Moved(w, to)
      PROVE  OnceInv'
  <2>1. /\ wpc' = [wpc EXCEPT ![w] = to] /\ produced' = produced
        /\ wjob' = [wjob EXCEPT ![w] = IF to \in {"idle", "backoff"} THEN None ELSE @]
    BY <1>5 DEF Moved, W!GoTo
  <2>2. to \notin Late /\ wjob'[w] \notin produced
    BY <1>0, <1>5, <2>1 DEF Moved, OnceInv, W!WorkerTypeOK
  <2>. QED  BY <1>0, <1>1, <2>1, <2>2 DEF OnceInv, W!WorkerTypeOK
<1>6. ASSUME NEW w \in Workers, Made(w) PROVE OnceInv'
  <2>1. /\ wpc' = [wpc EXCEPT ![w] = "built"] /\ produced' = produced \cup {wjob[w]}
        /\ wpc[w] = "building" /\ wjob' = wjob
    BY <1>0, <1>6 DEF Made, W!GoTo, W!WorkerTypeOK
  <2>2. PICK b \in Builds : b = wjob[w]
    BY <1>0, <2>1 DEF WorkerInv, Working, W!WorkerTypeOK
  <2>3. P!Gone(b)' /\ \A v \in Workers : wjob[v] = b => v = w
    BY <1>0, <2>2, StaysGone DEF PlaceInv, Runs
  <2>4. \A d \in produced' : P!Gone(d)'
    BY <1>0, <2>1, <2>2, <2>3, StaysGone DEF OnceInv, W!WorkerTypeOK
  <2>5. \A v \in Workers : wjob'[v] \in produced' <=> wpc'[v] \in Late
    BY <1>0, <2>1, <2>2, <2>3 DEF OnceInv, W!WorkerTypeOK
  <2>. QED
    BY <2>4, <2>5 DEF OnceInv
<1>. QED
  BY <1>2, <1>3, <1>4, <1>5, <1>6, WorkerMoves

\* What is made stays made.
LEMMA MadeStays == ASSUME BuildInv, [Next]_vars PROVE produced \subseteq produced'
  BY WorkerMoves DEF Call, W!Send, Dispatched, Moved, Made

\* The handlers of builds take files off the disk, and answer with one only if it
\* is there and theirs.
LEMMA BuildArtifacts ==
  ASSUME BuildInv, NEW b \in Builds, P!Arrive(b) \/ P!BuildHandler(b) \/ P!Cancel(b)
  PROVE  /\ \A f \in Files : temps'[f] \in {temps[f], None}
         /\ \A d \in Builds : reply'[d] = "artifact" => body'[d] = d /\ d \in produced
<1> USE DEF BuildInv, TypeInv, P!RelayInv, P!RelayTypeOK, P!Answer
<1>0. \A d \in Builds : reply[d] = "artifact" => body[d] = d /\ d \in produced
  BY DEF ArtifactInv
<1>1. CASE P!Serve(b)
  <2>1. bfile[b] \in Files /\ temps[bfile[b]] = b /\ bfile[b] \in whole
    BY <1>1, RemoteBuildAssumption DEF P!Serve, P!BuildStep, P!FileInv
  <2>2. b \in produced
    BY <2>1, RemoteBuildAssumption DEF ArtifactInv
  <2>3. P!Contents(bfile[b]) = b
    BY <2>1 DEF P!Contents
  <2>. QED  BY <1>0, <1>1, <2>2, <2>3 DEF P!Serve
<1>2. CASE P!RemoveArtifact(b)
  BY <1>0, <1>2 DEF P!RemoveArtifact, P!Remove
<1>3. CASE ~P!Serve(b) /\ ~P!RemoveArtifact(b)
  BY <1>0, <1>3 DEF P!Arrive, P!BuildHandler, P!Cancel, P!Receive, P!Reject, P!Register, P!Enqueue,
     P!Overflow, P!Withdraw, P!Refuse, P!TakeResult, P!Deregister, P!RemoveArchive
<1>. QED  BY <1>1, <1>2, <1>3

\* The handlers of requests put on disk only what a worker has posted for a job it
\* had made.
LEMMA RequestArtifacts ==
  ASSUME BuildInv, NEW c \in Conns, P!RequestHandler(c) \/ P!ReadFails(c) \/ P!Finish(c)
  PROVE  /\ UNCHANGED <<reply, body>>
         /\ \A d \in Conns : hpc'[d] \in {"result", "reading"} => hjob'[d] \in produced
         /\ \A f \in Files : temps'[f] # None => temps'[f] \in produced
<1> USE DEF BuildInv, TypeInv, P!RelayInv, P!RelayTypeOK, P!HandlerStep, ArtifactInv
<1>1. CASE P!OpenResult(c)
  BY <1>1 DEF P!OpenResult
<1>2. CASE P!Finish(c)
  BY <1>2 DEF P!Finish
<1>3. CASE ~P!OpenResult(c) /\ ~P!Finish(c)
  BY <1>3 DEF P!RequestHandler, P!Take, P!Check, P!Deadline, P!FindArchive, P!SendArchive,
     P!ReadResult, P!ReadError, P!ReadFails, P!Complete, P!SendResult, P!Discard, P!Remove
<1>. QED  BY <1>1, <1>2, <1>3

\* Every step keeps results, files and answers with the builds they were made for.
LEMMA ArtifactNext == ASSUME BuildInv, [Next]_vars PROVE ArtifactInv'
<1>0. /\ ArtifactInv /\ P!RelayTypeOK /\ C!ClientTypeOK /\ W!WorkerTypeOK
      /\ produced \subseteq produced'
  BY MadeStays DEF BuildInv, TypeInv, P!RelayInv
<1>1. ASSUME NEW b \in Builds, Submit(b) \/ ServeBuild(b) \/ NoticeCancel(b)
      PROVE  ArtifactInv'
  <2>1. P!Arrive(b) \/ P!BuildHandler(b) \/ P!Cancel(b)
    BY <1>1, SameBuilds DEF Submit, ServeBuild, NoticeCancel
  <2>2. output' = output /\ UNCHANGED <<hpc, hjob>>
        /\ \A d \in Builds : cpc'[d] = "saved" => cpc[d] = "saved"
    BY <1>0, <1>1, BuildFrame DEF Submit, ServeBuild, NoticeCancel, C!Post, C!ClientStep,
       C!ClientTypeOK, clientVars
  <2>. QED  BY <1>0, <2>1, <2>2, BuildArtifacts DEF ArtifactInv
<1>2. ASSUME NEW c \in Conns, P!RequestHandler(c) \/ P!ReadFails(c) \/ P!Finish(c),
             UNCHANGED clientVars
      PROVE  ArtifactInv'
  BY <1>0, <1>2, RequestArtifacts DEF ArtifactInv, clientVars
<1>3. ASSUME NEW c \in Conns, HandleRequest(c) \/ LoseBody(c) \/ Unheard(c)
      PROVE  ArtifactInv'
  BY <1>2, <1>3, SameRequests DEF HandleRequest, LoseBody, Unheard
<1>4. ASSUME NEW w \in Workers, Answered(w) PROVE ArtifactInv'
  <2>1. wconn[w] \in Conns
    BY <1>0, <1>4 DEF Answered, W!WorkerTypeOK
  <2>2. P!Finish(wconn[w]) /\ UNCHANGED clientVars
    BY <1>4, <2>1, SameRequests DEF Answered
  <2>. QED  BY <1>2, <2>1, <2>2
<1>5. ASSUME NEW b \in Builds, ReadReply(b) \/ GiveUp(b) PROVE ArtifactInv'
  <2>1. UNCHANGED <<hpc, hjob, temps, reply, body>>
    BY <1>5 DEF ReadReply, GiveUp, relayVars
  <2>2. cpc'[b] = "saved" => reply[b] = "artifact" /\ output'[b] = body[b]
    BY <1>0, <1>5 DEF ReadReply, GiveUp, C!BeginSave, C!EndSave, C!Rejected, C!GiveUp,
       C!ClientStep, C!ClientTypeOK
  <2>3. \A d \in Builds : d # b => output'[d] = output[d] /\ cpc'[d] = cpc[d]
    BY <1>0, <1>5 DEF ReadReply, GiveUp, C!BeginSave, C!EndSave, C!Rejected, C!GiveUp,
       C!ClientStep, C!ClientTypeOK
  <2>. QED  BY <1>0, <2>1, <2>2, <2>3 DEF ArtifactInv
<1>6. ASSUME NEW w \in Workers, NEW c \in Conns, Call(w, c) PROVE ArtifactInv'
  <2>1. /\ wpc[w] \in {"idle", "claimed", "built", "failed"}
        /\ hpc' = [hpc EXCEPT ![c] = RequestOf[wpc[w]]]
        /\ hjob' = [hjob EXCEPT ![c] = wjob[w]]
        /\ UNCHANGED <<temps, reply, body, cpc, output>>
    BY <1>6 DEF Call, W!Send, W!Awaiting, R!Accept, R!HandlerStep, clientVars
  <2>2. RequestOf[wpc[w]] = "reading" \/ RequestOf[wpc[w]] = "result" => wpc[w] = "built"
    BY <2>1 DEF RequestOf
  <2>3. wpc[w] = "built" => wjob[w] \in produced
    BY DEF BuildInv, OnceInv
  <2>. QED  BY <1>0, <2>1, <2>2, <2>3 DEF ArtifactInv, P!RelayTypeOK
<1>7. ASSUME NEW w \in Workers, Build(w) \/ Wake(w) \/ CallFails(w) \/ RestartWorker(w)
      PROVE  ArtifactInv'
  BY <1>0, <1>7 DEF Build, Wake, CallFails, RestartWorker, relayVars, clientVars, ArtifactInv
<1>8. CASE RestartRelay
  <2>1. /\ hpc' = [c \in Conns |-> IF hpc[c] = "free" THEN "free" ELSE "reset"]
        /\ temps' = temps /\ output' = output /\ body' = body /\ cpc' = cpc
        /\ \A b \in Builds : reply'[b] \in {reply[b], "reset"}
    BY <1>0, <1>8 DEF RestartRelay, R!Restart, clientVars, P!RelayTypeOK
  <2>. QED  BY <1>0, <2>1 DEF ArtifactInv
<1>9. CASE UNCHANGED vars
  BY <1>0, <1>9 DEF vars, relayVars, workerVars, clientVars, ArtifactInv
<1>. QED
  BY <1>1, <1>3, <1>4, <1>5, <1>6, <1>7, <1>8, <1>9 DEF Next, WorkerStep, RequestStep

\* A build begins at the relay with the post of its client.
LEMMA ArrivalNext == ASSUME BuildInv, [Next]_vars PROVE ArrivalInv'
<1>0. ArrivalInv /\ P!RelayTypeOK /\ C!ClientTypeOK /\ W!WorkerTypeOK
  BY DEF BuildInv, TypeInv, P!RelayInv
<1>1. ASSUME NEW b \in Builds, Submit(b) PROVE ArrivalInv'
  BY <1>0, <1>1 DEF Submit, C!Post, C!ClientStep, R!Arrive, R!BuildStep, ArrivalInv,
     P!RelayTypeOK, C!ClientTypeOK
<1>2. ASSUME NEW b \in Builds, ServeBuild(b) \/ NoticeCancel(b) PROVE ArrivalInv'
  <2>1. P!BuildHandler(b) \/ P!Cancel(b)
    BY <1>2, SameBuilds DEF ServeBuild, NoticeCancel
  <2>2. bpc[b] # "idle" /\ bpc'[b] # "idle" /\ \A d \in Builds : d # b => bpc'[d] = bpc[d]
    BY <1>0, <2>1 DEF P!BuildHandler, P!Cancel, P!Receive, P!Reject, P!Register, P!Enqueue,
       P!Overflow, P!Withdraw, P!Refuse, P!TakeResult, P!Serve, P!RemoveArtifact,
       P!Deregister, P!RemoveArchive, P!BuildStep, P!RelayTypeOK
  <2>3. cpc' = cpc
    BY <1>2 DEF ServeBuild, NoticeCancel, clientVars
  <2>. QED  BY <1>0, <2>2, <2>3 DEF ArrivalInv
<1>3. ASSUME NEW b \in Builds, ReadReply(b) \/ GiveUp(b) PROVE ArrivalInv'
  BY <1>0, <1>3 DEF ReadReply, GiveUp, C!BeginSave, C!EndSave, C!Rejected, C!GiveUp,
     C!ClientStep, C!ClientTypeOK, ArrivalInv, relayVars
<1>4. ASSUME UNCHANGED <<bpc, cpc>> PROVE ArrivalInv'
  BY <1>0, <1>4 DEF ArrivalInv
<1>5. ASSUME NEW c \in Conns, HandleRequest(c) \/ LoseBody(c) \/ Unheard(c)
      PROVE  ArrivalInv'
  <2>1. P!RequestHandler(c) \/ P!ReadFails(c) \/ P!Finish(c)
    BY <1>5, SameRequests DEF HandleRequest, LoseBody, Unheard
  <2>2. bpc' = bpc
    BY <2>1, RelayAssumed, P!RequestFrame DEF P!RequestFrame
  <2>. QED  BY <1>4, <1>5, <2>2 DEF HandleRequest, LoseBody, Unheard, clientVars
<1>6. ASSUME NEW w \in Workers,
             \/ WorkerStep(w) \/ CallFails(w) \/ RestartWorker(w)
      PROVE  ArrivalInv'
  BY <1>4, <1>6 DEF WorkerStep, Call, Answered, Build, Wake, CallFails, RestartWorker,
     R!Accept, R!Finish, relayVars, clientVars
<1>7. CASE RestartRelay
  BY <1>0, <1>7 DEF RestartRelay, R!Restart, clientVars, ArrivalInv, P!RelayTypeOK
<1>8. CASE UNCHANGED vars
  BY <1>4, <1>8 DEF vars, relayVars, clientVars
<1>. QED
  BY <1>1, <1>2, <1>3, <1>5, <1>6, <1>7, <1>8 DEF Next, RequestStep

\* Every step keeps the invariant.
LEMMA BuildInvNext == BuildInv /\ [Next]_vars => BuildInv'
  BY TypeStep, WorkerNext, PlaceNext, OnceNext, ArtifactNext, ArrivalNext DEF BuildInv

\* The inductive invariant holds throughout, for all constants and faults.
THEOREM BuildInvariant == Spec => []BuildInv
  BY BuildInvInit, BuildInvNext, PTL DEF Spec

-----------------------------------------------------------------------------
\* The properties.

\* The relay, the workers and the clients together keep the types of each; above
\* all, the queue of the relay never holds more than its capacity.
THEOREM BuildTypeCorrect == Spec => []TypeOK
<1>1. BuildInv => TypeOK
  BY DEF BuildInv, TypeInv, TypeOK, P!RelayInv, P!RelayTypeOK, R!RelayTypeOK, P!BuildSteps,
     R!BuildSteps, P!Replies, R!Replies, P!Bodies, R!Bodies, P!HandlerSteps,
     R!HandlerSteps, P!Responses, R!Responses
<1>. QED
  BY <1>1, BuildInvariant, PTL

\* The relay of the whole behaves as the relay of Relay: every theorem about that
\* one, with any clients and workers, holds of this one.
THEOREM RelayIsRelay == Spec => P!RelaySpec
<1>1. Init => P!RelayInit
  BY SameInit DEF Init
<1>2. BuildInv /\ [Next]_vars => [P!RelayNext]_(P!relayVars)
  BY RelayStep
<1>. QED
  BY <1>1, <1>2, BuildInvariant, PTL DEF Spec, P!RelaySpec

\* However requests, processes and clients fail, a job is in the queue, with one
\* pull or with one worker, and never in two of these places: no build runs twice
\* (newJob, handleReversePull, pullReverseJob).
THEOREM JobsInOnePlace == Spec => []JobInOnePlace
<1>1. BuildInv => JobInOnePlace
  <2> SUFFICES ASSUME BuildInv, NEW b \in Builds, NEW p \in Places(b), NEW q \in Places(b)
               PROVE  p = q
    BY DEF JobInOnePlace
  <2>1. /\ \A i, j \in 1..Len(jobs) : jobs[i] = b /\ jobs[j] = b => i = j
        /\ \A c \in Conns, i \in 1..Len(jobs) : jobs[i] = b => ~P!HasTaken(c, b)
        /\ \A c, d \in Conns : P!HasTaken(c, b) /\ P!HasTaken(d, b) => c = d
    BY DEF BuildInv, TypeInv, P!RelayInv, P!JobInv, P!JobsAreSingle
  <2>2. \A w \in Workers : wjob[w] = b =>
          /\ \A i \in 1..Len(jobs) : jobs[i] # b
          /\ \A c \in Conns : ~P!HasTaken(c, b)
          /\ \A v \in Workers : wjob[v] = b => v = w
    BY DEF BuildInv, PlaceInv, Runs, P!Gone
  <2>3. \A c \in Conns : R!HasTaken(c, b) <=> P!HasTaken(c, b)
    BY DEF R!HasTaken, P!HasTaken
  <2>. QED
    BY <2>1, <2>2, <2>3 DEF Places
<1>. QED
  BY <1>1, BuildInvariant, PTL

\* What a client has saved is the artifact that a worker made for that very build,
\* whole (postReverseResult, handleReverseResult, completeJob, handleBuild, runBuild).
THEOREM SavedWasProduced == Spec => []SavedIsProduced
<1>1. BuildInv => SavedIsProduced
  BY DEF BuildInv, ArtifactInv, SavedIsProduced
<1>. QED
  BY <1>1, BuildInvariant, PTL

-----------------------------------------------------------------------------
\* The refinement.

\* What the stages of BuildService are in the state of the program.
MapInv ==
  \A b \in Builds :
    /\ Stage(b) \in {"new", "open", "running", "over"}
    /\ Stage(b) = "new" <=> bpc[b] = "idle"
    /\ Stage(b) = "open" <=> bpc[b] # "idle" /\ ~P!Gone(b)
    /\ Stage(b) = "running" <=> \E w \in Workers : Runs(w, b)
    /\ \A w \in Workers : Runner(b) = w <=> Runs(w, b)
    /\ Runner(b) \in Workers \cup {None}

\* They are that in every state of the invariant.
LEMMA Mapped == BuildInv => MapInv
<1> SUFFICES ASSUME BuildInv, NEW b \in Builds
             PROVE  /\ Stage(b) \in {"new", "open", "running", "over"}
                    /\ Stage(b) = "new" <=> bpc[b] = "idle"
                    /\ Stage(b) = "open" <=> bpc[b] # "idle" /\ ~P!Gone(b)
                    /\ Stage(b) = "running" <=> \E w \in Workers : Runs(w, b)
                    /\ \A w \in Workers : Runner(b) = w <=> Runs(w, b)
                    /\ Runner(b) \in Workers \cup {None}
  BY DEF MapInv
<1>1. cpc[b] = "idle" <=> bpc[b] = "idle"
  BY DEF BuildInv, ArrivalInv
<1>2. bpc[b] = "idle" \/ Offered(b) <=> ~P!Gone(b)
  BY DEF Offered, P!Gone, R!HasTaken, P!HasTaken
<1>3. /\ bpc[b] = "idle" => ~Offered(b)
      /\ P!Gone(b) => bpc[b] # "idle"
  <2>1. bpc[b] = "idle" => ~P!Gone(b)
    BY DEF P!Gone
  <2>2. ASSUME bpc[b] = "idle" PROVE ~Offered(b)
    BY <2>2 DEF Offered, R!HasTaken, BuildInv, TypeInv, P!RelayInv, P!JobInv, P!HasTaken,
       P!Unqueued
  <2>. QED  BY <2>1, <2>2
<1>4. \A w \in Workers : Runs(w, b) => P!Gone(b) /\ \A v \in Workers : Runs(v, b) => v = w
  BY DEF BuildInv, PlaceInv
<1>5. CASE \E w \in Workers : Runs(w, b)
  <2>1. Stage(b) = "running"
    BY <1>5 DEF Stage
  <2>2. Runner(b) \in Workers /\ Runs(Runner(b), b)
    BY <1>5 DEF Runner
  <2>. QED  BY <1>3, <1>4, <1>5, <2>1, <2>2
<1>6. CASE \A w \in Workers : ~Runs(w, b)
  <2>1. Runner(b) = None /\ None \notin Workers
    BY <1>6, RemoteBuildAssumption DEF Runner
  <2>2. Stage(b) = IF cpc[b] = "idle" THEN "new" ELSE IF Offered(b) THEN "open" ELSE "over"
    BY <1>6 DEF Stage
  <2>. QED  BY <1>1, <1>2, <1>3, <1>6, <2>1, <2>2
<1>. QED  BY <1>5, <1>6

\* A build stays at its stage when nothing of that changes.
LEMMA StageStays ==
  ASSUME MapInv, MapInv', NEW b \in Builds, bpc[b] = "idle" <=> bpc'[b] = "idle",
         P!Gone(b)' <=> P!Gone(b), \A w \in Workers : Runs(w, b)' <=> Runs(w, b)
  PROVE  Stage(b)' = Stage(b) /\ Runner(b)' = Runner(b)
<1>1. Stage(b)' = Stage(b)
  BY DEF MapInv
<1>2. Runner(b)' = Runner(b)
  BY RemoteBuildAssumption DEF MapInv
<1>. QED  BY <1>1, <1>2

\* So does its runner.
LEMMA RunnerStays ==
  ASSUME MapInv, MapInv', NEW b \in Builds, \A w \in Workers : Runs(w, b)' <=> Runs(w, b)
  PROVE  Runner(b)' = Runner(b)
  BY RemoteBuildAssumption DEF MapInv

\* Where workers and clients stand still, jobs can only leave the relay: Drop.
LEMMA RelayDrops ==
  ASSUME MapInv, MapInv', UNCHANGED <<wjob, produced>>,
         \A b \in Builds : Told(b)' = Told(b),
         \A b \in Builds : bpc[b] = "idle" <=> bpc'[b] = "idle",
         \A b \in Builds : P!Gone(b) => P!Gone(b)'
  PROVE  Service!ServiceNext
<1> DEFINE S == {b \in Builds : Stage(b) = "open" /\ Stage(b)' = "over"}
<1>1. \A b \in Builds, w \in Workers : Runs(w, b)' <=> Runs(w, b)
  BY DEF Runs
<1>2. \A b \in Builds : Runner(b)' = Runner(b)
  BY <1>1, RunnerStays
<1>3. \A b \in Builds : Stage(b)' = IF b \in S THEN "over" ELSE Stage(b)
  BY <1>1 DEF MapInv
<1>4. Service!Drop(S)
  BY <1>2, <1>3 DEF Service!Drop
<1>. QED  BY <1>4 DEF Service!ServiceNext

\* The client's side.  The post of a build is its Submit ...
LEMMA SubmitRefines ==
  ASSUME BuildInv, MapInv, MapInv', NEW b \in Builds, Submit(b)
  PROVE  Service!Submit(b)
<1>0. P!RelayTypeOK /\ C!ClientTypeOK
  BY DEF BuildInv, TypeInv, P!RelayInv
<1>1. /\ bpc[b] = "idle" /\ bpc' = [bpc EXCEPT ![b] = "uploading"]
      /\ UNCHANGED <<jobs, hpc, hjob, wjob, produced>>
      /\ cpc[b] = "idle" /\ cpc' = [cpc EXCEPT ![b] = "waiting"]
  BY DEF Submit, C!Post, C!ClientStep, R!Arrive, R!BuildStep, workerVars
<1>2. \A d \in Builds, w \in Workers : Runs(w, d)' <=> Runs(w, d)
  BY <1>1 DEF Runs
<1>3. \A d \in Builds : Runner(d)' = Runner(d)
  BY <1>2, RunnerStays
<1>4. ASSUME NEW d \in Builds, d # b PROVE Stage(d)' = Stage(d)
  <2>1. bpc'[d] = bpc[d]
    BY <1>0, <1>1, <1>4 DEF P!RelayTypeOK
  <2>2. P!Gone(d)' <=> P!Gone(d)
    BY <1>1, <2>1 DEF P!Gone, P!HasTaken
  <2>. QED  BY <1>2, <2>1, <2>2, StageStays
<1>5. Stage(b) = "new" /\ Stage(b)' = "open"
  <2>1. bpc'[b] = "uploading" /\ \A w \in Workers : ~Runs(w, b)
    BY <1>0, <1>1 DEF P!RelayTypeOK, MapInv
  <2>2. ~P!Gone(b)'
    BY <2>1 DEF P!Gone
  <2>. QED  BY <1>1, <2>1, <2>2 DEF MapInv
<1>6. \A d \in Builds : Told(d)' = Told(d)
  BY <1>0, <1>1 DEF Told, C!ClientTypeOK
<1>. QED
  BY <1>1, <1>3, <1>4, <1>5, <1>6 DEF Service!Submit

\* ... and the end of its wait is Tell.
LEMMA ReplyRefines ==
  ASSUME BuildInv, BuildInv', MapInv, MapInv', NEW b \in Builds, ReadReply(b) \/ GiveUp(b)
  PROVE  Service!ServiceNext
<1>0. C!ClientTypeOK /\ ArtifactInv' /\ ArrivalInv
  BY DEF BuildInv, TypeInv
<1>1. UNCHANGED <<bpc, jobs, hpc, hjob, wjob, produced>>
  BY DEF ReadReply, GiveUp, relayVars, workerVars
<1>2. \A d \in Builds : P!Gone(d)' <=> P!Gone(d)
  BY <1>1 DEF P!Gone, P!HasTaken
<1>3. \A d \in Builds : Stage(d)' = Stage(d) /\ Runner(d)' = Runner(d)
  BY <1>1, <1>2, StageStays DEF Runs
<1>4. PICK to \in {"saving", "saved", "failed"} :
        /\ cpc[b] \in {"waiting", "saving"} /\ cpc' = [cpc EXCEPT ![b] = to]
  BY <1>0 DEF ReadReply, GiveUp, C!BeginSave, C!EndSave, C!Rejected, C!GiveUp, C!ClientStep,
     C!ClientTypeOK
<1>5. /\ \A d \in Builds : d # b => Told(d)' = Told(d)
      /\ Told(b) = "none" /\ cpc'[b] = to
  BY <1>0, <1>4 DEF Told, C!ClientTypeOK
<1>6. CASE to = "saving"
  <2>1. Told(b)' = "none"
    BY <1>5, <1>6 DEF Told
  <2>. QED  BY <1>1, <1>2, <1>5, <2>1, RelayDrops
<1>7. CASE to # "saving"
  <2>1. Stage(b) # "new"
    BY <1>0, <1>4 DEF MapInv, ArrivalInv
  <2>2. Told(b)' = "failure" \/ (Told(b)' = "artifact" /\ b \in produced)
    BY <1>0, <1>1, <1>4, <1>5, <1>7 DEF Told, ArtifactInv
  <2>3. Service!Tell(b)
    BY <1>1, <1>3, <1>5, <2>1, <2>2 DEF Service!Tell
  <2>. QED  BY <2>3 DEF Service!ServiceNext
<1>. QED  BY <1>6, <1>7

\* The worker's side.  A job that a poll hands out starts ...
LEMMA DispatchRefines ==
  ASSUME BuildInv, MapInv, MapInv', NEW w \in Workers, Dispatched(w)
  PROVE  Service!ServiceNext
<1>0. P!RelayTypeOK /\ W!WorkerTypeOK /\ None \notin Workers \cup Builds
  BY RemoteBuildAssumption DEF BuildInv, TypeInv, P!RelayInv
<1>1. PICK c \in Conns, b \in Builds :
        /\ b = hjob[c] /\ c = wconn[w] /\ hpc[c] = "dispatched"
        /\ P!Finish(c) /\ wpc[w] = "polling"
        /\ wjob' = [wjob EXCEPT ![w] = b] /\ UNCHANGED <<produced, cpc>>
  BY DEF Dispatched
<1>2. ~P!Gone(b) /\ \A v \in Workers : ~Runs(v, b)
  BY <1>1, DispatchedGone
<1>3. bpc' = bpc /\ jobs' = jobs /\ bpc[b] # "idle"
      /\ hpc' = [hpc EXCEPT ![c] = "free"] /\ hjob' = [hjob EXCEPT ![c] = None]
  BY <1>1 DEF P!Finish, BuildInv, TypeInv, P!RelayInv, P!JobInv, P!HasTaken, P!Unqueued
<1>4. wjob[w] = None
  BY <1>1 DEF BuildInv, WorkerInv, Working
<1>5. \A d \in Builds, v \in Workers :
        Runs(v, d)' <=> IF v = w THEN d = b ELSE Runs(v, d)
  BY <1>0, <1>1 DEF Runs, W!WorkerTypeOK
<1>6. ASSUME NEW d \in Builds, d # b PROVE Stage(d)' = Stage(d) /\ Runner(d)' = Runner(d)
  <2>1. \A e \in Conns : P!HasTaken(e, d)' <=> P!HasTaken(e, d)
    BY <1>0, <1>1, <1>3, <1>6 DEF P!HasTaken, P!RelayTypeOK
  <2>2. P!Gone(d)' <=> P!Gone(d)
    BY <1>3, <2>1 DEF P!Gone
  <2>3. \A v \in Workers : Runs(v, d)' <=> Runs(v, d)
    BY <1>0, <1>4, <1>5, <1>6 DEF Runs
  <2>. QED  BY <1>3, <2>2, <2>3, StageStays
<1>7. Stage(b) = "open" /\ Stage(b)' = "running" /\ Runner(b)' = w
  BY <1>2, <1>3, <1>5 DEF MapInv
<1>8. \A d \in Builds : Runner(d) # w
  BY <1>0, <1>4 DEF MapInv, Runs
<1>9. \A d \in Builds : Told(d)' = Told(d)
  BY <1>1 DEF Told
<1>10. Service!Start(b, w)
  BY <1>1, <1>6, <1>7, <1>8, <1>9 DEF Service!Start
<1>. QED  BY <1>10 DEF Service!ServiceNext

\* ... one that its worker lets go ends, whatever it is for ...
LEMMA MoveRefines ==
  ASSUME BuildInv, BuildInv', [Next]_vars, MapInv, MapInv', NEW w \in Workers,
         NEW to \in {"idle", "backoff", "building", "failed"}, Moved(w, to)
  PROVE  Service!ServiceNext
<1>0. W!WorkerTypeOK /\ None \notin Workers \cup Builds
  BY RemoteBuildAssumption DEF BuildInv, TypeInv
<1>1. /\ wjob' = [wjob EXCEPT ![w] = IF to \in {"idle", "backoff"} THEN None ELSE @]
      /\ UNCHANGED <<bpc, cpc, produced>>
      /\ \A b \in Builds : P!Gone(b)' <=> P!Gone(b)
  BY StaysGone DEF Moved, W!GoTo, Stands
<1>2. \A b \in Builds : Told(b)' = Told(b)
  BY <1>1 DEF Told
<1>3. CASE wjob[w] = None \/ to \notin {"idle", "backoff"}
  <2>1. wjob' = wjob
    BY <1>0, <1>1, <1>3 DEF W!WorkerTypeOK
  <2>. QED  BY <1>1, <1>2, <2>1, RelayDrops
<1>4. CASE wjob[w] # None /\ to \in {"idle", "backoff"}
  <2>1. PICK b \in Builds : wjob[w] = b
    BY <1>0, <1>4 DEF W!WorkerTypeOK
  <2>2. \A v \in Workers, d \in Builds : Runs(v, d)' <=> v # w /\ Runs(v, d)
    BY <1>0, <1>1, <1>4 DEF W!WorkerTypeOK, Runs
  <2>3. P!Gone(b) /\ bpc[b] # "idle" /\ \A v \in Workers : Runs(v, b) => v = w
    BY <2>1 DEF BuildInv, PlaceInv, Runs, P!Gone
  <2>4. Stage(b) = "running" /\ Stage(b)' = "over" /\ Runner(b)' = None
    BY <1>1, <2>1, <2>2, <2>3 DEF MapInv, Runs
  <2>5. ASSUME NEW d \in Builds, d # b PROVE Stage(d)' = Stage(d) /\ Runner(d)' = Runner(d)
    <3>1. \A v \in Workers : Runs(v, d)' <=> Runs(v, d)
      BY <2>1, <2>2, <2>5 DEF Runs
    <3>. QED  BY <1>1, <3>1, StageStays
  <2>6. Service!End(b)
    BY <1>1, <1>2, <2>4, <2>5 DEF Service!End
  <2>. QED  BY <2>6 DEF Service!ServiceNext
<1>. QED  BY <1>3, <1>4

\* ... and one that is built has made its artifact, for the first time.
LEMMA MakeRefines ==
  ASSUME BuildInv, [Next]_vars, MapInv, MapInv', NEW w \in Workers, Made(w)
  PROVE  Service!ServiceNext
<1>0. W!WorkerTypeOK /\ None \notin Workers \cup Builds
  BY RemoteBuildAssumption DEF BuildInv, TypeInv
<1>1. /\ wjob' = wjob /\ UNCHANGED <<bpc, cpc>> /\ produced' = produced \cup {wjob[w]}
      /\ wpc[w] = "building"
      /\ \A b \in Builds : P!Gone(b)' <=> P!Gone(b)
  BY <1>0, StaysGone DEF Made, W!GoTo, Stands, W!WorkerTypeOK
<1>2. \A b \in Builds : Told(b)' = Told(b)
  BY <1>1 DEF Told
<1>3. \A b \in Builds : Stage(b)' = Stage(b) /\ Runner(b)' = Runner(b)
  BY <1>1, StageStays DEF Runs
<1>4. PICK b \in Builds : wjob[w] = b /\ b \notin produced
  BY <1>0, <1>1 DEF BuildInv, WorkerInv, Working, OnceInv, W!WorkerTypeOK
<1>5. Stage(b) = "running"
  BY <1>4 DEF MapInv, Runs
<1>6. Service!Make(b)
  BY <1>1, <1>2, <1>3, <1>4, <1>5 DEF Service!Make
<1>. QED  BY <1>6 DEF Service!ServiceNext

\* What the relay does on its own, and what workers ask of it, is a Drop at most.
LEMMA RelayRefines ==
  ASSUME BuildInv, BuildInv', [Next]_vars, MapInv, MapInv',
         UNCHANGED <<wjob, produced, cpc>>
  PROVE  Service!ServiceNext
<1>1. \A b \in Builds : Told(b)' = Told(b)
  BY DEF Told
<1>2. \A b \in Builds : bpc[b] = "idle" <=> bpc'[b] = "idle"
  BY DEF BuildInv, ArrivalInv
<1>. QED
  BY <1>1, <1>2, StaysGone, RelayDrops

\* Clients, relay and workers implement the service, for all constants and faults:
\* whatever connections, processes and clients do, a build runs at most once, with
\* one worker, and its client is told once, of an artifact only if that run made it.
THEOREM BuildsImplementService == Spec => ImplementsService
<1>1. Init => Service!ServiceInit
  <2> SUFFICES ASSUME Init PROVE Service!ServiceInit
    OBVIOUS
  <2>1. \A b \in Builds : /\ Stage(b) = "new" /\ Runner(b) = None /\ Told(b) = "none"
    BY RemoteBuildAssumption DEF Init, W!WorkerInit, C!ClientInit, Stage, Runner, Told, Runs
  <2>. QED
    BY <2>1 DEF Init, W!WorkerInit, Service!ServiceInit
<1>2. BuildInv /\ BuildInv' /\ MapInv /\ MapInv' /\ [Next]_vars
        => [Service!ServiceNext]_(Service!serviceVars)
  <2> SUFFICES ASSUME BuildInv, BuildInv', MapInv, MapInv', [Next]_vars
               PROVE  Service!ServiceNext
    OBVIOUS
  <2>1. ASSUME UNCHANGED workerVars, UNCHANGED cpc PROVE Service!ServiceNext
    BY <2>1, RelayRefines DEF workerVars
  <2>2. ASSUME NEW b \in Builds, Submit(b) PROVE Service!ServiceNext
    BY <2>2, SubmitRefines DEF Service!ServiceNext
  <2>3. ASSUME NEW b \in Builds, ReadReply(b) \/ GiveUp(b) PROVE Service!ServiceNext
    BY <2>3, ReplyRefines
  <2>4. ASSUME ~(\E b \in Builds : Submit(b) \/ ReadReply(b) \/ GiveUp(b))
        PROVE  cpc' = cpc
    BY <2>4 DEF Next, WorkerStep, RequestStep, ServeBuild, NoticeCancel, HandleRequest,
       Unheard, LoseBody, Call, Answered, Build, Wake, CallFails, RestartWorker,
       RestartRelay, clientVars, vars
  <2>5. ASSUME NEW w \in Workers, NEW c \in Conns, Call(w, c)
        PROVE  UNCHANGED <<wjob, produced, cpc>>
    BY <2>5 DEF Call, W!Send, clientVars
  <2>. QED
    BY <2>2, <2>3, <2>4, <2>5, WorkerMoves, DispatchRefines, MoveRefines, MakeRefines,
       RelayRefines
<1>. QED
  BY <1>1, <1>2, BuildInvariant, Mapped, PTL
  DEF Spec, ImplementsService, Service!ServiceSpec
=============================================================================
