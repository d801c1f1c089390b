---------------------------- MODULE CleanupProofs ----------------------------
(***************************************************************************)
(* Proof that a relay whose workers are those of RemoteBuild leaves no     *)
(* archive and no result of a build on its disk when the handler of the    *)
(* build has ended, unless the build was cancelled.  It rests on a worker  *)
(* posting once for a job, so that nothing is posted for a build that has  *)
(* had its result.                                                         *)
(***************************************************************************)
EXTENDS RemoteBuildProofs

-----------------------------------------------------------------------------
\* The inductive invariant.

\* What may still deliver something for a build: a worker that has not posted for
\* it, a request that is posting, a result in the channel.
Carries(w, b) == wjob[w] = b /\ wpc[w] \notin {"delivering", "reporting"}

Posting(c, b) ==
  hpc[c] \in {"result", "reading", "error", "completing", "sending"} /\ hjob[c] = b

\* A build that needs nothing more: it has had its result, or was refused.
Served(b) ==
  \/ bpc[b] \in {"serving", "removing"}
  \/ bpc[b] \in {"closing", "unlinking", "done"} /\ reply[b] # "cancelled"

\* A job was queued before it is out with a worker, a request or a result.
Out(b) == P!Gone(b) /\ bpc[b] \notin P!Unqueued

\* There is one of these at most for each build.
CarriedInv == \A b \in Builds, w \in Workers : Runs(w, b) => Out(b)

PostedInv ==
  \A b \in Builds, c \in Conns : Posting(c, b) =>
    /\ Out(b) /\ result[b] = None /\ ~Served(b)
    /\ \A w \in Workers : ~Carries(w, b)
    /\ \A d \in Conns : Posting(d, b) => d = c

ResultInv ==
  \A b \in Builds : result[b] # None =>
    Out(b) /\ ~Served(b) /\ \A w \in Workers : ~Carries(w, b)

ServedInv ==
  \A b \in Builds : Served(b) => P!Gone(b) /\ \A w \in Workers : ~Carries(w, b)

TokenInv == CarriedInv /\ PostedInv /\ ResultInv /\ ServedInv

\* A result on disk has an owner that will remove it, but for what a cancelled
\* build or a relay that died leaves behind.
HeldInv ==
  \A f \in Files, b \in Builds : temps[f] = b =>
    P!Owned(f) \/ bpc[b] = "killed" \/ reply[b] = "cancelled"

\* Archives come after the upload and go before the end; what is cancelled is about
\* to end.
ArchiveInv ==
  \A b \in Builds :
    /\ bpc[b] \in {"idle", "uploading", "done"} => b \notin archives
    /\ reply[b] = "cancelled" => bpc[b] \in {"closing", "unlinking", "done", "killed"}

CleanInv == BuildInv /\ TokenInv /\ HeldInv /\ ArchiveInv

\* Init satisfies it.
LEMMA CleanInit == Init => CleanInv
<1> SUFFICES ASSUME Init PROVE CleanInv
  OBVIOUS
<1>1. BuildInv /\ P!RelayInit
  BY BuildInvInit, SameInit DEF Init
<1>2. TokenInv
  BY <1>1, RemoteBuildAssumption DEF P!RelayInit, Init, W!WorkerInit, TokenInv, CarriedInv,
     PostedInv, ResultInv, ServedInv, Runs, Posting, Served
<1>3. HeldInv /\ ArchiveInv
  BY <1>1, RemoteBuildAssumption DEF P!RelayInit, HeldInv, ArchiveInv
<1>. QED  BY <1>1, <1>2, <1>3 DEF CleanInv

-----------------------------------------------------------------------------
\* Archives and files: what any step of the relay keeps.

\* An archive comes after its upload and goes before its handler ends, and a build is
\* cancelled only by a handler that is about to end.
LEMMA ArchiveNext ==
  ASSUME P!RelayTypeOK, ArchiveInv, [P!RelayNext]_(P!relayVars) PROVE ArchiveInv'
<1> USE DEF P!RelayTypeOK, ArchiveInv, P!BuildStep, P!Answer
<1>1. ASSUME NEW b \in Builds, P!Arrive(b) \/ P!BuildHandler(b) \/ P!Cancel(b)
      PROVE  ArchiveInv'
  <2>1. CASE P!Receive(b)  BY <2>1 DEF P!Receive
  <2>2. CASE P!Refuse(b)  BY <2>2 DEF P!Refuse
  <2>3. CASE P!RemoveArchive(b)  BY <2>3 DEF P!RemoveArchive
  <2>4. CASE P!TakeResult(b)  BY <2>4 DEF P!TakeResult
  <2>5. CASE P!Serve(b)  BY <2>5 DEF P!Serve
  <2>6. CASE P!Reject(b)  BY <2>6 DEF P!Reject
  <2>7. CASE P!Cancel(b)  BY <2>7 DEF P!Cancel
  <2>8. CASE P!Arrive(b)  BY <2>8 DEF P!Arrive
  <2>9. CASE P!Register(b) \/ P!Enqueue(b) \/ P!Overflow(b) \/ P!Withdraw(b)
             \/ P!RemoveArtifact(b) \/ P!Deregister(b)
    BY <2>9 DEF P!Register, P!Enqueue, P!Overflow, P!Withdraw, P!RemoveArtifact, P!Deregister
  <2>. QED
    BY <1>1, <2>1, <2>2, <2>3, <2>4, <2>5, <2>6, <2>7, <2>8, <2>9 DEF P!BuildHandler
<1>2. ASSUME UNCHANGED <<bpc, archives, reply>> PROVE ArchiveInv'
  BY <1>2
<1>3. ASSUME NEW c \in Conns, P!RequestHandler(c) \/ P!ReadFails(c) \/ P!Finish(c)
      PROVE  ArchiveInv'
  BY <1>2, <1>3 DEF P!RequestHandler, P!Take, P!Check, P!Deadline, P!FindArchive,
     P!SendArchive, P!OpenResult, P!ReadResult, P!ReadError, P!ReadFails, P!Complete,
     P!SendResult, P!Discard, P!Finish
<1>4. ASSUME NEW c, NEW r, NEW b, P!Accept(c, r, b) PROVE ArchiveInv'
  BY <1>2, <1>4 DEF P!Accept
<1>5. CASE P!Restart  BY <1>5 DEF P!Restart
<1>6. CASE UNCHANGED P!relayVars  BY <1>2, <1>6 DEF P!relayVars
<1>. QED
  BY <1>1, <1>3, <1>4, <1>5, <1>6 DEF P!RelayNext

\* A file is created by the request that then owns it.
LEMMA NewFileOwned ==
  ASSUME P!RelayTypeOK, [P!RelayNext]_(P!relayVars), NEW f \in Files
  PROVE  temps'[f] \in {temps[f], None} \/ P!Owned(f)'
<1> USE DEF P!RelayTypeOK
<1>1. ASSUME NEW b \in Builds, P!Arrive(b) \/ P!BuildHandler(b) \/ P!Cancel(b)
      PROVE  temps'[f] \in {temps[f], None}
  BY <1>1 DEF P!Arrive, P!BuildHandler, P!Cancel, P!Receive, P!Reject, P!Register, P!Enqueue,
     P!Overflow, P!Withdraw, P!Refuse, P!TakeResult, P!Serve, P!RemoveArtifact, P!Deregister,
     P!RemoveArchive, P!Remove
<1>2. ASSUME NEW c \in Conns, P!OpenResult(c)
      PROVE  temps'[f] = temps[f] \/ P!Owned(f)'
  BY <1>2 DEF P!OpenResult, P!Owned
<1>3. ASSUME NEW c \in Conns, P!RequestHandler(c) \/ P!ReadFails(c) \/ P!Finish(c),
             ~P!OpenResult(c)
      PROVE  temps'[f] \in {temps[f], None}
  BY <1>3 DEF P!RequestHandler, P!Take, P!Check, P!Deadline, P!FindArchive,
     P!SendArchive, P!ReadResult, P!ReadError, P!ReadFails, P!Complete, P!SendResult,
     P!Discard, P!Remove, P!Finish
<1>4. ASSUME NEW c, NEW r, NEW b, P!Accept(c, r, b) PROVE temps' = temps
  BY <1>4 DEF P!Accept
<1>5. P!Restart \/ UNCHANGED P!relayVars => temps' = temps
  BY DEF P!Restart, P!relayVars
<1>. QED
  BY <1>1, <1>2, <1>3, <1>4, <1>5 DEF P!RelayNext

\* What is over stays over, and what was queued is never new again.
LEMMA BuildsGoOn ==
  ASSUME P!RelayTypeOK, ArchiveInv, [P!RelayNext]_(P!relayVars), NEW b \in Builds
  PROVE  /\ bpc[b] = "killed" => bpc'[b] = "killed"
         /\ reply[b] = "cancelled" => reply'[b] = "cancelled"
         /\ bpc[b] \notin P!Unqueued => bpc'[b] \notin P!Unqueued
<1> USE DEF P!RelayTypeOK, P!BuildStep, P!Answer, P!Unqueued, ArchiveInv
<1>1. ASSUME NEW d \in Builds, P!Arrive(d) \/ P!BuildHandler(d) \/ P!Cancel(d)
      PROVE  /\ bpc[b] = "killed" => bpc'[b] = "killed"
             /\ reply[b] = "cancelled" => reply'[b] = "cancelled"
             /\ bpc[b] \notin P!Unqueued => bpc'[b] \notin P!Unqueued
  BY <1>1 DEF P!Arrive, P!BuildHandler, P!Cancel, P!Receive, P!Reject, P!Register, P!Enqueue,
     P!Overflow, P!Withdraw, P!Refuse, P!TakeResult, P!Serve, P!RemoveArtifact, P!Deregister,
     P!RemoveArchive
<1>2. ASSUME NEW c \in Conns, P!RequestHandler(c) \/ P!ReadFails(c) \/ P!Finish(c)
      PROVE  UNCHANGED <<bpc, reply>>
  BY <1>2 DEF P!RequestHandler, P!Take, P!Check, P!Deadline, P!FindArchive,
     P!SendArchive, P!OpenResult, P!ReadResult, P!ReadError, P!ReadFails, P!Complete,
     P!SendResult, P!Discard, P!Finish
<1>3. ASSUME NEW c, NEW r, NEW d, P!Accept(c, r, d) PROVE UNCHANGED <<bpc, reply>>
  BY <1>3 DEF P!Accept
<1>4. CASE P!Restart  BY <1>4 DEF P!Restart
<1>5. CASE UNCHANGED P!relayVars  BY <1>5 DEF P!relayVars
<1>. QED
  BY <1>1, <1>2, <1>3, <1>4, <1>5 DEF P!RelayNext

\* A restart takes the owners of files away, but then their builds were not over:
\* they are killed, or had been cancelled.
LEMMA HeldNext ==
  ASSUME CleanInv, [Next]_vars PROVE HeldInv'
<1>0. /\ [P!RelayNext]_(P!relayVars)
      /\ P!RelayTypeOK /\ P!FileInv /\ TokenInv /\ HeldInv /\ ArchiveInv
  BY RelayStep DEF CleanInv, BuildInv, TypeInv, P!RelayInv
<1> SUFFICES ASSUME NEW f \in Files, NEW b \in Builds, temps'[f] = b
             PROVE  P!Owned(f)' \/ bpc'[b] = "killed" \/ reply'[b] = "cancelled"
  BY DEF HeldInv
<1>1. b # None
  BY RemoteBuildAssumption
<1>2. CASE temps[f] # b
  BY <1>0, <1>1, <1>2, NewFileOwned
<1>3. CASE temps[f] = b /\ ~P!Restart
  <2>1. P!Owned(f) => P!Owned(f)'
    BY <1>0, <1>1, <1>3, RelayAssumed, P!FilesKept DEF P!FilesKept
  <2>. QED  BY <1>0, <1>3, <2>1, BuildsGoOn DEF HeldInv
<1>4. CASE temps[f] = b /\ P!Restart
  <2>1. bpc[b] = "killed" => bpc'[b] = "killed"
    BY <1>0, BuildsGoOn
  <2>2. reply[b] = "cancelled" => reply'[b] = "cancelled"
    BY <1>0, BuildsGoOn
  <2>3. ASSUME P!Owned(f) PROVE bpc'[b] = "killed" \/ reply[b] = "cancelled"
    <3>1. CASE \E c \in Conns : payload[c] = f
      <4>1. PICK c \in Conns : payload[c] = f  BY <3>1
      <4>2. hjob[c] = b /\ hpc[c] \in P!Carrying
        BY <1>0, <1>4, <4>1, RemoteBuildAssumption DEF P!FileInv
      <4>3. Out(b) /\ ~Served(b)
        BY <1>0, <4>2 DEF TokenInv, PostedInv, Posting, P!Carrying
      <4>. QED
        BY <1>0, <1>4, <4>3 DEF P!Restart, Out, Served, P!Unqueued, P!RelayTypeOK, P!BuildSteps
    <3>2. CASE \E d \in Builds : result[d] = f
      <4>1. result[b] = f
        BY <1>0, <1>4, <3>2 DEF P!FileInv
      <4>2. Out(b) /\ ~Served(b)
        BY <1>0, <4>1, RemoteBuildAssumption DEF TokenInv, ResultInv
      <4>. QED
        BY <1>0, <1>4, <4>2 DEF P!Restart, Out, Served, P!Unqueued, P!RelayTypeOK, P!BuildSteps
    <3>3. CASE \E d \in Builds : bfile[d] = f
      <4>1. bfile[b] = f
        BY <1>0, <1>4, <3>3 DEF P!FileInv
      <4>2. bpc[b] \in {"serving", "removing"}
        BY <1>0, <4>1, RemoteBuildAssumption DEF P!FileInv
      <4>. QED
        BY <1>4, <4>2 DEF P!Restart
    <3>. QED  BY <2>3, <3>1, <3>2, <3>3 DEF P!Owned
  <2>. QED  BY <1>0, <1>4, <2>1, <2>2, <2>3 DEF HeldInv
<1>. QED  BY <1>2, <1>3, <1>4

-----------------------------------------------------------------------------
\* Tokens: what any step keeps.

\* A job that is out stays out.
LEMMA OutStays ==
  ASSUME CleanInv, [Next]_vars, NEW b \in Builds, Out(b) PROVE Out(b)'
<1>1. [P!RelayNext]_(P!relayVars) /\ BuildInv /\ P!RelayTypeOK /\ ArchiveInv
  BY RelayStep DEF CleanInv, BuildInv, TypeInv, P!RelayInv
<1>. QED  BY <1>1, StaysGone, BuildsGoOn DEF Out

\* A worker comes to carry only a job that was not out.
LEMMA CarriesMove ==
  ASSUME BuildInv, [Next]_vars, NEW w \in Workers, NEW b \in Builds, Carries(w, b)', P!Gone(b)
  PROVE  Carries(w, b)
<1>0. W!WorkerTypeOK
  BY DEF BuildInv, TypeInv
<1> USE DEF Carries
<1>1. ASSUME NEW v \in Workers, NEW c \in Conns, Call(v, c) PROVE Carries(w, b)
  <2>1. /\ wpc[v] \in {"idle", "claimed", "built", "failed"}
        /\ \A u \in Workers : wpc'[u] = wpc[u] \/ u = v
        /\ wjob' = wjob
    BY <1>0, <1>1 DEF Call, W!Send, W!Awaiting, W!WorkerTypeOK
  <2>. QED  BY <2>1
<1>2. ASSUME NEW v \in Workers, Dispatched(v) PROVE Carries(w, b)
  <2>1. PICK d \in Builds : d = hjob[wconn[v]]
    BY <1>2 DEF Dispatched
  <2>2. ~P!Gone(d)
    BY <1>2, <2>1, DispatchedGone
  <2>3. /\ wpc' = [wpc EXCEPT ![v] = "claimed"] /\ wjob' = [wjob EXCEPT ![v] = d]
    BY <1>2, <2>1 DEF Dispatched
  <2>. QED  BY <1>0, <2>2, <2>3 DEF W!WorkerTypeOK
<1>3. ASSUME NEW v \in Workers, NEW to \in {"idle", "backoff", "building", "failed"},
             Moved(v, to)
      PROVE  Carries(w, b)
  BY <1>0, <1>3, RemoteBuildAssumption DEF Moved, W!GoTo, W!WorkerTypeOK
<1>4. ASSUME NEW v \in Workers, Made(v) PROVE Carries(w, b)
  BY <1>0, <1>4, RemoteBuildAssumption DEF Made, W!GoTo, W!WorkerTypeOK
<1>. QED
  BY <1>1, <1>2, <1>3, <1>4, WorkerMoves

\* Every step keeps a job that a worker has out.
LEMMA CarriedNext == ASSUME CleanInv, [Next]_vars PROVE CarriedInv'
<1>0. W!WorkerTypeOK /\ BuildInv /\ CarriedInv
  BY DEF CleanInv, BuildInv, TypeInv, TokenInv
<1> USE DEF Runs
<1>1. ASSUME \A w \in Workers : wjob'[w] \in {wjob[w], None}
      PROVE  CarriedInv'
  BY <1>0, <1>1, OutStays, RemoteBuildAssumption DEF CarriedInv
<1>2. ASSUME NEW w \in Workers, Dispatched(w) PROVE CarriedInv'
  <2>1. PICK c \in Conns, d \in Builds :
          d = hjob[c] /\ c = wconn[w] /\ hpc[c] = "dispatched" /\ P!Finish(c)
    BY <1>2 DEF Dispatched
  <2>2. bpc[d] \notin P!Unqueued /\ bpc' = bpc
    BY <2>1 DEF CleanInv, BuildInv, TypeInv, P!RelayInv, P!JobInv, P!HasTaken, P!Finish
  <2>3. Out(d)'
    BY <1>0, <1>2, <2>1, <2>2, DispatchedGone DEF Out
  <2>4. wjob' = [wjob EXCEPT ![w] = d]
    BY <1>2, <2>1 DEF Dispatched
  <2>. QED  BY <1>0, <2>3, <2>4, OutStays DEF CarriedInv, W!WorkerTypeOK
<1>3. ASSUME NEW w \in Workers, NEW to, W!GoTo(w, to)
      PROVE  \A v \in Workers : wjob'[v] \in {wjob[v], None}
  BY <1>0, <1>3 DEF W!GoTo, W!WorkerTypeOK
<1>4. ASSUME NEW w \in Workers, NEW c \in Conns, Call(w, c) PROVE wjob' = wjob
  BY <1>4 DEF Call, W!Send
<1>. QED
  BY <1>0, <1>1, <1>2, <1>3, <1>4, WorkerMoves DEF Moved, Made

\* Steps that post nothing, deliver nothing and serve no build keep the tokens.
LEMMA TokenFrame ==
  ASSUME CleanInv, [Next]_vars,
         \A b \in Builds : Served(b)' => Served(b),
         \A b \in Builds, c \in Conns : Posting(c, b)' => Posting(c, b),
         \A b \in Builds : result'[b] \in {result[b], None}
  PROVE  PostedInv' /\ ResultInv' /\ ServedInv'
<1>0. BuildInv /\ PostedInv /\ ResultInv /\ ServedInv
  BY DEF CleanInv, TokenInv
<1>1. \A b \in Builds, w \in Workers : P!Gone(b) /\ Carries(w, b)' => Carries(w, b)
  BY <1>0, CarriesMove
<1>2. PostedInv'
  BY <1>0, <1>1, OutStays DEF PostedInv, Out
<1>3. ResultInv'
  BY <1>0, <1>1, OutStays DEF ResultInv, Out
<1>4. ServedInv'
  BY <1>0, <1>1, StaysGone DEF ServedInv
<1>. QED  BY <1>2, <1>3, <1>4

\* The handler of a build takes the result it has served from the channel, or it
\* ends before its job is queued.
LEMMA ServedMove ==
  ASSUME P!RelayInv, NEW d \in Builds, P!Arrive(d) \/ P!BuildHandler(d) \/ P!Cancel(d),
         NEW b \in Builds
  PROVE  /\ result'[b] \in {result[b], None}
         /\ Served(b)' => \/ Served(b)
                          \/ result[b] # None /\ result'[b] = None
                          \/ bpc[b] \in P!Unqueued /\ P!Gone(b)'
<1> USE DEF P!RelayInv, P!RelayTypeOK, P!BuildStep, P!Answer
<1>1. CASE P!TakeResult(d)
  BY <1>1 DEF P!TakeResult, Served
<1>2. CASE P!Reject(d) \/ P!Refuse(d)
  <2>1. UNCHANGED <<jobs, hpc, hjob, result>> /\ bpc[d] \in P!Unqueued
        /\ bpc' = [bpc EXCEPT ![d] = "done"]
        /\ \A e \in Builds : e # d => reply'[e] = reply[e]
    BY <1>2 DEF P!Reject, P!Refuse, P!Unqueued
  <2>2. P!Gone(d)'
    BY <2>1 DEF P!Gone, P!HasTaken, P!JobInv
  <2>3. b # d => (Served(b)' <=> Served(b))
    BY <2>1 DEF Served
  <2>. QED  BY <2>1, <2>2, <2>3
<1>3. CASE P!Serve(d) \/ P!RemoveArtifact(d) \/ P!Deregister(d) \/ P!RemoveArchive(d)
  BY <1>3 DEF P!Serve, P!RemoveArtifact, P!Deregister, P!RemoveArchive, Served
<1>4. CASE P!Cancel(d)
  BY <1>4 DEF P!Cancel, Served
<1>5. CASE P!Arrive(d) \/ P!Receive(d) \/ P!Register(d) \/ P!Enqueue(d) \/ P!Overflow(d)
           \/ P!Withdraw(d)
  BY <1>5 DEF P!Arrive, P!Receive, P!Register, P!Enqueue, P!Overflow, P!Withdraw, Served
<1>. QED
  BY <1>1, <1>2, <1>3, <1>4, <1>5 DEF P!BuildHandler

\* The handler of a request only goes on with what it posts; a result that it
\* delivers is then in the channel, and no longer with the request.
LEMMA PostingMove ==
  ASSUME P!RelayTypeOK, P!FileInv, NEW c \in Conns,
         P!RequestHandler(c) \/ P!ReadFails(c) \/ P!Finish(c)
  PROVE  /\ UNCHANGED <<bpc, reply>>
         /\ \A b \in Builds, d \in Conns : Posting(d, b)' => Posting(d, b)
         /\ \A b \in Builds : \/ result'[b] \in {result[b], None}
                              \/ Posting(c, b) /\ ~Posting(c, b)'
<1> USE DEF P!RelayTypeOK, P!HandlerStep, Posting
<1>1. CASE P!SendResult(c)
  BY <1>1 DEF P!SendResult, P!Discard
<1>2. CASE P!Finish(c)
  BY <1>2 DEF P!Finish
<1>3. CASE P!Take(c) \/ P!Check(c) \/ P!Deadline(c)
  BY <1>3 DEF P!Take, P!Check, P!Deadline
<1>4. CASE P!FindArchive(c) \/ P!SendArchive(c) \/ P!OpenResult(c) \/ P!ReadResult(c)
           \/ P!ReadError(c) \/ P!ReadFails(c) \/ P!Complete(c)
  BY <1>4 DEF P!FindArchive, P!SendArchive, P!OpenResult, P!ReadResult, P!ReadError,
     P!ReadFails, P!Complete, P!Discard
<1>. QED
  BY <1>1, <1>2, <1>3, <1>4 DEF P!RequestHandler

-----------------------------------------------------------------------------
\* Every step keeps the tokens.

\* A build's handler.
LEMMA TokenBuild ==
  ASSUME CleanInv, [Next]_vars, NEW d \in Builds,
         Submit(d) \/ ServeBuild(d) \/ NoticeCancel(d)
  PROVE  PostedInv' /\ ResultInv' /\ ServedInv'
<1>0. BuildInv /\ P!RelayInv /\ CarriedInv /\ PostedInv /\ ResultInv /\ ServedInv
  BY DEF CleanInv, BuildInv, TypeInv, TokenInv
<1>1. UNCHANGED <<hpc, hjob>> /\ UNCHANGED workerVars
      /\ (P!Arrive(d) \/ P!BuildHandler(d) \/ P!Cancel(d))
  BY BuildFrame, SameBuilds DEF Submit, ServeBuild, NoticeCancel
<1>2. \A b \in Builds :
        /\ result'[b] \in {result[b], None}
        /\ Served(b)' => \/ Served(b)
                         \/ result[b] # None /\ result'[b] = None
                         \/ bpc[b] \in P!Unqueued /\ P!Gone(b)'
  BY <1>0, <1>1, ServedMove
<1>3. /\ \A b \in Builds, c \in Conns : Posting(c, b)' <=> Posting(c, b)
      /\ \A b \in Builds, w \in Workers : Carries(w, b)' <=> Carries(w, b)
  BY <1>1 DEF Posting, Carries, workerVars
<1>4. PostedInv'
  BY <1>0, <1>2, <1>3, OutStays DEF PostedInv, Out
<1>5. ResultInv'
  BY <1>0, <1>2, <1>3, OutStays DEF ResultInv, Out
<1>6. ServedInv'
  <2> SUFFICES ASSUME NEW b \in Builds, Served(b)'
               PROVE  P!Gone(b)' /\ \A w \in Workers : ~Carries(w, b)
    BY <1>3 DEF ServedInv
  <2>1. CASE Served(b)
    BY <1>0, <2>1, StaysGone DEF ServedInv
  <2>2. CASE result[b] # None
    BY <1>0, <2>2, StaysGone DEF ResultInv, Out
  <2>3. CASE bpc[b] \in P!Unqueued /\ P!Gone(b)'
    BY <1>0, <2>3 DEF CarriedInv, Out, Carries, Runs
  <2>. QED  BY <1>2, <2>1, <2>2, <2>3
<1>. QED  BY <1>4, <1>5, <1>6

\* The handler of a request.
LEMMA TokenRequest ==
  ASSUME CleanInv, [Next]_vars, NEW c \in Conns,
         P!RequestHandler(c) \/ P!ReadFails(c) \/ P!Finish(c)
  PROVE  PostedInv' /\ ResultInv' /\ ServedInv'
<1>0. /\ BuildInv /\ P!RelayTypeOK /\ P!FileInv
      /\ PostedInv /\ ResultInv /\ ServedInv
  BY DEF CleanInv, BuildInv, TypeInv, TokenInv, P!RelayInv
<1>1. /\ \A b \in Builds : Served(b)' <=> Served(b)
      /\ \A b \in Builds, d \in Conns : Posting(d, b)' => Posting(d, b)
      /\ \A b \in Builds : \/ result'[b] \in {result[b], None}
                           \/ Posting(c, b) /\ ~Posting(c, b)'
  BY <1>0, PostingMove DEF Served
<1>2. \A b \in Builds, w \in Workers : P!Gone(b) /\ Carries(w, b)' => Carries(w, b)
  BY <1>0, CarriesMove
<1>3. PostedInv'
  BY <1>0, <1>1, <1>2, OutStays DEF PostedInv, Out
<1>4. ResultInv'
  BY <1>0, <1>1, <1>2, OutStays DEF ResultInv, PostedInv, Out
<1>5. ServedInv'
  BY <1>0, <1>1, <1>2, StaysGone DEF ServedInv
<1>. QED  BY <1>3, <1>4, <1>5

\* A request that posts takes the token of its worker, which will not post again.
LEMMA TokenCall ==
  ASSUME CleanInv, [Next]_vars, NEW w \in Workers, NEW c \in Conns, Call(w, c)
  PROVE  PostedInv' /\ ResultInv' /\ ServedInv'
<1>0. /\ BuildInv /\ P!RelayTypeOK /\ W!WorkerTypeOK /\ None \notin Builds
      /\ CarriedInv /\ PostedInv /\ ResultInv /\ ServedInv /\ PlaceInv
  BY RemoteBuildAssumption DEF CleanInv, BuildInv, TypeInv, TokenInv, P!RelayInv
<1>1. /\ wpc[w] \in {"idle", "claimed", "built", "failed"}
      /\ wpc' = [wpc EXCEPT ![w] = W!Awaiting[wpc[w]]] /\ wjob' = wjob
      /\ hpc' = [hpc EXCEPT ![c] = RequestOf[wpc[w]]]
      /\ hjob' = [hjob EXCEPT ![c] = wjob[w]]
      /\ UNCHANGED <<bpc, reply, result>>
  BY DEF Call, W!Send, W!Awaiting, R!Accept, R!HandlerStep
<1>2. \A b \in Builds : Served(b)' <=> Served(b)
  BY <1>1 DEF Served
<1>3. CASE wpc[w] \in {"idle", "claimed"}
  <2>1. RequestOf[wpc[w]] \in {"pulling", "archive"}
    BY <1>3 DEF RequestOf
  <2>2. \A b \in Builds, d \in Conns : Posting(d, b)' => Posting(d, b)
    BY <1>0, <1>1, <2>1 DEF Posting, P!RelayTypeOK
  <2>. QED  BY <1>1, <1>2, <2>2, TokenFrame
<1>4. CASE wpc[w] \in {"built", "failed"}
  <2>1. PICK b \in Builds : b = wjob[w]
    BY <1>0, <1>4 DEF BuildInv, WorkerInv, Working, W!WorkerTypeOK
  <2>2. wpc'[w] \in {"delivering", "reporting"} /\ RequestOf[wpc[w]] \in {"result", "error"}
    BY <1>0, <1>1, <1>4 DEF W!Awaiting, RequestOf, W!WorkerTypeOK
  <2>3. Carries(w, b) /\ Out(b) /\ \A v \in Workers : wjob[v] = b => v = w
    BY <1>0, <1>4, <2>1 DEF Carries, CarriedInv, PlaceInv, Runs
  <2>4. /\ \A v \in Workers : ~Carries(v, b)'
        /\ \A v \in Workers, d \in Builds : Carries(v, d)' => Carries(v, d)
    BY <1>0, <1>1, <2>2, <2>3 DEF Carries, W!WorkerTypeOK
  <2>5. /\ Posting(c, b)'
        /\ \A d \in Conns, e \in Builds :
             Posting(d, e)' => Posting(d, e) \/ (d = c /\ e = b)
    BY <1>0, <1>1, <2>1, <2>2 DEF Posting, P!RelayTypeOK
  <2>6. \A d \in Conns : ~Posting(d, b)
    BY <1>0, <2>3 DEF PostedInv
  <2>7. result[b] = None /\ ~Served(b)
    BY <1>0, <2>3 DEF ResultInv, ServedInv
  <2>8. PostedInv'
    BY <1>0, <1>1, <1>2, <2>3, <2>4, <2>5, <2>6, <2>7, OutStays DEF PostedInv
  <2>9. ResultInv'
    BY <1>0, <1>1, <1>2, <2>4, OutStays DEF ResultInv
  <2>10. ServedInv'
    BY <1>0, <1>2, <2>4, StaysGone DEF ServedInv
  <2>. QED  BY <2>8, <2>9, <2>10
<1>. QED  BY <1>1, <1>3, <1>4

\* Any step.
LEMMA TokenNext == ASSUME CleanInv, [Next]_vars PROVE TokenInv'
<1> DEFINE Goal == PostedInv' /\ ResultInv' /\ ServedInv'
<1>1. ASSUME NEW b \in Builds, Submit(b) \/ ServeBuild(b) \/ NoticeCancel(b) PROVE Goal
  BY <1>1, TokenBuild
<1>2. ASSUME NEW c \in Conns, HandleRequest(c) \/ LoseBody(c) \/ Unheard(c) PROVE Goal
  BY <1>2, SameRequests, TokenRequest DEF HandleRequest, LoseBody, Unheard
<1>3. ASSUME NEW w \in Workers, Answered(w) PROVE Goal
  <2>1. wconn[w] \in Conns
    BY <1>3 DEF Answered, CleanInv, BuildInv, TypeInv, W!WorkerTypeOK
  <2>. QED  BY <1>3, <2>1, SameRequests, TokenRequest DEF Answered
<1>4. ASSUME NEW w \in Workers, NEW c \in Conns, Call(w, c) PROVE Goal
  BY <1>4, TokenCall
<1>5. ASSUME UNCHANGED relayVars PROVE Goal
  BY <1>5, TokenFrame DEF relayVars, Served, Posting
<1>6. ASSUME RestartRelay PROVE Goal
  <2>1. P!Restart /\ P!RelayTypeOK
    BY <1>6, SameRestart DEF RestartRelay, CleanInv, BuildInv, TypeInv, P!RelayInv
  <2>2. \A b \in Builds : Served(b)' => Served(b)
    BY <2>1 DEF P!Restart, Served, P!RelayTypeOK
  <2>3. /\ \A b \in Builds, c \in Conns : ~Posting(c, b)'
        /\ \A b \in Builds : result'[b] = None
    BY <2>1 DEF P!Restart, Posting
  <2>. QED  BY <2>2, <2>3, TokenFrame
<1>7. Goal
  BY <1>1, <1>2, <1>3, <1>4, <1>5, <1>6 DEF Next, WorkerStep, RequestStep, ReadReply, GiveUp,
     Build, Wake, CallFails, RestartWorker, vars, relayVars
<1>. QED  BY <1>7, CarriedNext DEF TokenInv

\* Every step keeps the whole.
LEMMA CleanNext == CleanInv /\ [Next]_vars => CleanInv'
<1> SUFFICES ASSUME CleanInv, [Next]_vars PROVE CleanInv'
  OBVIOUS
<1>1. BuildInv'
  BY BuildInvNext DEF CleanInv
<1>2. ArchiveInv'
  BY RelayStep, ArchiveNext DEF CleanInv, BuildInv, TypeInv, P!RelayInv
<1>. QED  BY <1>1, <1>2, TokenNext, HeldNext DEF CleanInv

\* When the handler of a build has ended its archive is off the disk of the relay,
\* and so is everything that was ever posted for it, unless it had been cancelled:
\* no request of its worker, however late, leaves a file (cleanupJob, completeJob,
\* handleReverseResult).
THEOREM CleanAfterBuild == Spec => []CleanWhenDone
<1>1. CleanInv => CleanWhenDone
  <2> SUFFICES ASSUME CleanInv, NEW b \in Builds, bpc[b] = "done"
               PROVE  /\ b \notin archives
                      /\ reply[b] # "cancelled" => \A f \in Files : temps[f] # b
    BY DEF CleanWhenDone
  <2>1. b \notin archives
    BY DEF CleanInv, ArchiveInv
  <2>2. ASSUME reply[b] # "cancelled", NEW f \in Files, temps[f] = b
        PROVE  FALSE
    <3>0. P!FileInv /\ PostedInv /\ ResultInv /\ HeldInv /\ Served(b)
      BY <2>2 DEF CleanInv, BuildInv, TypeInv, P!RelayInv, TokenInv, Served
    <3>1. P!Owned(f)
      BY <2>2, <3>0 DEF HeldInv
    <3>2. \A c \in Conns : payload[c] # f
      <4> SUFFICES ASSUME NEW c \in Conns, payload[c] = f PROVE FALSE
        OBVIOUS
      <4>1. Posting(c, b)
        BY <2>2, <3>0, RemoteBuildAssumption DEF P!FileInv, P!Carrying, Posting
      <4>. QED  BY <3>0, <4>1 DEF PostedInv
    <3>3. \A d \in Builds : result[d] # f
      BY <2>2, <3>0, RemoteBuildAssumption DEF P!FileInv, ResultInv
    <3>4. \A d \in Builds : bfile[d] # f
      BY <2>2, <3>0, RemoteBuildAssumption DEF P!FileInv
    <3>. QED  BY <3>1, <3>2, <3>3, <3>4 DEF P!Owned
  <2>. QED  BY <2>1, <2>2
<1>. QED
  BY <1>1, CleanInit, CleanNext, PTL DEF Spec
=============================================================================
