---------------------------- MODULE RelayProofs ----------------------------
(***************************************************************************)
(* Proofs about the open relay of Relay, for all sets of builds, requests  *)
(* and files, every capacity of the queue, and every behaviour of clients  *)
(* and workers.                                                            *)
(***************************************************************************)
EXTENDS Relay, TLAPS

-----------------------------------------------------------------------------
\* Types.

\* The relay starts with the right types.
LEMMA TypeInit == RelayInit => RelayTypeOK
  BY RelayAssumption DEF RelayInit, RelayTypeOK, BuildSteps, Replies, Bodies

\* A build is served from a file.
ServesFile(b) == bpc[b] = "serving" => bfile[b] # None

\* Every step of a build's handler keeps the types.
LEMMA TypeBuild ==
  ASSUME RelayTypeOK, NEW b \in Builds, ServesFile(b),
         Arrive(b) \/ BuildHandler(b) \/ Cancel(b)
  PROVE  RelayTypeOK'
<1> USE RelayAssumption
    DEF RelayTypeOK, ServesFile, BuildStep, Answer, BuildSteps, Replies, Bodies
<1>1. CASE Arrive(b)       BY <1>1 DEF Arrive
<1>13. CASE Receive(b)     BY <1>13 DEF Receive
<1>14. CASE Reject(b)      BY <1>14 DEF Reject
<1>2. CASE Register(b)     BY <1>2 DEF Register
<1>3. CASE Enqueue(b)      BY <1>3 DEF Enqueue
<1>4. CASE Overflow(b)     BY <1>4 DEF Overflow
<1>5. CASE Withdraw(b)     BY <1>5 DEF Withdraw
<1>6. CASE Refuse(b)       BY <1>6 DEF Refuse
<1>7. CASE TakeResult(b)
  <2>1. result' \in [Builds -> Files \cup {None, Failed}]  BY <1>7 DEF TakeResult
  <2>2. bpc' \in [Builds -> BuildSteps]  BY <1>7 DEF TakeResult
  <2>3. reply' \in [Builds -> Replies]  BY <1>7 DEF TakeResult
  <2>4. bfile' \in [Builds -> Files \cup {None}]  BY <1>7 DEF TakeResult
  <2>. QED  BY <1>7, <2>1, <2>2, <2>3, <2>4 DEF TakeResult
<1>8. CASE Cancel(b)       BY <1>8 DEF Cancel
<1>9. CASE Serve(b)
  <2>1. bpc' \in [Builds -> BuildSteps]  BY <1>9 DEF Serve
  <2>2. Contents(bfile[b]) \in Bodies  BY <1>9 DEF Serve, Contents
  <2>3. body' \in [Builds -> Bodies]  BY <1>9, <2>2 DEF Serve
  <2>4. reply' \in [Builds -> Replies]  BY <1>9 DEF Serve
  <2>. QED  BY <1>9, <2>1, <2>3, <2>4 DEF Serve
<1>10. CASE RemoveArtifact(b)  BY <1>10 DEF RemoveArtifact, Remove
<1>11. CASE Deregister(b)      BY <1>11 DEF Deregister
<1>12. CASE RemoveArchive(b)   BY <1>12 DEF RemoveArchive
<1>. QED
  BY <1>1, <1>2, <1>3, <1>4, <1>5, <1>6, <1>7, <1>8, <1>9, <1>10, <1>11, <1>12,
     <1>13, <1>14
  DEF BuildHandler

\* So does every step of the handler of a request.
LEMMA TypeRequest ==
  ASSUME RelayTypeOK, NEW c \in Conns,
         RequestHandler(c) \/ ReadFails(c) \/ Finish(c)
  PROVE  RelayTypeOK'
<1> USE RelayAssumption DEF RelayTypeOK, HandlerStep, HandlerSteps, Responses, Remove
<1>1. CASE Take(c)         BY <1>1 DEF Take
<1>2. CASE Check(c)        BY <1>2 DEF Check
<1>3. CASE Deadline(c)     BY <1>3 DEF Deadline
<1>4. CASE FindArchive(c)  BY <1>4 DEF FindArchive
<1>5. CASE SendArchive(c)  BY <1>5 DEF SendArchive
<1>6. CASE OpenResult(c)   BY <1>6 DEF OpenResult
<1>7. CASE ReadResult(c)   BY <1>7 DEF ReadResult
<1>8. CASE ReadError(c)    BY <1>8 DEF ReadError
<1>9. CASE ReadFails(c)    BY <1>9 DEF ReadFails, Discard
<1>10. CASE Complete(c)    BY <1>10 DEF Complete, Discard
<1>11. CASE SendResult(c)
  BY <1>11 DEF SendResult, Discard
<1>12. CASE Finish(c)      BY <1>12 DEF Finish
<1>. QED
  BY <1>1, <1>2, <1>3, <1>4, <1>5, <1>6, <1>7, <1>8, <1>9, <1>10, <1>11, <1>12
  DEF RequestHandler

\* And every step of the open relay, its restart among them.
LEMMA TypeNext ==
  ASSUME RelayTypeOK, \A b \in Builds : ServesFile(b), [RelayNext]_relayVars
  PROVE  RelayTypeOK'
<1>1. ASSUME NEW c \in Conns, NEW r \in HandlerSteps, NEW b \in Builds \cup {None},
             Accept(c, r, b)
      PROVE  RelayTypeOK'
  BY <1>1 DEF RelayTypeOK, Accept, HandlerStep
<1>2. CASE Restart
  BY <1>2, RelayAssumption DEF RelayTypeOK, Restart, BuildSteps, Replies, Responses
<1>3. CASE UNCHANGED relayVars
  BY <1>3 DEF RelayTypeOK, relayVars
<1>. QED
  BY <1>1, <1>2, <1>3, TypeBuild, TypeRequest DEF RelayNext, HandlerSteps

-----------------------------------------------------------------------------
\* The inductive invariant.

\* A build is in the table exactly while its handler is between newJob and
\* cleanupJob, and its archive is on disk from before that until after it.
Registered == {"registered", "overflow", "waiting", "serving", "removing", "closing"}

TableInv ==
  \A b \in Builds :
    /\ b \in active <=> bpc[b] \in Registered
    /\ bpc[b] \in Registered \cup {"received", "refusing", "unlinking"} => b \in archives

\* A job whose handler has not queued it is not in the queue or with a pull.
Unqueued == {"idle", "uploading", "received", "registered", "overflow", "refusing"}

JobInv ==
  /\ JobsAreSingle
  /\ \A i \in 1..Len(jobs) : bpc[jobs[i]] \notin Unqueued
  /\ \A c \in Conns, b \in Builds : HasTaken(c, b) => bpc[b] \notin Unqueued

\* A result file has one holder, which holds it only at the steps at which it is
\* going to remove it or pass it on; on disk it is the job's that the holder
\* works for, and whole once it has been read to its end.
Naming == {"archive", "opening", "result", "reading", "error", "completing", "sending"}
Carrying == {"reading", "completing", "sending"}

FileInv ==
  /\ \A c \in Conns :
       /\ hpc[c] \in Naming => hjob[c] \in Builds
       /\ payload[c] # None <=> hpc[c] \in Carrying
       /\ payload[c] \in Files => temps[payload[c]] = hjob[c]
       /\ payload[c] \in Files /\ hpc[c] # "reading" => payload[c] \in whole
       /\ \A d \in Conns : payload[c] = payload[d] /\ payload[c] \in Files => c = d
       /\ \A b \in Builds :
            payload[c] \in Files => payload[c] # result[b] /\ payload[c] # bfile[b]
  /\ \A b \in Builds :
       /\ bfile[b] # None <=> bpc[b] \in {"serving", "removing"}
       /\ result[b] \in Files => temps[result[b]] = b /\ result[b] \in whole
       /\ bfile[b] \in Files => temps[bfile[b]] = b /\ bfile[b] \in whole
       /\ result[b] \in Files => result[b] # bfile[b]

RelayInv == RelayTypeOK /\ TableInv /\ JobInv /\ FileInv

\* The relay starts in the invariant: no job, no request, no file.
LEMMA InvInit == RelayInit => RelayInv
<1> SUFFICES ASSUME RelayInit PROVE RelayInv
  OBVIOUS
<1> USE DEF RelayInit
<1>1. TableInv
  BY DEF TableInv, Registered
<1>2. JobInv
  BY DEF JobInv, JobsAreSingle, HasTaken
<1>3. FileInv
  BY RelayAssumption DEF FileInv, Naming, Carrying
<1>. QED
  BY <1>1, <1>2, <1>3, TypeInit DEF RelayInv

\* The handlers of requests change neither the table, nor the archives, nor where
\* a build stands.
LEMMA RequestFrame ==
  ASSUME NEW c \in Conns, RequestHandler(c) \/ ReadFails(c) \/ Finish(c)
  PROVE  UNCHANGED <<active, archives, bpc>>
  BY DEF RequestHandler, Take, Check, Deadline, FindArchive, SendArchive, OpenResult,
     ReadResult, ReadError, ReadFails, Complete, SendResult, Discard, Finish

\* Every step keeps the table and the archives in line with where the builds
\* stand: only the build's own handler changes either.
LEMMA TableNext == RelayInv /\ [RelayNext]_relayVars => TableInv'
<1> SUFFICES ASSUME RelayInv, [RelayNext]_relayVars PROVE TableInv'
  OBVIOUS
<1> USE DEF RelayInv, RelayTypeOK, TableInv, Registered
<1>1. ASSUME NEW b \in Builds, Arrive(b) \/ BuildHandler(b) \/ Cancel(b)
      PROVE  TableInv'
  <2>1. CASE Arrive(b)          BY <2>1 DEF Arrive, BuildStep
  <2>13. CASE Receive(b)        BY <2>13 DEF Receive, BuildStep
  <2>14. CASE Reject(b)         BY <2>14 DEF Reject, BuildStep
  <2>2. CASE Register(b)        BY <2>2 DEF Register, BuildStep
  <2>3. CASE Enqueue(b)         BY <2>3 DEF Enqueue, BuildStep
  <2>4. CASE Overflow(b)        BY <2>4 DEF Overflow, BuildStep
  <2>5. CASE Withdraw(b)        BY <2>5 DEF Withdraw, BuildStep
  <2>6. CASE Refuse(b)          BY <2>6 DEF Refuse, BuildStep
  <2>7. CASE TakeResult(b)      BY <2>7 DEF TakeResult, BuildStep
  <2>8. CASE Cancel(b)          BY <2>8 DEF Cancel, BuildStep
  <2>9. CASE Serve(b)           BY <2>9 DEF Serve, BuildStep
  <2>10. CASE RemoveArtifact(b) BY <2>10 DEF RemoveArtifact, BuildStep
  <2>11. CASE Deregister(b)     BY <2>11 DEF Deregister, BuildStep
  <2>12. CASE RemoveArchive(b)  BY <2>12 DEF RemoveArchive, BuildStep
  <2>. QED
    BY <1>1, <2>1, <2>2, <2>3, <2>4, <2>5, <2>6, <2>7, <2>8, <2>9, <2>10, <2>11, <2>12,
       <2>13, <2>14
    DEF BuildHandler
<1>2. ASSUME UNCHANGED <<active, archives, bpc>> PROVE TableInv'
  BY <1>2
<1>3. CASE Restart
  BY <1>3 DEF Restart
<1>4. ASSUME NEW c \in Conns, NEW r, NEW b, Accept(c, r, b) PROVE TableInv'
  BY <1>2, <1>4 DEF Accept
<1>. QED
  BY <1>1, <1>2, <1>3, <1>4, RequestFrame DEF RelayNext, relayVars

\* Where a job is changes only when it is queued, taken, checked or let go.
LEMMA JobFrame ==
  ASSUME JobInv, UNCHANGED jobs, UNCHANGED <<hpc, hjob>>,
         \A b \in Builds : bpc[b] \notin Unqueued => bpc'[b] \notin Unqueued,
         RelayTypeOK
  PROVE  JobInv'
<1>1. \A c \in Conns, b \in Builds : HasTaken(c, b)' <=> HasTaken(c, b)
  BY DEF HasTaken
<1>2. JobsAreSingle'
  BY <1>1 DEF JobInv, JobsAreSingle, HasTaken
<1>3. \A i \in 1..Len(jobs) : jobs[i] \in Builds
  BY DEF RelayTypeOK
<1>. QED
  BY <1>1, <1>2, <1>3 DEF JobInv

\* Every step keeps a job in one place: Enqueue adds one that was nowhere, Take
\* moves the first of the queue, the others only let go of what they hold.
LEMMA JobNext == RelayInv /\ [RelayNext]_relayVars => JobInv'
<1> SUFFICES ASSUME RelayInv, [RelayNext]_relayVars PROVE JobInv'
  OBVIOUS
<1> USE DEF RelayInv
<1>1. ASSUME NEW b \in Builds, Arrive(b) \/ BuildHandler(b) \/ Cancel(b)
      PROVE  JobInv'
  <2>1. CASE Enqueue(b)
    <3> DEFINE n == Len(jobs)
    <3>1. /\ jobs \in Seq(Builds) /\ n \in Nat /\ bpc \in [Builds -> BuildSteps]
          /\ hjob \in [Conns -> Builds \cup {None}]
      BY DEF RelayTypeOK
    <3>2. /\ Len(jobs') = n + 1 /\ jobs'[n + 1] = b
          /\ \A i \in 1..n : jobs'[i] = jobs[i] /\ jobs[i] \in Builds
      BY <2>1, <3>1 DEF Enqueue
    <3>3. /\ \A i \in 1..n : jobs[i] # b
          /\ \A c \in Conns : ~HasTaken(c, b)
      BY <2>1 DEF Enqueue, BuildStep, JobInv, Unqueued
    <3>4. \A c \in Conns, d \in Builds : HasTaken(c, d)' <=> HasTaken(c, d)
      BY <2>1 DEF Enqueue, HasTaken
    <3>5. bpc' = [bpc EXCEPT ![b] = "waiting"]
      BY <2>1 DEF Enqueue, BuildStep
    <3>6. \A i, j \in 1..(n + 1) : jobs'[i] = jobs'[j] => i = j
      BY <3>1, <3>2, <3>3 DEF JobInv, JobsAreSingle
    <3>7. \A c \in Conns, i \in 1..(n + 1) : ~HasTaken(c, jobs[i])'
      <4>1. hpc' = hpc /\ hjob' = hjob
        BY <2>1 DEF Enqueue
      <4>2. \A c \in Conns, i \in 1..n :
              ~(hpc[c] \in {"checking", "dispatched"} /\ hjob[c] = jobs[i])
        BY DEF JobInv, JobsAreSingle, HasTaken
      <4>. QED
        BY <3>1, <3>2, <3>3, <4>1, <4>2 DEF HasTaken
    <3>8. \A i \in 1..(n + 1) : bpc'[jobs'[i]] \notin Unqueued
      BY <3>1, <3>2, <3>5 DEF JobInv, Unqueued
    <3>9. \A c, d \in Conns, e \in Builds : HasTaken(c, e)' /\ HasTaken(d, e)' => c = d
      BY <3>4 DEF JobInv, JobsAreSingle
    <3>10. \A c \in Conns, d \in Builds : HasTaken(c, d)' => bpc'[d] \notin Unqueued
      BY <3>1, <3>4, <3>5 DEF JobInv, Unqueued
    <3>. QED
      BY <3>2, <3>6, <3>7, <3>8, <3>9, <3>10 DEF JobInv, JobsAreSingle
  <2>2. CASE ~Enqueue(b)
    <3>1. UNCHANGED jobs /\ UNCHANGED <<hpc, hjob>>
      BY <1>1, <2>2 DEF BuildHandler, Arrive, Receive, Reject, Register, Overflow, Withdraw, Refuse,
         TakeResult, Cancel, Serve, RemoveArtifact, Deregister, RemoveArchive
    <3>2. \E from, to \in BuildSteps :
            BuildStep(b, from, to) /\ (from \in Unqueued \/ to \notin Unqueued)
      BY <1>1, <2>2 DEF BuildHandler, Arrive, Receive, Reject, Register, Overflow, Withdraw, Refuse,
         TakeResult, Cancel, Serve, RemoveArtifact, Deregister, RemoveArchive,
         Unqueued, BuildSteps
    <3>3. \A d \in Builds : bpc[d] \notin Unqueued => bpc'[d] \notin Unqueued
      BY <3>2 DEF BuildStep, RelayTypeOK
    <3>. QED
      BY <3>1, <3>3, JobFrame
  <2>. QED
    BY <2>1, <2>2
<1>2. ASSUME NEW c \in Conns, Take(c)
      PROVE  JobInv'
  <2>1. /\ jobs \in Seq(Builds) /\ jobs # <<>> /\ Len(jobs) \in Nat
        /\ hpc \in [Conns -> HandlerSteps \cup Responses \cup {"free"}]
        /\ hjob \in [Conns -> Builds \cup {None}]
    BY <1>2 DEF Take, RelayTypeOK
  <2>2. /\ Len(jobs) > 0 /\ Len(jobs') = Len(jobs) - 1 /\ Head(jobs) = jobs[1]
        /\ \A i \in 1..Len(jobs') : jobs'[i] = jobs[i + 1]
    BY <1>2, <2>1 DEF Take
  <2>3. /\ hpc' = [hpc EXCEPT ![c] = "checking"]
        /\ hjob' = [hjob EXCEPT ![c] = jobs[1]] /\ bpc' = bpc
    BY <1>2, <2>2 DEF Take, HandlerStep
  <2>4. \A d \in Conns, b \in Builds :
          HasTaken(d, b)' <=> IF d = c THEN b = jobs[1] ELSE HasTaken(d, b)
    BY <2>1, <2>3 DEF HasTaken
  <2>5. /\ \A i \in 1..Len(jobs) : jobs[i] \in Builds
        /\ \A i \in 1..Len(jobs') : jobs'[i] # jobs[1] /\ i + 1 \in 1..Len(jobs)
    BY <2>1, <2>2 DEF JobInv, JobsAreSingle
  <2>6. \A i, j \in 1..Len(jobs') : jobs'[i] = jobs'[j] => i = j
    <3> SUFFICES ASSUME NEW i \in 1..Len(jobs'), NEW j \in 1..Len(jobs'), jobs'[i] = jobs'[j]
                 PROVE  i = j
      OBVIOUS
    <3>1. i + 1 = j + 1
      BY <2>2, <2>5 DEF JobInv, JobsAreSingle
    <3>. QED  BY <3>1, <2>1, <2>2
  <2>7. \A d \in Conns, i \in 1..Len(jobs') : ~HasTaken(d, jobs[i])'
    <3> SUFFICES ASSUME NEW d \in Conns, NEW i \in 1..Len(jobs')
                 PROVE  ~(hpc'[d] \in {"checking", "dispatched"} /\ hjob'[d] = jobs'[i])
      BY DEF HasTaken
    <3>1. CASE d = c
      BY <3>1, <2>1, <2>3, <2>5
    <3>2. CASE d # c
      BY <3>2, <2>1, <2>2, <2>3, <2>5 DEF JobInv, JobsAreSingle, HasTaken
    <3>. QED  BY <3>1, <3>2
  <2>8. \A b \in Builds, d, e \in Conns : HasTaken(d, b)' /\ HasTaken(e, b)' => d = e
    BY <2>1, <2>2, <2>4 DEF JobInv, JobsAreSingle
  <2>9. /\ \A i \in 1..Len(jobs') : bpc[jobs'[i]] \notin Unqueued
        /\ \A d \in Conns, b \in Builds : HasTaken(d, b)' => bpc[b] \notin Unqueued
    BY <2>1, <2>2, <2>4, <2>5 DEF JobInv
  <2>. QED
    BY <2>3, <2>6, <2>7, <2>8, <2>9 DEF JobInv, JobsAreSingle
<1>3. ASSUME UNCHANGED <<jobs, bpc>>,
             \A c \in Conns, b \in Builds : HasTaken(c, b)' => HasTaken(c, b)
      PROVE  JobInv'
  <2>1. \A i \in 1..Len(jobs) : jobs[i] \in Builds
    BY DEF RelayTypeOK
  <2>2. \A c \in Conns, i \in 1..Len(jobs) : ~HasTaken(c, jobs[i])'
    BY <1>3, <2>1 DEF JobInv, JobsAreSingle, HasTaken
  <2>. QED
    BY <1>3, <2>2 DEF JobInv, JobsAreSingle, HasTaken
<1>4. ASSUME NEW c \in Conns, RequestHandler(c) \/ ReadFails(c) \/ Finish(c), ~Take(c)
      PROVE  JobInv'
  <2>1. UNCHANGED <<jobs, bpc>>
    BY <1>4 DEF RequestHandler, Check, Deadline, FindArchive, SendArchive, OpenResult,
       ReadResult, ReadError, ReadFails, Complete, SendResult, Discard, Finish
  <2>2. \A d \in Conns, b \in Builds : HasTaken(d, b)' => HasTaken(d, b)
    BY <1>4 DEF RequestHandler, Check, Deadline, FindArchive, SendArchive, OpenResult,
       ReadResult, ReadError, ReadFails, Complete, SendResult, Discard, Finish,
       HandlerStep, HasTaken, RelayTypeOK
  <2>. QED
    BY <1>3, <2>1, <2>2
<1>5. ASSUME NEW c \in Conns, NEW r \in {"pulling", "archive", "result", "error"},
             NEW b, Accept(c, r, b)
      PROVE  JobInv'
  <2>1. \A d \in Conns, e \in Builds : HasTaken(d, e)' => HasTaken(d, e)
    BY <1>5 DEF Accept, HandlerStep, HasTaken, RelayTypeOK
  <2>. QED
    BY <1>3, <1>5, <2>1 DEF Accept
<1>6. CASE Restart
  <2>1. \A c \in Conns, b \in Builds : ~HasTaken(c, b)'
    BY <1>6 DEF Restart, HasTaken
  <2>2. jobs' = <<>> /\ Len(jobs') = 0
    BY <1>6 DEF Restart
  <2>. QED
    BY <2>1, <2>2 DEF JobInv, JobsAreSingle, HasTaken
<1>7. CASE UNCHANGED relayVars
  BY <1>3, <1>7 DEF relayVars, HasTaken
<1>. QED
  BY <1>1, <1>2, <1>4, <1>5, <1>6, <1>7 DEF RelayNext, RequestHandler

\* A build's handler touches the files only when it takes and removes a result.
LEMMA FileBuild ==
  ASSUME RelayTypeOK, FileInv, NEW b \in Builds, Arrive(b) \/ BuildHandler(b) \/ Cancel(b)
  PROVE  FileInv'
<1>1. CASE TakeResult(b)
  BY <1>1, RelayAssumption DEF TakeResult, BuildStep, Answer, FileInv, RelayTypeOK
<1>2. CASE RemoveArtifact(b)
  BY <1>2, RelayAssumption DEF RemoveArtifact, Remove, BuildStep, FileInv, RelayTypeOK
<1>3. CASE ~TakeResult(b) /\ ~RemoveArtifact(b)
  <2>1. UNCHANGED <<temps, whole, result, bfile, hpc, hjob, payload>>
    BY <1>3 DEF BuildHandler, Arrive, Receive, Reject, Register, Enqueue, Overflow, Withdraw, Refuse,
       Cancel, Serve, Deregister, RemoveArchive
  <2>2. \A d \in Builds : bpc'[d] \in {"serving", "removing"}
                           <=> bpc[d] \in {"serving", "removing"}
    BY <1>3 DEF BuildHandler, Arrive, Receive, Reject, Register, Enqueue, Overflow, Withdraw, Refuse,
       Cancel, Serve, Deregister, RemoveArchive, BuildStep, RelayTypeOK
  <2>. QED
    BY <2>1, <2>2 DEF FileInv
<1>. QED
  BY <1>1, <1>2, <1>3

\* The handler of a request.
LEMMA FileRequest ==
  ASSUME RelayTypeOK, FileInv, NEW c \in Conns,
         RequestHandler(c) \/ ReadFails(c) \/ Finish(c)
  PROVE  FileInv'
<1> USE RelayAssumption
    DEF RelayTypeOK, FileInv, HandlerStep, Naming, Carrying, Remove
<1>1. CASE Take(c)         BY <1>1 DEF Take
<1>2. CASE Check(c)        BY <1>2 DEF Check
<1>3. CASE Deadline(c)     BY <1>3 DEF Deadline
<1>4. CASE FindArchive(c)  BY <1>4 DEF FindArchive
<1>5. CASE SendArchive(c)  BY <1>5 DEF SendArchive
<1>6. CASE OpenResult(c)   BY <1>6 DEF OpenResult
<1>7. CASE ReadResult(c)   BY <1>7 DEF ReadResult
<1>8. CASE ReadError(c)    BY <1>8 DEF ReadError
<1>9. ASSUME NEW from, NEW to \in {"failed", "gone"}, Discard(c, from, to)
      PROVE  FileInv'
  BY <1>9 DEF Discard
<1>10. CASE Complete(c)    BY <1>9, <1>10 DEF Complete
<1>11. CASE SendResult(c)  BY <1>9, <1>11 DEF SendResult
<1>12. CASE Finish(c)      BY <1>12 DEF Finish, Responses
<1>. QED
  BY <1>1, <1>2, <1>3, <1>4, <1>5, <1>6, <1>7, <1>8, <1>9, <1>10, <1>11, <1>12
  DEF RequestHandler, ReadFails

\* Every step keeps the files with their owners.
LEMMA FileNext == RelayInv /\ [RelayNext]_relayVars => FileInv'
<1> SUFFICES ASSUME RelayTypeOK, FileInv, [RelayNext]_relayVars PROVE FileInv'
  BY DEF RelayInv
<1>1. ASSUME NEW c \in Conns, NEW b, NEW r \in {"pulling", "archive", "result", "error"},
             r # "pulling" => b \in Builds, Accept(c, r, b)
      PROVE  FileInv'
  BY <1>1, RelayAssumption
  DEF RelayTypeOK, FileInv, Accept, HandlerStep, Naming, Carrying
<1>2. CASE Restart
  BY <1>2, RelayAssumption DEF RelayTypeOK, FileInv, Restart, Naming, Carrying
<1>3. CASE UNCHANGED relayVars
  BY <1>3 DEF FileInv, relayVars
<1>. QED
  BY <1>1, <1>2, <1>3, FileBuild, FileRequest DEF RelayNext

\* Every step keeps the invariant.
LEMMA InvNext == RelayInv /\ [RelayNext]_relayVars => RelayInv'
<1>1. RelayInv => \A b \in Builds : ServesFile(b)
  BY DEF RelayInv, FileInv, ServesFile
<1>. QED
  BY <1>1, TypeNext, TableNext, JobNext, FileNext DEF RelayInv

\* The inductive invariant holds throughout, for all constants.
THEOREM RelayInvariant == RelaySpec => []RelayInv
  BY InvInit, InvNext, PTL DEF RelaySpec

-----------------------------------------------------------------------------
\* The properties.

\* The relay's variables always have the types of RelayTypeOK; above all, the
\* queue never holds more than its capacity.
THEOREM RelayTypeCorrect == RelaySpec => []RelayTypeOK
<1>1. RelayInv => RelayTypeOK
  BY DEF RelayInv
<1>. QED
  BY <1>1, RelayInvariant, PTL

\* While a job is in the table of active jobs its archive is on the disk of the
\* relay: a job that getJob finds has its sources at that moment.
THEOREM ArchivesStay == RelaySpec => []ActiveJobsHaveArchive
<1>1. RelayInv => ActiveJobsHaveArchive
  BY DEF RelayInv, RelayTypeOK, TableInv, ActiveJobsHaveArchive
<1>. QED
  BY <1>1, RelayInvariant, PTL

\* No two pulls are given the same job, and none is given one that is still in
\* the queue (newJob, handleReversePull).
THEOREM JobsStaySingle == RelaySpec => []JobsAreSingle
<1>1. RelayInv => JobsAreSingle
  BY DEF RelayInv, JobInv
<1>. QED
  BY <1>1, RelayInvariant, PTL

\* The invariant gives every result file to one holder at most.
LEMMA FilesIntact == RelayInv => ResultsAreIntact
<1> SUFFICES ASSUME RelayTypeOK, FileInv PROVE ResultsAreIntact
  BY DEF RelayInv
<1>1. ASSUME NEW f \in Files, NEW o, NEW p, o \in Holders(f), p \in Holders(f)
      PROVE  o = p
  <2>1. ASSUME NEW b \in Builds, NEW d \in Builds,
               f \in {result[b], bfile[b]}, f \in {result[d], bfile[d]}
        PROVE  b = d /\ (f = result[b] <=> f = result[d])
    BY <2>1 DEF FileInv
  <2>2. \A c, d \in Conns : payload[c] = f /\ payload[d] = f => c = d
    BY DEF FileInv
  <2>3. \A c \in Conns, b \in Builds :
          payload[c] = f => f # result[b] /\ f # bfile[b]
    BY DEF FileInv
  <2>4. \A b \in Builds : ~(result[b] = f /\ bfile[b] = f)
    BY DEF FileInv
  <2>. QED
    BY <1>1, <2>1, <2>2, <2>3, <2>4 DEF Holders
<1>. QED
  BY <1>1 DEF ResultsAreIntact, FileInv, Contents

\* A result in the channel of a build, or with its handler, is on disk, whole, was
\* posted for that build, and no other handler will remove it (completeJob,
\* handleReverseResult, handleBuild).
THEOREM ResultsStayIntact == RelaySpec => []ResultsAreIntact
  BY FilesIntact, RelayInvariant, PTL

\* A file is held by one of the three, the channel of a build that has ended among
\* them.
Owned(f) ==
  \/ \E c \in Conns : payload[c] = f
  \/ \E b \in Builds : result[b] = f \/ bfile[b] = f

\* A step that leaves a held file on disk leaves it with one of them, unless the
\* relay dies: TakeResult and SendResult hand it on, the others remove it.
LEMMA FilesKept ==
  ASSUME RelayTypeOK, FileInv, [RelayNext]_relayVars, ~Restart, NEW f \in Files,
         Owned(f), temps'[f] # None
  PROVE  Owned(f)'
<1> USE RelayAssumption
<1>1. ASSUME NEW b \in Builds, Arrive(b) \/ BuildHandler(b) \/ Cancel(b)
      PROVE  Owned(f)'
  <2>1. CASE TakeResult(b)
    BY <2>1 DEF TakeResult, RelayTypeOK, FileInv, BuildStep, Owned
  <2>2. CASE RemoveArtifact(b)
    BY <2>2 DEF RemoveArtifact, Remove, RelayTypeOK, FileInv, BuildStep, Owned
  <2>3. CASE ~TakeResult(b) /\ ~RemoveArtifact(b)
    <3>1. UNCHANGED <<result, bfile, payload>>
      BY <1>1, <2>3 DEF BuildHandler, Arrive, Receive, Reject, Register, Enqueue, Overflow, Withdraw,
         Refuse, Cancel, Serve, Deregister, RemoveArchive
    <3>. QED  BY <3>1 DEF Owned
  <2>. QED  BY <2>1, <2>2, <2>3
<1>2. ASSUME NEW c \in Conns, RequestHandler(c) \/ ReadFails(c) \/ Finish(c)
      PROVE  Owned(f)'
  <2>1. CASE OpenResult(c)
    <3>1. /\ payload[c] = None /\ UNCHANGED <<result, bfile>>
          /\ \A d \in Conns : d # c => payload'[d] = payload[d]
      BY <2>1 DEF OpenResult, RelayTypeOK, FileInv, HandlerStep, Carrying
    <3>. QED  BY <3>1 DEF Owned
  <2>2. CASE ReadError(c)
    <3>1. /\ payload[c] = None /\ UNCHANGED <<result, bfile>>
          /\ \A d \in Conns : d # c => payload'[d] = payload[d]
      BY <2>2 DEF ReadError, RelayTypeOK, FileInv, HandlerStep, Carrying
    <3>. QED  BY <3>1 DEF Owned
  <2>3. ASSUME NEW from, NEW to, Discard(c, from, to) PROVE Owned(f)'
    BY <2>3 DEF Discard, Remove, RelayTypeOK, Owned
  <2>4. CASE SendResult(c) /\ hpc'[c] = "accepted"
    <3>1. /\ hjob[c] \in Builds /\ result[hjob[c]] = None
          /\ result' = [result EXCEPT ![hjob[c]] = payload[c]]
          /\ payload' = [payload EXCEPT ![c] = None] /\ bfile' = bfile
      BY <2>4 DEF SendResult, Discard, HandlerStep, RelayTypeOK, FileInv, Naming
    <3>. QED  BY <3>1 DEF Owned, RelayTypeOK
  <2>5. CASE UNCHANGED <<result, bfile, payload>>
    BY <2>5 DEF Owned
  <2>6. CASE ReadResult(c)
    BY <2>5, <2>6 DEF ReadResult
  <2>. QED
    BY <1>2, <2>6, <2>1, <2>2, <2>3, <2>4, <2>5
    DEF RequestHandler, Take, Check, Deadline, FindArchive, SendArchive, ReadResult,
        ReadFails, Complete, SendResult, HandlerStep, Finish, RelayTypeOK
<1>3. ASSUME UNCHANGED <<result, bfile, payload>> PROVE Owned(f)'
  BY <1>3 DEF Owned
<1>4. ASSUME NEW c, NEW b, NEW r, Accept(c, r, b) PROVE Owned(f)'
  BY <1>3, <1>4 DEF Accept
<1>. QED
  BY <1>1, <1>2, <1>3, <1>4 DEF RelayNext, relayVars

\* A result leaves a channel that may be read, or comes into one that may not, only
\* by the two steps that NoFileForgotten names.
LEMMA ChannelRead ==
  ASSUME RelayTypeOK, FileInv, [RelayNext]_relayVars, ~Restart, NEW f \in Files,
         HasOwner(f), NEW b \in Builds, result'[b] = f, ~Receiving(b)'
  PROVE  SentLate(f) \/ LeftInChannel(f)
<1> USE RelayAssumption
<1>1. result[b] = f => Receiving(b)
  BY DEF HasOwner, FileInv
<1>2. ASSUME NEW d \in Builds, Arrive(d) \/ BuildHandler(d) \/ Cancel(d)
      PROVE  LeftInChannel(f)
  <2>1. result'[b] \in {result[b], None}
    BY <1>2 DEF BuildHandler, Arrive, Receive, Reject, Register, Enqueue, Overflow, Withdraw,
       Refuse, TakeResult, Cancel, Serve, RemoveArtifact, Deregister, RemoveArchive, RelayTypeOK
  <2>2. result[b] = f /\ bpc[b] \in {"registered", "waiting"}
    BY <1>1, <2>1 DEF Receiving
  <2>3. bpc'[b] \notin {"registered", "waiting"}
    BY DEF Receiving
  <2>4. CASE Cancel(d) \/ Overflow(d)
    <3>1. d = b
      BY <2>2, <2>3, <2>4 DEF Cancel, Overflow, BuildStep, RelayTypeOK
    <3>. QED  BY <2>2, <2>4, <3>1 DEF LeftInChannel
  <2>5. CASE TakeResult(d)
    <3>1. d = b
      BY <2>2, <2>3, <2>5 DEF TakeResult, BuildStep, RelayTypeOK
    <3>2. result'[b] = None
      BY <2>5, <3>1 DEF TakeResult, RelayTypeOK
    <3>. QED  BY <3>2
  <2>6. CASE ~(Cancel(d) \/ Overflow(d) \/ TakeResult(d))
    <3>1. \E from, to \in BuildSteps :
            BuildStep(d, from, to)
            /\ (from \notin {"registered", "waiting"} \/ to \in {"registered", "waiting"})
      BY <1>2, <2>6 DEF BuildHandler, Arrive, Receive, Reject, Register, Enqueue, Withdraw,
         Refuse, Serve, RemoveArtifact, Deregister, RemoveArchive, BuildSteps
    <3>. QED  BY <2>2, <2>3, <3>1 DEF BuildStep, RelayTypeOK
  <2>. QED  BY <2>4, <2>5, <2>6
<1>3. ASSUME NEW c \in Conns, RequestHandler(c) \/ ReadFails(c) \/ Finish(c)
      PROVE  SentLate(f)
  <2>1. bpc' = bpc
    BY <1>3, RequestFrame
  <2>2. result[b] # f /\ ~Receiving(b)
    BY <1>1, <2>1 DEF Receiving
  <2>3. SendResult(c) /\ result' = [result EXCEPT ![hjob[c]] = payload[c]]
    BY <1>3, <2>2 DEF RequestHandler, Take, Check, Deadline, FindArchive, SendArchive,
       OpenResult, ReadResult, ReadError, ReadFails, Complete, SendResult, Discard, Finish
  <2>4. hjob[c] = b /\ payload[c] = f
    BY <2>2, <2>3 DEF RelayTypeOK
  <2>. QED  BY <2>2, <2>3, <2>4 DEF SentLate
<1>4. ASSUME UNCHANGED <<bpc, result>> PROVE FALSE
  BY <1>1, <1>4 DEF Receiving
<1>5. ASSUME NEW c, NEW d, NEW r, Accept(c, r, d) PROVE FALSE
  BY <1>4, <1>5 DEF Accept
<1>. QED
  BY <1>2, <1>3, <1>4, <1>5 DEF RelayNext, relayVars

\* As long as the relay lives, no error path of its handlers forgets a result file
\* it had to remove; only a send that comes late, or a build that ends with a result
\* unread in its channel, does.
THEOREM NoFileIsForgotten == RelaySpec => NoFileForgotten
<1>1. RelayInv /\ [RelayNext]_relayVars =>
        [Restart \/ \A f \in Files :
           HasOwner(f) /\ temps'[f] # None =>
             HasOwner(f)' \/ SentLate(f) \/ LeftInChannel(f)]_relayVars
  <2> SUFFICES ASSUME RelayInv, [RelayNext]_relayVars, ~Restart, NEW f \in Files,
                      HasOwner(f), temps'[f] # None
               PROVE  HasOwner(f)' \/ SentLate(f) \/ LeftInChannel(f)
    OBVIOUS
  <2>1. Owned(f)
    BY DEF HasOwner, Owned
  <2>2. Owned(f)'
    BY <2>1, FilesKept DEF RelayInv
  <2>3. CASE \E b \in Builds : result'[b] = f /\ ~Receiving(b)'
    BY <2>3, ChannelRead DEF RelayInv
  <2>4. CASE ~\E b \in Builds : result'[b] = f /\ ~Receiving(b)'
    BY <2>2, <2>4 DEF Owned, HasOwner
  <2>. QED
    BY <2>3, <2>4
<1>. QED
  BY <1>1, RelayInvariant, PTL DEF RelaySpec, NoFileForgotten

-----------------------------------------------------------------------------
\* A job that has left the relay.

\* The handler of its build has begun and will not queue it (any more), and no
\* pull has it.
Gone(b) ==
  /\ bpc[b] \notin {"idle", "uploading", "received", "registered"}
  /\ \A i \in 1..Len(jobs) : jobs[i] # b
  /\ \A c \in Conns : ~HasTaken(c, b)

\* It does not come back, not even by a restart: no handler puts a job that it has
\* taken back into the queue.
LEMMA GoneStays ==
  ASSUME RelayInv, [RelayNext]_relayVars, NEW b \in Builds, Gone(b)
  PROVE  Gone(b)'
<1> USE DEF RelayInv, RelayTypeOK
<1>1. ASSUME NEW d \in Builds, Arrive(d) \/ BuildHandler(d) \/ Cancel(d)
      PROVE  Gone(b)'
  <2>1. UNCHANGED <<hpc, hjob>>
    BY <1>1 DEF BuildHandler, Arrive, Receive, Reject, Register, Enqueue, Overflow, Withdraw,
       Refuse, TakeResult, Cancel, Serve, RemoveArtifact, Deregister, RemoveArchive
  <2>2. bpc'[b] \notin {"idle", "uploading", "received", "registered"}
    BY <1>1 DEF Gone, BuildStep, BuildHandler, Arrive, Receive, Reject, Register, Enqueue,
       Overflow, Withdraw, Refuse, TakeResult, Cancel, Serve, RemoveArtifact, Deregister,
       RemoveArchive
  <2>3. \A i \in 1..Len(jobs') : jobs'[i] # b
    <3>1. CASE Enqueue(d)
      <4>1. d # b /\ jobs' = Append(jobs, d)
        BY <3>1 DEF Gone, Enqueue, BuildStep
      <4>. QED  BY <4>1 DEF Gone
    <3>2. CASE ~Enqueue(d)
      <4>1. jobs' = jobs
        BY <1>1, <3>2 DEF BuildHandler, Arrive, Receive, Reject, Register, Overflow, Withdraw,
           Refuse, TakeResult, Cancel, Serve, RemoveArtifact, Deregister, RemoveArchive
      <4>. QED  BY <4>1 DEF Gone
    <3>. QED  BY <3>1, <3>2
  <2>. QED
    BY <2>1, <2>2, <2>3 DEF Gone, HasTaken
<1>2. ASSUME NEW c \in Conns, Take(c)
      PROVE  Gone(b)'
  <2>1. /\ jobs # <<>> /\ jobs' = Tail(jobs) /\ bpc' = bpc
        /\ hjob' = [hjob EXCEPT ![c] = Head(jobs)]
        /\ hpc' = [hpc EXCEPT ![c] = "checking"]
    BY <1>2 DEF Take, HandlerStep
  <2>2. Head(jobs) = jobs[1] /\ Len(jobs) \in Nat \ {0} /\ Len(jobs') = Len(jobs) - 1
    BY <2>1
  <2>3. \A i \in 1..Len(jobs') : jobs'[i] = jobs[i + 1] /\ i + 1 \in 1..Len(jobs)
    BY <2>1, <2>2
  <2>4. Head(jobs) # b
    BY <2>2 DEF Gone
  <2>5. \A d \in Conns : ~HasTaken(d, b)'
    BY <2>1, <2>4 DEF Gone, HasTaken
  <2>. QED
    BY <2>1, <2>3, <2>5 DEF Gone
<1>3. ASSUME UNCHANGED <<jobs, bpc>>, \A c \in Conns : HasTaken(c, b)' => HasTaken(c, b)
      PROVE  Gone(b)'
  BY <1>3 DEF Gone
<1>4. ASSUME NEW c \in Conns, RequestHandler(c) \/ ReadFails(c) \/ Finish(c), ~Take(c)
      PROVE  Gone(b)'
  <2>1. UNCHANGED <<jobs, bpc>>
    BY <1>4 DEF RequestHandler, Check, Deadline, FindArchive, SendArchive, OpenResult,
       ReadResult, ReadError, ReadFails, Complete, SendResult, Discard, Finish
  <2>2. \A d \in Conns : HasTaken(d, b)' => HasTaken(d, b)
    BY <1>4 DEF RequestHandler, Check, Deadline, FindArchive, SendArchive, OpenResult,
       ReadResult, ReadError, ReadFails, Complete, SendResult, Discard, Finish,
       HandlerStep, HasTaken
  <2>. QED  BY <1>3, <2>1, <2>2
<1>5. ASSUME NEW c \in Conns, NEW r \in {"pulling", "archive", "result", "error"}, NEW d,
             Accept(c, r, d)
      PROVE  Gone(b)'
  <2>1. \A e \in Conns : HasTaken(e, b)' => HasTaken(e, b)
    BY <1>5 DEF Accept, HandlerStep, HasTaken
  <2>. QED  BY <1>3, <1>5, <2>1 DEF Accept
<1>6. CASE Restart
  <2>1. jobs' = <<>> /\ Len(jobs') = 0
    BY <1>6 DEF Restart
  <2>2. \A c \in Conns : ~HasTaken(c, b)'
    BY <1>6 DEF Restart, HasTaken
  <2>3. bpc'[b] \notin {"idle", "uploading", "received", "registered"}
    BY <1>6 DEF Restart, Gone
  <2>. QED  BY <2>1, <2>2, <2>3 DEF Gone
<1>7. CASE UNCHANGED relayVars
  BY <1>3, <1>7 DEF relayVars, HasTaken
<1>. QED
  BY <1>1, <1>2, <1>4, <1>5, <1>6, <1>7 DEF RelayNext, RequestHandler

\* A pull that has taken a job, or given it to its worker, knows which.
TakenInv == \A c \in Conns : hpc[c] \in {"checking", "dispatched"} => hjob[c] \in Builds

\* Every step keeps that.
LEMMA TakenNext ==
  ASSUME RelayInv, TakenInv, [RelayNext]_relayVars PROVE TakenInv'
<1> USE DEF RelayInv, RelayTypeOK, TakenInv, HandlerStep
<1>1. ASSUME NEW b \in Builds, Arrive(b) \/ BuildHandler(b) \/ Cancel(b)
      PROVE  TakenInv'
  BY <1>1 DEF BuildHandler, Arrive, Receive, Reject, Register, Enqueue, Overflow, Withdraw,
     Refuse, TakeResult, Cancel, Serve, RemoveArtifact, Deregister, RemoveArchive
<1>2. ASSUME NEW c \in Conns, RequestHandler(c) \/ ReadFails(c) \/ Finish(c)
      PROVE  TakenInv'
  BY <1>2 DEF RequestHandler, Take, Check, Deadline, FindArchive, SendArchive, OpenResult,
     ReadResult, ReadError, ReadFails, Complete, SendResult, Discard, Finish
<1>3. ASSUME NEW c \in Conns, NEW r \in {"pulling", "archive", "result", "error"}, NEW d,
             Accept(c, r, d)
      PROVE  TakenInv'
  BY <1>3 DEF Accept
<1>4. CASE Restart  BY <1>4 DEF Restart
<1>5. CASE UNCHANGED relayVars  BY <1>5 DEF relayVars
<1>. QED
  BY <1>1, <1>2, <1>3, <1>4, <1>5 DEF RelayNext

\* A job that was handed out, refused or dropped is never in the relay again, so
\* that nobody builds it a second time.
THEOREM JobsNeverReturn ==
  RelaySpec => [][\A b \in Builds : Gone(b) => Gone(b)']_relayVars
<1>1. RelayInv /\ [RelayNext]_relayVars => [\A b \in Builds : Gone(b) => Gone(b)']_relayVars
  BY GoneStays
<1>. QED
  BY <1>1, RelayInvariant, PTL DEF RelaySpec
=============================================================================
