---------------------------- MODULE BuildService ----------------------------
(***************************************************************************)
(* What a remote build promises, without relay, queue or connections: a    *)
(* build that was submitted is run by at most one worker, at most once;    *)
(* its client gets one answer, and an artifact only if the run made one.   *)
(* A build may be dropped before it is run, and an answer may be a failure *)
(* at any time: neither the relay nor the workers retry.                   *)
(***************************************************************************)
CONSTANTS
  Builds,      \* the builds that may be submitted
  Workers,     \* the workers that run them
  None         \* no worker

VARIABLES
  stage,       \* new, open (may still be run), running, or over
  runner,      \* the worker a running build is with
  made,        \* the builds whose run has made an artifact
  answer       \* what the client of each build was told

serviceVars == <<stage, runner, made, answer>>

ServiceInit ==
  /\ stage = [b \in Builds |-> "new"]
  /\ runner = [b \in Builds |-> None]
  /\ made = {}
  /\ answer = [b \in Builds |-> "none"]

Submit(b) ==
  /\ stage[b] = "new"
  /\ stage' = [stage EXCEPT ![b] = "open"]
  /\ UNCHANGED <<runner, made, answer>>

\* Builds that nobody runs: refused, cancelled, or lost with a connection, a
\* worker or the relay, which may lose several at once.
Drop(S) ==
  /\ \A b \in S : stage[b] = "open"
  /\ stage' = [b \in Builds |-> IF b \in S THEN "over" ELSE stage[b]]
  /\ UNCHANGED <<runner, made, answer>>

Start(b, w) ==
  /\ stage[b] = "open"
  /\ \A d \in Builds : runner[d] # w
  /\ stage' = [stage EXCEPT ![b] = "running"]
  /\ runner' = [runner EXCEPT ![b] = w]
  /\ UNCHANGED <<made, answer>>

Make(b) ==
  /\ stage[b] = "running" /\ b \notin made
  /\ made' = made \cup {b}
  /\ UNCHANGED <<stage, runner, answer>>

End(b) ==
  /\ stage[b] = "running"
  /\ stage' = [stage EXCEPT ![b] = "over"]
  /\ runner' = [runner EXCEPT ![b] = None]
  /\ UNCHANGED <<made, answer>>

Tell(b) ==
  /\ stage[b] # "new" /\ answer[b] = "none"
  /\ \/ answer' = [answer EXCEPT ![b] = "failure"]
     \/ b \in made /\ answer' = [answer EXCEPT ![b] = "artifact"]
  /\ UNCHANGED <<stage, runner, made>>

ServiceNext ==
  \/ \E b \in Builds : Submit(b) \/ Make(b) \/ End(b) \/ Tell(b)
  \/ \E b \in Builds, w \in Workers : Start(b, w)
  \/ \E S \in SUBSET Builds : Drop(S)

ServiceSpec == ServiceInit /\ [][ServiceNext]_serviceVars
=============================================================================
