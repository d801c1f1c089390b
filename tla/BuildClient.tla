---------------------------- MODULE BuildClient ----------------------------
(***************************************************************************)
(* `cliant <relay> build` (Cliant/main.go, runBuild; submitArchiveBuild in *)
(* Cliant/cmake.go sends a plan the same way): one process per build that  *)
(* posts the archive, waits for the answer and writes it to -o.            *)
(***************************************************************************)
CONSTANT Builds

VARIABLES
  cpc,         \* where the client of each build stands
  output       \* the file at -o: as it was, partly written, or the artifact of a build

clientVars == <<cpc, output>>

ClientTypeOK ==
  /\ cpc \in [Builds -> {"idle", "waiting", "saving", "saved", "failed"}]
  /\ output \in [Builds -> Builds \cup {"previous", "partial"}]

ClientInit ==
  /\ cpc = [b \in Builds |-> "idle"]
  /\ output = [b \in Builds |-> "previous"]

ClientStep(b, from, to) ==
  /\ cpc[b] = from
  /\ cpc' = [cpc EXCEPT ![b] = to]

Post(b) == ClientStep(b, "idle", "waiting") /\ UNCHANGED output

\* A 200: os.Create truncates whatever was at -o, before the body is read.
BeginSave(b) ==
  /\ ClientStep(b, "waiting", "saving")
  /\ output' = [output EXCEPT ![b] = "partial"]

\* io.Copy has read as many bytes as Content-Length says: what is saved is what the
\* relay's file held.
EndSave(b, contents) ==
  /\ ClientStep(b, "saving", "saved")
  /\ output' = [output EXCEPT ![b] = contents]

\* Any other status.
Rejected(b) == ClientStep(b, "waiting", "failed") /\ UNCHANGED output

\* The timeout of the client, which covers the body, a broken connection, a body
\* that ends early, or the user's Ctrl-C.  What is at -o stays there.
GiveUp(b) ==
  /\ ClientStep(b, "waiting", "failed") \/ ClientStep(b, "saving", "failed")
  /\ UNCHANGED output
=============================================================================
