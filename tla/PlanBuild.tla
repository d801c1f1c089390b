------------------------------ MODULE PlanBuild ------------------------------
(***************************************************************************)
(* One build from the host's plan to the workspace on the console: cliant  *)
(* rewrites the commands of a CMake target (exportNinjaBuildPlan), sarver  *)
(* unpacks the sources, prepares and runs the steps one by one             *)
(* (executeBuild, executeBuildPlan), hands the artifact over and removes   *)
(* the workspace.  A build of another language is a single command.        *)
(*                                                                         *)
(* The relay between the two is RemoteBuild's.  On the console the         *)
(* directory for temporary files stands for the root; what lies elsewhere  *)
(* is kept apart.                                                          *)
(***************************************************************************)
EXTENDS PlanPaths

CONSTANTS
  Commands,    \* what ninja may print: [dir, out, in, opt, links]
  HostFiles,   \* the files below the source root of the host, as names from there
  Ignored,     \* names that createSourceArchive leaves out, with all below them
  Trees,       \* names of generated build trees (underGeneratedBuildTree)
  Outputs,     \* names of output folders and of binaries in such a tree
  MaxSteps     \* bounds the commands of a plan

Kinds == {"none", "implib", "pdb", "map"}

ASSUME PlanAssumption ==
  /\ Commands \subseteq [dir : Path, out : Path, in : Path,
                         opt : [kind : Kinds, path : Path], links : BOOLEAN]
  /\ \A f \in HostFiles : f \in Seq(Names) /\ f # <<>>
  /\ \A f, g \in HostFiles : IsWithinBase(f, g) => f = g
  /\ {"p", "w", "src", "output", "sarver-go"} \subseteq Names /\ MaxSteps \in Nat

VARIABLES
  pc,          \* where the build stands
  lang,        \* the language of its request
  plan,        \* the commands that have been rewritten so far
  steps,       \* what they have become
  artifact,    \* artifact_path, or None
  dirs, files, \* what the build has made on the console
  outside,     \* what all builds have made there beside their workspaces
  step,        \* the step of the plan at work
  why,         \* why executeBuild gives up
  served       \* the file that is handed over, or None

vars == <<pc, lang, plan, steps, artifact, dirs, files, outside, step, why, served>>

None == Abs(<<>>)
HostRoot == Abs(<<"p">>)
Workspace == <<"w">>
Source == Abs(<<"w", "src">>)
GoCaches == Local(<<"sarver-go">>)

TypeOK ==
  /\ pc \in {"plan", "workspace", "source", "extract", "resolve", "prepare", "run",
             "command", "check", "deliver", "abandon"}
  /\ lang \in {"plan", "single"}
  /\ plan \in Seq(Commands) /\ Len(plan) <= MaxSteps /\ Len(steps) = Len(plan)
  /\ \A i \in DOMAIN steps :
       steps[i].opt.kind \in Kinds
         /\ Refused \notin {steps[i].dir, steps[i].out, steps[i].in, steps[i].opt.path}
  /\ \A p \in dirs \cup files : p \in Seq(Names) /\ p # <<>>
  /\ dirs \cap files = {}
  /\ outside \subseteq Path
  /\ pc \in {"prepare", "run"} => step \in 1..Len(plan) /\ lang = "plan"
  /\ why \in {"none", "path", "blocked", "input", "other"} /\ (why # "none" => pc = "abandon")

Init ==
  /\ pc = "plan" /\ lang = "plan"
  /\ plan = <<>> /\ steps = <<>> /\ artifact = None
  /\ dirs = {} /\ files = {} /\ outside = {}
  /\ step = 0 /\ why = "none" /\ served = None

-----------------------------------------------------------------------------
\* cliant: exportNinjaBuildPlan.

\* A relative input is left as it is (rewritePositionalArgument), and so is the
\* file of --pdb, which linkerOptionTakesPath does not list.
RewriteBuildStepForRemote(c) ==
  LET dir == HostDir(HostRoot, c.dir)
      Rewrite(raw) == RewriteCommandPath(HostRoot, dir, raw)
  IN [dir |-> IF IsWithinBase(HostRoot.names, dir.names) THEN Rel(HostRoot, dir) ELSE Refused,
      out |-> Rewrite(c.out),
      in |-> IF c.in.abs THEN Rewrite(c.in) ELSE c.in,
      opt |-> IF c.opt.kind \in {"implib", "map"} THEN [c.opt EXCEPT !.path = Rewrite(@)]
              ELSE c.opt]

OutputRel(c) == Rel(HostRoot, HostPath(HostDir(HostRoot, c.dir), c.out))

\* Mutant: what a compilation makes counts too.
LastOutput(c) == OutputRel(c)

\* isCompileOnlyDriverInvocation.
FinalArtifact(c) == IF c.links THEN OutputRel(c) ELSE artifact

\* The build is over before it was submitted, or after its workspace was removed.
Reset ==
  /\ pc' = "plan" /\ lang' = "plan" /\ plan' = <<>> /\ steps' = <<>> /\ artifact' = None
  /\ step' = 0 /\ why' = "none" /\ served' = None

AddCommand(c) ==
  /\ pc = "plan" /\ Len(plan) < MaxSteps
  /\ LET s == RewriteBuildStepForRemote(c) IN
     IF Refused \in {s.dir, s.out, s.in, s.opt.path}
     THEN Reset
     ELSE /\ plan' = Append(plan, c) /\ steps' = Append(steps, s)
          /\ artifact' = FinalArtifact(c)
          /\ UNCHANGED <<pc, lang, step, why, served>>
  /\ UNCHANGED <<dirs, files, outside>>

\* runCMakeBuild gives up a plan that links nothing.  A request of runBuild has
\* no steps.
Submit ==
  /\ pc = "plan"
  /\ \/ artifact = None /\ plan # <<>> /\ Reset
     \/ /\ pc' = "workspace"
        /\ \/ lang' = "plan" /\ artifact # None
           \/ lang' = "single" /\ plan = <<>>
        /\ UNCHANGED <<plan, steps, artifact, step, why, served>>
  /\ UNCHANGED <<dirs, files, outside>>

\* shouldSkipArchivePath.
ShouldSkipArchivePath(f) ==
  \/ \E i \in DOMAIN f : f[i] \in Ignored
  \/ (\E i \in DOMAIN f : f[i] \in Trees) /\ (\E i \in DOMAIN f : f[i] \in Outputs)

SourceArchive == {f \in HostFiles : ~ShouldSkipArchivePath(f)}

-----------------------------------------------------------------------------
\* sarver: executeBuild.

Parents(names) == {[i \in 1..n |-> names[i]] : n \in 1..Len(names)}

\* os.MkdirAll stops at a file.
CanMake(names) == Parents(names) \cap files = {}

GoTo(to) ==
  /\ pc' = to
  /\ UNCHANGED <<lang, plan, steps, artifact, served>>

Abandon(reason) == GoTo("abandon") /\ why' = reason /\ UNCHANGED step

Proceed(to) == GoTo(to) /\ UNCHANGED <<why, step>>

\* The workspace is made, or there is none to remove.
MakeWorkspace ==
  /\ pc = "workspace"
  /\ \/ Proceed("source") /\ dirs' = {Workspace}
     \/ Abandon("other") /\ UNCHANGED dirs
  /\ UNCHANGED <<files, outside>>

MakeSource ==
  /\ pc = "source"
  /\ \/ Proceed("extract") /\ dirs' = dirs \cup Parents(Source.names)
     \/ Abandon("other") /\ UNCHANGED dirs
  /\ UNCHANGED <<files, outside>>

\* extractArchive, which may stop at any entry.
Extract ==
  /\ pc = "extract"
  /\ \E entries \in SUBSET SourceArchive :
       /\ \/ Proceed("resolve") /\ entries = SourceArchive
          \/ Abandon("other")
       /\ files' = {Source.names \o f : f \in entries}
       /\ dirs' = dirs \cup UNION {Parents(Source.names \o Front(f)) : f \in entries}
  /\ UNCHANGED outside

OutputPath ==
  IF artifact = None THEN Abs(<<"w", "output">>) ELSE ResolveWorkspacePath(Source, artifact)

\* The artifact's path is resolved; the language, the target or the sources may
\* be refused, and cleng may be missing.
ResolveArtifact ==
  /\ pc = "resolve"
  /\ IF OutputPath = Refused THEN Abandon("path")
     ELSE \/ Abandon("other")
          \/ lang = "single" /\ Proceed("command")
          \/ lang = "plan" /\ GoTo("prepare") /\ step' = 1 /\ UNCHANGED why
  /\ UNCHANGED <<dirs, files, outside>>

\* `go build` or cleng: a command that succeeds has left its output, or not.  go
\* keeps its caches in a directory that outlives the build.
RunCommand ==
  /\ pc = "command"
  /\ Proceed("deliver") \/ Abandon("other")
  /\ \E made \in {{}, {OutputPath.names}} : files' = files \cup made
  /\ outside' \in {outside, outside \cup {GoCaches}}
  /\ UNCHANGED dirs

\* Mutant: every step runs in the source directory.
SourceDir(s) == Source

\* buildPlanStepCommand.
StepDir(s) == ResolveWorkspacePath(Source, s.dir)

\* The files that collectPlanOutputPaths finds, and those that the command writes.
Prepared(s) == {s.out} \cup (IF s.opt.kind \in {"implib", "pdb"} THEN {s.opt.path} ELSE {})
Writes(s) == {s.out} \cup (IF s.opt.kind # "none" THEN {s.opt.path} ELSE {})

\* preparePlanStepFilesystem makes the working directory and the folder of each
\* output in turn, up to the first that is refused or that cannot be made.
Prepare ==
  /\ pc = "prepare"
  /\ LET s == steps[step]
         dir == StepDir(s)
         Resolved(o) == ResolvePlanStepPath(Source, dir, o)
         Folder(o) == Dir(Resolved(o)).names
         bad == {o \in Prepared(s) : Resolved(o) = Refused}
         blocked == {o \in Prepared(s) \ bad : ~CanMake(Folder(o))}
         folders == {Folder(o) : o \in Prepared(s) \ (bad \cup blocked)}
     IN \/ dir = Refused /\ Abandon("path") /\ UNCHANGED dirs
        \/ dir # Refused /\ ~CanMake(dir.names) /\ Abandon("blocked") /\ UNCHANGED dirs
        \/ /\ dir # Refused /\ CanMake(dir.names)
           /\ \E made \in SUBSET folders :
                /\ dirs' = dirs \cup UNION {Parents(f) : f \in made \cup {dir.names}}
                /\ \/ made = folders /\ bad \cup blocked = {} /\ Proceed("run")
                   \/ bad # {} /\ Abandon("path")
                   \/ blocked # {} /\ Abandon("blocked")
                   \/ Abandon("other")
  /\ UNCHANGED <<files, outside>>

\* Mutant: the step after the last is prepared as well.
RunStepOnceMore ==
  /\ pc = "run" /\ GoTo("prepare") /\ step' = step + 1
  /\ UNCHANGED <<why, dirs, files, outside>>

\* The command finds its input and can write its outputs, or fails; it may fail
\* or be killed by the timeout at any point.  The next step is prepared when it
\* has ended.  An absolute path is one from the root of the drive to the linker, not
\* the place that was prepared for it.
RunStep ==
  /\ pc = "run"
  /\ LET s == steps[step]
         Place(p) == Join(StepDir(s), p).names
         rooted == {o \in Writes(s) : o.abs}
         written == {Place(o) : o \in Writes(s) \ rooted}
         writable == \A o \in written : o \notin dirs /\ Front(o) \in dirs \cup {<<>>}
     IN \/ Place(s.in) \notin files /\ Abandon("input") /\ UNCHANGED <<files, outside>>
        \/ /\ Place(s.in) \in files /\ ~writable
           /\ Abandon("blocked") /\ UNCHANGED <<files, outside>>
        \/ /\ Place(s.in) \in files /\ writable
           /\ \E made \in SUBSET written, spilt \in SUBSET rooted :
                /\ files' = files \cup made /\ outside' = outside \cup spilt
                /\ \/ Abandon("other")
                   \/ step = Len(steps) /\ Proceed("check")
                   \/ step < Len(steps) /\ GoTo("prepare") /\ step' = step + 1 /\ UNCHANGED why
  /\ UNCHANGED dirs

\* executeBuildPlan: a plan whose artifact is not there has failed.
CheckArtifact ==
  /\ pc = "check"
  /\ IF OutputPath.names \in files \cup dirs THEN Proceed("deliver") ELSE Abandon("other")
  /\ UNCHANGED <<dirs, files, outside>>

\* postReverseResult, or the end of handleBuild: the artifact is opened and sent,
\* which may fail.
Deliver ==
  /\ pc = "deliver" /\ served = None
  /\ OutputPath.names \in files \cup dirs
  /\ served' = OutputPath
  /\ UNCHANGED <<pc, lang, plan, steps, artifact, dirs, files, outside, step, why>>

\* os.RemoveAll of the workspace, in cleanup or before an error is returned.
Cleanup ==
  /\ pc \in {"deliver", "abandon"}
  /\ dirs' = {d \in dirs : ~IsWithinBase(Workspace, d)}
  /\ files' = {f \in files : ~IsWithinBase(Workspace, f)}
  /\ Reset /\ UNCHANGED outside

-----------------------------------------------------------------------------
Next ==
  \/ \E c \in Commands : AddCommand(c)
  \/ Submit
  \/ MakeWorkspace \/ MakeSource \/ Extract \/ ResolveArtifact \/ RunCommand
  \/ Prepare \/ RunStep \/ CheckArtifact \/ Deliver \/ Cleanup

Spec == Init /\ [][Next]_vars

-----------------------------------------------------------------------------
\* The place on the console of a path of the host.
Mirror(p) == Source.names \o Rel(HostRoot, p).names

HostDirOf(c) == HostDir(HostRoot, c.dir)
Named(c, raw) == Mirror(HostPath(HostDirOf(c), raw))

\* Wherever executeBuild returns the workspace is removed, and in it all that the build
\* has made (resolvePlanStepPath, extractArchive, cleanup), with two exceptions, which
\* stay on the console: go's caches, and the file of a --pdb with an absolute path.
NothingIsLeft ==
  /\ pc \in {"plan", "workspace"} => dirs = {} /\ files = {}
  /\ \A p \in outside \ {GoCaches} :
       \E c \in Commands : c.opt.kind = "pdb" /\ c.opt.path = p /\ p.abs

\* A relative path of a command leaves the source root on its way.
Leaves(c, raw) ==
  LET way == Join(Rel(HostRoot, HostDirOf(c)), raw).names IN
  ~raw.abs /\ way # <<>> /\ Head(way) = ".."

\* Every file of a workspace lies where it would lie on the host, though cliant has
\* rewritten the paths of each command and sarver resolves them anew: it is from the
\* archive, or some command of the plan would have made it there.  The one exception
\* is the file of --pdb, which is not rewritten, if its path leaves the source root and
\* comes back by the name that the source has on the console.  (If it is absolute the
\* file is not in the workspace at all; see NothingIsLeft.)
FilesMirrorTheHost ==
  lang = "plan" => \A f \in files :
    \/ f \in {Source.names \o h : h \in HostFiles}
    \/ \E i \in DOMAIN plan :
         \/ f \in {Named(plan[i], o) : o \in Writes(plan[i])}
         \/ /\ plan[i].opt.kind = "pdb" /\ Leaves(plan[i], plan[i].opt.path)
            /\ f = Join(StepDir(steps[i]), plan[i].opt.path).names

\* A command does not miss a file that the host has: an input that is not found is
\* neither a file that goes into the archive nor the output of an earlier step,
\* unless its relative path leaves the source root.
InputsArrive ==
  why = "input" =>
    LET input == Named(plan[step], plan[step].in) IN
    \/ Leaves(plan[step], plan[step].in)
    \/ input \notin files /\ \A h \in SourceArchive : Source.names \o h # input

\* sarver refuses no path of a plan that cliant has made, but for a name that
\* begins with two dots, for a --pdb whose path leaves the source root and for an
\* output that is the directory of its command.
PlanIsAccepted ==
  why = "path" =>
    \/ ~IsLocal(artifact)
    \/ /\ step > 0
       /\ \/ ~IsLocal(steps[step].dir)
          \/ plan[step].opt.kind = "pdb" /\ Leaves(plan[step], plan[step].opt.path)
          \/ \E o \in Prepared(steps[step]) : Clean(o) = Local(<<>>)

\* What is handed over is what the last linking command of the plan makes.
ArtifactIsLinked ==
  lang = "plan" /\ served # None =>
    \E i \in DOMAIN plan :
      /\ plan[i].links /\ served.names = Named(plan[i], plan[i].out)
      /\ \A j \in i + 1..Len(plan) : ~plan[j].links
=============================================================================
