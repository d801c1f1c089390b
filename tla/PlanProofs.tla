------------------------------ MODULE PlanProofs ------------------------------
(* All that a build makes goes with its workspace, the caches of go and the file  *)
(* of an absolute --pdb aside; every file lies where it would lie on the host; and *)
(* what is refused, missed or handed over is what it should be, for plans, paths   *)
(* and file systems of any size.                                                   *)
EXTENDS PlanBuild, PlanPathsProofs

-----------------------------------------------------------------------------
\* The inductive invariant.

Steps == {RewriteBuildStepForRemote(c) : c \in Commands}

\* What was sent is what the commands have become, and the artifact is the output
\* of the last command that links.
PlanInv ==
  /\ steps \in Seq(Steps)
  /\ \A i \in DOMAIN plan : steps[i] = RewriteBuildStepForRemote(plan[i])
  /\ artifact # None =>
       \E i \in DOMAIN plan :
         /\ plan[i].links /\ artifact = OutputRel(plan[i])
         /\ RewriteBuildStepForRemote(plan[i]).out # Refused
         /\ \A j \in i + 1..Len(plan) : ~plan[j].links
  /\ lang = "plan" /\ pc # "plan" => artifact # None
  /\ lang = "single" => plan = <<>>
  /\ (pc = "plan" => lang = "plan") /\ (pc = "command" => lang = "single")

Below(names) == names = Workspace \/ IsWithinBase(Source.names, names)

\* All that the build has made lies in the workspace, the output of a single
\* command beside the sources and the rest below them; what lies elsewhere is apart.
WithinInv ==
  /\ \A d \in dirs : Below(d)
  /\ \A f \in files : f = <<"w", "output">> \/ IsWithinBase(Source.names, f)
  /\ pc \in {"plan", "workspace"} => dirs = {}
  /\ pc \in {"source", "extract"} => \A d \in dirs : Len(d) <= 2
  /\ pc \in {"plan", "workspace", "source", "extract"} => files = {}

\* The file of a --pdb with an absolute path.
Spilt(p) == \E c \in Commands : c.opt.kind = "pdb" /\ c.opt.path = p /\ p.abs

\* What is beside the workspace.
OutsideInv == \A p \in outside \ {GoCaches} : Spilt(p)

\* The archive has been unpacked.
ArchiveInv ==
  pc \in {"resolve", "prepare", "run", "check", "command", "deliver"} =>
    \A h \in SourceArchive : Source.names \o h \in files

\* A step that runs has been prepared.
ReadyInv ==
  pc = "run" =>
    /\ StepDir(steps[step]) # Refused
    /\ \A o \in Prepared(steps[step]) :
         ResolvePlanStepPath(Source, StepDir(steps[step]), o) # Refused

ServedInv == served # None => pc = "deliver" /\ served = OutputPath /\ served # Refused

IInv ==
  /\ TypeOK /\ PlanInv /\ WithinInv /\ OutsideInv /\ ArchiveInv /\ ReadyInv /\ ServedInv
  /\ FilesMirrorTheHost /\ InputsArrive /\ PlanIsAccepted

-----------------------------------------------------------------------------
\* Where the paths of a command lead to.

LEMMA Roots ==
  /\ HostRoot.names \in Seq(Names) /\ HostRoot = Abs(HostRoot.names) /\ NoDots(HostRoot.names)
  /\ Source.names \in Seq(Names) /\ Source = Abs(Source.names) /\ NoDots(Source.names)
  /\ Workspace \in Seq(Names) /\ <<"w", "output">> \in Seq(Names)
  /\ Source.names = <<"w", "src">> /\ Workspace = <<"w">> /\ GoCaches \in Path
<1>1. "p" \in Names /\ "w" \in Names /\ "src" \in Names /\ "output" \in Names
  BY PlanAssumption
<1>2. <<"p">> \in Seq(Names) /\ <<"w", "src">> \in Seq(Names) /\ <<"w">> \in Seq(Names)
  BY <1>1
<1>3. NoDots(<<"p">>) /\ NoDots(<<"w", "src">>)
  BY DEF NoDots
<1>4. <<"w", "output">> \in Seq(Names)
  BY <1>1
<1>5. GoCaches \in Path
  <2>1. "sarver-go" \in Names
    BY PlanAssumption
  <2>2. <<"sarver-go">> \in Seq(Names)
    BY <2>1
  <2> QED
    BY <2>2 DEF GoCaches, Local, Path
<1> QED
  BY <1>2, <1>3, <1>4, <1>5 DEF HostRoot, Source, Workspace, Abs

\* A path below the sources is none that is refused.
LEMMA NotRefused ==
  ASSUME NEW q \in Seq(Names), IsWithinBase(Source.names, q)
  PROVE  Abs(q) # Refused
<1>1. ~IsWithinBase(<<"w", "src">>, <<"refused">>)
  BY DEF IsWithinBase
<1>2. q # <<"refused">>
  BY <1>1, Roots
<1> QED
  BY <1>2 DEF Refused, Abs

\* What ninja prints, by the assumption.
LEMMA CommandType ==
  ASSUME NEW c \in Commands
  PROVE  /\ c.dir \in Path /\ c.out \in Path /\ c.in \in Path
         /\ c.opt.kind \in Kinds /\ c.opt.path \in Path /\ c.links \in BOOLEAN
<1>1. c \in [dir : Path, out : Path, in : Path,
             opt : [kind : Kinds, path : Path], links : BOOLEAN]
  BY PlanAssumption
<1> QED
  BY <1>1

\* A command that is not refused works in a directory below the source root, and
\* its step in the one that mirrors it.
WorksIn(c, d) ==
  /\ NoDots(d) /\ HostDirOf(c) = Abs(HostRoot.names \o d)
  /\ RewriteBuildStepForRemote(c).dir = Local(d)
  /\ StepDir(RewriteBuildStepForRemote(c))
       = IF IsLocal(Local(d)) THEN Abs(Source.names \o d) ELSE Refused

\* A step that was rewritten has a directory below the source root of the host, and
\* its place below the source directory of the console is the same
\* (rewriteBuildStepForRemote, buildPlanStepCommand).
LEMMA StepWorksIn ==
  ASSUME NEW c \in Commands, RewriteBuildStepForRemote(c).dir # Refused
  PROVE  \E d \in Seq(Names) : WorksIn(c, d)
<1> DEFINE s == RewriteBuildStepForRemote(c)
<1>1. PICK a \in Seq(Names) : NoDots(a) /\ HostDirOf(c) = Abs(a)
  <2>1. c.dir \in Path
    BY CommandType
  <2>2. \E a \in Seq(Names) : NoDots(a) /\ HostPath(Abs(HostRoot.names), c.dir) = Abs(a)
    BY <2>1, Roots, HostPathFacts
  <2> QED
    BY <2>2, Roots, Zenon DEF HostDirOf, HostDir
<1>2. s.dir = IF IsWithinBase(HostRoot.names, a) THEN Rel(HostRoot, Abs(a)) ELSE Refused
  <2>1. s.dir = IF IsWithinBase(HostRoot.names, HostDirOf(c).names)
                THEN Rel(HostRoot, HostDirOf(c)) ELSE Refused
    BY DEF RewriteBuildStepForRemote, HostDirOf
  <2>2. HostDirOf(c).names = a
    BY <1>1, LocalFacts
  <2> QED
    BY <1>1, <2>1, <2>2, Zenon
<1>3. IsWithinBase(HostRoot.names, a) /\ s.dir = Rel(HostRoot, Abs(a))
  BY <1>2
<1>4. PICK d \in Seq(Names) : a = HostRoot.names \o d
  BY <1>3, Roots, WithinSplit
<1>5. NoDots(d)
  BY <1>1, <1>4, Roots, NoDotsConcat
<1>6. s.dir = Local(d)
  <2>1. Rel(Abs(HostRoot.names), Abs(HostRoot.names \o d)) = Local(d)
    BY Roots, RelRoot
  <2> QED
    BY <1>3, <1>4, <2>1, Roots, Zenon
<1>7. StepDir(s) = IF IsLocal(Local(d)) THEN Abs(Source.names \o d) ELSE Refused
  <2>1. ResolveWorkspacePath(Abs(Source.names), Local(d))
          = IF IsLocal(Local(d)) THEN Abs(Source.names \o d) ELSE Refused
    BY <1>5, Roots, ResolveWorkspace
  <2> QED
    BY <1>6, <2>1, Roots, Zenon DEF StepDir
<1> QED
  BY <1>1, <1>4, <1>5, <1>6, <1>7, Zenon DEF WorksIn

\* The directory of a step is refused only for a name with two dots, and is else an
\* absolute one in the source directory (buildPlanStepCommand).
LEMMA StepDirFacts ==
  ASSUME NEW c \in Commands, RewriteBuildStepForRemote(c).dir # Refused
  PROVE  LET s == RewriteBuildStepForRemote(c) IN
         /\ StepDir(s) = Refused => ~IsLocal(s.dir)
         /\ StepDir(s) # Refused =>
              /\ StepDir(s).names \in Seq(Names) /\ NoDots(StepDir(s).names)
              /\ StepDir(s) = Abs(StepDir(s).names)
              /\ IsWithinBase(Source.names, StepDir(s).names)
<1>1. PICK d \in Seq(Names) : WorksIn(c, d)
  BY StepWorksIn
<1> DEFINE s == RewriteBuildStepForRemote(c)
           e == Source.names \o d
<1>2. e \in Seq(Names) /\ NoDots(e) /\ IsWithinBase(Source.names, e)
  <2>1. e \in Seq(Names)
    BY Roots, ConcatFacts
  <2>2. NoDots(e)
    BY <1>1, Roots, NoDotsConcat DEF WorksIn
  <2>3. IsWithinBase(Source.names, e)
    BY Roots, WithinConcat
  <2> QED
    BY <2>1, <2>2, <2>3
<1>3. s.dir = Local(d) /\ StepDir(s) = IF IsLocal(Local(d)) THEN Abs(e) ELSE Refused
  BY <1>1 DEF WorksIn
<1> HIDE DEF e, s
<1>4. Abs(e).names = e /\ Abs(e) # Refused
  BY <1>2, LocalFacts, NotRefused
<1>5. StepDir(s) = Refused => ~IsLocal(s.dir)
  BY <1>3, <1>4
<1>6. StepDir(s) # Refused => StepDir(s) = Abs(e)
  BY <1>3
<1> QED
  BY <1>2, <1>4, <1>5, <1>6 DEF s

\* A path that cliant rewrites leads sarver to the place that mirrors the host's.
LEMMA Arrives ==
  ASSUME NEW c \in Commands, RewriteBuildStepForRemote(c).dir # Refused,
         StepDir(RewriteBuildStepForRemote(c)) # Refused, NEW raw \in Path,
         RewriteCommandPath(HostRoot, HostDirOf(c), raw) # Refused
  PROVE  LET p == RewriteCommandPath(HostRoot, HostDirOf(c), raw)
             dir == StepDir(RewriteBuildStepForRemote(c))
         IN /\ p \in Path /\ ~p.abs
            /\ Join(dir, p) = Abs(Named(c, raw)) /\ Join(dir, p).names = Named(c, raw)
            /\ Named(c, raw) \in Seq(Names)
            /\ IsWithinBase(Source.names, Named(c, raw))
            /\ ResolvePlanStepPath(Source, dir, p) = Refused => Clean(p) = Local(<<>>)
<1>1. PICK d \in Seq(Names) : WorksIn(c, d)
  BY StepWorksIn
<1> DEFINE p == RewriteCommandPath(HostRoot, HostDirOf(c), raw)
           dir == StepDir(RewriteBuildStepForRemote(c))
           x == HostRoot.names
           e == Source.names \o d
<1>2. /\ HostDirOf(c) = Abs(x \o d) /\ HostRoot = Abs(x) /\ NoDots(d)
      /\ x \in Seq(Names) /\ NoDots(x)
      /\ dir = Abs(e)
  BY <1>1, Roots DEF WorksIn
<1>3. p = RewriteCommandPath(Abs(x), Abs(x \o d), raw)
  BY <1>2, Zenon
<1> HIDE DEF p, x, dir
<1>4. /\ p \in Path /\ ~p.abs
      /\ \E t \in Seq(Names) :
           /\ NoDots(t) /\ HostPath(Abs(x \o d), raw) = Abs(x \o t)
           /\ \A b \in Seq(Names) : NoDots(b) => Join(Abs(b \o d), p) = Abs(b \o t)
  <2>1. RewriteCommandPath(Abs(x), Abs(x \o d), raw) # Refused
    BY <1>2, Zenon
  <2> QED
    BY <1>2, <1>3, <2>1, RewriteMirrors
<1>5. PICK t \in Seq(Names) :
        /\ NoDots(t) /\ HostPath(Abs(x \o d), raw) = Abs(x \o t)
        /\ \A b \in Seq(Names) : NoDots(b) => Join(Abs(b \o d), p) = Abs(b \o t)
  BY <1>4
<1> DEFINE m == Source.names \o t
<1>6. Named(c, raw) = m
  <2>1. Rel(Abs(x), Abs(x \o t)) = Local(t)
    BY <1>2, RelRoot
  <2>2. Rel(Abs(x), Abs(x \o t)).names = t
    BY <2>1, LocalFacts
  <2> QED
    BY <1>2, <1>5, <2>2, Zenon DEF Named, Mirror
<1>7. Join(dir, p) = Abs(m)
  BY <1>2, <1>5, Roots, Zenon
<1>8. m \in Seq(Names) /\ IsWithinBase(Source.names, m) /\ Abs(m).names = m
  <2>1. m \in Seq(Names)
    BY Roots, ConcatFacts
  <2>2. IsWithinBase(Source.names, m)
    BY Roots, WithinConcat
  <2> HIDE DEF m
  <2> QED
    BY <2>1, <2>2, LocalFacts
<1>9. e \in Seq(Names) /\ NoDots(e)
  BY <1>2, Roots, ConcatFacts, NoDotsConcat
<1> HIDE DEF m, e
<1>10. ResolvePlanStepPath(Source, dir, p) = Refused => Clean(p) = Local(<<>>)
  <2> SUFFICES ASSUME Clean(p) # Local(<<>>) PROVE ResolvePlanStepPath(Source, dir, p) # Refused
    OBVIOUS
  <2>1. ResolvePlanStepPath(Abs(Source.names), Abs(e), p)
          = IF Clean(p) # Local(<<>>) /\ IsWithinBase(Source.names, Join(Abs(e), p).names)
            THEN Join(Abs(e), p) ELSE Refused
    BY <1>4, <1>9, Roots, ResolveStep
  <2>2. ResolvePlanStepPath(Source, dir, p) = Abs(m)
    <3>1. Join(Abs(e), p) = Abs(m) /\ Join(Abs(e), p).names = m
      BY <1>2, <1>7, <1>8, Zenon
    <3> QED
      BY <1>2, <1>4, <1>8, <2>1, <3>1, Roots, Zenon
  <2>3. Abs(m) # Refused
    BY <1>8, NotRefused
  <2> QED
    BY <2>2, <2>3
<1>11. Join(dir, p).names = m
  BY <1>7, <1>8, Zenon
<1> QED
  BY <1>4, <1>6, <1>7, <1>8, <1>10, <1>11, Zenon DEF p, dir

\* So does a relative path that stays below the source root, as it is.
LEMMA ArrivesAsItIs ==
  ASSUME NEW c \in Commands, RewriteBuildStepForRemote(c).dir # Refused,
         StepDir(RewriteBuildStepForRemote(c)) # Refused,
         NEW raw \in Path, ~raw.abs, ~Leaves(c, raw)
  PROVE  /\ Join(StepDir(RewriteBuildStepForRemote(c)), raw).names = Named(c, raw)
         /\ IsWithinBase(Source.names, Named(c, raw))
<1>1. PICK d \in Seq(Names) : WorksIn(c, d)
  BY StepWorksIn
<1> DEFINE dir == StepDir(RewriteBuildStepForRemote(c))
           x == HostRoot.names
           e == Source.names \o d
           n == raw.names
           way == Pushed(FALSE, <<>>, d \o n)
<1>2. /\ HostDirOf(c) = Abs(x \o d) /\ HostRoot = Abs(x) /\ NoDots(d)
      /\ x \in Seq(Names) /\ NoDots(x) /\ n \in Seq(Names)
      /\ dir = Abs(e)
  BY <1>1, Roots DEF WorksIn, Path
<1> HIDE DEF dir, x, e
<1>3. way \in Seq(Names)
  <2> DEFINE y == d \o n
             z == <<>>
  <2>1. y \in Seq(Names) /\ z \in Seq(Names)
    BY <1>2, ConcatFacts, EmptySeq
  <2> HIDE DEF y, z
  <2>2. Pushed(FALSE, z, y) \in Seq(Names)
    BY <2>1, PushedType
  <2> QED
    BY <2>2 DEF y, z
<1>4. way = <<>> \/ Head(way) # ".."
  <2>1. Rel(Abs(x), Abs(x \o d)) = Local(d)
    BY <1>2, RelRoot
  <2>2. Join(Local(d), raw).names = way
    BY DEF Join, Clean, Local
  <2>3. Join(Rel(HostRoot, HostDirOf(c)), raw).names = way
    BY <1>2, <2>1, <2>2, Zenon
  <2> HIDE DEF way
  <2> QED
    BY <2>3 DEF Leaves
<1>5. Pushed(TRUE, x \o d, n) = x \o way
  BY <1>2, <1>4, PathMirrors
<1>6. Pushed(TRUE, e, n) = Source.names \o way
  <2> DEFINE b == Source.names
  <2>1. b \in Seq(Names) /\ NoDots(b) /\ e = b \o d
    BY Roots DEF e
  <2> HIDE DEF b
  <2>2. Pushed(TRUE, b \o d, n) = b \o way
    BY <1>2, <1>4, <2>1, PathMirrors
  <2> QED
    BY <2>1, <2>2, Zenon DEF b
<1> HIDE DEF n, way
<1>7. HostPath(HostDirOf(c), raw) = Abs(x \o way)
  <2> DEFINE y == x \o d
  <2>1. y \in Seq(Names) /\ NoDots(y)
    BY <1>2, ConcatFacts, NoDotsConcat
  <2>2. Pushed(TRUE, y, n) = x \o way
    BY <1>5
  <2>3. HostDirOf(c) = Abs(y)
    BY <1>2
  <2> HIDE DEF y
  <2>4. Join(Abs(y), raw) = Abs(Pushed(TRUE, y, n))
    BY <2>1, JoinAbs DEF n
  <2>5. HostPath(HostDirOf(c), raw) = Join(HostDirOf(c), raw)
    BY DEF HostPath
  <2> QED
    BY <2>2, <2>3, <2>4, <2>5, Zenon
<1>8. Named(c, raw) = Source.names \o way
  <2>1. Rel(Abs(x), Abs(x \o way)) = Local(way)
    BY <1>2, <1>3, RelRoot
  <2>2. Rel(Abs(x), Abs(x \o way)).names = way
    BY <1>3, <2>1, LocalFacts
  <2> QED
    BY <1>2, <1>7, <2>2, Zenon DEF Named, Mirror
<1>9. e \in Seq(Names) /\ NoDots(e)
  BY <1>2, Roots, ConcatFacts, NoDotsConcat DEF e
<1>10. Join(dir, raw) = Abs(Pushed(TRUE, e, n))
  <2>1. Join(Abs(e), raw) = Abs(Pushed(TRUE, e, n))
    BY <1>9, JoinAbs DEF n
  <2> QED
    BY <1>2, <2>1, Zenon
<1>11. Source.names \o way \in Seq(Names)
  BY <1>3, Roots, ConcatFacts
<1>12. Join(dir, raw).names = Source.names \o way
  <2> DEFINE m == Source.names \o way
  <2>1. m \in Seq(Names) /\ Join(dir, raw) = Abs(m)
    BY <1>6, <1>10, <1>11, Zenon
  <2> HIDE DEF m
  <2> QED
    BY <2>1, LocalFacts, Zenon DEF m
<1>13. IsWithinBase(Source.names, Source.names \o way)
  BY <1>3, Roots, WithinConcat
<1> QED
  BY <1>8, <1>12, <1>13, Zenon DEF dir

\* The artifact is resolved to the place that mirrors the output it was taken from.
LEMMA ArtifactArrives ==
  ASSUME NEW c \in Commands, RewriteBuildStepForRemote(c).dir # Refused,
         RewriteBuildStepForRemote(c).out # Refused
  PROVE  LET a == OutputRel(c) IN
         /\ a # None
         /\ ResolveWorkspacePath(Source, a) = Refused => ~IsLocal(a)
         /\ ResolveWorkspacePath(Source, a) # Refused =>
              ResolveWorkspacePath(Source, a).names = Named(c, c.out)
<1>1. PICK d \in Seq(Names) : WorksIn(c, d)
  BY StepWorksIn
<1> DEFINE x == HostRoot.names
           b == Source.names
           a == OutputRel(c)
<1>2. /\ HostDirOf(c) = Abs(x \o d) /\ HostRoot = Abs(x) /\ NoDots(d)
      /\ x \in Seq(Names) /\ NoDots(x) /\ c.out \in Path
      /\ b \in Seq(Names) /\ NoDots(b) /\ Source = Abs(b)
  BY <1>1, Roots, CommandType DEF WorksIn
<1>3. RewriteCommandPath(Abs(x), Abs(x \o d), c.out) # Refused
  <2>1. RewriteCommandPath(HostRoot, HostDirOf(c), c.out) # Refused
    BY DEF RewriteBuildStepForRemote, HostDirOf
  <2> QED
    BY <1>2, <2>1, Zenon
<1> HIDE DEF x, b
<1>4. PICK t \in Seq(Names) : NoDots(t) /\ HostPath(Abs(x \o d), c.out) = Abs(x \o t)
  BY <1>2, <1>3, RewriteMirrors
<1>5. Rel(Abs(x), Abs(x \o t)) = Local(t)
  BY <1>2, RelRoot
<1>6. a = Local(t)
  BY <1>2, <1>4, <1>5, Zenon DEF OutputRel, HostDirOf
<1>7. Named(c, c.out) = b \o t
  <2>1. Rel(Abs(x), Abs(x \o t)).names = t
    BY <1>5, LocalFacts
  <2> QED
    BY <1>2, <1>4, <2>1, Zenon DEF Named, Mirror, b
<1>8. ResolveWorkspacePath(Source, a) = IF IsLocal(a) THEN Abs(b \o t) ELSE Refused
  <2>1. ResolveWorkspacePath(Abs(b), Local(t)) = IF IsLocal(Local(t)) THEN Abs(b \o t) ELSE Refused
    BY <1>2, <1>4, ResolveWorkspace
  <2> QED
    BY <1>2, <1>6, <2>1, Zenon
<1> DEFINE m == b \o t
<1>9. m \in Seq(Names) /\ IsWithinBase(b, m)
  BY <1>2, ConcatFacts, WithinConcat
<1> HIDE DEF m
<1>10. Abs(m).names = m /\ Abs(m) # Refused
  BY <1>9, LocalFacts, NotRefused DEF b
<1>11. ResolveWorkspacePath(Source, a) = IF IsLocal(a) THEN Abs(m) ELSE Refused
  BY <1>8 DEF m
<1>12. a # None
  BY <1>6 DEF Local, None, Abs
<1> HIDE DEF a
<1>13. ResolveWorkspacePath(Source, a) = Refused => ~IsLocal(a)
  BY <1>10, <1>11
<1>14. ResolveWorkspacePath(Source, a) # Refused => ResolveWorkspacePath(Source, a).names = m
  BY <1>10, <1>11
<1> QED
  BY <1>7, <1>12, <1>13, <1>14 DEF a, m

\* The place of an output that sarver does not refuse is below the sources, and is the
\* output's own place unless it is absolute.
LEMMA ResolvedWithin ==
  ASSUME NEW c \in Commands, RewriteBuildStepForRemote(c).dir # Refused,
         StepDir(RewriteBuildStepForRemote(c)) # Refused, NEW p \in Path,
         ResolvePlanStepPath(Source, StepDir(RewriteBuildStepForRemote(c)), p) # Refused
  PROVE  LET dir == StepDir(RewriteBuildStepForRemote(c))
             r == ResolvePlanStepPath(Source, dir, p)
         IN /\ r.names \in Seq(Names) /\ IsWithinBase(Source.names, r.names)
            /\ ~p.abs => r = Join(dir, p)
<1> DEFINE dir == StepDir(RewriteBuildStepForRemote(c))
           e == dir.names
           r == ResolvePlanStepPath(Source, dir, p)
<1>1. e \in Seq(Names) /\ NoDots(e) /\ dir = Abs(e) /\ IsWithinBase(Source.names, e)
  BY StepDirFacts
<1>2. r # Refused
  OBVIOUS
<1> HIDE DEF dir, e
<1>3. r = ResolvePlanStepPath(Abs(Source.names), Abs(e), p)
  BY <1>1, Roots, Zenon
<1> HIDE DEF r
<1>4. CASE p.abs
  <2> DEFINE q == e \o Clean(p).names
  <2>1. /\ ResolvePlanStepPath(Abs(Source.names), Abs(e), p) = Abs(q)
        /\ q \in Seq(Names) /\ IsWithinBase(Source.names, q)
    BY <1>1, <1>4, Roots, ResolveRooted
  <2> HIDE DEF q
  <2>2. r.names = q
    BY <1>3, <2>1, LocalFacts, Zenon
  <2> QED
    BY <1>4, <2>1, <2>2, Zenon DEF r, dir
<1>5. CASE ~p.abs
  <2>1. ResolvePlanStepPath(Abs(Source.names), Abs(e), p)
          = IF Clean(p) # Local(<<>>) /\ IsWithinBase(Source.names, Join(Abs(e), p).names)
            THEN Join(Abs(e), p) ELSE Refused
    BY <1>1, <1>5, Roots, ResolveStep
  <2>2. r = Join(Abs(e), p) /\ IsWithinBase(Source.names, Join(Abs(e), p).names)
    BY <1>2, <1>3, <2>1
  <2> DEFINE m == Pushed(TRUE, e, p.names)
  <2>3. Join(Abs(e), p) = Abs(m) /\ m \in Seq(Names)
    BY <1>1, JoinAbs
  <2> HIDE DEF m
  <2>4. r.names = m
    BY <2>2, <2>3, LocalFacts, Zenon
  <2>5. r.names \in Seq(Names) /\ IsWithinBase(Source.names, r.names) /\ r = Join(dir, p)
    BY <1>1, <2>2, <2>3, <2>4, Zenon
  <2> QED
    BY <2>5, Zenon DEF r, dir
<1> QED
  BY <1>4, <1>5

-----------------------------------------------------------------------------
\* Folders.

LEMMA ParentsFacts ==
  ASSUME NEW names \in Seq(Names), NEW d \in Parents(names)
  PROVE  /\ d \in Seq(Names) /\ d # <<>>
         /\ Len(d) \in 1..Len(names) /\ \A i \in 1..Len(d) : d[i] = names[i]
<1>1. PICK n \in 1..Len(names) : d = [i \in 1..n |-> names[i]]
  BY DEF Parents
<1>2. Len(names) \in Nat /\ \A i \in 1..Len(names) : names[i] \in Names
  BY LenProperties, ElementOfSeq
<1>3. n \in Nat /\ d \in [1..n -> Names]
  BY <1>1, <1>2
<1>4. d \in Seq(Names) /\ Len(d) = n
  BY <1>3, SeqDef, LenProperties
<1>5. d # <<>>
  BY <1>1, <1>2, <1>4, EmptySeq
<1> QED
  BY <1>1, <1>2, <1>4, <1>5

\* The folders on the way to a path of the workspace are of the workspace.
LEMMA BelowPrefix ==
  ASSUME NEW names \in Seq(Names), Below(names), NEW d \in Seq(Names),
         Len(d) \in 1..Len(names), \A i \in 1..Len(d) : d[i] = names[i]
  PROVE  Below(d)
<1>1. Len(names) \in Nat /\ Len(d) \in Nat /\ Len(d) >= 1 /\ Len(d) <= Len(names)
      /\ DOMAIN names = 1..Len(names) /\ DOMAIN d = 1..Len(d)
  BY LenProperties
<1>2. names[1] = "w"
  <2>1. CASE names = Workspace
    BY <2>1 DEF Workspace
  <2>2. CASE IsWithinBase(Source.names, names)
    <3>1. IsWithinBase(<<"w", "src">>, names)
      BY <2>2, Roots
    <3> QED
      BY <3>1 DEF IsWithinBase
  <2> QED
    BY <2>1, <2>2 DEF Below
<1>3. CASE Len(d) = 1
  <2>1. d = <<"w">>
    <3> DEFINE w == <<"w">>
    <3>1. w \in Seq(Names) /\ Len(w) = 1 /\ w[1] = "w"
      BY Roots
    <3>2. \A i \in 1..Len(d) : d[i] = w[i]
      BY <1>2, <1>3, <3>1
    <3> HIDE DEF w
    <3>3. d = w
      BY <1>3, <3>1, <3>2, SeqEqual
    <3> QED
      BY <3>3 DEF w
  <2> QED
    BY <2>1 DEF Below, Workspace
<1>4. CASE Len(d) # 1
  <2>1. 1 \in 1..Len(d) /\ 2 \in 1..Len(d) /\ Len(names) # 1
    BY <1>1, <1>4
  <2>2. names # Workspace
    BY <2>1, Roots
  <2>3. 2 \in 1..Len(names) /\ names[2] = "src"
    <3>1. IsWithinBase(<<"w", "src">>, names)
      BY <2>2, Roots DEF Below
    <3> QED
      BY <1>1, <3>1 DEF IsWithinBase
  <2>4. d[1] = "w" /\ d[2] = "src"
    BY <1>2, <2>1, <2>3
  <2>5. IsWithinBase(<<"w", "src">>, d)
    BY <1>1, <2>1, <2>4 DEF IsWithinBase
  <2> QED
    BY <2>5, Roots DEF Below
<1> QED
  BY <1>3, <1>4

\* os.MkdirAll makes only such folders.
LEMMA ParentsBelow ==
  ASSUME NEW names \in Seq(Names), Below(names), NEW d \in Parents(names)
  PROVE  d \in Seq(Names) /\ d # <<>> /\ Below(d)
BY ParentsFacts, BelowPrefix

\* The folder of a file in the source directory is in the workspace.
LEMMA FolderBelow ==
  ASSUME NEW p, p.names \in Seq(Names), IsWithinBase(Source.names, p.names)
  PROVE  Dir(p).names \in Seq(Names) /\ Below(Dir(p).names)
<1> DEFINE n == p.names
           f == Front(n)
<1>1. Len(n) \in Nat /\ DOMAIN n = 1..Len(n)
  BY LenProperties
<1>2. Len(n) >= 2
  <2>1. IsWithinBase(<<"w", "src">>, n)
    BY Roots
  <2> HIDE DEF n
  <2>2. 2 \in DOMAIN n
    BY <2>1 DEF IsWithinBase
  <2> QED
    BY <1>1, <2>2
<1>3. Dir(p).names = f
  <2>1. n # <<>>
    BY <1>2, EmptySeq
  <2> QED
    BY <2>1 DEF Dir
<1> HIDE DEF n
<1>4. n \in Seq(Names) /\ Below(n)
  BY DEF n, Below
<1>5. f \in Seq(Names) /\ Len(f) = Len(n) - 1 /\ \A i \in 1..(Len(n) - 1) : f[i] = n[i]
  <2>1. Len(n) - 1 \in 0..Len(n)
    BY <1>1, <1>2
  <2> QED
    BY <1>4, <2>1, Split DEF Front
<1> HIDE DEF f
<1>6. Len(f) \in 1..Len(n) /\ \A i \in 1..Len(f) : f[i] = n[i]
  BY <1>1, <1>2, <1>5
<1>7. Below(f)
  BY <1>4, <1>5, <1>6, BelowPrefix
<1> QED
  BY <1>3, <1>5, <1>7

\* The rewrite of an option does not change which option it is.
LEMMA RewriteKind ==
  ASSUME NEW c \in Commands
  PROVE  RewriteBuildStepForRemote(c).opt.kind = c.opt.kind
<1> DEFINE r == RewriteCommandPath(HostRoot, HostDir(HostRoot, c.dir), c.opt.path)
<1>1. RewriteBuildStepForRemote(c).opt
        = IF c.opt.kind \in {"implib", "map"} THEN [c.opt EXCEPT !.path = r] ELSE c.opt
  BY DEF RewriteBuildStepForRemote
<1>2. c.opt \in [kind : Kinds, path : Path]
  BY PlanAssumption
<1> HIDE DEF r
<1> QED
  BY <1>1, <1>2

\* The steps of the plan.
LEMMA StepType ==
  ASSUME TypeOK, PlanInv, NEW i \in DOMAIN plan
  PROVE  /\ plan[i] \in Commands /\ steps[i] = RewriteBuildStepForRemote(plan[i])
         /\ steps[i].dir # Refused /\ steps[i].out # Refused /\ steps[i].in # Refused
         /\ steps[i].opt.path # Refused /\ steps[i].opt.kind = plan[i].opt.kind
<1>1. plan \in Seq(Commands) /\ Len(steps) = Len(plan) /\ steps \in Seq(Steps)
  BY DEF TypeOK, PlanInv
<1>2. DOMAIN steps = DOMAIN plan /\ plan[i] \in Commands
  BY <1>1, LenProperties, ElementOfSeq
<1>3. steps[i] = RewriteBuildStepForRemote(plan[i])
  BY DEF PlanInv
<1>4. Refused \notin {steps[i].dir, steps[i].out, steps[i].in, steps[i].opt.path}
  BY <1>2 DEF TypeOK
<1>5. RewriteBuildStepForRemote(plan[i]).opt.kind = plan[i].opt.kind
  BY <1>2, RewriteKind
<1> QED
  BY <1>2, <1>3, <1>4, <1>5

\* The paths of a step: each that is written is where the command would have written
\* it, save that of --pdb.
LEMMA OptionRewritten ==
  ASSUME NEW c \in Commands
  PROVE  RewriteBuildStepForRemote(c).opt.path
           = IF c.opt.kind \in {"implib", "map"}
             THEN RewriteCommandPath(HostRoot, HostDirOf(c), c.opt.path) ELSE c.opt.path
<1> DEFINE r == RewriteCommandPath(HostRoot, HostDir(HostRoot, c.dir), c.opt.path)
<1>1. RewriteBuildStepForRemote(c).opt
        = IF c.opt.kind \in {"implib", "map"} THEN [c.opt EXCEPT !.path = r] ELSE c.opt
  BY DEF RewriteBuildStepForRemote
<1>2. c.opt \in [kind : Kinds, path : Path]
  BY PlanAssumption
<1>3. r = RewriteCommandPath(HostRoot, HostDirOf(c), c.opt.path)
  BY DEF HostDirOf
<1> HIDE DEF r
<1>4. [c.opt EXCEPT !.path = r].path = r
  BY <1>2
<1> QED
  BY <1>1, <1>3, <1>4

\* The outputs of a step are paths.
LEMMA StepPaths ==
  ASSUME TypeOK, PlanInv, NEW i \in DOMAIN plan, StepDir(steps[i]) # Refused
  PROVE  /\ steps[i].out \in Path
         /\ steps[i].opt.kind \in {"implib", "pdb"} => steps[i].opt.path \in Path
<1> DEFINE c == plan[i]
           s == steps[i]
<1>1. /\ c \in Commands /\ s = RewriteBuildStepForRemote(c)
      /\ s.dir # Refused /\ s.out # Refused /\ s.opt.path # Refused
      /\ StepDir(s) # Refused /\ s.opt.kind = c.opt.kind
      /\ c.out \in Path /\ c.opt.path \in Path
  BY StepType, CommandType
<1>2. s.out = RewriteCommandPath(HostRoot, HostDirOf(c), c.out)
  BY <1>1 DEF RewriteBuildStepForRemote, HostDirOf
<1>3. s.opt.path = IF c.opt.kind \in {"implib", "map"}
                   THEN RewriteCommandPath(HostRoot, HostDirOf(c), c.opt.path) ELSE c.opt.path
  BY <1>1, OptionRewritten
<1> HIDE DEF c, s
<1>4. ASSUME NEW raw \in Path, RewriteCommandPath(HostRoot, HostDirOf(c), raw) # Refused
      PROVE  RewriteCommandPath(HostRoot, HostDirOf(c), raw) \in Path
  <2>1. RewriteBuildStepForRemote(c).dir # Refused
        /\ StepDir(RewriteBuildStepForRemote(c)) # Refused
    BY <1>1, Zenon
  <2> QED
    BY <1>1, <1>4, <2>1, Arrives
<1>5. s.out \in Path
  BY <1>1, <1>2, <1>4
<1>6. s.opt.path \in Path
  BY <1>1, <1>3, <1>4
<1> QED
  BY <1>5, <1>6 DEF s

Mirrors(f, i) ==
  \/ f \in {Named(plan[i], o) : o \in Writes(plan[i])}
  \/ /\ plan[i].opt.kind = "pdb" /\ Leaves(plan[i], plan[i].opt.path)
     /\ f = Join(StepDir(steps[i]), plan[i].opt.path).names

\* What a prepared step writes by a relative path is in the source directory, and is
\* where the host would have it (rewriteCommandPath and resolvePlanStepPath).
LEMMA WrittenMirrors ==
  ASSUME TypeOK, PlanInv, NEW i \in DOMAIN plan, StepDir(steps[i]) # Refused,
         \A o \in Prepared(steps[i]) :
           ResolvePlanStepPath(Source, StepDir(steps[i]), o) # Refused,
         NEW o \in Writes(steps[i]), ~o.abs
  PROVE  LET f == Join(StepDir(steps[i]), o).names IN
         f \in Seq(Names) /\ IsWithinBase(Source.names, f) /\ Mirrors(f, i)
<1> DEFINE c == plan[i]
           s == steps[i]
           f == Join(StepDir(s), o).names
<1>1. /\ c \in Commands /\ s = RewriteBuildStepForRemote(c)
      /\ s.dir # Refused /\ s.out # Refused /\ s.opt.path # Refused
      /\ s.opt.kind = c.opt.kind /\ StepDir(s) # Refused
  BY StepType
<1>2. /\ c.out \in Path /\ c.opt.path \in Path /\ c.opt.kind \in Kinds
  BY <1>1, CommandType
<1>3. Writes(c) = {c.out} \cup (IF c.opt.kind # "none" THEN {c.opt.path} ELSE {})
  BY DEF Writes
<1>4. o = s.out \/ (o = s.opt.path /\ c.opt.kind # "none")
  BY <1>1 DEF Writes
<1>5. ASSUME NEW raw \in Path, raw \in Writes(c),
             o = RewriteCommandPath(HostRoot, HostDirOf(c), raw), o # Refused
      PROVE  f \in Seq(Names) /\ IsWithinBase(Source.names, f) /\ Mirrors(f, i)
  <2> HIDE DEF c, s
  <2>1. Join(StepDir(RewriteBuildStepForRemote(c)), o).names = Named(c, raw)
        /\ Named(c, raw) \in Seq(Names) /\ IsWithinBase(Source.names, Named(c, raw))
    BY <1>1, <1>5, Arrives
  <2>2. f = Named(c, raw)
    BY <1>1, <2>1, Zenon
  <2>3. Mirrors(f, i)
    BY <1>5, <2>2 DEF Mirrors, c
  <2> QED
    BY <2>1, <2>2, <2>3, Zenon
<1>6. CASE o = s.out
  <2>1. s.out = RewriteCommandPath(HostRoot, HostDirOf(c), c.out)
    BY <1>1 DEF RewriteBuildStepForRemote, HostDirOf
  <2> QED
    BY <1>1, <1>2, <1>3, <1>5, <1>6, <2>1
<1>7. CASE o = s.opt.path /\ c.opt.kind \in {"implib", "map"}
  <2>1. s.opt.path = RewriteCommandPath(HostRoot, HostDirOf(c), c.opt.path)
    BY <1>1, <1>7, OptionRewritten
  <2>2. c.opt.path \in Writes(c)
    BY <1>3, <1>7
  <2> QED
    BY <1>1, <1>2, <1>5, <1>7, <2>1, <2>2
<1>8. CASE o = s.opt.path /\ c.opt.kind = "pdb"
  <2>1. o = c.opt.path
    BY <1>1, <1>8, OptionRewritten
  <2>2. o \in Prepared(s)
    BY <1>1, <1>8 DEF Prepared
  <2>3. ResolvePlanStepPath(Source, StepDir(s), o) # Refused
    BY <2>2
  <2>4. f \in Seq(Names) /\ IsWithinBase(Source.names, f)
    <3> HIDE DEF c, s
    <3>1. /\ RewriteBuildStepForRemote(c).dir # Refused
          /\ StepDir(RewriteBuildStepForRemote(c)) # Refused /\ o \in Path
          /\ ResolvePlanStepPath(Source, StepDir(RewriteBuildStepForRemote(c)), o) # Refused
      BY <1>1, <1>2, <2>1, <2>3, Zenon
    <3>2. LET dir == StepDir(RewriteBuildStepForRemote(c)) IN
          Join(dir, o).names \in Seq(Names) /\ IsWithinBase(Source.names, Join(dir, o).names)
      BY <1>1, <3>1, ResolvedWithin
    <3> QED
      BY <1>1, <3>2, Zenon
  <2>5. CASE Leaves(c, o)
    <3>1. Mirrors(f, i)
      BY <1>8, <2>1, <2>5, Zenon DEF Mirrors
    <3> QED
      BY <2>4, <3>1
  <2>6. CASE ~Leaves(c, o)
    <3> HIDE DEF c, s
    <3>1. Join(StepDir(RewriteBuildStepForRemote(c)), o).names = Named(c, o)
      BY <1>1, <1>2, <2>1, <2>4, <2>6, ArrivesAsItIs
    <3>2. f = Named(c, o) /\ o \in Writes(c)
      BY <1>1, <1>3, <1>8, <2>1, <3>1
    <3>3. Mirrors(f, i)
      BY <3>2, Zenon DEF Mirrors, c
    <3> QED
      BY <2>4, <3>3 DEF s
  <2> QED
    BY <2>5, <2>6
<1> QED
  BY <1>2, <1>4, <1>6, <1>7, <1>8 DEF Kinds

\* A step looks for its input where the host has it, unless its path leaves the
\* source root (rewritePositionalArgument).
LEMMA InputArrives ==
  ASSUME TypeOK, PlanInv, NEW i \in DOMAIN plan, StepDir(steps[i]) # Refused
  PROVE  \/ Leaves(plan[i], plan[i].in)
         \/ Join(StepDir(steps[i]), steps[i].in).names = Named(plan[i], plan[i].in)
<1> DEFINE c == plan[i]
           s == steps[i]
<1>1. /\ c \in Commands /\ s = RewriteBuildStepForRemote(c)
      /\ s.dir # Refused /\ s.in # Refused /\ StepDir(s) # Refused /\ c.in \in Path
  BY StepType, CommandType
<1>2. s.in = IF c.in.abs THEN RewriteCommandPath(HostRoot, HostDirOf(c), c.in) ELSE c.in
  BY <1>1 DEF RewriteBuildStepForRemote, HostDirOf
<1> HIDE DEF c, s
<1>3. CASE c.in.abs
  <2>1. RewriteCommandPath(HostRoot, HostDirOf(c), c.in) = s.in
    BY <1>2, <1>3
  <2>2. RewriteBuildStepForRemote(c).dir # Refused
        /\ StepDir(RewriteBuildStepForRemote(c)) # Refused
        /\ RewriteCommandPath(HostRoot, HostDirOf(c), c.in) # Refused
    BY <1>1, <2>1, Zenon
  <2>3. Join(StepDir(RewriteBuildStepForRemote(c)),
             RewriteCommandPath(HostRoot, HostDirOf(c), c.in)).names = Named(c, c.in)
    BY <1>1, <2>2, Arrives
  <2> QED
    BY <1>1, <2>1, <2>3, Zenon DEF c, s
<1>4. CASE ~c.in.abs /\ ~Leaves(c, c.in)
  <2>1. s.in = c.in
    BY <1>2, <1>4
  <2>2. RewriteBuildStepForRemote(c).dir # Refused
        /\ StepDir(RewriteBuildStepForRemote(c)) # Refused
    BY <1>1, Zenon
  <2>3. Join(StepDir(RewriteBuildStepForRemote(c)), c.in).names = Named(c, c.in)
    BY <1>1, <1>4, <2>2, ArrivesAsItIs
  <2> QED
    BY <1>1, <2>1, <2>3, Zenon DEF c, s
<1> QED
  BY <1>3, <1>4 DEF c

\* The only outputs of a rewritten step that resolvePlanStepPath refuses are a --pdb
\* that leaves the source root and an output that is the step's own directory.
LEMMA OnlyRefused ==
  ASSUME TypeOK, PlanInv, NEW i \in DOMAIN plan, StepDir(steps[i]) # Refused,
         NEW o \in Prepared(steps[i]),
         ResolvePlanStepPath(Source, StepDir(steps[i]), o) = Refused
  PROVE  \/ plan[i].opt.kind = "pdb" /\ Leaves(plan[i], plan[i].opt.path)
         \/ Clean(o) = Local(<<>>)
<1> DEFINE c == plan[i]
           s == steps[i]
<1>1. /\ c \in Commands /\ s = RewriteBuildStepForRemote(c)
      /\ s.dir # Refused /\ s.out # Refused /\ s.opt.path # Refused
      /\ StepDir(s) # Refused /\ s.opt.kind = c.opt.kind
      /\ c.out \in Path /\ c.opt.path \in Path
  BY StepType, CommandType
<1>2. o = s.out \/ (o = s.opt.path /\ c.opt.kind \in {"implib", "pdb"})
  BY <1>1 DEF Prepared
<1>3. ASSUME NEW raw \in Path, o # Refused, o = RewriteCommandPath(HostRoot, HostDirOf(c), raw)
      PROVE  Clean(o) = Local(<<>>)
  <2> HIDE DEF c, s
  <2>1. RewriteBuildStepForRemote(c).dir # Refused
        /\ StepDir(RewriteBuildStepForRemote(c)) # Refused
        /\ RewriteCommandPath(HostRoot, HostDirOf(c), raw) # Refused
    BY <1>1, <1>3, Zenon
  <2>2. LET p == RewriteCommandPath(HostRoot, HostDirOf(c), raw) IN
        ResolvePlanStepPath(Source, StepDir(RewriteBuildStepForRemote(c)), p) = Refused
          => Clean(p) = Local(<<>>)
    BY <1>1, <2>1, Arrives
  <2>3. ResolvePlanStepPath(Source, StepDir(s), o) = Refused
    BY DEF s
  <2> QED
    BY <1>1, <1>3, <2>2, <2>3, Zenon
<1>4. CASE o = s.out
  <2>1. s.out = RewriteCommandPath(HostRoot, HostDirOf(c), c.out)
    BY <1>1 DEF RewriteBuildStepForRemote, HostDirOf
  <2> QED
    BY <1>1, <1>3, <1>4, <2>1
<1>5. CASE o = s.opt.path /\ c.opt.kind = "implib"
  <2>1. s.opt.path = RewriteCommandPath(HostRoot, HostDirOf(c), c.opt.path)
    BY <1>1, <1>5, OptionRewritten
  <2> QED
    BY <1>1, <1>3, <1>5, <2>1
<1>6. CASE o = s.opt.path /\ c.opt.kind = "pdb"
  <2>1. o = c.opt.path
    BY <1>1, <1>6, OptionRewritten
  <2>2. SUFFICES ASSUME ~Leaves(c, o) PROVE Clean(o) = Local(<<>>)
    BY <1>6, <2>1, Zenon
  <2> DEFINE dir == StepDir(RewriteBuildStepForRemote(c))
             e == dir.names
  <2>3. /\ RewriteBuildStepForRemote(c).dir # Refused /\ dir # Refused /\ o \in Path
        /\ ResolvePlanStepPath(Source, dir, o) = Refused
    BY <1>1, <2>1, Zenon
  <2> HIDE DEF c, s
  <2>4. e \in Seq(Names) /\ NoDots(e) /\ dir = Abs(e) /\ IsWithinBase(Source.names, e)
    BY <1>1, <2>3, StepDirFacts
  <2>5. \A q \in Seq(Names) : IsWithinBase(Source.names, q) => Abs(q) # Refused
    BY NotRefused
  <2>6. CASE o.abs
    <3>1. LET q == e \o Clean(o).names IN
          /\ ResolvePlanStepPath(Abs(Source.names), Abs(e), o) = Abs(q)
          /\ q \in Seq(Names) /\ IsWithinBase(Source.names, q)
      BY <2>3, <2>4, <2>6, Roots, ResolveRooted
    <3> QED
      BY <2>3, <2>4, <2>5, <3>1, Roots, Zenon
  <2>7. CASE ~o.abs
    <3> DEFINE m == Pushed(TRUE, e, o.names)
    <3>1. Join(Abs(e), o) = Abs(m) /\ m \in Seq(Names)
      BY <2>3, <2>4, JoinAbs
    <3> HIDE DEF m
    <3>2. m = Named(c, o)
      <4>1. Join(dir, o).names = Named(c, o)
        BY <1>1, <2>2, <2>3, <2>7, ArrivesAsItIs
      <4> QED
        BY <2>4, <3>1, <4>1, LocalFacts, Zenon
    <3>3. IsWithinBase(Source.names, m)
      BY <1>1, <2>2, <2>3, <2>7, <3>2, ArrivesAsItIs
    <3>4. ResolvePlanStepPath(Abs(Source.names), Abs(e), o)
            = IF Clean(o) # Local(<<>>) /\ IsWithinBase(Source.names, Join(Abs(e), o).names)
              THEN Join(Abs(e), o) ELSE Refused
      BY <2>3, <2>4, <2>7, Roots, ResolveStep
    <3>5. Join(Abs(e), o).names = m
      BY <3>1, LocalFacts, Zenon
    <3>6. Clean(o) # Local(<<>>) => ResolvePlanStepPath(Source, dir, o) = Abs(m)
      BY <2>4, <3>1, <3>3, <3>4, <3>5, Roots, Zenon
    <3> QED
      BY <2>3, <2>5, <3>1, <3>3, <3>6, Zenon
  <2> QED
    BY <2>6, <2>7
<1> QED
  BY <1>1, <1>2, <1>4, <1>5, <1>6

-----------------------------------------------------------------------------
\* What the steps that make files and folders do.

\* Why sarver refuses a path of step i.
Unresolved(i) ==
  \/ ~IsLocal(steps[i].dir)
  \/ plan[i].opt.kind = "pdb" /\ Leaves(plan[i], plan[i].opt.path)
  \/ \E o \in Prepared(steps[i]) : Clean(o) = Local(<<>>)

\* What preparePlanStepFilesystem may do: it makes folders in the workspace, and goes
\* on only if every output was resolved.
LEMMA PrepareSteps ==
  ASSUME TypeOK, PlanInv, Prepare
  PROVE  /\ UNCHANGED <<lang, plan, steps, artifact, served, files, outside, step>>
         /\ dirs \subseteq dirs'
         /\ \A d \in dirs' \ dirs :
              d \in Seq(Names) /\ d # <<>> /\ Below(d) /\ d \notin files
         /\ \/ /\ pc' = "run" /\ why' = why
               /\ StepDir(steps[step]) # Refused
               /\ \A o \in Prepared(steps[step]) :
                    ResolvePlanStepPath(Source, StepDir(steps[step]), o) # Refused
            \/ pc' = "abandon" /\ why' \in {"blocked", "other"}
            \/ pc' = "abandon" /\ why' = "path" /\ Unresolved(step)
<1> DEFINE s == steps[step]
           dir == StepDir(s)
           Resolved(o) == ResolvePlanStepPath(Source, dir, o)
           Folder(o) == Dir(Resolved(o)).names
           bad == {o \in Prepared(s) : Resolved(o) = Refused}
           blocked == {o \in Prepared(s) \ bad : ~CanMake(Folder(o))}
           folders == {Folder(o) : o \in Prepared(s) \ (bad \cup blocked)}
<1>1. /\ UNCHANGED <<files, outside>>
      /\ \/ dir = Refused /\ Abandon("path") /\ UNCHANGED dirs
         \/ dir # Refused /\ ~CanMake(dir.names) /\ Abandon("blocked") /\ UNCHANGED dirs
         \/ /\ dir # Refused /\ CanMake(dir.names)
            /\ \E made \in SUBSET folders :
                 /\ dirs' = dirs \cup UNION {Parents(f) : f \in made \cup {dir.names}}
                 /\ \/ made = folders /\ bad \cup blocked = {} /\ Proceed("run")
                    \/ bad # {} /\ Abandon("path")
                    \/ blocked # {} /\ Abandon("blocked")
                    \/ Abandon("other")
  BY DEF Prepare
<1>2. step \in DOMAIN plan
  BY LenProperties DEF TypeOK, Prepare
<1> DEFINE c == plan[step]
<1>3. /\ c \in Commands /\ s = RewriteBuildStepForRemote(c)
      /\ s.dir # Refused /\ s.out # Refused /\ s.opt.path # Refused
      /\ s.opt.kind = c.opt.kind
  BY <1>2, StepType
<1> HIDE DEF c
<1>4. dir = Refused => ~IsLocal(s.dir)
  BY <1>3, StepDirFacts
<1>5. CASE dir = Refused
  BY <1>1, <1>4, <1>5 DEF Abandon, GoTo, Unresolved
<1>6. CASE dir # Refused /\ ~CanMake(dir.names)
  BY <1>1, <1>6 DEF Abandon, GoTo
<1>7. CASE dir # Refused /\ CanMake(dir.names)
  <2>1. PICK made \in SUBSET folders :
          /\ dirs' = dirs \cup UNION {Parents(f) : f \in made \cup {dir.names}}
          /\ \/ made = folders /\ bad \cup blocked = {} /\ Proceed("run")
             \/ bad # {} /\ Abandon("path")
             \/ blocked # {} /\ Abandon("blocked")
             \/ Abandon("other")
    BY <1>1, <1>7
  <2>2. ASSUME NEW f \in made \cup {dir.names}
        PROVE  f \in Seq(Names) /\ Below(f) /\ CanMake(f)
    <3>1. CASE f = dir.names
      <4>1. f \in Seq(Names) /\ IsWithinBase(Source.names, f)
        BY <1>3, <1>7, <3>1, StepDirFacts
      <4> QED
        BY <1>7, <3>1, <4>1 DEF Below
    <3>2. CASE f \in made
      <4>1. PICK o \in Prepared(s) : Resolved(o) # Refused /\ f = Folder(o) /\ CanMake(f)
        BY <2>1, <3>2
      <4>2. o \in Path
        <5>1. s.out \in Path /\ (s.opt.kind \in {"implib", "pdb"} => s.opt.path \in Path)
          BY <1>2, <1>7, StepPaths
        <5> QED
          BY <5>1 DEF Prepared
      <4> DEFINE q == Resolved(o)
      <4>3. q.names \in Seq(Names) /\ IsWithinBase(Source.names, q.names)
        BY <1>3, <1>7, <4>1, <4>2, ResolvedWithin
      <4> HIDE DEF q
      <4>4. Dir(q).names \in Seq(Names) /\ Below(Dir(q).names)
        BY <4>3, FolderBelow
      <4> QED
        BY <4>1, <4>4 DEF q
    <3> QED
      BY <3>1, <3>2
  <2>3. \A d \in dirs' \ dirs : d \in Seq(Names) /\ d # <<>> /\ Below(d) /\ d \notin files
    <3> SUFFICES ASSUME NEW d \in dirs' \ dirs
                 PROVE  d \in Seq(Names) /\ d # <<>> /\ Below(d) /\ d \notin files
      OBVIOUS
    <3>1. PICK f \in made \cup {dir.names} : d \in Parents(f)
      BY <2>1
    <3>2. f \in Seq(Names) /\ Below(f) /\ CanMake(f)
      BY <2>2
    <3>3. d \in Seq(Names) /\ d # <<>> /\ Below(d)
      BY <3>1, <3>2, ParentsBelow
    <3> QED
      BY <3>1, <3>2, <3>3 DEF CanMake
  <2>4. dirs \subseteq dirs'
    BY <2>1
  <2>5. bad # {} => Unresolved(step)
    <3> SUFFICES ASSUME NEW o \in Prepared(s), Resolved(o) = Refused PROVE Unresolved(step)
      OBVIOUS
    <3>1. \/ plan[step].opt.kind = "pdb" /\ Leaves(plan[step], plan[step].opt.path)
          \/ Clean(o) = Local(<<>>)
      BY <1>2, <1>7, OnlyRefused
    <3> QED
      BY <3>1 DEF Unresolved
  <2>6. bad = {} => \A o \in Prepared(s) : Resolved(o) # Refused
    OBVIOUS
  <2> HIDE DEF bad, blocked, folders
  <2>7. \/ pc' = "run" /\ why' = why /\ step' = step /\ bad = {}
        \/ pc' = "abandon" /\ step' = step /\ why' \in {"blocked", "other"}
        \/ pc' = "abandon" /\ step' = step /\ why' = "path" /\ bad # {}
    BY <2>1 DEF Proceed, Abandon, GoTo
  <2>8. UNCHANGED <<lang, plan, steps, artifact, served>>
    BY <2>1 DEF Proceed, Abandon, GoTo
  <2> QED
    BY <1>1, <1>7, <2>3, <2>4, <2>5, <2>6, <2>7, <2>8
<1> QED
  BY <1>5, <1>6, <1>7

\* The only absolute path that is left in a step is that of --pdb (rewriteCommandPath,
\* linkerOptionTakesPath).
LEMMA RootedIsPdb ==
  ASSUME TypeOK, PlanInv, NEW i \in DOMAIN plan, StepDir(steps[i]) # Refused,
         NEW o \in Writes(steps[i]), o.abs
  PROVE  Spilt(o)
<1> DEFINE c == plan[i]
           s == steps[i]
<1>1. /\ c \in Commands /\ s = RewriteBuildStepForRemote(c)
      /\ s.dir # Refused /\ s.out # Refused /\ s.opt.path # Refused
      /\ StepDir(s) # Refused /\ s.opt.kind = c.opt.kind
      /\ c.out \in Path /\ c.opt.path \in Path /\ c.opt.kind \in Kinds
  BY StepType, CommandType
<1>2. s.out = RewriteCommandPath(HostRoot, HostDirOf(c), c.out)
  BY <1>1 DEF RewriteBuildStepForRemote, HostDirOf
<1>3. s.opt.path = IF c.opt.kind \in {"implib", "map"}
                   THEN RewriteCommandPath(HostRoot, HostDirOf(c), c.opt.path) ELSE c.opt.path
  BY <1>1, OptionRewritten
<1>4. o = s.out \/ (o = s.opt.path /\ c.opt.kind # "none")
  BY <1>1 DEF Writes
<1> HIDE DEF c, s
<1>5. ASSUME NEW raw \in Path, o = RewriteCommandPath(HostRoot, HostDirOf(c), raw), o # Refused
      PROVE  FALSE
  <2>1. RewriteBuildStepForRemote(c).dir # Refused
        /\ StepDir(RewriteBuildStepForRemote(c)) # Refused
        /\ RewriteCommandPath(HostRoot, HostDirOf(c), raw) # Refused
    BY <1>1, <1>5, Zenon
  <2>2. ~RewriteCommandPath(HostRoot, HostDirOf(c), raw).abs
    BY <1>1, <2>1, Arrives
  <2> QED
    BY <1>5, <2>2
<1>6. o = c.opt.path /\ c.opt.kind = "pdb"
  BY <1>1, <1>2, <1>3, <1>4, <1>5 DEF Kinds
<1> QED
  BY <1>1, <1>6 DEF Spilt

\* RunStep writes files that mirror the host's and are not folders, beside them only a
\* --pdb, and misses no input but one that is not there.
LEMMA RunSteps ==
  ASSUME TypeOK, PlanInv, ReadyInv, RunStep
  PROVE  /\ UNCHANGED <<lang, plan, steps, artifact, served, dirs>>
         /\ files \subseteq files'
         /\ \A f \in files' \ files :
              /\ f \in Seq(Names) /\ f \notin dirs
              /\ IsWithinBase(Source.names, f) /\ Mirrors(f, step)
         /\ \A p \in outside' \ outside : Spilt(p)
         /\ \/ pc' = "check" /\ step' = step /\ why' = why
            \/ pc' = "prepare" /\ step < Len(steps) /\ step' = step + 1 /\ why' = why
            \/ pc' = "abandon" /\ step' = step /\ why' \in {"blocked", "other"}
            \/ /\ pc' = "abandon" /\ step' = step /\ why' = "input" /\ UNCHANGED files
               /\ \/ Leaves(plan[step], plan[step].in)
                  \/ Named(plan[step], plan[step].in) \notin files
<1> DEFINE s == steps[step]
           Place(p) == Join(StepDir(s), p).names
           rooted == {o \in Writes(s) : o.abs}
           written == {Place(o) : o \in Writes(s) \ rooted}
           writable == \A o \in written : o \notin dirs /\ Front(o) \in dirs \cup {<<>>}
<1>1. /\ UNCHANGED dirs /\ pc = "run"
      /\ \/ Place(s.in) \notin files /\ Abandon("input") /\ UNCHANGED <<files, outside>>
         \/ /\ Place(s.in) \in files /\ ~writable
            /\ Abandon("blocked") /\ UNCHANGED <<files, outside>>
         \/ /\ Place(s.in) \in files /\ writable
            /\ \E made \in SUBSET written, spilt \in SUBSET rooted :
                 /\ files' = files \cup made /\ outside' = outside \cup spilt
                 /\ \/ Abandon("other")
                    \/ step = Len(steps) /\ Proceed("check")
                    \/ step < Len(steps) /\ GoTo("prepare") /\ step' = step + 1 /\ UNCHANGED why
  BY DEF RunStep
<1>2. step \in DOMAIN plan
  BY <1>1, LenProperties DEF TypeOK
<1>3. /\ StepDir(s) # Refused
      /\ \A o \in Prepared(s) : ResolvePlanStepPath(Source, StepDir(s), o) # Refused
  BY <1>1 DEF ReadyInv
<1>4. CASE Place(s.in) \notin files /\ Abandon("input") /\ UNCHANGED <<files, outside>>
  <2>1. Leaves(plan[step], plan[step].in) \/ Place(s.in) = Named(plan[step], plan[step].in)
    BY <1>2, <1>3, InputArrives
  <2> HIDE DEF Place, rooted, written, writable
  <2> QED
    BY <1>1, <1>4, <2>1 DEF Abandon, GoTo
<1>5. CASE /\ Place(s.in) \in files /\ ~writable
           /\ Abandon("blocked") /\ UNCHANGED <<files, outside>>
  BY <1>1, <1>5 DEF Abandon, GoTo
<1>6. CASE /\ Place(s.in) \in files /\ writable
           /\ \E made \in SUBSET written, spilt \in SUBSET rooted :
                /\ files' = files \cup made /\ outside' = outside \cup spilt
                /\ \/ Abandon("other")
                   \/ step = Len(steps) /\ Proceed("check")
                   \/ step < Len(steps) /\ GoTo("prepare") /\ step' = step + 1 /\ UNCHANGED why
  <2>1. PICK made \in SUBSET written, spilt \in SUBSET rooted :
          /\ files' = files \cup made /\ outside' = outside \cup spilt
          /\ \/ Abandon("other")
             \/ step = Len(steps) /\ Proceed("check")
             \/ step < Len(steps) /\ GoTo("prepare") /\ step' = step + 1 /\ UNCHANGED why
    BY <1>6
  <2>2. ASSUME NEW f \in made
        PROVE  /\ f \in Seq(Names) /\ f \notin dirs
               /\ IsWithinBase(Source.names, f) /\ Mirrors(f, step)
    <3>1. PICK o \in Writes(s) : f = Place(o) /\ ~o.abs
      BY <2>1
    <3>2. f \notin dirs
      BY <1>6, <2>1
    <3> QED
      BY <1>2, <1>3, <3>1, <3>2, WrittenMirrors
  <2>3. files \subseteq files' /\ files' \ files \subseteq made
    BY <2>1
  <2>4. ASSUME NEW p \in spilt PROVE Spilt(p)
    BY <1>2, <1>3, <2>1, RootedIsPdb
  <2>5. \A p \in outside' \ outside : Spilt(p)
    BY <2>1, <2>4
  <2> HIDE DEF Place, rooted, written, writable
  <2> QED
    BY <1>1, <2>1, <2>2, <2>3, <2>5 DEF Abandon, Proceed, GoTo
<1> HIDE DEF Place, rooted, written, writable
<1> QED
  BY <1>1, <1>4, <1>5, <1>6

\* Extract makes files of the archive and the folders above them.
LEMMA ExtractSteps ==
  ASSUME TypeOK, WithinInv, Extract
  PROVE  /\ UNCHANGED <<lang, plan, steps, artifact, served, step>>
         /\ \/ pc' = "resolve" /\ why' = why /\ \A h \in SourceArchive : Source.names \o h \in files'
            \/ pc' = "abandon" /\ why' = "other"
         /\ \A f \in files' :
              /\ f \in Seq(Names) /\ f # <<>> /\ IsWithinBase(Source.names, f)
              /\ f \in {Source.names \o h : h \in HostFiles}
         /\ \A d \in dirs' : d \in Seq(Names) /\ d # <<>> /\ Below(d)
         /\ dirs' \cap files' = {}
<1>1. PICK entries \in SUBSET SourceArchive :
        /\ \/ Proceed("resolve") /\ entries = SourceArchive
           \/ Abandon("other")
        /\ files' = {Source.names \o f : f \in entries}
        /\ dirs' = dirs \cup UNION {Parents(Source.names \o Front(f)) : f \in entries}
  BY DEF Extract
<1> DEFINE src == Source.names
<1>2. src \in Seq(Names) /\ Len(src) = 2 /\ src = <<"w", "src">>
  BY Roots
<1>3. ASSUME NEW h \in entries
      PROVE  /\ h \in HostFiles /\ h \in Seq(Names) /\ h # <<>> /\ Front(h) \in Seq(Names)
             /\ h = Append(Front(h), Last(h)) /\ Last(h) \in Names
  <2>1. h \in HostFiles
    BY <1>1 DEF SourceArchive
  <2>2. h \in Seq(Names) /\ h # <<>>
    BY <2>1, PlanAssumption
  <2> QED
    BY <2>1, <2>2, FrontFacts
<1> HIDE DEF src
<1>4. ASSUME NEW f \in files'
      PROVE  /\ f \in Seq(Names) /\ f # <<>> /\ IsWithinBase(src, f)
             /\ Len(f) > 2 /\ \E h \in entries : f = src \o h
  <2>1. PICK h \in entries : f = src \o h
    BY <1>1 DEF src
  <2>2. h \in Seq(Names) /\ h # <<>>
    BY <1>3
  <2>3. f \in Seq(Names) /\ Len(f) = Len(src) + Len(h) /\ Len(h) \in Nat
    BY <1>2, <2>1, <2>2, ConcatFacts
  <2>4. Len(h) # 0
    BY <2>2, EmptySeq
  <2>5. IsWithinBase(src, f)
    BY <1>2, <2>1, <2>2, WithinConcat
  <2>6. Len(f) > 2
    BY <1>2, <2>3, <2>4
  <2>7. f # <<>>
    BY <2>6, EmptySeq
  <2> QED
    BY <2>1, <2>3, <2>5, <2>6, <2>7
<1>5. ASSUME NEW h \in entries, NEW d \in Parents(src \o Front(h))
      PROVE  d \in Seq(Names) /\ d # <<>> /\ Below(d) /\ d \notin files'
  <2> DEFINE t == Front(h)
             y == src \o t
  <2>1. t \in Seq(Names) /\ h = Append(t, Last(h)) /\ Last(h) \in Names /\ h \in HostFiles
        /\ h \in Seq(Names)
    BY <1>3
  <2> HIDE DEF t
  <2>2. y \in Seq(Names) /\ IsWithinBase(src, y)
    BY <1>2, <2>1, ConcatFacts, WithinConcat
  <2>3. d \in Parents(y)
    BY <1>5 DEF t
  <2> HIDE DEF y
  <2>4. d \in Seq(Names) /\ d # <<>> /\ Below(d)
    BY <2>2, <2>3, ParentsBelow DEF Below, src
  <2>5. Len(d) \in 1..Len(y) /\ \A i \in 1..Len(d) : d[i] = y[i]
    BY <2>2, <2>3, ParentsFacts
  <2>6. ASSUME d \in files' PROVE FALSE
    <3>1. PICK g \in entries : d = src \o g
      BY <1>4, <2>6
    <3>2. g \in HostFiles /\ g \in Seq(Names)
      BY <1>3
    <3>3. /\ Len(d) = Len(src) + Len(g) /\ Len(g) \in Nat
          /\ \A i \in 1..Len(g) : d[Len(src) + i] = g[i]
      BY <1>2, <3>1, <3>2, ConcatFacts
    <3>4. /\ Len(y) = Len(src) + Len(t) /\ Len(t) \in Nat
          /\ \A i \in 1..Len(t) : y[Len(src) + i] = t[i]
      BY <1>2, <2>1, ConcatFacts DEF y
    <3>5. /\ Len(h) = Len(t) + 1 /\ \A i \in 1..Len(t) : h[i] = t[i]
      BY <2>1, AppendFacts
    <3>6. Len(g) <= Len(t) /\ \A i \in 1..Len(g) : g[i] = h[i] /\ i \in 1..Len(h)
      <4>1. Len(g) <= Len(t)
        BY <1>2, <2>5, <3>3, <3>4
      <4>2. ASSUME NEW i \in 1..Len(g) PROVE g[i] = h[i] /\ i \in 1..Len(h)
        <5>1. i \in 1..Len(t) /\ Len(src) + i \in 1..Len(d)
          BY <1>2, <3>3, <3>4, <4>1
        <5>2. d[Len(src) + i] = g[i] /\ y[Len(src) + i] = t[i] /\ h[i] = t[i]
          BY <3>3, <3>4, <3>5, <5>1
        <5>3. d[Len(src) + i] = y[Len(src) + i]
          BY <2>5, <5>1
        <5> QED
          BY <3>4, <3>5, <5>1, <5>2, <5>3
      <4> QED
        BY <4>1, <4>2
    <3>7. IsWithinBase(g, h)
      <4>1. DOMAIN g = 1..Len(g) /\ DOMAIN h = 1..Len(h)
        BY <2>1, <3>2, LenProperties
      <4> QED
        BY <3>6, <4>1 DEF IsWithinBase
    <3>8. g = h
      BY <2>1, <3>2, <3>7, PlanAssumption
    <3> QED
      BY <3>4, <3>5, <3>6, <3>8
  <2> QED
    BY <2>4, <2>6
<1>6. ASSUME NEW d \in dirs' PROVE d \in Seq(Names) /\ d # <<>> /\ Below(d) /\ d \notin files'
  <2>1. CASE d \in dirs
    <3>1. d \in Seq(Names) /\ d # <<>> /\ Below(d)
      BY <2>1 DEF TypeOK, WithinInv
    <3>2. Len(d) <= 2
      BY <2>1 DEF WithinInv, Extract
    <3>3. d \notin files'
      <4>1. d \in files' => Len(d) > 2
        BY <1>4
      <4>2. Len(d) \in Nat
        BY <3>1, LenProperties
      <4> QED
        BY <3>2, <4>1, <4>2
    <3> QED
      BY <3>1, <3>3
  <2>2. CASE d \notin dirs
    <3>1. PICK h \in entries : d \in Parents(src \o Front(h))
      BY <1>1, <2>2 DEF src
    <3> QED
      BY <1>5, <3>1
  <2> QED
    BY <2>1, <2>2
<1>7. \A f \in files' : f \in {src \o h : h \in HostFiles}
  BY <1>3, <1>4
<1>8. /\ UNCHANGED <<lang, plan, steps, artifact, served, step>>
      /\ \/ pc' = "resolve" /\ why' = why /\ \A h \in SourceArchive : src \o h \in files'
         \/ pc' = "abandon" /\ why' = "other"
  BY <1>1 DEF Proceed, Abandon, GoTo, src
<1> QED
  BY <1>4, <1>6, <1>7, <1>8 DEF src

-----------------------------------------------------------------------------
\* The invariant is inductive: each part in turn.

LEMMA ResetSteps ==
  ASSUME Reset
  PROVE  /\ plan' \in Seq(Commands) /\ steps' \in Seq(Steps)
         /\ Len(plan') = 0 /\ Len(steps') = 0 /\ DOMAIN plan' = {} /\ DOMAIN steps' = {}
<1>1. plan' = <<>> /\ steps' = <<>>
  BY DEF Reset
<1> QED
  BY <1>1, EmptySeq

\* What a command adds to a plan (exportNinjaBuildPlan).
LEMMA AddSteps ==
  ASSUME TypeOK, PlanInv, NEW c \in Commands, AddCommand(c), ~Reset
  PROVE  LET s == RewriteBuildStepForRemote(c) IN
         /\ plan' = Append(plan, c) /\ steps' = Append(steps, s) /\ artifact' = FinalArtifact(c)
         /\ plan' \in Seq(Commands) /\ steps' \in Seq(Steps)
         /\ Len(plan') = Len(plan) + 1 /\ Len(steps') = Len(plan) + 1 /\ Len(plan) < MaxSteps
         /\ DOMAIN plan' = 1..(Len(plan) + 1) /\ DOMAIN steps' = 1..(Len(plan) + 1)
         /\ DOMAIN plan = 1..Len(plan) /\ DOMAIN steps = 1..Len(plan) /\ Len(plan) \in Nat
         /\ \A i \in 1..Len(plan) : plan'[i] = plan[i] /\ steps'[i] = steps[i]
         /\ plan'[Len(plan) + 1] = c /\ steps'[Len(plan) + 1] = s
         /\ Refused \notin {s.dir, s.out, s.in, s.opt.path}
         /\ UNCHANGED <<pc, lang, step, why, served, dirs, files, outside>>
<1> DEFINE s == RewriteBuildStepForRemote(c)
<1>1. /\ plan' = Append(plan, c) /\ steps' = Append(steps, s) /\ artifact' = FinalArtifact(c)
      /\ Len(plan) < MaxSteps
      /\ Refused \notin {s.dir, s.out, s.in, s.opt.path}
      /\ UNCHANGED <<pc, lang, step, why, served, dirs, files, outside>>
  BY DEF AddCommand
<1>2. s \in Steps
  BY DEF Steps
<1> HIDE DEF s
<1>3. plan \in Seq(Commands) /\ steps \in Seq(Steps) /\ Len(steps) = Len(plan)
  BY DEF TypeOK, PlanInv
<1>4. Len(plan) \in Nat /\ DOMAIN plan = 1..Len(plan) /\ DOMAIN steps = 1..Len(plan)
  BY <1>3, LenProperties
<1>5. /\ plan' \in Seq(Commands) /\ Len(plan') = Len(plan) + 1
      /\ \A i \in 1..Len(plan) : plan'[i] = plan[i]
      /\ plan'[Len(plan) + 1] = c
  BY <1>1, <1>3, AppendFacts
<1>6. /\ steps' \in Seq(Steps) /\ Len(steps') = Len(steps) + 1
      /\ \A i \in 1..Len(steps) : steps'[i] = steps[i]
      /\ steps'[Len(steps) + 1] = s
  BY <1>1, <1>2, <1>3, AppendFacts
<1>7. DOMAIN plan' = 1..(Len(plan) + 1) /\ DOMAIN steps' = 1..(Len(plan) + 1)
  <2>1. DOMAIN plan' = 1..Len(plan') /\ DOMAIN steps' = 1..Len(steps')
    BY <1>5, <1>6, LenProperties
  <2> QED
    BY <1>3, <1>5, <1>6, <2>1
<1> QED
  BY <1>1, <1>3, <1>4, <1>5, <1>6, <1>7 DEF s

\* What a step makes beside the workspace are go's caches and files of --pdb.
LEMMA OutsideStep ==
  ASSUME IInv, [Next]_vars
  PROVE  OutsideInv'
<1> USE DEF IInv
<1>1. ASSUME UNCHANGED outside PROVE OutsideInv'
  BY <1>1 DEF OutsideInv, Spilt, GoCaches
<1>2. ASSUME NEW c \in Commands, AddCommand(c) PROVE OutsideInv'
  BY <1>1, <1>2 DEF AddCommand
<1>3. CASE Submit \/ MakeWorkspace \/ MakeSource \/ Extract \/ ResolveArtifact
  BY <1>1, <1>3 DEF Submit, MakeWorkspace, MakeSource, Extract, ResolveArtifact
<1>4. CASE RunCommand
  BY <1>4 DEF RunCommand, OutsideInv, Spilt, GoCaches
<1>5. CASE RunStep
  <2>1. \A p \in outside' \ outside : Spilt(p)
    BY <1>5, RunSteps
  <2> QED
    BY <2>1 DEF OutsideInv, Spilt, GoCaches
<1>6. CASE Prepare
  BY <1>1, <1>6, PrepareSteps
<1>7. CASE CheckArtifact \/ Deliver \/ Cleanup
  BY <1>1, <1>7 DEF CheckArtifact, Deliver, Cleanup
<1>8. CASE UNCHANGED vars
  BY <1>1, <1>8 DEF vars
<1> QED
  BY <1>2, <1>3, <1>4, <1>5, <1>6, <1>7, <1>8 DEF Next

\* Every step keeps the types.
LEMMA TypeStep ==
  ASSUME IInv, [Next]_vars
  PROVE  TypeOK'
<1>0. outside' \subseteq Path
  <2>1. \A p \in outside' : p = GoCaches \/ Spilt(p)'
    BY OutsideStep DEF OutsideInv, GoCaches
  <2>2. \A p : Spilt(p)' => p \in Path
    BY CommandType DEF Spilt
  <2> QED
    BY <2>1, <2>2, Roots
<1> USE <1>0 DEF IInv
<1>1. ASSUME NEW c \in Commands, AddCommand(c) PROVE TypeOK'
  <2>1. CASE Reset
    <3>1. UNCHANGED <<dirs, files>>
      BY <1>1 DEF AddCommand
    <3> QED
      BY <2>1, <3>1, ResetSteps, PlanAssumption DEF TypeOK, Reset
  <2>2. CASE ~Reset
    <3>1. \A i \in DOMAIN steps' :
            /\ steps'[i].opt.kind \in Kinds
            /\ Refused \notin {steps'[i].dir, steps'[i].out, steps'[i].in, steps'[i].opt.path}
      <4> SUFFICES ASSUME NEW i \in DOMAIN steps'
                   PROVE  /\ steps'[i].opt.kind \in Kinds
                          /\ Refused \notin {steps'[i].dir, steps'[i].out, steps'[i].in, steps'[i].opt.path}
        OBVIOUS
      <4>1. i \in 1..Len(plan) \/ i = Len(plan) + 1
        BY <1>1, <2>2, AddSteps
      <4>2. CASE i \in 1..Len(plan)
        <5>1. steps'[i] = steps[i] /\ i \in DOMAIN steps
          BY <1>1, <2>2, <4>2, AddSteps
        <5> QED
          BY <5>1 DEF TypeOK
      <4>3. CASE i = Len(plan) + 1
        <5>1. steps'[i] = RewriteBuildStepForRemote(c)
          BY <1>1, <2>2, <4>3, AddSteps
        <5>2. RewriteBuildStepForRemote(c).opt.kind \in Kinds
          BY RewriteKind, CommandType
        <5> QED
          BY <1>1, <2>2, <5>1, <5>2, AddSteps
      <4> QED
        BY <4>1, <4>2, <4>3
    <3>2. plan' \in Seq(Commands) /\ Len(plan') <= MaxSteps /\ Len(steps') = Len(plan')
      BY <1>1, <2>2, AddSteps, PlanAssumption
    <3>3. UNCHANGED <<pc, lang, step, why, served, dirs, files>> /\ pc = "plan"
      BY <1>1, <2>2, AddSteps DEF AddCommand
    <3> QED
      BY <3>1, <3>2, <3>3 DEF TypeOK
  <2> QED
    BY <2>1, <2>2
<1>2. CASE Submit
  <2>1. UNCHANGED <<dirs, files>> /\ pc = "plan"
    BY <1>2 DEF Submit
  <2>2. CASE Reset
    BY <2>1, <2>2, ResetSteps, PlanAssumption DEF TypeOK, Reset
  <2>3. CASE ~Reset
    BY <1>2, <2>1, <2>3 DEF Submit, TypeOK
  <2> QED
    BY <2>2, <2>3
<1>3. CASE MakeWorkspace
  <2>1. /\ UNCHANGED <<lang, plan, steps, step, files>> /\ pc' \in {"source", "abandon"}
        /\ why' \in {why, "other"} /\ (why' # "none" => pc' = "abandon")
        /\ dirs' \subseteq {Workspace} /\ files = {}
    BY <1>3 DEF MakeWorkspace, Proceed, Abandon, GoTo, TypeOK, WithinInv
  <2>2. Workspace \in Seq(Names) /\ Workspace # <<>>
    BY Roots
  <2> QED
    BY <2>1, <2>2 DEF TypeOK
<1>4. CASE MakeSource
  <2>1. /\ UNCHANGED <<lang, plan, steps, step, files>> /\ pc' \in {"extract", "abandon"}
        /\ why' \in {why, "other"} /\ (why' # "none" => pc' = "abandon")
        /\ dirs' \subseteq dirs \cup Parents(Source.names) /\ files = {}
    BY <1>4 DEF MakeSource, Proceed, Abandon, GoTo, TypeOK, WithinInv
  <2>2. \A d \in Parents(Source.names) : d \in Seq(Names) /\ d # <<>>
    BY Roots, ParentsFacts
  <2> QED
    BY <2>1, <2>2 DEF TypeOK
<1>5. CASE Extract
  <2>1. \A p \in dirs' \cup files' : p \in Seq(Names) /\ p # <<>>
    BY <1>5, ExtractSteps
  <2>2. /\ dirs' \cap files' = {} /\ UNCHANGED <<lang, plan, steps, step>>
        /\ pc' \in {"resolve", "abandon"} /\ why' \in {why, "other"}
        /\ (pc' = "resolve" => why' = why)
    BY <1>5, ExtractSteps
  <2>3. why = "none"
    BY <1>5 DEF Extract, TypeOK
  <2> QED
    BY <2>1, <2>2, <2>3 DEF TypeOK
<1>6. CASE ResolveArtifact
  <2>1. /\ UNCHANGED <<dirs, files, lang, plan, steps>> /\ why = "none"
        /\ \/ pc' = "abandon" /\ why' \in {"path", "other"} /\ step' = step
           \/ pc' = "command" /\ why' = why /\ step' = step
           \/ pc' = "prepare" /\ why' = why /\ lang = "plan" /\ step' = 1
    BY <1>6 DEF ResolveArtifact, Proceed, Abandon, GoTo, TypeOK
  <2>2. lang = "plan" => 1 \in 1..Len(plan)
    <3> SUFFICES ASSUME lang = "plan" PROVE 1 \in 1..Len(plan)
      OBVIOUS
    <3>1. PICK i \in DOMAIN plan : plan[i].links
      BY <1>6 DEF PlanInv, ResolveArtifact
    <3>2. DOMAIN plan = 1..Len(plan) /\ Len(plan) \in Nat
      BY LenProperties DEF TypeOK
    <3> QED
      BY <3>1, <3>2
  <2> QED
    BY <2>1, <2>2 DEF TypeOK
<1>7. CASE RunCommand
  <2>1. /\ UNCHANGED <<dirs, lang, plan, steps, step>> /\ why = "none"
        /\ pc' \in {"deliver", "abandon"} /\ why' \in {why, "other"}
        /\ (pc' = "deliver" => why' = why)
        /\ files' \subseteq files \cup {OutputPath.names}
    BY <1>7 DEF RunCommand, Proceed, Abandon, GoTo, TypeOK
  <2>2. OutputPath.names = <<"w", "output">>
    <3>1. artifact = None
      <4>1. plan = <<>>
        BY <1>7 DEF RunCommand, PlanInv
      <4>2. DOMAIN plan = {}
        BY <4>1, EmptySeq
      <4> QED
        BY <4>2 DEF PlanInv
    <3> QED
      BY <3>1 DEF OutputPath, Abs
  <2>3. <<"w", "output">> \notin dirs
    <3>1. ~Below(<<"w", "output">>)
      <4>1. ~IsWithinBase(<<"w", "src">>, <<"w", "output">>)
        BY DEF IsWithinBase
      <4>2. <<"w", "output">> # <<"w">>
        OBVIOUS
      <4> QED
        BY <4>1, <4>2, Roots DEF Below
    <3> QED
      BY <3>1 DEF WithinInv
  <2>4. <<"w", "output">> \in Seq(Names) /\ <<"w", "output">> # <<>>
    BY Roots
  <2> QED
    BY <2>1, <2>2, <2>3, <2>4 DEF TypeOK
<1>8. CASE Prepare
  <2>1. /\ \A d \in dirs' \ dirs : d \in Seq(Names) /\ d # <<>> /\ d \notin files
        /\ UNCHANGED <<lang, plan, steps, files, step>>
        /\ \/ pc' = "run" /\ why' = why
           \/ pc' = "abandon" /\ why' \in {"blocked", "other", "path"}
    BY <1>8, PrepareSteps
  <2>2. step \in 1..Len(plan) /\ lang = "plan" /\ why = "none"
    BY <1>8 DEF Prepare, TypeOK
  <2> QED
    BY <2>1, <2>2 DEF TypeOK
<1>9. CASE RunStep
  <2>1. /\ \A f \in files' \ files : f \in Seq(Names) /\ f # <<>> /\ f \notin dirs
        /\ UNCHANGED <<lang, plan, steps, dirs>>
        /\ \/ pc' = "check" /\ step' = step /\ why' = why
           \/ pc' = "prepare" /\ step < Len(steps) /\ step' = step + 1 /\ why' = why
           \/ pc' = "abandon" /\ step' = step /\ why' \in {"blocked", "other", "input"}
    <3>1. \A f \in files' \ files : f \in Seq(Names) /\ f \notin dirs /\ IsWithinBase(Source.names, f)
      BY <1>9, RunSteps
    <3>2. ~IsWithinBase(Source.names, <<>>)
      BY Roots DEF IsWithinBase
    <3>3. \A f \in files' \ files : f # <<>>
      BY <3>1, <3>2
    <3> QED
      BY <1>9, <3>1, <3>3, RunSteps
  <2>2. step \in 1..Len(plan) /\ lang = "plan" /\ why = "none" /\ Len(plan) \in Nat
    BY <1>9, LenProperties DEF RunStep, TypeOK
  <2>3. step < Len(steps) => step + 1 \in 1..Len(plan)
    BY <2>2 DEF TypeOK
  <2> QED
    BY <2>1, <2>2, <2>3 DEF TypeOK
<1>10. CASE CheckArtifact
  BY <1>10 DEF CheckArtifact, Proceed, Abandon, GoTo, TypeOK
<1>11. CASE Deliver
  BY <1>11 DEF Deliver, TypeOK
<1>12. CASE Cleanup
  <2>1. dirs' \subseteq dirs /\ files' \subseteq files /\ Reset
    BY <1>12 DEF Cleanup
  <2> QED
    BY <2>1, ResetSteps, PlanAssumption DEF TypeOK, Reset
<1>13. CASE UNCHANGED vars
  BY <1>13 DEF vars, TypeOK
<1> QED
  BY <1>1, <1>2, <1>3, <1>4, <1>5, <1>6, <1>7, <1>8, <1>9, <1>10, <1>11, <1>12, <1>13 DEF Next

\* Every step keeps the plan and what was made of it together: only AddCommand
\* changes either.
LEMMA PlanStep ==
  ASSUME IInv, [Next]_vars
  PROVE  PlanInv'
<1> USE DEF IInv
<1>1. ASSUME NEW c \in Commands, AddCommand(c) PROVE PlanInv'
  <2>1. CASE Reset
    BY <2>1, ResetSteps DEF PlanInv, Reset
  <2>2. CASE ~Reset
    <3>1. \A i \in DOMAIN plan' : steps'[i] = RewriteBuildStepForRemote(plan'[i])
      <4> SUFFICES ASSUME NEW i \in DOMAIN plan'
                   PROVE  steps'[i] = RewriteBuildStepForRemote(plan'[i])
        OBVIOUS
      <4>1. i \in 1..Len(plan) \/ i = Len(plan) + 1
        BY <1>1, <2>2, AddSteps
      <4>2. CASE i \in 1..Len(plan)
        <5>1. steps'[i] = steps[i] /\ plan'[i] = plan[i] /\ i \in DOMAIN plan
          BY <1>1, <2>2, <4>2, AddSteps
        <5>2. steps[i] = RewriteBuildStepForRemote(plan[i])
          BY <5>1 DEF PlanInv
        <5> QED
          BY <5>1, <5>2, Zenon
      <4>3. CASE i = Len(plan) + 1
        <5>1. steps'[i] = RewriteBuildStepForRemote(c) /\ plan'[i] = c
          BY <1>1, <2>2, <4>3, AddSteps
        <5> QED
          BY <5>1, Zenon
      <4> QED
        BY <4>1, <4>2, <4>3
    <3>2. artifact' # None =>
            \E i \in DOMAIN plan' :
              /\ plan'[i].links /\ artifact' = OutputRel(plan'[i])
              /\ RewriteBuildStepForRemote(plan'[i]).out # Refused
              /\ \A j \in i + 1..Len(plan') : ~plan'[j].links
      <4> SUFFICES ASSUME artifact' # None
                   PROVE  \E i \in DOMAIN plan' :
                            /\ plan'[i].links /\ artifact' = OutputRel(plan'[i])
                            /\ RewriteBuildStepForRemote(plan'[i]).out # Refused
                            /\ \A j \in i + 1..Len(plan') : ~plan'[j].links
        OBVIOUS
      <4> DEFINE n == Len(plan) + 1
      <4>1. /\ artifact' = IF c.links THEN OutputRel(c) ELSE artifact
            /\ Len(plan) \in Nat /\ Len(plan') = n /\ DOMAIN plan' = 1..n /\ plan'[n] = c
            /\ \A i \in 1..Len(plan) : plan'[i] = plan[i]
            /\ DOMAIN plan = 1..Len(plan)
            /\ RewriteBuildStepForRemote(c).out # Refused
        BY <1>1, <2>2, AddSteps DEF FinalArtifact
      <4>2. CASE c.links
        <5>1. /\ n \in DOMAIN plan' /\ plan'[n].links /\ artifact' = OutputRel(plan'[n])
              /\ RewriteBuildStepForRemote(plan'[n]).out # Refused
          BY <4>1, <4>2
        <5>2. n + 1..Len(plan') = {}
          BY <4>1
        <5> QED
          BY <5>1, <5>2
      <4>3. CASE ~c.links
        <5>1. PICK i \in DOMAIN plan :
                /\ plan[i].links /\ artifact = OutputRel(plan[i])
                /\ RewriteBuildStepForRemote(plan[i]).out # Refused
                /\ \A j \in i + 1..Len(plan) : ~plan[j].links
          BY <4>1, <4>3 DEF PlanInv
        <5>2. i \in 1..Len(plan) /\ i \in DOMAIN plan' /\ plan'[i] = plan[i] /\ artifact' = artifact
          BY <4>1, <4>3
        <5>3. ASSUME NEW j \in i + 1..Len(plan') PROVE ~plan'[j].links
          <6>1. CASE j = n
            BY <4>1, <4>3, <6>1
          <6>2. CASE j # n
            <7>1. j \in 1..Len(plan) /\ j \in i + 1..Len(plan)
              BY <4>1, <5>2, <6>2
            <7>2. plan'[j] = plan[j] /\ ~plan[j].links
              BY <4>1, <5>1, <7>1
            <7> QED
              BY <7>2
          <6> QED
            BY <6>1, <6>2
        <5>4. /\ plan'[i].links /\ artifact' = OutputRel(plan'[i])
              /\ RewriteBuildStepForRemote(plan'[i]).out # Refused
          BY <5>1, <5>2, Zenon
        <5> QED
          BY <5>2, <5>3, <5>4
      <4> QED
        BY <4>2, <4>3
    <3>3. steps' \in Seq(Steps) /\ UNCHANGED <<pc, lang>> /\ pc = "plan"
      BY <1>1, <2>2, AddSteps DEF AddCommand
    <3> QED
      BY <3>1, <3>2, <3>3 DEF PlanInv
  <2> QED
    BY <2>1, <2>2
<1>2. CASE Submit
  <2>1. CASE Reset
    BY <2>1, ResetSteps DEF PlanInv, Reset
  <2>2. CASE ~Reset
    BY <1>2, <2>2 DEF Submit, PlanInv
  <2> QED
    BY <2>1, <2>2
<1>3. ASSUME UNCHANGED <<lang, plan, steps, artifact>>, pc # "plan", pc' # "plan",
             pc' = "command" => lang = "single"
      PROVE  PlanInv'
  BY <1>3 DEF PlanInv, OutputRel
<1>4. CASE MakeWorkspace
  BY <1>3, <1>4 DEF MakeWorkspace, Proceed, Abandon, GoTo
<1>5. CASE MakeSource
  BY <1>3, <1>5 DEF MakeSource, Proceed, Abandon, GoTo
<1>6. CASE Extract
  BY <1>3, <1>6 DEF Extract, Proceed, Abandon, GoTo
<1>7. CASE ResolveArtifact
  BY <1>3, <1>7 DEF ResolveArtifact, Proceed, Abandon, GoTo
<1>8. CASE RunCommand
  BY <1>3, <1>8 DEF RunCommand, Proceed, Abandon, GoTo
<1>9. CASE Prepare
  <2>1. pc = "prepare" /\ pc' \in {"run", "abandon"} /\ UNCHANGED <<lang, plan, steps, artifact>>
    BY <1>9, PrepareSteps DEF Prepare
  <2> QED
    BY <1>3, <2>1
<1>10. CASE RunStep
  <2>1. pc = "run" /\ pc' \in {"check", "prepare", "abandon"}
        /\ UNCHANGED <<lang, plan, steps, artifact>>
    BY <1>10, RunSteps DEF RunStep
  <2> QED
    BY <1>3, <2>1
<1>11. CASE CheckArtifact
  BY <1>3, <1>11 DEF CheckArtifact, Proceed, Abandon, GoTo
<1>12. CASE Deliver
  BY <1>3, <1>12 DEF Deliver
<1>13. CASE Cleanup
  <2>1. Reset
    BY <1>13 DEF Cleanup
  <2> QED
    BY <2>1, ResetSteps DEF PlanInv, Reset
<1>14. CASE UNCHANGED vars
  BY <1>14 DEF vars, PlanInv, OutputRel
<1> QED
  BY <1>1, <1>2, <1>4, <1>5, <1>6, <1>7, <1>8, <1>9, <1>10, <1>11, <1>12, <1>13, <1>14 DEF Next

\* Every step makes what it makes in the workspace.
LEMMA WithinStep ==
  ASSUME IInv, [Next]_vars
  PROVE  WithinInv'
<1> USE DEF IInv
<1>1. ASSUME Reset, dirs' = {}, files' = {} PROVE WithinInv'
  BY <1>1 DEF WithinInv
<1>2. ASSUME NEW c \in Commands, AddCommand(c) PROVE WithinInv'
  <2>1. UNCHANGED <<dirs, files>> /\ dirs = {} /\ files = {}
    BY <1>2 DEF AddCommand, WithinInv
  <2> QED
    BY <2>1 DEF WithinInv
<1>3. CASE Submit
  <2>1. UNCHANGED <<dirs, files>> /\ dirs = {} /\ files = {}
    BY <1>3 DEF Submit, WithinInv
  <2> QED
    BY <2>1 DEF WithinInv
<1>4. CASE MakeWorkspace
  <2>1. dirs' \subseteq {Workspace} /\ files' = {} /\ pc' \in {"source", "abandon"}
    BY <1>4 DEF MakeWorkspace, Proceed, Abandon, GoTo, WithinInv
  <2>2. Below(Workspace) /\ Len(Workspace) <= 2
    BY DEF Below, Workspace
  <2> QED
    BY <2>1, <2>2 DEF WithinInv
<1>5. CASE MakeSource
  <2>1. dirs' \subseteq dirs \cup Parents(Source.names) /\ files' = {} /\ pc' \in {"extract", "abandon"}
        /\ pc = "source"
    BY <1>5 DEF MakeSource, Proceed, Abandon, GoTo, WithinInv
  <2>2. IsWithinBase(Source.names, Source.names) /\ Len(Source.names) = 2
    BY Roots DEF IsWithinBase
  <2>3. ASSUME NEW d \in Parents(Source.names) PROVE Below(d) /\ Len(d) <= 2
    <3>1. Below(d)
      BY <2>2, Roots, ParentsBelow DEF Below
    <3>2. Len(d) \in 1..Len(Source.names)
      BY Roots, ParentsFacts
    <3>3. \A n \in 1..2 : n <= 2
      OBVIOUS
    <3>4. Len(d) <= 2
      BY <2>2, <3>2, <3>3, Zenon
    <3> QED
      BY <3>1, <3>4
  <2> QED
    BY <2>1, <2>3 DEF WithinInv
<1>6. CASE Extract
  <2>1. /\ \A f \in files' : IsWithinBase(Source.names, f)
        /\ \A d \in dirs' : Below(d)
        /\ pc' \in {"resolve", "abandon"}
    BY <1>6, ExtractSteps
  <2> QED
    BY <2>1 DEF WithinInv
<1>7. CASE ResolveArtifact
  BY <1>7 DEF ResolveArtifact, Proceed, Abandon, GoTo, WithinInv
<1>8. CASE RunCommand
  <2>1. OutputPath.names = <<"w", "output">>
    <3>1. DOMAIN plan = {}
      BY <1>8, EmptySeq DEF RunCommand, PlanInv
    <3>2. artifact = None
      BY <3>1 DEF PlanInv
    <3> QED
      BY <3>2 DEF OutputPath, Abs
  <2>2. dirs' = dirs /\ files' \subseteq files \cup {OutputPath.names}
        /\ pc' \in {"deliver", "abandon"}
    BY <1>8 DEF RunCommand, Proceed, Abandon, GoTo
  <2> QED
    BY <2>1, <2>2 DEF WithinInv
<1>9. CASE Prepare
  <2>1. /\ \A d \in dirs' \ dirs : Below(d)
        /\ files' = files /\ pc' \in {"run", "abandon"}
    BY <1>9, PrepareSteps
  <2> QED
    BY <2>1 DEF WithinInv
<1>10. CASE RunStep
  <2>1. /\ \A f \in files' \ files : IsWithinBase(Source.names, f)
        /\ dirs' = dirs /\ pc' \in {"check", "prepare", "abandon"}
    BY <1>10, RunSteps
  <2> QED
    BY <2>1 DEF WithinInv
<1>11. CASE CheckArtifact
  BY <1>11 DEF CheckArtifact, Proceed, Abandon, GoTo, WithinInv
<1>12. CASE Deliver
  BY <1>12 DEF Deliver, WithinInv
<1>13. CASE Cleanup
  <2>1. /\ Reset /\ dirs' = {d \in dirs : ~IsWithinBase(Workspace, d)}
        /\ files' = {f \in files : ~IsWithinBase(Workspace, f)}
    BY <1>13 DEF Cleanup
  <2>2. ASSUME NEW n, IsWithinBase(<<"w", "src">>, n) PROVE IsWithinBase(<<"w">>, n)
    BY <2>2 DEF IsWithinBase
  <2>3. IsWithinBase(<<"w">>, <<"w">>) /\ IsWithinBase(<<"w">>, <<"w", "output">>)
    BY DEF IsWithinBase
  <2>4. \A d \in dirs : IsWithinBase(Workspace, d)
    BY <2>2, <2>3, Roots DEF WithinInv, Below
  <2>5. \A f \in files : IsWithinBase(Workspace, f)
    BY <2>2, <2>3, Roots DEF WithinInv
  <2> QED
    BY <1>1, <2>1, <2>4, <2>5
<1>14. CASE UNCHANGED vars
  BY <1>14 DEF vars, WithinInv
<1> QED
  BY <1>2, <1>3, <1>4, <1>5, <1>6, <1>7, <1>8, <1>9, <1>10, <1>11, <1>12, <1>13, <1>14 DEF Next

\* From the extraction to the delivery nothing removes a file of the archive.
LEMMA ArchiveStep ==
  ASSUME IInv, [Next]_vars
  PROVE  ArchiveInv'
<1> USE DEF IInv
<1>1. ASSUME files \subseteq files', pc \in {"resolve", "prepare", "run", "check", "command", "deliver"}
      PROVE  ArchiveInv'
  BY <1>1 DEF ArchiveInv, SourceArchive, ShouldSkipArchivePath
<1>2. ASSUME pc' \in {"plan", "workspace", "source", "extract", "abandon"} PROVE ArchiveInv'
  BY <1>2 DEF ArchiveInv
<1>3. ASSUME NEW c \in Commands, AddCommand(c) PROVE ArchiveInv'
  BY <1>2, <1>3 DEF AddCommand, Reset
<1>4. CASE Submit
  BY <1>2, <1>4 DEF Submit, Reset
<1>5. CASE MakeWorkspace
  BY <1>2, <1>5 DEF MakeWorkspace, Proceed, Abandon, GoTo
<1>6. CASE MakeSource
  BY <1>2, <1>6 DEF MakeSource, Proceed, Abandon, GoTo
<1>7. CASE Extract
  <2>1. \/ \A h \in SourceArchive : Source.names \o h \in files'
        \/ pc' = "abandon"
    BY <1>7, ExtractSteps
  <2> QED
    BY <1>2, <2>1 DEF ArchiveInv, SourceArchive, ShouldSkipArchivePath
<1>8. CASE ResolveArtifact
  BY <1>1, <1>8 DEF ResolveArtifact
<1>9. CASE RunCommand
  BY <1>1, <1>9 DEF RunCommand
<1>10. CASE Prepare
  <2>1. files' = files /\ pc = "prepare"
    BY <1>10, PrepareSteps DEF Prepare
  <2> QED
    BY <1>1, <2>1
<1>11. CASE RunStep
  <2>1. files \subseteq files' /\ pc = "run"
    BY <1>11, RunSteps DEF RunStep
  <2> QED
    BY <1>1, <2>1
<1>12. CASE CheckArtifact
  BY <1>1, <1>12 DEF CheckArtifact
<1>13. CASE Deliver
  BY <1>1, <1>13 DEF Deliver
<1>14. CASE Cleanup
  BY <1>2, <1>14 DEF Cleanup, Reset
<1>15. CASE UNCHANGED vars
  BY <1>15 DEF vars, ArchiveInv, SourceArchive, ShouldSkipArchivePath
<1> QED
  BY <1>3, <1>4, <1>5, <1>6, <1>7, <1>8, <1>9, <1>10, <1>11, <1>12, <1>13, <1>14, <1>15 DEF Next

\* A step that runs was prepared, and only Prepare lets one run.
LEMMA ReadyStep ==
  ASSUME IInv, [Next]_vars
  PROVE  ReadyInv'
<1> USE DEF IInv
<1>1. ASSUME pc' # "run" PROVE ReadyInv'
  BY <1>1 DEF ReadyInv
<1>2. CASE Prepare
  <2>1. /\ UNCHANGED <<steps, step>>
        /\ \/ /\ StepDir(steps[step]) # Refused
              /\ \A o \in Prepared(steps[step]) :
                   ResolvePlanStepPath(Source, StepDir(steps[step]), o) # Refused
           \/ pc' = "abandon"
    BY <1>2, PrepareSteps
  <2> QED
    BY <1>1, <2>1 DEF ReadyInv, StepDir, Prepared
<1>3. CASE RunStep
  <2>1. pc' \in {"check", "prepare", "abandon"}
    BY <1>3, RunSteps
  <2> QED
    BY <1>1, <2>1
<1>4. CASE UNCHANGED vars
  BY <1>4 DEF vars, ReadyInv, StepDir, Prepared
<1>5. ASSUME NEW c \in Commands, AddCommand(c) PROVE ReadyInv'
  BY <1>1, <1>5 DEF AddCommand, Reset
<1>6. CASE Submit
  BY <1>1, <1>6 DEF Submit, Reset
<1>7. CASE MakeWorkspace \/ MakeSource \/ Extract
  BY <1>1, <1>7 DEF MakeWorkspace, MakeSource, Extract, Proceed, Abandon, GoTo
<1>8. CASE ResolveArtifact \/ RunCommand \/ CheckArtifact
  BY <1>1, <1>8 DEF ResolveArtifact, RunCommand, CheckArtifact, Proceed, Abandon, GoTo
<1>9. CASE Deliver \/ Cleanup
  BY <1>1, <1>9 DEF Deliver, Cleanup, Reset
<1> QED
  BY <1>2, <1>3, <1>4, <1>5, <1>6, <1>7, <1>8, <1>9 DEF Next

\* What is handed over is there, hence no refused path.
LEMMA ServedStep ==
  ASSUME IInv, [Next]_vars
  PROVE  ServedInv'
<1> USE DEF IInv
<1>1. ASSUME UNCHANGED <<served, artifact>>, pc = "deliver" => pc' = "deliver" PROVE ServedInv'
  BY <1>1 DEF ServedInv, OutputPath
<1>2. ASSUME Reset PROVE ServedInv'
  BY <1>2 DEF ServedInv, Reset
<1>3. CASE Deliver
  <2>1. /\ served' = OutputPath /\ artifact' = artifact /\ OutputPath.names \in files \cup dirs
        /\ pc' = "deliver"
    BY <1>3 DEF Deliver
  <2>2. <<"refused">> \notin files \cup dirs
    <3>1. ~IsWithinBase(<<"w", "src">>, <<"refused">>)
      BY DEF IsWithinBase
    <3>2. <<"refused">> # <<"w", "output">> /\ <<"refused">> # <<"w">>
      OBVIOUS
    <3> QED
      BY <3>1, <3>2, Roots DEF WithinInv, Below
  <2>3. OutputPath # Refused
    BY <2>1, <2>2 DEF Refused
  <2> QED
    BY <2>1, <2>3 DEF ServedInv, OutputPath
<1>4. ASSUME NEW c \in Commands, AddCommand(c) PROVE ServedInv'
  <2>1. CASE Reset
    BY <1>2, <2>1
  <2>2. CASE ~Reset
    <3>1. UNCHANGED served /\ served = None
      BY <1>4, <2>2, AddSteps DEF AddCommand, ServedInv
    <3> QED
      BY <3>1 DEF ServedInv
  <2> QED
    BY <2>1, <2>2
<1>5. CASE Submit
  <2>1. CASE Reset
    BY <1>2, <2>1
  <2>2. CASE ~Reset
    BY <1>1, <1>5, <2>2 DEF Submit
  <2> QED
    BY <2>1, <2>2
<1>6. CASE MakeWorkspace \/ MakeSource \/ Extract
  BY <1>1, <1>6 DEF MakeWorkspace, MakeSource, Extract, Proceed, Abandon, GoTo
<1>7. CASE ResolveArtifact \/ RunCommand \/ CheckArtifact
  BY <1>1, <1>7 DEF ResolveArtifact, RunCommand, CheckArtifact, Proceed, Abandon, GoTo
<1>8. CASE Prepare \/ RunStep
  <2>1. UNCHANGED <<served, artifact>> /\ pc # "deliver"
    BY <1>8, PrepareSteps, RunSteps DEF Prepare, RunStep
  <2> QED
    BY <1>1, <2>1
<1>9. CASE Cleanup
  BY <1>2, <1>9 DEF Cleanup
<1>10. CASE UNCHANGED vars
  BY <1>1, <1>10 DEF vars
<1> QED
  BY <1>3, <1>4, <1>5, <1>6, <1>7, <1>8, <1>9, <1>10 DEF Next

-----------------------------------------------------------------------------
\* The properties.

\* A file of a build's plan stays where it is, and so do the commands.
LEMMA MirrorsStays ==
  ASSUME NEW f, NEW i, Mirrors(f, i), UNCHANGED <<plan, steps>>
  PROVE  Mirrors(f, i)'
BY DEF Mirrors, Named, Writes, StepDir, HostDirOf, Leaves

\* Every file that a step makes is where the host would have it.
LEMMA FilesStep ==
  ASSUME IInv, [Next]_vars
  PROVE  FilesMirrorTheHost'
<1> USE DEF IInv
<1> DEFINE FromHost == {Source.names \o h : h \in HostFiles}
<1>1. FilesMirrorTheHost <=>
        (lang = "plan" => \A f \in files : f \in FromHost \/ \E i \in DOMAIN plan : Mirrors(f, i))
  BY DEF FilesMirrorTheHost, Mirrors
<1>2. FilesMirrorTheHost' <=>
        (lang' = "plan" => \A f \in files' : f \in FromHost \/ \E i \in DOMAIN plan' : Mirrors(f, i)')
  BY DEF FilesMirrorTheHost, Mirrors, Named, Writes, StepDir, HostDirOf, Leaves
<1> HIDE DEF FromHost
<1>3. ASSUME files' = {} PROVE FilesMirrorTheHost'
  BY <1>2, <1>3
<1>4. ASSUME UNCHANGED <<lang, plan, steps>>,
             lang = "plan" => \A f \in files' \ files : f \in FromHost \/ \E i \in DOMAIN plan : Mirrors(f, i)
      PROVE  FilesMirrorTheHost'
  <2> SUFFICES ASSUME lang = "plan", NEW f \in files'
               PROVE  f \in FromHost \/ \E i \in DOMAIN plan' : Mirrors(f, i)'
    BY <1>2, <1>4
  <2>1. f \in FromHost \/ \E i \in DOMAIN plan : Mirrors(f, i)
    BY <1>1, <1>4
  <2>2. CASE f \in FromHost
    BY <2>2
  <2>3. CASE \E i \in DOMAIN plan : Mirrors(f, i)
    <3>1. PICK i \in DOMAIN plan : Mirrors(f, i)
      BY <2>3
    <3>2. Mirrors(f, i)'
      BY <1>4, <3>1, MirrorsStays
    <3>3. i \in DOMAIN plan'
      BY <1>4
    <3> QED
      BY <3>2, <3>3
  <2> QED
    BY <2>1, <2>2, <2>3
<1>5. ASSUME NEW c \in Commands, AddCommand(c) PROVE FilesMirrorTheHost'
  BY <1>3, <1>5 DEF AddCommand, WithinInv
<1>6. CASE Submit
  BY <1>3, <1>6 DEF Submit, WithinInv
<1>7. CASE MakeWorkspace \/ MakeSource
  BY <1>3, <1>7 DEF MakeWorkspace, MakeSource, WithinInv
<1>8. CASE Extract
  <2>1. UNCHANGED <<lang, plan, steps>> /\ \A f \in files' : f \in FromHost
    BY <1>8, ExtractSteps DEF FromHost
  <2> QED
    BY <1>4, <2>1
<1>9. CASE ResolveArtifact
  BY <1>4, <1>9 DEF ResolveArtifact, Proceed, Abandon, GoTo
<1>10. CASE RunCommand
  <2>1. lang # "plan" /\ UNCHANGED <<lang, plan, steps>>
    BY <1>10 DEF RunCommand, PlanInv, Proceed, Abandon, GoTo
  <2> QED
    BY <1>4, <2>1
<1>11. CASE Prepare
  <2>1. UNCHANGED <<lang, plan, steps, files>>
    BY <1>11, PrepareSteps
  <2> QED
    BY <1>4, <2>1
<1>12. CASE RunStep
  <2>1. step \in DOMAIN plan
    BY <1>12, LenProperties DEF RunStep, TypeOK
  <2>2. /\ UNCHANGED <<lang, plan, steps>>
        /\ \A f \in files' \ files : Mirrors(f, step)
    BY <1>12, RunSteps
  <2> QED
    BY <1>4, <2>1, <2>2
<1>13. CASE CheckArtifact
  BY <1>4, <1>13 DEF CheckArtifact, Proceed, Abandon, GoTo
<1>14. CASE Deliver
  BY <1>4, <1>14 DEF Deliver
<1>15. CASE Cleanup
  <2>1. files' = {}
    <3>1. pc' = "plan"
      BY <1>15 DEF Cleanup, Reset
    <3>2. WithinInv'
      BY WithinStep
    <3> QED
      BY <3>1, <3>2 DEF WithinInv
  <2> QED
    BY <1>3, <2>1
<1>16. CASE UNCHANGED vars
  BY <1>4, <1>16 DEF vars
<1> QED
  BY <1>5, <1>6, <1>7, <1>8, <1>9, <1>10, <1>11, <1>12, <1>13, <1>14, <1>15, <1>16 DEF Next

\* A step that misses its input misses one that the host would miss.
LEMMA InputStep ==
  ASSUME IInv, [Next]_vars
  PROVE  InputsArrive'
<1> USE DEF IInv
<1>1. ASSUME why' # "input" PROVE InputsArrive'
  BY <1>1 DEF InputsArrive
<1>2. CASE RunStep
  <2>1. /\ UNCHANGED <<plan, steps>>
        /\ \/ why' # "input"
           \/ /\ UNCHANGED <<step, files>>
              /\ \/ Leaves(plan[step], plan[step].in)
                 \/ Named(plan[step], plan[step].in) \notin files
    <3>1. why # "input"
      BY <1>2 DEF RunStep, TypeOK
    <3> QED
      BY <1>2, <3>1, RunSteps
  <2>2. \A h \in SourceArchive : Source.names \o h \in files
    BY <1>2 DEF RunStep, ArchiveInv
  <2>3. CASE why' = "input"
    <3> DEFINE c == plan[step]
               input == Named(c, c.in)
    <3>1. plan'[step'] = c
      BY <2>1, <2>3
    <3>2. Leaves(c, c.in) \/ (input \notin files /\ \A h \in SourceArchive : Source.names \o h # input)
      BY <2>1, <2>2, <2>3
    <3> HIDE DEF c
    <3> QED
      BY <2>1, <2>3, <3>1, <3>2
        DEF InputsArrive, Leaves, Named, HostDirOf, SourceArchive, ShouldSkipArchivePath
  <2> QED
    BY <1>1, <2>3
<1>3. ASSUME NEW c \in Commands, AddCommand(c) PROVE InputsArrive'
  BY <1>1, <1>3 DEF AddCommand, Reset, TypeOK
<1>4. CASE Submit
  BY <1>1, <1>4 DEF Submit, Reset, TypeOK
<1>5. CASE MakeWorkspace \/ MakeSource
  BY <1>1, <1>5 DEF MakeWorkspace, MakeSource, Proceed, Abandon, GoTo, TypeOK
<1>6. CASE Extract
  BY <1>1, <1>6 DEF Extract, Proceed, Abandon, GoTo, TypeOK
<1>7. CASE ResolveArtifact \/ RunCommand \/ CheckArtifact
  BY <1>1, <1>7 DEF ResolveArtifact, RunCommand, CheckArtifact, Proceed, Abandon, GoTo, TypeOK
<1>8. CASE Prepare
  <2>1. why = "none"
    BY <1>8 DEF Prepare, TypeOK
  <2> QED
    BY <1>1, <1>8, <2>1, PrepareSteps
<1>9. CASE Deliver \/ Cleanup
  BY <1>1, <1>9 DEF Deliver, Cleanup, Reset, TypeOK
<1>10. CASE UNCHANGED vars
  BY <1>10 DEF vars, InputsArrive, Leaves, Named, HostDirOf, SourceArchive, ShouldSkipArchivePath
<1> QED
  BY <1>2, <1>3, <1>4, <1>5, <1>6, <1>7, <1>8, <1>9, <1>10 DEF Next

\* A step that refuses a path refuses it for one of the three reasons.
LEMMA AcceptedStep ==
  ASSUME IInv, [Next]_vars
  PROVE  PlanIsAccepted'
<1> USE DEF IInv
<1>1. ASSUME why' # "path" PROVE PlanIsAccepted'
  BY <1>1 DEF PlanIsAccepted
<1>2. CASE ResolveArtifact
  <2>1. why = "none"
    BY <1>2 DEF ResolveArtifact, TypeOK
  <2>2. why' # "path" \/ (OutputPath = Refused /\ artifact' = artifact)
    BY <1>2, <2>1 DEF ResolveArtifact, Proceed, Abandon, GoTo
  <2>3. OutputPath = Refused => ~IsLocal(artifact)
    <3> SUFFICES ASSUME OutputPath = Refused PROVE ~IsLocal(artifact)
      OBVIOUS
    <3>1. artifact # None /\ ResolveWorkspacePath(Source, artifact) = Refused
      BY DEF OutputPath, Refused, Abs
    <3>2. PICK i \in DOMAIN plan :
            artifact = OutputRel(plan[i]) /\ RewriteBuildStepForRemote(plan[i]).out # Refused
      BY <3>1 DEF PlanInv
    <3>3. plan[i] \in Commands /\ RewriteBuildStepForRemote(plan[i]).dir # Refused
      BY StepType
    <3> QED
      BY <3>1, <3>2, <3>3, ArtifactArrives
  <2> QED
    BY <1>1, <2>2, <2>3 DEF PlanIsAccepted
<1>3. CASE Prepare
  <2>1. why = "none" /\ step > 0
    BY <1>3, LenProperties DEF Prepare, TypeOK
  <2>2. /\ UNCHANGED <<plan, steps, step>>
        /\ why' # "path" \/ Unresolved(step)
    BY <1>3, <2>1, PrepareSteps
  <2> QED
    BY <1>1, <2>1, <2>2 DEF PlanIsAccepted, Unresolved, Prepared, Leaves, HostDirOf
<1>4. ASSUME NEW c \in Commands, AddCommand(c) PROVE PlanIsAccepted'
  BY <1>1, <1>4 DEF AddCommand, Reset, TypeOK
<1>5. CASE Submit
  BY <1>1, <1>5 DEF Submit, Reset, TypeOK
<1>6. CASE MakeWorkspace \/ MakeSource
  BY <1>1, <1>6 DEF MakeWorkspace, MakeSource, Proceed, Abandon, GoTo, TypeOK
<1>7. CASE Extract
  BY <1>1, <1>7 DEF Extract, Proceed, Abandon, GoTo, TypeOK
<1>8. CASE RunCommand \/ CheckArtifact
  BY <1>1, <1>8 DEF RunCommand, CheckArtifact, Proceed, Abandon, GoTo, TypeOK
<1>9. CASE RunStep
  <2>1. why = "none"
    BY <1>9 DEF RunStep, TypeOK
  <2> QED
    BY <1>1, <1>9, <2>1, RunSteps
<1>10. CASE Deliver \/ Cleanup
  BY <1>1, <1>10 DEF Deliver, Cleanup, Reset, TypeOK
<1>11. CASE UNCHANGED vars
  BY <1>11 DEF vars, PlanIsAccepted, Prepared, Leaves, HostDirOf
<1> QED
  BY <1>2, <1>3, <1>4, <1>5, <1>6, <1>7, <1>8, <1>9, <1>10, <1>11 DEF Next


\* The invariant holds before the first command.
LEMMA Initially == Init => IInv
<1> SUFFICES ASSUME Init PROVE IInv
  OBVIOUS
<1>1. plan \in Seq(Commands) /\ steps \in Seq(Steps) /\ Len(plan) = 0 /\ Len(steps) = 0
      /\ DOMAIN plan = {} /\ DOMAIN steps = {}
  BY EmptySeq DEF Init
<1>2. TypeOK
  BY <1>1, PlanAssumption DEF Init, TypeOK
<1>3. PlanInv
  BY <1>1 DEF Init, PlanInv
<1>4. WithinInv /\ OutsideInv /\ ArchiveInv /\ ReadyInv
  BY DEF Init, WithinInv, OutsideInv, ArchiveInv, ReadyInv
<1>5. ServedInv /\ FilesMirrorTheHost /\ InputsArrive /\ PlanIsAccepted
  BY DEF Init, ServedInv, FilesMirrorTheHost, InputsArrive, PlanIsAccepted
<1> QED
  BY <1>2, <1>3, <1>4, <1>5 DEF IInv

\* The invariant holds.
THEOREM PlanInvariant == Spec => []IInv
<1>1. Init => IInv
  BY Initially
<1>2. IInv /\ [Next]_vars => IInv'
  <2> SUFFICES ASSUME IInv, [Next]_vars PROVE IInv'
    OBVIOUS
  <2>1. TypeOK' /\ PlanInv' /\ WithinInv'
    BY TypeStep, PlanStep, WithinStep
  <2>2. OutsideInv' /\ ArchiveInv' /\ ReadyInv' /\ ServedInv'
    BY OutsideStep, ArchiveStep, ReadyStep, ServedStep
  <2>3. FilesMirrorTheHost' /\ InputsArrive' /\ PlanIsAccepted'
    BY FilesStep, InputStep, AcceptedStep
  <2> QED
    BY <2>1, <2>2, <2>3 DEF IInv
<1> QED
  BY <1>1, <1>2, PTL DEF Spec

\* The types of PlanBuild, for all commands, files and lengths of a plan.
THEOREM PlanTypeCorrect == Spec => []TypeOK
<1>1. IInv => TypeOK
  BY DEF IInv
<1> QED
  BY <1>1, PlanInvariant, PTL

\* Wherever executeBuild returns, the workspace is gone and what the build has made lay in
\* it, go's caches and the file of a --pdb with an absolute path aside, for all plans and
\* archives.
THEOREM NothingIsEverLeft == Spec => []NothingIsLeft
<1>1. IInv => NothingIsLeft
  BY DEF IInv, WithinInv, OutsideInv, Spilt, NothingIsLeft
<1> QED
  BY <1>1, PlanInvariant, PTL

\* What cliant rewrites and sarver resolves is the same file, for all paths: every file
\* of a workspace is where the host has it, but for a --pdb that leaves the source root.
THEOREM FilesAlwaysMirror == Spec => []FilesMirrorTheHost
<1>1. IInv => FilesMirrorTheHost
  BY DEF IInv
<1> QED
  BY <1>1, PlanInvariant, PTL

\* A command of a plan finds what it would find on the host, for all paths of its input
\* that do not leave the source root.
THEOREM InputsAlwaysArrive == Spec => []InputsArrive
<1>1. IInv => InputsArrive
  BY DEF IInv
<1> QED
  BY <1>1, PlanInvariant, PTL

\* sarver accepts the paths that cliant has made, for all of them but a name with two
\* dots, a --pdb that leaves the source root, and an output that is a directory.
THEOREM PlansAreAccepted == Spec => []PlanIsAccepted
<1>1. IInv => PlanIsAccepted
  BY DEF IInv
<1> QED
  BY <1>1, PlanInvariant, PTL

\* What is handed over is the output of the last command that links, for all plans.
THEOREM ServedIsLinked == Spec => []ArtifactIsLinked
<1>1. IInv => ArtifactIsLinked
  <2> SUFFICES ASSUME IInv, lang = "plan", served # None
               PROVE  \E i \in DOMAIN plan :
                        /\ plan[i].links /\ served.names = Named(plan[i], plan[i].out)
                        /\ \A j \in i + 1..Len(plan) : ~plan[j].links
    BY DEF ArtifactIsLinked
  <2>1. /\ TypeOK /\ PlanInv /\ pc = "deliver"
        /\ served = OutputPath /\ OutputPath # Refused
    BY DEF IInv, ServedInv
  <2>2. artifact # None
    BY <2>1 DEF PlanInv
  <2>3. PICK i \in DOMAIN plan :
          /\ plan[i].links /\ artifact = OutputRel(plan[i])
          /\ RewriteBuildStepForRemote(plan[i]).out # Refused
          /\ \A j \in i + 1..Len(plan) : ~plan[j].links
    BY <2>1, <2>2 DEF PlanInv
  <2>4. plan[i] \in Commands /\ RewriteBuildStepForRemote(plan[i]).dir # Refused
    BY <2>1, StepType
  <2>5. served = ResolveWorkspacePath(Source, artifact) /\ served # Refused
    BY <2>1, <2>2 DEF OutputPath
  <2>6. served.names = Named(plan[i], plan[i].out)
    BY <2>3, <2>4, <2>5, ArtifactArrives
  <2> QED
    BY <2>3, <2>6
<1> QED
  BY <1>1, PlanInvariant, PTL
=============================================================================
