------------------------------ MODULE PlanPaths ------------------------------
(***************************************************************************)
(* The paths of a build plan: how cliant rewrites those of a command for   *)
(* the worker (Cliant/cmake.go) and how sarver resolves them there         *)
(* (Sarver/plan.go).  A path is absolute or not and is a sequence of       *)
(* names, of which ".." has its meaning; "." is the empty sequence.        *)
(***************************************************************************)
EXTENDS Naturals, SequencesExt

CONSTANTS
  Names,       \* the names of files and folders, ".." among them
  Dotted       \* those that begin with two dots, ".." aside

ASSUME NamesAssumption == ".." \in Names

Path == [abs : BOOLEAN, names : Seq(Names)]

Abs(names) == [abs |-> TRUE, names |-> names]
Local(names) == [abs |-> FALSE, names |-> names]

\* A path that the code refuses.
Refused == [abs |-> TRUE, names |-> <<"refused">>]

\* A ".." takes away the name before it; there is none to take away above the root.
Push(abs, names, n) ==
  IF n # ".." THEN Append(names, n)
  ELSE IF names # <<>> /\ Last(names) # ".." THEN Front(names)
  ELSE IF abs THEN names
  ELSE Append(names, n)

\* What base has become after each of the names.
Walk(abs, base, names) ==
  LET walk[i \in 0..Len(names)] ==
        IF i = 0 THEN base ELSE Push(abs, walk[i - 1], names[i])
  IN walk

Pushed(abs, base, names) == Walk(abs, base, names)[Len(names)]

\* filepath.Clean.
Clean(p) == [abs |-> p.abs, names |-> Pushed(p.abs, <<>>, p.names)]

\* filepath.Join and filepath.Dir.
Join(base, p) == Clean([abs |-> base.abs, names |-> base.names \o p.names])
Dir(p) == [abs |-> p.abs, names |-> IF p.names = <<>> THEN <<>> ELSE Front(p.names)]

\* filepath.Rel of two clean absolute paths: up to the last folder that both are in,
\* and down.
Common(base, target) ==
  LET Agree(i) == i \in DOMAIN base \cap DOMAIN target /\ base[i] = target[i]
  IN CHOOSE n \in 0..Len(base) : ~Agree(n + 1) /\ \A i \in 1..n : Agree(i)

Rel(base, target) ==
  LET common == Common(base.names, target.names) IN
  Local([i \in 1..(Len(base.names) - common) |-> ".."]
          \o SubSeq(target.names, common + 1, Len(target.names)))

\* isWithinBase: the relative path does not begin with "..".
IsWithinBase(base, target) ==
  \A i \in DOMAIN base : i \in DOMAIN target /\ target[i] = base[i]

IsLocal(p) == p.names = <<>> \/ Head(p.names) \notin Dotted \cup {".."}

-----------------------------------------------------------------------------
\* The host, below the source root.

HostPath(dir, raw) == IF raw.abs THEN Clean(raw) ELSE Join(dir, raw)

\* rewriteBuildStepForRemote: a relative `cd` is one from the source root.
HostDir(root, raw) == HostPath(root, raw)

\* Mutant: paths are rewritten for a command that runs in the source root.
RewriteFromRoot(root, dir, raw) ==
  LET absolute == HostPath(dir, raw) IN
  IF IsWithinBase(root.names, absolute.names) THEN Rel(root, absolute) ELSE Refused

\* rewriteCommandPath: a path below the source root becomes one that is relative
\* to the directory of its command.
RewriteCommandPath(root, dir, raw) ==
  LET absolute == HostPath(dir, raw) IN
  IF IsWithinBase(root.names, absolute.names) THEN Rel(dir, absolute) ELSE Refused

-----------------------------------------------------------------------------
\* The console, below the source directory of the workspace.  It is a Windows machine:
\* an absolute path of the host (a Unix one) names no drive there, so that
\* filepath.IsAbs is false of it, and Join takes it from the folder that it is given.

\* resolveWorkspacePath.  It refuses by the first two characters.
ResolveWorkspacePath(source, raw) ==
  LET clean == Clean(raw)
      absolute == Join(source, clean)
  IN IF (clean.abs \/ IsLocal(clean)) /\ IsWithinBase(source.names, absolute.names)
     THEN absolute ELSE Refused

\* Mutant: only the directory itself is refused.
ResolveAnyPath(source, dir, raw) ==
  LET clean == Clean(raw) IN
  IF clean # Local(<<>>) THEN Join(dir, clean) ELSE Refused

\* resolvePlanStepPath.
ResolvePlanStepPath(source, dir, raw) ==
  LET clean == Clean(raw)
      absolute == Join(dir, clean)
  IN IF clean # Local(<<>>) /\ IsWithinBase(source.names, absolute.names)
     THEN absolute ELSE Refused
=============================================================================
