---------------------------- MODULE MCPlanBuild ----------------------------
(***************************************************************************)
(* A source root /p with a generated tree below it, and commands that name *)
(* the same few files by absolute and by relative paths.                   *)
(***************************************************************************)
EXTENDS PlanBuild

MCNames == {"..", "p", "q", "w", "src", "output", "build", ".cliant-cmake", "bin",
            "sarver-go", "..a", "m.c", "g.c", "x.obj", "e", "y"}
MCDotted == {"..a"}
MCIgnored == {"build"}
MCTrees == {".cliant-cmake", "build"}
MCOutputs == {"bin", "x.obj"}

MCHostFiles == {<<"m.c">>, <<".cliant-cmake", "g.c">>, <<"build", "g.c">>,
                <<".cliant-cmake", "x.obj">>}

MCDirs == {Abs(<<"p">>), Local(<<".cliant-cmake">>), Abs(<<"p", "build">>),
           Abs(<<"p", "..a">>), Abs(<<"q">>)}

NoOption == [kind |-> "none", path |-> Local(<<>>)]

Options ==
  {[kind |-> "implib", path |-> Local(<<"bin", "y">>)],
   [kind |-> "map", path |-> Local(<<"..", "..", "y">>)]} \cup
  [kind : {"pdb"},
   path : {Local(<<"bin", "y">>), Local(<<"..", "..", "y">>), Local(<<"..", "src", "y">>),
           Abs(<<"p", "y">>)}]

Compilations ==
  [dir : MCDirs, out : {Local(<<"x.obj">>), Local(<<"..", "bin">>), Abs(<<"p", "..a", "x.obj">>)},
   in : {Abs(<<"p", "m.c">>), Local(<<"..", "m.c">>), Local(<<"g.c">>),
         Local(<<"..", "p", "m.c">>)},
   opt : {NoOption}, links : {FALSE}]

Links(outs, options) ==
  [dir : {Local(<<".cliant-cmake">>), Abs(<<"p", "build">>), Abs(<<"p">>)}, out : outs,
   in : {Local(<<"x.obj">>), Abs(<<"p", ".cliant-cmake", "x.obj">>)},
   opt : options, links : {TRUE}]

MCCommands ==
  Compilations
  \cup Links({Local(<<"bin", "e">>), Abs(<<"p", "..a", "e">>), Abs(<<"p", "build">>)}, {NoOption})
  \cup Links({Local(<<"bin", "e">>)}, Options)
=============================================================================
