--------------------------- MODULE MCRemoteBuild ---------------------------
(* Remote builds for TLC. *)
EXTENDS RemoteBuild, TLC

Symmetry == Permutations(Builds) \cup Permutations(Workers) \cup
            Permutations(Conns) \cup Permutations(Files)
=============================================================================
