------------------------------ MODULE MCRelay ------------------------------
(* The open relay for TLC: small sets of requests, and their symmetry. *)
EXTENDS Relay, TLC

Symmetry == Permutations(Builds) \cup Permutations(Conns) \cup Permutations(Files)
=============================================================================
