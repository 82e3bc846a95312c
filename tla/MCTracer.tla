------------------------------ MODULE MCTracer ------------------------------
(***************************************************************************)
(* Instances of Tracer for TLC.                                            *)
(***************************************************************************)
EXTENDS Tracer, TLC

Symmetry == Permutations(Tasks) \cup Permutations(Runs)
=============================================================================
