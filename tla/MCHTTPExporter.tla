--------------------------- MODULE MCHTTPExporter ---------------------------
(***************************************************************************)
(* Instances of HTTPExporter for TLC.                                      *)
(***************************************************************************)
EXTENDS HTTPExporter, TLC

\* For a run with no temporal property.
Symmetry == Permutations(Creds)
=============================================================================
