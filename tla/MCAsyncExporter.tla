-------------------------- MODULE MCAsyncExporter ---------------------------
(***************************************************************************)
(* Instances of AsyncExporter for TLC: the threads are model values, and   *)
(* the .cfg files say how many there are.                                  *)
(***************************************************************************)
EXTENDS AsyncExporter
=============================================================================
