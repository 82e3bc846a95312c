---------------------------- MODULE MCWorkspaces ----------------------------
(***************************************************************************)
(* Instances of Workspaces for TLC.                                        *)
(***************************************************************************)
EXTENDS Workspaces, TLC

CONSTANTS default, team, Team   \* three names, two of them alike but for case

MCNames == {default, team, Team}
MCFold == [n \in MCNames |-> IF n = Team THEN team ELSE n]
MCExisting == <<default, team>>

\* Request threads are interchangeable.
Symmetry == Permutations(Threads)
=============================================================================
