---------------------------- MODULE MCDashboard ----------------------------
(***************************************************************************)
(* Instances of Dashboard for TLC.                                         *)
(***************************************************************************)
EXTENDS Dashboard, TLC

CONSTANTS w1, w2, w3   \* workspaces; w1 has the name 'default'

MCExisting == <<w2, w1>>

\* Filters are interchangeable.
Symmetry == Permutations(Filters)
=============================================================================
