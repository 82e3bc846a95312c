-------------------------- MODULE MCTracesExplorer --------------------------
(***************************************************************************)
(* Instances of TracesExplorer for TLC.                                    *)
(***************************************************************************)
EXTENDS TracesExplorer

CONSTANTS t1, t2, t3, timeout   \* three traces, one way to fail

MCNewest == <<t3, t2, t1>>

\* No filter; another order; a filter that hides the newest trace.
MCViews == {MCNewest, <<t1, t2, t3>>, <<t2, t1>>}

MCFailsAs == (t1 :> timeout) @@ (t2 :> None) @@ (t3 :> timeout)
MCGroups == <<timeout>>
MCStored == {t1, t2}
=============================================================================
