-------------------------- MODULE MCIngestPipeline --------------------------
(***************************************************************************)
(* Instances of IngestPipeline for TLC.                                    *)
(***************************************************************************)
EXTENDS IngestPipeline

CONSTANTS t1, t2   \* two traces

MCTraceIds == {t1, t2}
At(x, v) == [id |-> x, ver |-> v, ended |-> FALSE]
Over(x, v) == [At(x, v) EXCEPT !.ended = TRUE]

\* A trace that is over, alone; a later snapshot of it that is not ended, with
\* another trace; an older one of both.
MCBatches ==
    {<<Over(t1, 1)>>, <<At(t1, 2), Over(t2, 1)>>, <<Over(t2, 1), At(t1, 1)>>}

\* The same, and a batch that has a trace twice.
MCRepeating == MCBatches \cup {<<Over(t1, 1), At(t1, 2)>>}
=============================================================================
