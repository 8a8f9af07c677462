------------------------- MODULE MCSearchProjection -------------------------
(***************************************************************************)
(* SearchProjection on small sets: the environments the runs put it in.     *)
(***************************************************************************)
EXTENDS SearchProjection

\* Every request and every worker may fail, one rebuild at a time.
Failing == {"es_failure", "crash"}

\* Nothing fails.
Calm == {}
=============================================================================
