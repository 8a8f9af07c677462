---------------------------- MODULE MCWorkflowRuns ----------------------------
(***************************************************************************)
(* WorkflowRuns with the failed upload and two further requests, the first   *)
(* of which may be cancelled: two retries of one run, a retry beside a       *)
(* reindex, a reindex and its retry.  A retry of a retry is refused here.    *)
(***************************************************************************)
EXTENDS WorkflowRuns
=============================================================================
