-------------------------- MODULE MCAgentExecution --------------------------
(***************************************************************************)
(* AgentExecution with two tools, one of them governed.                      *)
(***************************************************************************)
EXTENDS AgentExecution

\* The first tool is free, the second one requires approval.
OneGoverned == {2}

\* Attempts, API processes, replies and signals are lost, and tools raise.
Lossy == {"crash", "broken_tool", "lost_launch", "lost_signal", "lost_cancel"}
=============================================================================
