--------------------------- MODULE MCAgentsConsole ---------------------------
(* A small instance of AgentsConsole. *)
EXTENDS AgentsConsole, TLC

CONSTANTS a1, a2, e1, m1, p1, k1, r1, none

Remote == [id |-> m1, enabled |-> TRUE, default |-> TRUE, deterministic |-> FALSE,
           baseUrl |-> TRUE, credential |-> "environment", hint |-> TRUE]
Hybrid == [id |-> p1, enabled |-> TRUE, default |-> TRUE, engine |-> "native"]
Tool   == [enabled |-> TRUE, approval |-> TRUE, mcp |-> "no"]

Complete == [endpoints |-> <<Remote>>, profiles |-> <<Hybrid>>,
             registrations |-> r1 :> Tool, knowledgeBases |-> k1 :> none]
ToolDisabled == [Complete EXCEPT !.registrations = r1 :> [Tool EXCEPT !.enabled = FALSE]]

Grounded == [mode |-> "grounded_chat", endpoint |-> none, scope |-> k1, builtin |-> TRUE,
             registrations |-> {r1}, engine |-> "native"]
Unscoped == [Grounded EXCEPT !.scope = none, !.registrations = {}]

TwoCatalogs == {Complete, ToolDisabled}
TwoContents == {Grounded, Unscoped}
AllAgents == [status |-> "all", readiness |-> "all"]
ActiveReadyOnes == [status |-> "active", readiness |-> "ready"]
TwoFilters == {AllAgents, ActiveReadyOnes}
OneActive == a1 :> [status |-> "active", content |-> Grounded] @@ a2 :> none
=============================================================================
