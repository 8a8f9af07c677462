---------------------------- MODULE AgentReadiness ----------------------------
(***************************************************************************)
(* Whether an Agent definition can run, as two programs decide it.  The    *)
(* console lets an operator activate an Agent only if assessAgentReadiness *)
(* finds no blocking issue in the catalogs the page has loaded; the API    *)
(* reports readiness, and the console executes Agents, by the governance   *)
(* service's own computation.                                              *)
(*                                                                         *)
(* Code: apps/web/components/agents/AgentsConsolePage.tsx,                 *)
(* apps/web/lib/agent-runtime.ts; apps/api/ragpilot_api/application/agents/*)
(* agent_runtime_governance_service.py.                                    *)
(***************************************************************************)
EXTENDS Integers, Sequences

CONSTANTS
    EndpointIds, ProfileIds, KnowledgeBases, Registrations,
    None        \* null, and the empty choice of the editor

Modes == {"grounded_chat", "document_intake", "workflow_recovery"}
Credentials == {"none", "environment", "managed_reserved"}

\* What readiness depends on of a definition.  The scope is the knowledge base its
\* "workspace/knowledge-base" text names, or None when the text is empty.
Content == [mode: Modes, endpoint: EndpointIds \cup {None}, scope: KnowledgeBases \cup {None},
            builtin: BOOLEAN, registrations: SUBSET Registrations, engine: {"native", "langgraph"}]

Endpoint == [id: EndpointIds, enabled: BOOLEAN, default: BOOLEAN, deterministic: BOOLEAN,
             baseUrl: BOOLEAN, credential: Credentials, hint: BOOLEAN]
Profile == [id: ProfileIds, enabled: BOOLEAN, default: BOOLEAN, engine: {"native", "llamaindex"}]
Registration == [enabled: BOOLEAN, approval: BOOLEAN, mcp: {"no", "reserved", "pending"}]

\* The registries, in the order in which they are listed, and the knowledge bases with the
\* retrieval profiles they are assigned.
Catalog == [endpoints: Seq(Endpoint), profiles: Seq(Profile),
            registrations: UNION {[R -> Registration] : R \in SUBSET Registrations},
            knowledgeBases: UNION {[K -> ProfileIds \cup {None}] : K \in SUBSET KnowledgeBases}]

(***************************************************************************)
(* What both have in common                                                *)
(***************************************************************************)

First(list, I) == list[CHOOSE i \in I : \A j \in I : i <= j]

\* The default of a list: the first that is enabled and marked, else the first enabled.
DefaultOf(list) ==
    LET on     == {i \in DOMAIN list : list[i].enabled}
        marked == {i \in on : list[i].default}
    IN  IF marked # {} THEN First(list, marked)
        ELSE IF on # {} THEN First(list, on) ELSE None

ById(list, id) ==
    LET found == {i \in DOMAIN list : list[i].id = id}
    IN  IF found = {} THEN None ELSE First(list, found)

ModelOf(a, c) ==
    LET chosen == IF a.endpoint = None THEN None ELSE ById(c.endpoints, a.endpoint)
    IN  IF chosen # None THEN chosen ELSE DefaultOf(c.endpoints)

ProfileOf(a, c) ==
    LET assigned == c.knowledgeBases[a.scope]
    IN  IF assigned = None THEN DefaultOf(c.profiles) ELSE ById(c.profiles, assigned)

NeedsScope(a) == a.mode \in {"grounded_chat", "document_intake"}
Known(a, c) == a.registrations \cap DOMAIN c.registrations

(***************************************************************************)
(* The console: assessAgentReadiness                                       *)
(***************************************************************************)

\* readLocalModelRuntimeIssue
ConsoleUnconfigured(m) ==
    \/ ~m.deterministic /\ ~m.baseUrl
    \/ m.credential = "environment" /\ ~m.hint

ConsoleModelIssues(a, c) ==
    LET m == ModelOf(a, c) IN
    IF m = None THEN {"model_missing"}
    ELSE IF ~m.enabled THEN {"model_disabled"}
    ELSE IF ConsoleUnconfigured(m) THEN {"model_runtime_unconfigured"} ELSE {}

ConsoleScopeIssues(a, c) ==
    IF ~NeedsScope(a) THEN {}
    ELSE IF a.scope = None THEN {"scope_missing"}
    ELSE IF a.scope \notin DOMAIN c.knowledgeBases THEN {"scope_invalid"}
    ELSE IF ProfileOf(a, c) = None THEN {"retrieval_profile_missing"}
    ELSE IF ~ProfileOf(a, c).enabled THEN {"retrieval_profile_disabled"} ELSE {}

\* A registration that the catalog does not list is no issue to the console.
ConsoleToolIssues(a, c) ==
    (IF ~a.builtin /\ a.registrations = {} THEN {"tools_missing"} ELSE {})
    \cup {"tool_registration_disabled" : q \in {r \in Known(a, c) : ~c.registrations[r].enabled}}
    \cup {"tool_mcp_reserved" : q \in {r \in Known(a, c) :
             c.registrations[r].enabled /\ c.registrations[r].mcp = "reserved"}}
    \cup {"tool_mcp_integration_pending" : q \in {r \in Known(a, c) :
             c.registrations[r].enabled /\ c.registrations[r].mcp = "pending"}}

\* The blocking issues; a tool that asks for approval is an issue that blocks nothing.
ConsoleIssues(a, c) ==
    ConsoleModelIssues(a, c) \cup ConsoleScopeIssues(a, c) \cup ConsoleToolIssues(a, c)

(***************************************************************************)
(* The platform: AgentRuntimeGovernanceService._build_governance_item      *)
(***************************************************************************)

PlatformUnconfigured(m) ==
    \/ ~m.deterministic /\ ~m.baseUrl
    \/ m.credential = "managed_reserved"
    \/ m.credential = "environment" /\ ~m.hint

PlatformModelIssues(a, c) ==
    LET m == ModelOf(a, c) IN
    IF m = None THEN {"model_missing"}
    ELSE IF ~m.enabled THEN {"model_disabled"}
    ELSE IF PlatformUnconfigured(m) THEN {"model_runtime_unconfigured"} ELSE {}

PlatformScopeIssues(a, c, installed) ==
    IF ~NeedsScope(a) THEN {}
    ELSE IF a.scope = None THEN {"scope_missing"}
    ELSE IF a.scope \notin DOMAIN c.knowledgeBases THEN {"scope_invalid"}
    ELSE IF ProfileOf(a, c) = None THEN {"retrieval_profile_missing"}
    ELSE IF ~ProfileOf(a, c).enabled THEN {"retrieval_profile_disabled"}
    ELSE IF ProfileOf(a, c).engine # "native" /\ ProfileOf(a, c).engine \notin installed
         THEN {"retrieval_engine_unavailable"} ELSE {}

PlatformToolIssues(a, c) ==
    (IF ~a.builtin /\ a.registrations = {} THEN {"tools_missing"} ELSE {})
    \cup {"tool_registration_disabled" : q \in {r \in a.registrations :
             r \in DOMAIN c.registrations => ~c.registrations[r].enabled}}
    \cup {"tool_mcp_reserved" : q \in {r \in Known(a, c) :
             c.registrations[r].enabled /\ c.registrations[r].mcp = "reserved"}}
    \cup {"tool_mcp_integration_pending" : q \in {r \in Known(a, c) :
             c.registrations[r].enabled /\ c.registrations[r].mcp = "pending"}}

PlatformEngineIssues(a, installed) ==
    IF a.engine # "native" /\ a.engine \notin installed THEN {"runtime_engine_unavailable"} ELSE {}

PlatformIssues(a, c, installed) ==
    PlatformModelIssues(a, c) \cup PlatformScopeIssues(a, c, installed)
    \cup PlatformToolIssues(a, c) \cup PlatformEngineIssues(a, installed)

ConsoleReady(a, c) == ConsoleIssues(a, c) = {}
PlatformReady(a, c, installed) == PlatformIssues(a, c, installed) = {}

(***************************************************************************)
(* Where they agree                                                        *)
(***************************************************************************)

\* What the console does not look at: reserved credentials, registrations that are gone, and
\* the pilots that are not installed.
SameView(a, c, installed) ==
    /\ ModelOf(a, c) # None => ModelOf(a, c).credential # "managed_reserved"
    /\ a.registrations \subseteq DOMAIN c.registrations
    /\ a.engine \in installed \cup {"native"}
    /\ a.scope \in DOMAIN c.knowledgeBases /\ ProfileOf(a, c) # None =>
         ProfileOf(a, c).engine \in installed \cup {"native"}

=============================================================================
