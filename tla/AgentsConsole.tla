---------------------------- MODULE AgentsConsole ----------------------------
(***************************************************************************)
(* The Agents page of the web console, beside the API it edits and runs    *)
(* Agents through.  The page holds copies: the registries readiness is     *)
(* assessed against, the listed definitions, which are edited in place,    *)
(* the platform's readiness of them, and the executions of the selected    *)
(* Agent.  Loads of an effect are dropped when the effect is cleaned up;   *)
(* the refresh after a change and the polls of executions are not, and end *)
(* with the filter and the selection they were started for.                *)
(*                                                                         *)
(* Code: apps/web/components/agents/AgentsConsolePage.tsx; the API is      *)
(* apps/api/ragpilot_api/application/agents/agent_service.py and           *)
(* agent_execution_service.py.                                             *)
(***************************************************************************)
EXTENDS AgentReadiness, FiniteSets, Bags

CONSTANTS
    Agents,         \* identifiers of definitions, those still to be created included
    Contents,       \* what the editor may make of a definition
    NewContent,     \* what handleCreateAgent sends
    Catalogs,       \* states of the registries and the scope directory
    Installed,      \* pilots the deployment has
    Executions,     \* identifiers of executions
    Filters,        \* the list's filters that are used
    Existing,       \* definitions there are when the page is opened
    FirstCatalog,
    MaxPolls,       \* bound: refreshes of the executions in flight
    MaxCommands     \* bound: what operators do after the page is opened

Statuses == {"draft", "active", "paused"}
Draft == [status: Statuses, content: Content]
Filter == [status: Statuses \cup {"all"}, readiness: {"all", "ready", "attention"}]
Readiness == {"none", "ready", "attention"}
RunStatus == {"active", "awaiting", "ended"}
Execution == [of: Agents, status: RunStatus]

Listing == [Agents -> Draft \cup {None}]

\* A load of the definitions and of their readiness: two requests, answered one by one.
Load == [filter: Filters, agents: Listing \cup {None}, items: [Agents -> Readiness] \cup {None}]

Change == [kind: {"create", "update", "delete", "bulk"}, targets: SUBSET Agents,
           sent: Draft \cup {None}, filter: Filters, clears: BOOLEAN, refresh: Load \cup {None}]

Rows == [Executions -> RunStatus \cup {"none"}]
Poll == [of: Agents \cup {None}, answer: Rows \cup {None}, asked: BOOLEAN]

ASSUME ConsoleConstants ==
    /\ Contents \subseteq Content /\ NewContent \in Content
    /\ Catalogs \subseteq Catalog /\ FirstCatalog \in Catalogs
    /\ Filters \subseteq Filter /\ \E f \in Filters : TRUE
    /\ Existing \in [Agents -> Draft \cup {None}]
    /\ MaxPolls \in Nat /\ MaxCommands \in Nat
    /\ None \notin Agents \cup Executions \cup Draft \cup Execution
    /\ None \notin Load /\ None \notin Change /\ None \notin Poll

VARIABLES
    agents, registry, executions,   \* the API: definitions, registries, executions
    catalog, starting,              \* the page's copy of the registries; loads of it in flight
    filter, shown, edited, items,   \* filters, agents (with the edited ones), governance items
    selected, checked,
    load,                           \* the effect's load of the list, or None
    change,                         \* isMutating: the change under way, or None
    listed, panel, polls,           \* executions shown, the effect's load, other refreshes
    asking,                         \* the execution that is being started or cancelled, or None
    commands,                       \* how many commands were given
    crossed, strayed                \* history: see ListMatchesServer and PanelMatchesSelection

api  == <<agents, registry, executions>>
list == <<shown, edited, items, selected, checked>>
runs == <<listed, panel, polls, asking, strayed>>
vars == <<agents, registry, executions, catalog, starting, filter, shown, edited, items, selected,
          checked, load, change, listed, panel, polls, asking, commands, crossed, strayed>>

Nobody == [a \in Agents |-> None]
NoItems == [a \in Agents |-> "none"]
StartLoad(f) == [filter |-> f, agents |-> None, items |-> None]
StartPoll(a, asked) == [of |-> a, answer |-> None, asked |-> asked]
Unread == [endpoints |-> <<>>, profiles |-> <<>>, registrations |-> <<>>, knowledgeBases |-> <<>>]

TypeOK ==
    /\ agents \in Listing /\ registry \in Catalogs
    /\ executions \in [Executions -> Execution \cup {None}]
    /\ starting \subseteq {"registries", "directory"}
    /\ filter \in Filters
    /\ shown \in Listing /\ edited \subseteq Agents /\ items \in [Agents -> Readiness]
    /\ selected \in Agents \cup {None} /\ checked \subseteq Agents
    /\ load \in Load \cup {None}
    /\ change \in Change \cup {None}
    /\ listed \in Rows /\ panel \in Poll \cup {None}
    /\ BagToSet(polls) \subseteq Poll
    /\ asking \in {None} \cup [kind: {"start", "cancel"}, of: Agents,
                               execution: Executions \cup {None}, from: Agents \cup {None},
                               refreshing: BOOLEAN]
    /\ commands \in 0 .. MaxCommands
    /\ crossed \in BOOLEAN /\ strayed \in BOOLEAN

\* The page is mounted and its tenant is known: every effect has started its load.
Init ==
    /\ agents = Existing /\ registry = FirstCatalog
    /\ executions = [e \in Executions |-> None]
    /\ catalog = Unread /\ starting = {"registries", "directory"}
    /\ filter \in Filters
    /\ shown = Nobody /\ edited = {} /\ items = NoItems
    /\ selected = None /\ checked = {}
    /\ load = StartLoad(filter) /\ change = None
    /\ listed = [e \in Executions |-> "none"] /\ panel = StartPoll(None, FALSE)
    /\ polls = EmptyBag /\ asking = None
    /\ commands = 0 /\ crossed = FALSE /\ strayed = FALSE

(***************************************************************************)
(* Answers of the API                                                      *)
(***************************************************************************)

Matches(f, a) == agents[a] # None /\ f.status \in {"all", agents[a].status}

DefinitionsFor(f) == [a \in Agents |-> IF Matches(f, a) THEN agents[a] ELSE None]

Reported(a) ==
    IF PlatformReady(agents[a].content, registry, Installed) THEN "ready" ELSE "attention"

ItemsFor(f) ==
    [a \in Agents |-> IF Matches(f, a) /\ f.readiness \in {"all", Reported(a)}
                      THEN Reported(a) ELSE "none"]

\* Mutant: an execution of another definition is a row without a status.
RowsWithGaps(a) ==
    [e \in Executions |-> IF executions[e] = None THEN "none"
                          ELSE IF a \in {None, executions[e].of} THEN executions[e].status
                          ELSE None]

\* The executions of one definition, or of all of them.
RowsFor(a) ==
    [e \in Executions |-> IF executions[e] # None /\ a \in {None, executions[e].of}
                          THEN executions[e].status ELSE "none"]

(***************************************************************************)
(* The list and the selection                                              *)
(***************************************************************************)

\* Mutant: a new selection waits for the next poll.
SelectWithoutLoad(a) ==
    /\ selected' = a
    /\ UNCHANGED <<panel, strayed>>

\* scopedAgents
Scoped(ags, its, f) ==
    {a \in Agents : ags[a] # None /\ f.readiness \in {"all", its[a]}}

\* The effects of a new selection: the executions of that definition are loaded.
SelectAs(a) ==
    /\ selected' = a
    /\ \/ a = selected /\ UNCHANGED <<panel, strayed>>
       \/ /\ a # selected
          /\ panel' = StartPoll(a, FALSE)
          /\ strayed' = (strayed \/ polls # EmptyBag \/ asking # None)

\* The list, its readiness and the filter become these; what is out of scope is neither
\* selected nor checked any more.
Show(ags, its, f, preferred, marked) ==
    LET scoped == Scoped(ags, its, f) IN
    /\ shown' = ags /\ items' = its /\ filter' = f
    /\ SelectAs(IF preferred \in scoped THEN preferred ELSE None)
    /\ checked' = marked \cap scoped

(***************************************************************************)
(* Loads                                                                   *)
(***************************************************************************)

\* refreshRuntimeGovernance and refreshTenantScopeDirectory.
CatalogLoaded(part) ==
    /\ part \in starting
    /\ starting' = starting \ {part}
    /\ \/ /\ part = "registries"
          /\ catalog' = [catalog EXCEPT !.endpoints = registry.endpoints, !.profiles = registry.profiles,
                                        !.registrations = registry.registrations]
       \/ part = "directory" /\ catalog' = [catalog EXCEPT !.knowledgeBases = registry.knowledgeBases]
    /\ UNCHANGED <<api, filter, list, load, change, runs, crossed>>

CatalogFails(part) ==
    /\ part \in starting
    /\ starting' = starting \ {part}
    /\ UNCHANGED <<api, catalog, filter, list, load, change, runs, crossed>>

WithAnswer(call, part) ==
    IF part = "agents" THEN [call EXCEPT !.agents = DefinitionsFor(call.filter)]
    ELSE [call EXCEPT !.items = ItemsFor(call.filter)]

ListAnswered(part) ==
    /\ load # None /\ load[part] = None
    /\ load' = WithAnswer(load, part)
    /\ UNCHANGED <<api, catalog, starting, filter, list, change, runs, crossed>>

\* The end of refreshAgentDefinitionsForTenant.
ListLoaded ==
    /\ load # None /\ load.agents # None /\ load.items # None
    /\ Show(load.agents, load.items, filter, selected, checked)
    /\ edited' = {} /\ load' = None
    /\ UNCHANGED <<api, catalog, starting, change, listed, polls, asking, crossed>>

\* The list is emptied.
ListFails ==
    /\ load # None
    /\ Show(Nobody, NoItems, filter, None, checked)
    /\ edited' = {} /\ load' = None
    /\ crossed' = TRUE
    /\ UNCHANGED <<api, catalog, starting, change, listed, polls, asking>>

(***************************************************************************)
(* Commands on the list                                                    *)
(***************************************************************************)

\* Mutant: the filter applies to what is listed, nothing is loaded.
FilterWithoutLoad(f) ==
    /\ f # filter
    /\ Show(shown, items, f, selected, checked)
    /\ UNCHANGED <<api, catalog, starting, edited, load, change, listed, polls, asking, crossed>>

ChangeFilter(f) ==
    /\ f # filter
    /\ Show(shown, items, f, selected, checked)
    /\ load' = StartLoad(f)
    /\ crossed' = (crossed \/ change # None)
    /\ UNCHANGED <<api, catalog, starting, edited, change, listed, polls, asking>>

SelectAgent(a) ==
    /\ a \in Scoped(shown, items, filter) /\ a # selected
    /\ SelectAs(a)
    /\ UNCHANGED <<api, catalog, starting, filter, shown, edited, items, checked, load, change,
                   listed, polls, asking, crossed>>

\* The box of one row, or of the page: all of them, or none if all were checked.
Check(as) ==
    /\ as \subseteq Scoped(shown, items, filter) /\ as # {}
    /\ checked' = IF as \subseteq checked THEN checked \ as ELSE checked \cup as
    /\ UNCHANGED <<api, catalog, starting, filter, shown, edited, items, selected, load, change,
                   runs, crossed>>

\* updateSelectedAgent: the listed definition is edited in place.
Edit(c) ==
    /\ selected # None /\ shown[selected].content # c
    /\ shown' = [shown EXCEPT ![selected].content = c]
    /\ edited' = edited \cup {selected}
    /\ UNCHANGED <<api, catalog, starting, filter, items, selected, checked, load, change, runs,
                   crossed>>

(***************************************************************************)
(* Changes                                                                 *)
(***************************************************************************)

\* The first part of a handler, up to its request.
StartChange(kind, targets, sent) ==
    /\ change = None
    /\ change' = [kind |-> kind, targets |-> targets, sent |-> sent, filter |-> filter,
                  clears |-> kind = "delete" \/ (kind = "bulk" /\ selected \in checked),
                  refresh |-> None]
    /\ crossed' = (crossed \/ load # None)
    /\ UNCHANGED <<api, catalog, starting, filter, list, load, runs>>

CreateAgent == StartChange("create", {}, [status |-> "draft", content |-> NewContent])

\* Mutant: activation is not blocked.
NeverBlocked(draft) == TRUE

\* An active Agent that is not ready is not sent.
MayBeSent(draft) == draft.status = "active" => ConsoleReady(draft.content, catalog)

SaveAgent ==
    /\ selected # None
    /\ MayBeSent(shown[selected])
    /\ StartChange("update", {selected}, shown[selected])

TransitionAgentStatus(status) ==
    /\ selected # None
    /\ status = IF shown[selected].status = "active" THEN "paused" ELSE "active"
    /\ LET draft == [shown[selected] EXCEPT !.status = status] IN
         /\ MayBeSent(draft)
         /\ StartChange("update", {selected}, draft)

DeleteAgent ==
    /\ selected # None
    /\ StartChange("delete", {selected}, None)

BulkDeleteAgents ==
    /\ checked # {}
    /\ StartChange("bulk", checked, None)

Requested == change # None /\ change.refresh = None

\* update_agent_definition: the runtime policy and the bindings are validated, readiness is not.
Accepts(draft) ==
    /\ draft.content.engine = "langgraph" =>
         /\ draft.content.mode # "grounded_chat"
         /\ draft.status = "active" => "langgraph" \in Installed
    /\ draft.content.endpoint # None => ById(registry.endpoints, draft.content.endpoint) # None
    /\ draft.content.registrations \subseteq DOMAIN registry.registrations

\* The API makes the change to the definitions "as".
Apply(as) ==
    \/ /\ change.kind = "create"
       /\ \E a \in Agents : as = {a} /\ agents[a] = None
       /\ Accepts(change.sent)
       /\ agents' = [a \in Agents |-> IF a \in as THEN change.sent ELSE agents[a]]
    \/ /\ change.kind = "update" /\ as = change.targets
       /\ \A a \in as : agents[a] # None
       /\ Accepts(change.sent)
       /\ agents' = [a \in Agents |-> IF a \in as THEN change.sent ELSE agents[a]]
    \/ /\ change.kind \in {"delete", "bulk"} /\ as \subseteq change.targets
       /\ \A a \in as : agents[a] # None
       /\ agents' = [a \in Agents |-> IF a \in as THEN None ELSE agents[a]]

\* The request, or every request of a bulk deletion, is answered: the list is refreshed with
\* the filter of the time when the command was given.
ChangeApplied(as) ==
    /\ Requested
    /\ Apply(as) /\ change.targets \subseteq as
    /\ change' = [change EXCEPT !.targets = as, !.refresh = StartLoad(change.filter)]
    /\ UNCHANGED <<registry, executions, catalog, starting, filter, list, load, runs, crossed>>

\* The request is refused, or its answer is lost, or some requests of a bulk deletion fail: the
\* handler ends without a refresh.
ChangeFails(as) ==
    /\ Requested
    /\ \/ as = {} /\ UNCHANGED agents
       \/ as # {} /\ Apply(as)
    /\ change' = None
    /\ crossed' = (crossed \/ as # {})
    /\ UNCHANGED <<registry, executions, catalog, starting, filter, list, load, runs>>

RefreshAnswered(part) ==
    /\ change # None /\ change.refresh # None /\ change.refresh[part] = None
    /\ change' = [change EXCEPT !.refresh = WithAnswer(change.refresh, part)]
    /\ UNCHANGED <<api, catalog, starting, filter, list, load, runs, crossed>>

\* The rest of a handler, once the list is refreshed or could not be: a failure of the refresh
\* is swallowed, and the old list stays without its readiness.
EndChange(ags, its) ==
    /\ Show(ags, its, filter,
            IF change.clears THEN None
            ELSE IF change.kind = "bulk" THEN selected ELSE CHOOSE a \in change.targets : TRUE,
            IF change.kind = "bulk" THEN {} ELSE checked)
    /\ change' = None
    /\ UNCHANGED <<api, catalog, starting, load, listed, polls, asking>>

ListRefreshed ==
    /\ change # None /\ change.refresh # None
    /\ change.refresh.agents # None /\ change.refresh.items # None
    /\ EndChange(change.refresh.agents, change.refresh.items)
    /\ edited' = {}
    /\ UNCHANGED crossed

RefreshFails ==
    /\ change # None /\ change.refresh # None
    /\ EndChange(shown, NoItems)
    /\ crossed' = TRUE
    /\ UNCHANGED edited

(***************************************************************************)
(* Executions                                                              *)
(***************************************************************************)

Room == BagCardinality(polls) < MaxPolls
page == <<catalog, starting, filter, list, load, change, crossed>>

PanelAnswered ==
    /\ panel # None /\ panel.answer = None
    /\ panel' = [panel EXCEPT !.answer = RowsFor(panel.of)]
    /\ UNCHANGED <<api, page, listed, polls, asking, strayed>>

PanelLoaded ==
    /\ panel # None /\ panel.answer # None
    /\ listed' = panel.answer /\ panel' = None
    /\ UNCHANGED <<api, page, polls, asking, strayed>>

\* The executions of the former selection stay.
PanelFails ==
    /\ panel # None
    /\ panel' = None /\ strayed' = TRUE
    /\ UNCHANGED <<api, page, listed, polls, asking>>

\* Mutant: the page polls only while it waits for an execution of its own.
OwnActive(rows) == asking # None /\ \E e \in Executions : rows[e] = "active"

\* hasActiveExecution: queued or running; an execution that awaits approval is not polled.
HasActive(rows) == \E e \in Executions : rows[e] = "active"

\* The interval of the executions that are shown fires.
PollTick ==
    /\ HasActive(listed) /\ Room
    /\ polls' = polls (+) SetToBag({StartPoll(selected, FALSE)})
    /\ UNCHANGED <<api, page, listed, panel, asking, strayed>>

PollAnswered(call) ==
    /\ call.answer = None
    /\ polls' = (polls (-) SetToBag({call}))
                 (+) SetToBag({[call EXCEPT !.answer = RowsFor(call.of)]})
    /\ UNCHANGED <<api, page, listed, panel, asking, strayed>>

\* The end of refreshAgentExecutionsForCurrentScope, whatever is selected now; a handler that
\* waited for it ends too.
PollShown(call) ==
    /\ call.answer # None
    /\ polls' = polls (-) SetToBag({call})
    /\ listed' = call.answer
    /\ asking' = IF call.asked THEN None ELSE asking
    /\ UNCHANGED <<api, page, panel, strayed>>

PollFails(call) ==
    /\ polls' = polls (-) SetToBag({call})
    /\ asking' = IF call.asked THEN None ELSE asking
    /\ UNCHANGED <<api, page, listed, panel, strayed>>

\* The refresh button.
RefreshExecutions ==
    /\ panel = None /\ polls = EmptyBag /\ Room
    /\ polls' = SetToBag({StartPoll(selected, FALSE)})
    /\ UNCHANGED <<api, page, listed, panel, asking, strayed>>

Ask(kind, of, e) ==
    /\ asking = None
    /\ asking' = [kind |-> kind, of |-> of, execution |-> e, from |-> selected,
                  refreshing |-> FALSE]
    /\ UNCHANGED <<api, page, listed, panel, polls, strayed>>

ExecuteAgent ==
    /\ selected # None
    /\ shown[selected].status = "active" /\ items[selected] = "ready"
    /\ Ask("start", selected, None)

\* Retry and replay.
RerunExecution(e) == listed[e] = "ended" /\ Ask("start", executions[e].of, e)

CancelExecution(e) == listed[e] \in {"active", "awaiting"} /\ Ask("cancel", executions[e].of, e)

\* The API queues an execution, from the definition or from the snapshot of another execution,
\* or cancels one.
Obey(e) ==
    \/ /\ asking.kind = "start" /\ executions[e] = None
       /\ asking.execution = None => agents[asking.of] # None
       /\ executions' = [executions EXCEPT ![e] = [of |-> asking.of, status |-> "active"]]
    \/ /\ asking.kind = "cancel" /\ e = asking.execution
       /\ executions' = [executions EXCEPT ![e].status = "ended"]

Obeyed(e) ==
    /\ asking # None /\ ~asking.refreshing
    /\ Obey(e)
    /\ asking' = [asking EXCEPT !.refreshing = TRUE]
    /\ Room
    /\ polls' = polls (+) SetToBag({StartPoll(asking.from, TRUE)})
    /\ UNCHANGED <<agents, registry, page, listed, panel, strayed>>

\* The request is refused or its answer is lost.
AskingFails ==
    /\ asking # None /\ ~asking.refreshing
    /\ asking' = None
    /\ UNCHANGED executions \/ \E e \in Executions : Obey(e)
    /\ UNCHANGED <<agents, registry, page, listed, panel, polls, strayed>>

\* The durable runtime: see AgentExecution.
ExecutionStep(e) ==
    /\ executions[e] # None /\ executions[e].status # "ended"
    /\ \E status \in RunStatus \ {executions[e].status} :
         executions' = [executions EXCEPT ![e].status = status]
    /\ UNCHANGED <<agents, registry, page, runs>>

\* Registries and knowledge bases are changed elsewhere.
RegistryChanges(c) ==
    /\ c # registry /\ registry' = c
    /\ UNCHANGED <<agents, executions, page, runs>>

(***************************************************************************)
(* Specification                                                           *)
(***************************************************************************)

Parts == {"agents", "items"}

Panel ==
    \/ PanelAnswered \/ PanelLoaded \/ PollTick
    \/ \E call \in BagToSet(polls) : PollAnswered(call) \/ PollShown(call)

PanelFailures == PanelFails \/ \E call \in BagToSet(polls) : PollFails(call)

Rest ==
    \/ \E part \in starting : CatalogLoaded(part) \/ CatalogFails(part)
    \/ \E part \in Parts : ListAnswered(part) \/ RefreshAnswered(part)
    \/ ListLoaded \/ ListFails \/ ListRefreshed \/ RefreshFails
    \/ \E as \in SUBSET Agents : ChangeApplied(as) \/ ChangeFails(as)
    \/ AskingFails
    \/ \E e \in Executions : Obeyed(e) \/ ExecutionStep(e)

Commands ==
    \/ \E f \in Filters : ChangeFilter(f)
    \/ \E a \in Agents : SelectAgent(a)
    \/ \E as \in SUBSET Agents : Check(as)
    \/ \E c \in Contents : Edit(c)
    \/ CreateAgent \/ SaveAgent \/ DeleteAgent \/ BulkDeleteAgents
    \/ \E status \in Statuses : TransitionAgentStatus(status)
    \/ RefreshExecutions \/ ExecuteAgent
    \/ \E e \in Executions : RerunExecution(e) \/ CancelExecution(e)
    \/ \E c \in Catalogs : RegistryChanges(c)

Next ==
    \/ (Panel \/ PanelFailures \/ Rest) /\ UNCHANGED commands
    \/ Commands /\ commands < MaxCommands /\ commands' = commands + 1

Spec == Init /\ [][Next]_vars

\* Every request is answered or fails, and the interval of the page fires.
FairSpec == Spec /\ WF_vars(Panel /\ UNCHANGED commands)

(***************************************************************************)
(* Properties                                                              *)
(***************************************************************************)

\* What the page has read of the registries is what they are now.
CatalogCurrent ==
    /\ \/ /\ catalog.endpoints = <<>> /\ catalog.profiles = <<>> /\ catalog.registrations = <<>>
       \/ /\ catalog.endpoints = registry.endpoints /\ catalog.profiles = registry.profiles
          /\ catalog.registrations = registry.registrations
    /\ catalog.knowledgeBases \in {<<>>, registry.knowledgeBases}

\* The page does not look at reserved credentials, and not at the engine of a profile.
Overlooked(a) ==
    \/ ModelOf(a, registry) # None /\ ModelOf(a, registry).credential = "managed_reserved"
    \/ /\ a.scope \in DOMAIN registry.knowledgeBases /\ ProfileOf(a, registry) # None
       /\ ProfileOf(a, registry).engine \notin Installed \cup {"native"}

\* No definition becomes active, or is changed while active, without the platform reporting
\* it ready at that moment, although only the page checks readiness, against copies that may
\* not be loaded yet; update_agent_definition validates bindings and the runtime policy.
\* Excepted are registries that changed since the page read them, and what the page does not
\* look at (assessAgentReadiness 735-874; handleSaveAgent, handleTransitionAgentStatus
\* 2293-2398).
ActivatedAgentsAreReady ==
    [][\A a \in Agents :
         LET now == agents'[a] IN
         (now # agents[a] /\ now # None /\ CatalogCurrent /\ ~Overlooked(now.content))
         => (now.status = "active" => PlatformReady(now.content, registry, Installed))]_vars

\* Once nothing is in flight the page lists what the API has under the filter, but for drafts
\* that were edited, although an effect and the handlers of changes load the same list on
\* their own.  "crossed" is the exception, which lasts until the page is reopened: a load or
\* refresh failed, a change's answer was lost or a bulk deletion failed in part, or a change
\* overlapped a load of the effect, whose answers may be older or under another filter
\* (1318-1425, 1967-2008, 2141-2398).
ListMatchesServer ==
    load = None /\ change = None /\ ~crossed =>
        \A a \in Agents :
          /\ shown[a] # None <=> Matches(filter, a)
          /\ shown[a] # None /\ a \notin edited => shown[a] = agents[a]

\* The executions that are shown are the selected definition's, once its load is through,
\* unless a refresh was in flight when the selection changed, or the load failed
\* (1918-1952, 2070-2139).
PanelMatchesSelection ==
    panel = None /\ ~strayed /\ selected # None =>
        \A e \in Executions : listed[e] # "none" => executions[e].of = selected

\* An execution that ended does not stay shown as queued or running, whatever answers cross,
\* provided that requests stop failing: as long as one is shown so, the page polls
\* (2127-2139).
PollingCatchesUp ==
    <>[][~PanelFailures]_vars =>
        <>[](\A e \in Executions : listed[e] = "active" => executions[e].status # "ended")

=============================================================================
