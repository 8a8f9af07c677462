# RAGPilot in TLA+

Formal models of the parts of RAGPilot where things happen at the same time: the durable
core (the synchronization of data sources, the runs that ingest documents, the projection
into Elasticsearch, the execution of agents under human approval) and the web console (the
browser session, the chat page, the Agents page). Each component has a module translated
from the source, TLC configurations that check it on small instances, and, for every safety
property of a passing run, a proof that TLAPS checks for every value of the constants.
`PROJECT.json` ties every definition to the lines it models, every property to the run that
checks it and to a mutation of the code that breaks it.

Paths below are relative to the repository: `api/` is `apps/api/ragpilot_api/`, `worker/`
is `apps/worker/ragpilot_worker/`, `web/` is `apps/web/`.

## 1. Inventory

RAGPilot is a FastAPI service, two kinds of Temporal workers (documents and sources in
`worker/`, agents in `api/workers/`), PostgreSQL as the system of record, Elasticsearch as
a projection of it, Redis for shared limits, object storage, and a Next.js console. API and
workers never call each other: they meet in PostgreSQL rows, in Temporal workflows and in
signals. PostgreSQL runs at READ COMMITTED, and SQLAlchemy's session factory sets
`expire_on_commit=False`, so an object read before a commit keeps its values after it. The
console is a client of the API's HTTP routes; its tabs share local storage and a cookie.

| Component | State it keeps | Operations | What is hard | Modelled |
|---|---|---|---|---|
| Data Source synchronization (`api/.../data_source_service.py`, `data_source_repository.py`; `worker/workflows/data_source_sync.py`, its activities, service and connector) | lease token and expiry, status and cursor of `data_sources`; `data_source_sync_runs`; `data_source_items`; documents and versions | claim, start workflow, fail start, prepare, ingest children, project deletions, finalize, fail; URL import | leases that run out, retried and late attempts, lost replies, imports without a lease | `DataSourceSync`, `ExclusiveLease` |
| Workflow runs and document ingestion (`api/application/workflows`, `worker/application/document_ingestion_service.py`, its activity and workflow; reindexing in `api/application/documents`) | `workflow_runs`, `documents`, `document_versions`, chunks and embeddings, the upsert event | reindex, retry, start, queue, cancel; running, replace chunks, embed, complete, fail | writers that never look at what they overwrite; a status written after the worker has moved on; check-then-act | `WorkflowRuns` |
| Search projection (`worker/application/search_projection_service.py`, `infrastructure/search`, `commands/search_projection_backfill.py`; producers in ingestion and the document repository) | outbox events and their status; the indices and both aliases; an advisory lock | enqueue, claim, load, delete, bulk, complete, fail; backfill; rebuild with an alias switch | redelivery, partial writes, several versions in flight, a cutover under traffic | `SearchProjection` |
| Agent execution (`api/application/agents`, `api/workers`, `api/workflows`) | `agent_executions`, `agent_approval_requests`, the workflow's history and signals | queue, start, attach, attempt, ask, decide, signal, time out, resume, finalize, cancel, retry, replay | blind writes over stale rows, lost signals, retried activities with side effects | `AgentExecution` |
| Browser session (`web/lib/auth/provider.tsx`, `lib/local-session.ts`, `lib/authenticated-api.ts`, `ConsoleShell.tsx`, login and settings pages) | the stored session, each tab's session, the cookie and the API's session row | open, focus, refresh, storage event, sign in, sign out, refused request, revocation, expiry | refreshes that end after a sign-in or sign-out elsewhere; tabs that wake each other | `BrowserSession` |
| Chat page (`web/components/workspace/WorkspaceConsolePage.tsx`, `api/application/chat`) | scope, conversations, selection, transcript, documents; the API's conversations | hydrate, switch scope, search, select, ask, rename, delete, refresh | answers in any order, failures, optimistic messages | `WorkspaceChat` |
| Agents page (`web/components/agents/AgentsConsolePage.tsx`, `api/application/agents/agent_runtime_governance_service.py`, `agent_service.py`) | filter, list, readiness, selection, edits, executions; definitions, registries and executions of the API | load, refresh, filter, select, edit, save, activate, delete, execute, cancel, poll | stale copies of registries, loads that cross, polling that stops too early | `AgentReadiness`, `AgentsConsole` |
| Document lifecycle (`api/application/documents`) | documents, versions, assets | upload, import, reindex, delete, restore, purge | dispatch failures after a commit | partly, inside the first three modules |
| Outbound limiter (`api/infrastructure/runtime_policy.py`) | a Redis sorted set of leases, a counter per minute | acquire, renew, release, wait for a rate slot | lapsed holders that go on, clocks, Redis failures | planned |
| Identity (`api/application/identity`) | users, sessions, invitations, keys, sign-in events | sign in and out, lock out, invite, accept, reset | races of single-use tokens, lockout windows | planned |
| Access policy, chunking, fusion | none | pure functions | boundaries | planned |
| Retrieval, chat generation, model gateway and registry, tool and MCP registries, governance summaries | rows of their own | requests and CRUD | mostly scoring, I/O and formatting | no |
| Admin, Operations, Documents, Settings and Home pages | forms and tables | load, edit, save | little beyond what the Agents page shows | no |
| HTTP layer, MCP server, messages and markup, migrations, deployment | none of their own | | | no |

How the parts interact: the synchronization workflow starts an ingestion child per
materialized version and projects its deletions through outbox events; a completed
ingestion, a deletion, a restoration and a purge insert outbox events in their own
transaction; the projection reads versions and chunks back from PostgreSQL; the rebuild
command creates outbox events of its own and waits for them. Agent executions share only
Temporal and the database with the rest. The console sees all of it through requests that
are answered late, in any order, or not at all.

What makes each part correct:

- *Synchronization.* One run of a source at a time; a run that lost its lease changes
  neither cursor nor status; runs and sources do not get stuck; a completed run left nothing
  pending; the cursor and the items' hashes, by which later runs skip a page, name content
  that was stored (as long as the server's validators tell contents apart); a snapshot
  deletes only what is gone.
- *Workflow runs.* The rows of a run, its version and its document tell one story whoever
  wrote last; what retrieval reads of a completed version is whole; what is shown as in
  progress is being worked on.
- *Projection.* A document whose events are completed is found, unless a version was
  withdrawn or rewritten behind its event; aliases move only to an
  exact index and never under a writer; replays are harmless; rebuilds end. (That the
  *newest* version is found is what the documentation promises and the code does not keep.)
- *Agents.* A governed tool runs only after an approval; an execution that awaits approval
  can receive it; cancellation is final once the attempts that began before it have written;
  every execution ends whose attempts are not all lost.
- *Browser session.* When nothing is in flight all tabs show what is stored, and what is
  stored belongs to the cookie; the tabs come to rest. (That signing out ends the session of
  the API is what a comment assumes and the code does not do.)
- *Chat page.* When nothing is in flight the transcript is that of the selected
  conversation; lists, selection and documents belong to the scope in the header.
- *Agents page.* When nothing is in flight the list and the executions are the API's; an
  agent becomes active only when the platform calls it ready; polling catches up.
- *Limiter* (planned). At most `concurrency_limit` holders while leases are renewed.

`PROJECT.json` lists the hazards, each at its line, with the properties aimed at it or the
reason why none is yet.

## 2. The modules

| Module | Contents |
|---|---|
| `DataSourceSync` | state machine and properties of source synchronization; its refinement of `ExclusiveLease` |
| `ExclusiveLease` | what synchronization promises to its users: a resource with one holder at a time |
| `WorkflowRuns` | the runs of one document, between API and worker |
| `SearchProjection` | outbox, index and aliases |
| `AgentExecution` | one agent execution |
| `BrowserSession` | one browser with several tabs, and the session row of the API |
| `WorkspaceChat` | the chat page and the conversations of the API |
| `AgentReadiness` | readiness of an agent as the console and as the platform compute it: pure operators |
| `AgentsConsole` | the Agents page and the definitions, registries and executions of the API; extends `AgentReadiness` |
| `MC...` | instances for TLC: model values, fault sets, symmetry |
| `BoundedMaximum` | the lemma about the maximum of a set of numbers on which version numbering rests |
| `DataSourceSyncProofs`, `WorkflowRunsProofs`, `SearchProjectionProofs`, `AgentExecutionProofs`, `BrowserSessionProofs`, `WorkspaceChatProofs`, `AgentsConsoleProofs` | theorems and proofs about the module of that name (and, the last one, about `AgentReadiness`) |

Operators whose comment begins with "Mutant" are not part of the specification: each is a
plausible mistake in the definition that follows it, and shows that a property depends on
that definition.

One action is one database transaction, one remote call, one decision of a workflow, or, in
the console, one event: a click, an answer, a timer. The durable modules name their faults:
`DataSourceSync`, `SearchProjection` and `AgentExecution` take the set `Faults` of those
that may happen, `WorkflowRuns` records those that did in `hit`. The theorems hold for
every set of faults unless they name an assumption.

### DataSourceSync and ExclusiveLease

One source row, one web page (its url after redirects and its content), any number of
leased runs, the attempts of their prepare activities, and URL imports of the same page.

| State | Code |
|---|---|
| `syncStatus`, `syncCursor`, `leaseToken`, `leaseLive` | `data_sources.sync_status`, `sync_cursor`, `sync_lease_token`, and whether `sync_lease_expires_at` is in the future |
| `runStatus` | `data_source_sync_runs.run_status` |
| `starter` | where the API request that claimed the run is |
| `workflow`, `attempt`, `prepared` | the Temporal workflow: its step, the attempt it waits for, the prepare result in its history |
| `prep` | local variables of every attempt of prepare, late ones included |
| `items`, `versions`, `deletedDocs` | `data_source_items`, `document_versions` with their workflow run, `documents.deleted_at` |
| `outbox`, `projected` | `document_delete` events and those completed |
| `imports` | URL imports, between `start_sync` and `complete_sync` |
| `claimNo`, `claims` | history: the order of claims |

A run's id stands for its lease token, too: both are fresh uuids of one claim. A content is
a body, which stands for its hash, and a validator (ETag, else Last-Modified), if the server
gives one; cursor, items and versions remember both. The code takes a page for unchanged in
three places: the server answers 304 to the cursor's validator, the cursor names the body's
hash (both in `Discover`), or the item has the same validator *or* the same hash
(`Unchanged` in `FindItem`). A validator that two bodies share makes it store the hash of a
body that no version holds, which the model does, too: two of its contents share one.
`ToldApart` marks the bodies to which that cannot happen. `Finalize` may repeat (its answer can be
lost). Time is abstracted: a lease expires at any moment after the request that took it
has ended, which an ordinary request does in seconds and the lease in 30 minutes.
`AbandonStart` is the API process that dies half-way.

`ExclusiveLease` has two variables, the holder and what became of every holder, and three
actions: acquire, seize from a late holder, release by the holder. The refinement maps
`leaseToken` to the holder and `runStatus` to the outcomes; everything else is a stutter.

### WorkflowRuns

One document whose upload could not be ingested, and the requests that reindex it or retry
its runs. A run has one version, so one name stands for the request, its `workflow_runs`
row, its version, its chunks and its event.

| State | Code |
|---|---|
| `document` | `documents.ingestion_status` (with `indexing_status`, always written together) and `deleted_at` |
| `runs` | `workflow_runs`: `workflow_status`, `retry_of_workflow_run_id`, whether `temporal_workflow_id` is set |
| `versions`, `chunks`, `announced` | `document_versions`; `document_chunks` without or with embeddings; `document_version_upsert` events |
| `requests` | the requests of `reindex_document` and `retry_workflow_run`: where they are, and what `get_document_detail` read |
| `cancels` | `cancel_workflow_run`, between its read of the row and its commit |
| `workflows`, `attempts` | `DocumentIngestionWorkflow` and the attempt of `ingest_document`, with its number |
| `hit` | history: the faults that have occurred |

Every status write is an UPDATE by primary key and overwrites whatever is there; SQLAlchemy
leaves a write out if it would not change the value *read*, which `CreateRetry` keeps.
Temporal retries an attempt that raised until 10 minutes are over. The activity has no
heartbeat, so attempts do not overlap and a crashed worker is noticed only at the end of the
time. Several reads that a request makes before its next write are one step, so a plain
reindex never loses its version number here (in the code it may, which undoes the whole
transaction); the retry, whose reset is committed before, keeps its read and its insert
apart (`ReadLatest`, `CreateRetry`, `LoseNumber`). Left out: the steps and events tables,
operator notes, the guard that refuses to rewrite cited chunks (a foreign key protects them
as well), a termination whose reply is lost. Deletions and restorations have their events in
`SearchProjection`; versions of web pages are `DataSourceSync`'s.

### SearchProjection

| State | Code |
|---|---|
| `completed`, `writes` | versions with `ingestion_status = 'completed'`; how often a version's chunks were written, which tells their ids apart |
| `lifecycle`, `deletes` | `deleted_at` and purges; how often a document was deleted, which tells event keys apart |
| `outbox`, `done` | `search_projection_outbox_events` and those with `event_status = 'completed'` |
| `inflight` | projections between `claim_event` and their commit, with their place in `_project_document_version` |
| `content`, `active` | chunk documents of every index; the index that both aliases name |
| `rebuild` | backfill commands |
| `disturbed` | history: documents with a version that was withdrawn, or rewritten after its event |

What `WorkflowRuns` says of one document's ingestions appears here as three actions in any
order: `WriteChunks` gives a version new chunks, completed or not, `CompleteIngestion`
completes it and inserts its event unless that exists, and `Withdraw` sets a completed version
back to failed, as a cancellation or another attempt's failure does, without an event. The
shared advisory lock is held by a projection in `inflight` that has not released it, the
exclusive one by a rebuild in `locked` or `validated`; `NobodyQueued` is PostgreSQL's rule
that a shared request does not overtake a waiting exclusive one. A version's chunks are two,
enough for a bulk request to fail in part. `mark_failed`, a transaction of its own after the
rollback and conditional on `event_status != 'completed'`, changes nothing in the model:
failed events are claimed like pending ones, and a rebuild that waits for one may give up
in either case. A second delivery of an event that is being projected waits for the row lock, so
`ClaimEvent` is not enabled for it.

### AgentExecution

| State | Code |
|---|---|
| `status`, `attached` | `agent_executions.execution_status`, whether `temporal_workflow_id` is set |
| `approvals` | its approval requests, in the order of their creation |
| `wf` | the workflow: its step, `approval_decision`, the request its first activity reported, the attempt's number |
| `attempts` | attempts in progress: the status their row object was loaded or refreshed with (`seen`) and the request they created |
| `signals`, `launch`, `cancel` | decisions on their way, `queue_agent_execution`, `cancel_agent_execution` |
| `invoked` | tools that ran |
| `undone` | history: a workflow was terminated for a cancellation that the row does not show |

`Written` is SQLAlchemy's unit of work: an attribute is written only if it differs from the
value loaded, which decides what a stale attempt overwrites. `Governed` is what
`requires_admin_approval` means for an actor who is not `super_admin`; it is constant,
although the code reads it from the registry at each attempt. The check and the commit of a
decision are one step, so two operators who decide at once are not modelled.

An attempt ends without a report if its worker dies, if Temporal times it out (its
start_to_close is no longer than the time the engine alone may take), or if it raises before
the engine runs (`AttemptLost`; `ToolsRaise`, where the reason is a tool whose registration
was deleted); Temporal starts another one, without limit. A cancellation may come at any
moment. It closes the requests, terminates the workflow and commits, in this order, and may
be lost between any two of them or with Temporal's answer (`CancelLost`): if it is lost after
the termination, the row goes on showing an execution nobody carries out, and a second call
is refused because the workflow is closed. Retrying or
replaying an execution creates another one and is `Queue` again.

### BrowserSession

| State | Code |
|---|---|
| `account` | users and memberships of the directory |
| `cookie`, `owner`, `revoked`, `expired` | the HttpOnly cookie and the `user_sessions` row it names |
| `stored`, `pending` | the session in local storage; `storage` events on their way to other tabs |
| `open`, `ready`, `session` | the tabs and the state of their `AuthProvider` |
| `listening` | whether the effects that register its listeners have run |
| `refreshes` | calls of `refreshSession`: the session they parsed and the request they wait for |
| `refused`, `missed`, `overlapped` | history, for the exceptions the properties name |

`BeginRefresh` reads storage and asks for the user; the answer (known, unusable, refused,
failed) leads to the permissions or to the end, and `EndRefresh` writes what it put together
from what it parsed at the beginning. The end of the first refresh sets `isReady`; the effects
that register the listeners for `focus` and `storage` run after the page was rendered with it
(`Listen`). A storage event that comes before is lost; it does no harm while the first
refresh is still under way, and leaves the tab behind (`missed`) if it comes between the two.
Reasons of an exit, and what the session merely
displays, are left out. Revoking one's own session in the settings is `SessionRevoked`
followed by `SignOutRevoked`. Branches no input reaches (a stored text that is not JSON,
a session without expiry or user) are left out.

### WorkspaceChat

| State | Code |
|---|---|
| `exists`, `questions` | conversations and stored questions of the API |
| `scope`, `hydrating` | `bootstrap`, and a `hydrateWorkspace` in flight |
| `conversations`, `selected`, `search`, `transcript`, `loading` | the page's states and the load of the transcript |
| `documentsOf`, `operations` | the scope whose documents and runs are shown; the effect that loads them |
| `sending`, `changing` | the question, the rename or deletion under way; other controls are disabled meanwhile (`Busy`) |
| `refreshes` | `refreshConversations` and `refreshOperations` in flight: nothing cancels them |
| `crossed`, `disturbed` | history, for the exceptions the properties name |

Paging, feedback, the documents and workflows views, the handlers of a former sidebar
(lines 2916-3355), which no visible control reaches, and the effect that sets selection and
search text when a link into the page is followed (lines 2427-2456) are left out.

### AgentReadiness and AgentsConsole

`AgentReadiness` has `assessAgentReadiness` of the page and the governance service's
computation as operators over one definition and one state of the registries.
`AgentsConsole` holds the page's state (`catalog`, `filter`, `shown`, `edited`, `items`,
`selected`, `checked`, `listed`), what is in flight (`starting`, `load`, `change`,
`panel`, `polls`, `asking`) and what the API has (`agents`, `registry`, `executions`).
A load is two requests that are answered one by one. `crossed` and `strayed` are history.

Simplified: one tenant, the page mounted when it is known; of the filters those by status
and readiness; one page of rows; one request that starts or cancels an execution at a time;
a bulk deletion removes its targets at once or a part of them; an edit of the mode, which in
the code also restarts the load of the panel, is an edit like the others. Left out: the
dialog that maps MCP tools, the history of runs, malformed scope texts,
`handleDuplicateAgent` (which nothing calls).

## 3. The runs

Passing runs (every property has a mutant that breaks it under the same configuration):

| Run | Instance | What it shows |
|---|---|---|
| `sync_fencing` | 2 runs, 1 attempt, 1 url, 1 import; 3 bodies, two of which share a validator while the third has none; lease expiry, late attempts, ignored validators | `LeaseExclusive`, `NoStaleCompletion`, `FinishedRunsStayFinished`: the token in finalize's and fail's WHERE clause and the superseding claim keep overlapping workers from being two *runs*; `ImplementsLease`: row and runs behave like `ExclusiveLease`. `VersionNumbersDistinct`, `CursorHasVersion`: what overlapping workers and an import store stays consistent |
| `sync_recovery` | 3 runs, 2 attempts, 2 urls, the same 3 contents; crashes, failing activities | `CompletedRunLeavesNothingBehind`, `ItemMatchesNewestVersion`, `SnapshotSparesSeenPage`: retried attempts find what lost ones committed |
| `sync_liveness` | 2 runs, 2 attempts, 1 content; lease expiry, crashes, lost start replies | `StartedRunsFinish`, `SourceClaimableAgain` |
| `workflow_runs` | the failed upload and 2 requests, one of which may be cancelled, 2 attempts each, retry depth 1, every kind of fault, one kind per behaviour | `RunsAgreeWithVersions`, `SearchableVersionsAreWhole`, `WaitingDocumentIsServed`, `ActiveRunIsServed` |
| `projection` | 1 document with 2 versions, whose chunks are written twice in all, 1 deletion, 2 indices, 1 rebuild, 2 events of the application; failing requests, crashes | `SettledDocumentsAreFound`, `CutoverIsExact`, `NoProjectionStraddlesCutover`, `ReplaysChangeNothing`, `RebuildsEnd` |
| `agent_execution` | 2 tools, one governed, 3 attempts, 2 cancellations; crashes, tools that raise, lost launches, signals and cancellations | `GovernedToolsWereApproved`, `AwaitingHasSomeoneWaiting`, `CancelledStaysCancelled`, `EveryRunEnds` |
| `session` | 2 tabs, 2 users, one of whom may be suspended, 2 sign-ins, 2 refreshes in flight, 1 tab whose listeners come late | `QuietTabsAgree`, `SettledIdentity`, `TabsSettle` |
| `workspace_chat` | 2 workspaces with a scope each, 3 conversations, 2 questions each, 2 refreshes in flight, 4 commands | `TranscriptMatches`, `ScopeIsShown` |
| `agents_console` | 2 agents, 2 contents, 2 states of the registries, 2 filters, 1 execution, 1 poll, 3 commands | `ListMatchesServer`, `PanelMatchesSelection`, `ActivatedAgentsAreReady`, `PollingCatchesUp` |

Runs that end in a violation, each a disagreement between what the repository says and what
the code does (the traces are described under "findings" of `PROJECT.json`):

| Run | Property | Behaviour of the code |
|---|---|---|
| `sync_lost_start_reply` | `LeaseExclusive` | `fail_workflow_start` compares a stale object and clears a later run's lease |
| `projection_versions` | `VersionSafe` | an older version projected later replaces the newer one |
| `session_sign_out` | `SignOutEndsBackendSession` | the revoking request depends on a token that is never stored, so it is never sent |

The models reach more behaviours that the properties exclude by a fault, a constant or a
history variable, each named in the property's comment or its hazard:

- with the fault `page_moves`, a retried prepare attempt pairs the recovered version with the
  cursor of other content, and `CursorHasVersion` fails; with two governed tools, the resumed
  run asks for a second approval and the workflow returns, and `AwaitingHasSomeoneWaiting`
  fails. The theorems about those two properties name these exceptions; the others hold under
  these faults and with any number of governed tools;
- a changed page whose Last-Modified (or ETag) did not change is marked unchanged, and item
  and cursor get the hash of a body that no version holds: later runs skip it.
  `CursorHasVersion` and `ItemMatchesNewestVersion` speak of bodies that are `ToldApart`;
- a cancelled ingestion whose version was already completed and projected leaves the index
  without the version that is then the newest completed one, although every event is
  completed; so does an attempt that rewrites chunks after the event. Nothing repairs it but a
  backfill. `SettledDocumentsAreFound` leaves `disturbed` documents out;
- an attempt that read the row before it was cancelled writes over the cancellation.
  `CancelledStaysCancelled` holds from the moment when no such attempt is left. A cancellation
  that is lost after it terminated the workflow, or overwritten then, leaves an execution that
  awaits approval or runs for good (`undone`). A deleted tool, or an engine that takes all of
  its time, loses every attempt, and the execution never ends (`AttemptsExhausted`);
- a tab that an event reached between the end of its first refresh and the registration of its
  listeners shows a former session until it is focused (`missed`);
- in `WorkflowRuns` each fault that a property names is needed: TLC finds the property violated
  without the exception, by that fault alone. A refused start leaves the document pending for
  ever. A worker that overtakes the API's "queued", a dead API process, a dead worker, or a
  failure that cannot be recorded leave a run shown as active that can be neither retried
  nor cancelled. A completion whose commit was reported as failed, followed by a failure that
  cannot be recorded, lets the next attempt empty a version that stays completed. Beyond
  faults: two retries of one run may both pass the check of its children, and a cancelled run
  does not stay cancelled;
- on the pages, answers that cross (a scope switched under a question, a change under a load,
  a selection under a poll) leave what they show stale until the next load.

### Bounds, and why they are enough

- *Runs, attempts, urls, contents of synchronization.* Each hazard of the lease needs one run
  that is late and one that took over. A redirect needs two urls, and an item that is deleted
  and found again a third run. Two bodies with one validator and one without show a change
  that the validator tells, one that it does not, and its coming and going. Liveness does not
  depend on what the page says: one content. Two attempts are a first and a retry.
  Version numbers need no bound: an attempt makes one version at most.
- *Imports* appear only with runs that do not crash: an import may move the cursor between
  two attempts of a run, whose retry then skips the page and leaves the earlier attempt's
  version pending. `sync_recovery` leaves imports out for that reason.
- *Leases that expire* appear without the snapshot properties: while two runs write at once,
  the older snapshot takes the page that the newer run has marked for unseen, and a blind
  `mark_unchanged` may restore an older hash. What does hold then is in `sync_fencing`.
- *Pages change* only while no run is preparing, except with the fault `page_moves`.
- *Workflow runs.* Two requests beside the failed upload are a reindex beside a retry, two
  retries of one run, or a retry refused for its depth. A run that is cancelled meets the
  other one only through the document, so one cancellable run is enough. All properties were
  also explored with two kinds of faults per behaviour, and the theorems put no bound on any
  of it.
- *Documents, events.* Documents do not interact except through the cutover's comparison of
  sets; two versions and one deletion give two application events beside those of the
  rebuild. Two writings are a version's first and its second, or those of two versions; three
  were explored as well (1.7 million states) and showed nothing new.
- *Cancellations of agents* come at any moment, during attempts and other steps, twice: the
  second one after a lost or refused first one.
- *Attempts of agents.* Temporal retries these activities without limit; `MaxAttempts` bounds
  the attempts the model starts. The last of them may be lost as well: `EveryRunEnds` says
  that this, or a cancellation undone, is the only way for a run not to end.
- *Attempts of agents that outlive their time* (`late_attempt`) are left out of the run, since
  `AwaitingHasSomeoneWaiting` needs that; the theorems about the other safety properties
  include them.
- *Tabs.* A write in one tab is an event in the other; a third tab would receive the same.
  Two refreshes may be in one tab or in both. Two sign-ins are one account twice or two accounts
  in the order in which the second one may be suspended; the first session may be revoked, the
  second may expire (`SignsIn`, `Ends`). The effects of one tab may run late (`Late`), those of
  the other at once: missed events of both are two times the same. The theorems leave all of
  these open.
- *Pages.* Two scopes are a former and a present one; the third conversation is the new one.
  Two filters are the chosen and the former one; the commands suffice for a change, a
  selection and a filter, or an execution and its cancellation, within one another's loads.

Symmetry is used for runs, urls, contents and imports of synchronization, in runs without
liveness properties. Deadlock is checked where the system never stops (a page always may
change); the other configurations switch it off because finished runs, executions and
rebuilds, or the bounds on commands, are the end of the instance.

### Fairness

- *Synchronization.* Temporal schedules the workflow and its activities until they end or
  their attempts are used up, so each run's `WorkflowStep` and each attempt's `PrepareStep`
  are weakly fair; a request ends, if only because the process died (`RequestStep` includes
  `AbandonStart`); time passes (`LeaseExpires`). Claims, imports, page changes and losses are
  owed to nobody.
- *Projection.* Some claimed projection is carried on, and a rebuild command proceeds
  (`WaitAborts` is its timeout). That an event is delivered is not assumed.
- *Agents.* Attempts start and are carried out unless they are lost, the approval timer
  fires, a cancellation that began is finished unless it is lost. Nobody has to decide,
  cancel or deliver a signal.
- *Browser.* Storage events are delivered, effects run after the render that scheduled them,
  and requests are answered or fail: all are weakly fair per tab or per call. Users owe
  nothing; `TabsSettle` is conditional on their pausing.
- *Agents page.* Requests end and the interval fires (`Panel`); no command is owed.
- *Workflow runs* and the chat page state no fairness. What must not get stuck there is
  stated as an invariant instead: somebody is at work on whatever is shown as in progress.

No action is strongly fair. `RebuildsEnd` in particular holds under weak fairness only
because waiting requests for the exclusive lock are not overtaken.

## 4. The proofs

| Theorem | Assumption | Argument |
|---|---|---|
| `StaleRunsNeverComplete` | none | `FencingInvariant`: the token, if any, is that of the latest claim (`claimNo[r] = claims`). Only `Finalize` completes a run, and under its token, so a run that a later claim followed cannot pass the WHERE clause |
| `LeaseExcludesConcurrentRuns`, `FinishedRunsAreFinal` | `ReliableStart`: no lost start reply | `LeaseInvariant` adds that a request which still starts or fails its run holds the token, and that its workflow does not exist yet: without it `FailWorkflowStart` might clear somebody else's lease |
| `SynchronizationIsALease` | `ReliableStart` | a claim is `Acquire` or `Seize`, because by `LeaseInvariant` the one running run is the one the row's token names; `Finalize`, `Fail` and a failed start are `Release`; all other actions leave token and statuses alone |
| `TypeCorrect`, `VersionNumbersAreDistinct` (`DataSourceSync`) | none | `SyncInvariant`: types; jobs handed over name versions that exist, announced events are in the outbox, rows that exist name a document, and version numbers are bounded. From the bound `BoundedMaximum` shows that `1 + Max` of a document's numbers is larger than each of them, without assuming that runs are finitely many |
| `CursorIsBacked` | no page moves under a run | `CursorInvariant`: every body that a run could carry to the cursor (its items, what attempts read, what results name) and that validators tell apart is that of a stored version or import, and while a run prepares its attempts find one page. The step that needs it is recovery: an attempt takes over the version of an earlier one together with the page *it* has found |
| `ItemsMatchTheirVersions`, `SnapshotsSpareTheirPage` | `AttemptsInTime`: no lost start reply, no lease that expires under its run, no attempt that outlives its time | `AloneInvariant`: an attempt under way is the one its workflow waits for and its run holds the lease, hence there is one at most; what it found unchanged is unchanged when it marks it, and what it wrote or recovered carries its run's mark when it takes the snapshot. With `RowsInvariant` (no assumption), that items have documents of their own, no other item gives that document away. A page found unchanged by its validator has the item's body if validators tell it apart (`ToldApart`), which is all the first theorem speaks of |
| `CompletedRunsAreWhole` | `NobodyInterferes`: `AttemptsInTime`, no page moves under a run, no server ignores the validator it gave, no imports | `LeftInvariant`: a run that prepares has one version at most, bound to the item of its page, and none if the cursor already names the page, so a retried attempt either finds it (`FoundVersion`: exactly then is something to recover) or has nothing to find; each result names it and all deletion events; ingestion and projection work off the result |
| `RunsTypeCorrect`, `RowsAgree`, `SearchableWhole` | none | `RunsInvariant`: `Lifecycle` ties a request's place to its rows (no run before the insert, no workflow before the start, no cancellation before the row can be read as queued), `Attempting` an attempt's place to run, chunks and version, `Starting` says what may have happened while the API has not yet written "queued". One lemma per action |
| `DocumentServed`, `RunServed` | none | `RunsServed` is their common invariant (`SInv`), which adds that a document deleted under a retry has left its mark in `hit`. Whoever stops serving either wrote a final status in the same step, handed over to another (a request to its workflow's first attempt, an open workflow to a cancellation) or left a fault in `hit`. The step that needs `RunsInvariant` is "queued": `Starting` says that the attempt is still there |
| `TypeCorrect` (`SearchProjection`) | none | an event in flight is in flight once and not completed |
| `CutoversAreExact`, `ProjectionsRespectCutovers` | `OneRebuildAtATime` | `CutoverInvariant`: one rebuild is in progress; while it is locked or validated no projection holds the shared lock; a validated target equals `Expected`, which stays true because the SHARE locks keep transactions on documents out |
| `DocumentsAreFound` | `OneRebuildAtATime` | a completed version is found in the active index or owed to it: an event of the document for that index that is not completed and whose claim, if any, has not written yet. Events of a document that was never deleted are about its completed versions; what removes its chunks, a projection between its delete and its bulk request, owes them until they are written; a rebuild resets only the index that is not served, and moves the aliases only when `CutoverInvariant` says that its target has everything. Documents that were `disturbed` are owed nothing |
| `ReplaysAreHarmless` | none | only a projection in flight or a reset changes an index, and the type invariant keeps completed events out of flight |
| `TypeCorrect`, `GovernedToolsNeedApproval` (`AgentExecution`) | none | `ExecutionInvariant`: the resumed activity's grant names the tool of the request its first activity *reported*, whereas the decision may be about another request of the same execution (of a lost attempt). The two agree because every attempt of the first activity asks for the first governed tool, and other tools are asked for only after the decision was taken |
| `CancellationIsFinal` | none | once the attempts that read the row before its cancellation have written, those left are in the engine, after which they refresh the row and find it cancelled, or about to report; attempts that start later load a cancelled row and are one or the other from the beginning. The launch is over by then (`Launched`), and no decision writes the status |
| `AwaitingIsAttended` | `OneAtATime`: no attempt outlives its time; `OneGovernedTool` | the only attempt in flight is the current one, or was left over by a cancellation that closed its workflow; it has seen the row's present status unless that was cancelled since, and if it overwrites that, the cancellation is undone. After the grant no activity asks again, because the tool granted is the one governed tool |
| `SessionTypeCorrect`, `TabsAgree` | none | a tab that does not show what is stored, was not refused and missed no event has an event on its way or a refresh in flight, which will set it: every write is announced to all other open tabs, and a refresh sets its own tab with what it writes |
| `IdentitySettles` | none | `IdentityInv`: unless sign-ins and sign-outs overlapped, some open tab *vouches* for the storage: what its refreshes have learnt is true, and while something else is stored it has a refresh in flight or an event on its way, or has missed one. It is the tab that signed in last |
| `TypeCorrect` (`WorkspaceChat`) | none | the optimistic turn is the last one, and a stored question has a number |
| `ShownIsOfTheScope` | none | unless the scope was switched over them (`crossed`), calls in flight were started for the scope in the header, and what is listed, selected and about to be listed belongs to its workspace; while a new scope hydrates, the old list may still be there |
| `TranscriptIsStored` | none | a load in flight is the selected conversation's and brings its stored text; an optimistic turn follows the text the question was asked in, stored or not; otherwise the transcript is the stored text, unless a named disturbance happened. Conversations that were ever listed or selected have a question stored, so a deleted identifier is not met again |
| `ReadinessAgrees`, `PlatformReadyIsConsoleReady` | none | by cases over the mode, the model's source and the tools: each issue of the page is one of the platform's |
| `ConsoleTypeCorrect`, `ActivationIsReady` | none | what a save sends was found without blocking issues in a copy of the registries; where the copy is current, the pure theorems above apply |
| `ListIsTheServers`, `PanelShowsSelection` | none | an answer in flight is what the API has, unless a change began after it was asked for, which marks `crossed`; polls in flight are for the selection, or `strayed` |

Assumptions on constants (`SyncConstants`, `RunConstants`, `ProjectionConstants`,
`ExecutionConstants`, `SessionConstants`, `ConsoleConstants` and the like) say that bounds
are natural numbers, that sample values have their types, and that NULLs differ from values;
TLC evaluates them in every run. Nothing else is assumed.

The assumptions on faults are not weaker than they need be. For each one TLC finds the property
violated when that fault alone, or with crashes, failing activities and moving pages, is
allowed: `CompletedRunLeavesNothingBehind` fails with any one of `late_attempt`,
`lease_expiry`, `lost_start_reply`, `page_moves`, `ignored_validator` or one import;
`SnapshotSparesSeenPage` with
each of the first three; `ItemMatchesNewestVersion` with each of them, too, for the last two
only once three runs meet (a run decides "unchanged", another one writes, and the blind
`mark_unchanged` of the first puts the old hash back); `CursorHasVersion` with `page_moves`;
`AwaitingHasSomeoneWaiting` with `late_attempt` or a second governed tool. An
import breaks recovery because it moves the cursor between two attempts of a run: the retry
skips the page, and the version of the lost attempt stays pending. In the deployed system the
lease lasts 30 minutes and the activity 10 minutes per attempt, three times: `AttemptsInTime`
describes runs that are not that late, not all runs.

Only model-checked: the liveness properties (`StartedRunsFinish`, `SourceClaimableAgain`,
`RebuildsEnd`, `EveryRunEnds`, `TabsSettle`, `PollingCatchesUp`), which need fairness and
ENABLED, out of the prover's reach, and the three runs that end in a violation, which no
theorem could state. Every other property of a run is stated by a theorem.

How the larger proofs are laid out: each step that changes several records is described once
by what it does to their fields (`AttemptStep` and the `...Effects` lemmas of
`DataSourceSyncProofs`), and the invariants are then proved from those descriptions, one
lemma per invariant and kind of step. The transcript of `WorkspaceChat` is filtered by
`Kept` and `NthKept` rather than `SelectSeq`, whose recursive definition the provers cannot
unfold.

## 5. The plan

Done: the nine models of section 2, their runs and theorems, and one refinement.
Open, in this order:

1. `RuntimeLimiter`: leases in the sorted set, renewal, release, local fall-back, rate
   windows. Theorem: never more live leases than the limit, for every limit.
2. The composition of `DataSourceSync` with `WorkflowRuns`: a failed ingestion behind an item
   that later runs take for unchanged, and its retry by an operator; and an eventually exact
   index that `SearchProjection` implements for one version per document.
3. Racing decisions and counted tool invocations in `AgentExecution`; the aborted
   transaction's advisory lock and the composed read side in `SearchProjection`.
4. Identity: single-use invitations and reset tokens, the lockout window.
5. Pure operators against reference definitions: chunk windows, fusion, access policy.
6. Proofs: `RuntimeLimiter` and the other modules to come; `RebuildsEnd` and the other liveness
   properties stay with TLC.

## 6. Not modelled, and why

Parsing, embedding, scoring, prompts and HTTP routing compute or format and keep no shared
state. Governance summaries only read. Provider adapters are I/O. The registries are CRUD
whose result enters `AgentExecution` as `Governed` and `AgentsConsole` as `Catalogs`.
Multi-tenancy is a filter on every query; one tenant is modelled. Clocks are replaced by
"may happen at any time" wherever the code compares timestamps.

By lines, most of the repository's TypeScript is the console's markup, translations and
wrappers around requests: the two message catalogues alone are 10,700 lines, and the largest
page, the Admin console, is forms and tables over the API that load and refresh the way the
Agents page does. The modules model the states, effects and handlers of the pages whose
requests overlap in ways that matter; the share of those lines is small, and modelling
markup would say nothing.
