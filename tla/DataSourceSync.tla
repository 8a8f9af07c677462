--------------------------- MODULE DataSourceSync ---------------------------
(***************************************************************************)
(* Durable synchronization of one web data source (connector public_web_v1).*)
(*                                                                         *)
(* The API claims a lease on the data_sources row and starts a Temporal     *)
(* workflow; the worker's prepare activity reads the remote page, writes    *)
(* documents and items in a series of separate transactions, and returns    *)
(* what there is to ingest; the workflow ingests, projects the deletions    *)
(* and finalizes the run under the lease.  URL imports of the same page     *)
(* share the row without taking the lease.                                  *)
(*                                                                         *)
(* One action is one database transaction, one remote call or one workflow  *)
(* decision.  A content is what the page answers with, and what the cursor, *)
(* an item or a version remembers of it: the body, which stands for its     *)
(* hash, and the validator (ETag, else Last-Modified), if it has one.       *)
(***************************************************************************)
EXTENDS Naturals, FiniteSetsExt

CONSTANTS
    Runs,          \* leased synchronization runs, one per POST .../sync; a
                   \* run's id also stands for its lease token (both are fresh
                   \* uuids made by the same claim)
    Imports,       \* URL imports of the same page
    Urls,          \* where the page can end up after redirects: external ids
    Bodies, Validators,
    Contents,      \* what the page can answer with: bodies with validators
    MaxAttempts,   \* attempts of the prepare activity (3 in the code)
    Faults,        \* the faults the environment may show, see FaultKinds
    NoRun, NoBody, NoValidator, NoUrl, NoVersion    \* the code's NULLs

(***************************************************************************)
(* lost_start_reply : start_workflow raises although the server started it  *)
(* lease_expiry     : a lease runs out while its run is still working       *)
(* crash            : a worker dies inside the prepare activity             *)
(* late_attempt     : an attempt outlives its 10 minutes; Temporal starts   *)
(*                    the next one while the old one keeps writing          *)
(* activity_failure : an ingestion or projection exhausts its attempts, or  *)
(*                    the remote page is refused                            *)
(* page_moves       : the page changes while a run is preparing             *)
(* ignored_validator: the server answers 200 although the validator it is   *)
(*                    sent is the one of the page                           *)
(***************************************************************************)
FaultKinds == {"lost_start_reply", "lease_expiry", "crash", "late_attempt",
               "activity_failure", "page_moves", "ignored_validator"}

ASSUME SyncConstants ==
    /\ MaxAttempts \in Nat \ {0}
    /\ Faults \subseteq FaultKinds
    /\ Contents \subseteq [body : Bodies, validator : Validators \cup {NoValidator}]
    /\ NoBody \notin Bodies
    /\ NoValidator \notin Validators
    /\ NoRun \notin Runs
    /\ NoVersion \notin Runs \X (1..MaxAttempts)

Attempts == 1..MaxAttempts

\* A prepare attempt materializes at most one version (the connector yields
\* one item), so the attempt names the version, and the document it creates.
VersionIds == Runs \X Attempts

VARIABLES
    page,          \* the remote page: [url, content]
    syncStatus, syncCursor, leaseToken, leaseLive,     \* data_sources row
    runStatus,     \* data_source_sync_runs.run_status of leased runs
    starter,       \* the API request that claimed the run
    workflow,      \* DataSourceSyncWorkflow of the run
    attempt,       \* the prepare attempt Temporal is waiting for
    prep,          \* local state of every prepare attempt
    prepared,      \* the prepare result recorded in the workflow's history
    items,         \* data_source_items, by external id
    versions,      \* document_versions with their workflow_run
    deletedDocs,   \* documents with deleted_at set
    outbox,        \* document_delete events, by run and document
    projected,     \* those that are completed
    imports,       \* URL imports and their unleased runs
    claimNo, claims     \* history: the order in which runs took the lease

sourceVars   == <<syncStatus, syncCursor, leaseToken, leaseLive>>
runVars      == <<runStatus, starter, workflow>>
prepVars     == <<attempt, prep, prepared>>
contentVars  == <<items, versions, deletedDocs>>
outboxVars   == <<outbox, projected>>
historyVars  == <<claimNo, claims>>
vars == <<page, sourceVars, runVars, prepVars, contentVars, outboxVars,
          imports, historyVars>>

-----------------------------------------------------------------------------
(* Records *)

NoContent == [body |-> NoBody, validator |-> NoValidator]

\* The cursor that a URL import leaves is the bare hash of the body.
Bare(c) == [c EXCEPT !.validator = NoValidator]

Cursors == {NoContent} \cup Contents \cup {Bare(c) : c \in Contents}

\* The server is sent the validator that was remembered, and finds it current.
SameValidator(old, new) == old.validator # NoValidator /\ old.validator = new.validator

\* version_token == or content_hash ==. Without a validator the token is the hash.
Unchanged(old, new) == SameValidator(old, new) \/ old.body = new.body

NoPage   == [url |-> NoUrl, content |-> NoContent]
IdlePrep == [pc |-> "idle", prior |-> NoContent, page |-> NoPage,
             job |-> NoVersion, events |-> {}]
DeadPrep == [IdlePrep EXCEPT !.pc = "dead"]
NoItem   == [status |-> "absent", content |-> NoContent, doc |-> NoVersion,
             seen |-> NoRun, changed |-> NoRun]
NoDocVersion == [status |-> "absent", doc |-> NoVersion,
                 content |-> NoContent, number |-> 0]
NoResult == [cursor |-> NoContent, job |-> NoVersion, events |-> {}]
NewImport == [phase |-> "idle", status |-> "none", prior |-> NoContent,
              content |-> NoContent]

VersionsOf(doc) == {v \in VersionIds : versions[v].doc = doc}

\* Mutant: the number comes from the newest completed version.
NextNumberOfCompleted(doc) ==
    1 + Max({0} \cup {versions[v].number : v \in {w \in VersionsOf(doc) :
                                                    versions[w].status = "completed"}})

\* COALESCE(MAX(version_number), 0) + 1
NextNumber(doc) == 1 + Max({0} \cup {versions[v].number : v \in VersionsOf(doc)})

\* Mutant: a retried attempt does not look for what an earlier one committed.
NothingToRecover(r, item) == {}

\* recover_ingestion_payload, when the item was last changed by run r: the
\* newest workflow run that r created for the item's document.
Recoverable(r, item) ==
    LET own == {v \in VersionsOf(item.doc) : v[1] = r}
    IN  {v \in own : item.changed = r /\
             \A w \in own : versions[w].number <= versions[v].number}

PrepPcs == {"idle", "loaded", "discovered", "unchanged", "changed", "insert",
            "deletions", "ready", "dead"}

PrepStates == [pc : PrepPcs, prior : Cursors,
               page : [url : Urls \cup {NoUrl}, content : Cursors],
               job : VersionIds \cup {NoVersion}, events : SUBSET (Runs \X VersionIds)]

PrepareResults == [cursor : Cursors, job : VersionIds \cup {NoVersion},
                   events : SUBSET (Runs \X VersionIds)]

ItemRows == [status : {"absent", "active", "deleted"}, content : Contents \cup {NoContent},
             doc : VersionIds \cup {NoVersion},
             seen : Runs \cup {NoRun}, changed : Runs \cup {NoRun}]

VersionRows == [status : {"absent", "pending", "completed", "failed"},
                doc : VersionIds \cup {NoVersion},
                content : Contents \cup {NoContent}, number : Nat]

ImportStates == [phase : {"idle", "started", "stored", "returned", "raised"},
                 status : {"none", "running", "completed", "failed"},
                 prior : Cursors, content : Contents \cup {NoContent}]

RunStatuses == {"none", "running", "completed", "failed"}
WorkflowSteps == {"none", "prepare", "ingest", "project", "finalize", "fail", "closed"}

\* Every variable has its type; a deletion event is projected only once it is in
\* the outbox.
TypeOK ==
    /\ page \in [url : Urls, content : Contents]
    /\ syncStatus \in {"never_synced", "syncing", "completed", "failed"}
    /\ syncCursor \in Cursors
    /\ leaseToken \in Runs \cup {NoRun}
    /\ leaseLive \in BOOLEAN
    /\ runStatus \in [Runs -> RunStatuses]
    /\ starter \in [Runs -> {"idle", "starting", "failing", "returned"}]
    /\ workflow \in [Runs -> WorkflowSteps]
    /\ attempt \in [Runs -> Attempts]
    /\ prep \in [Runs -> [Attempts -> PrepStates]]
    /\ prepared \in [Runs -> PrepareResults]
    /\ items \in [Urls -> ItemRows]
    /\ versions \in [VersionIds -> VersionRows]
    /\ deletedDocs \subseteq VersionIds
    /\ outbox \subseteq Runs \X VersionIds
    /\ projected \subseteq outbox
    /\ imports \in [Imports -> ImportStates]
    /\ claimNo \in [Runs -> Nat]
    /\ claims \in Nat

Init ==
    /\ page \in [url : Urls, content : Contents]
    /\ syncStatus = "never_synced" /\ syncCursor = NoContent
    /\ leaseToken = NoRun /\ leaseLive = FALSE
    /\ runStatus = [r \in Runs |-> "none"]
    /\ starter = [r \in Runs |-> "idle"]
    /\ workflow = [r \in Runs |-> "none"]
    /\ attempt = [r \in Runs |-> 1]
    /\ prep = [r \in Runs |-> [k \in Attempts |-> IdlePrep]]
    /\ prepared = [r \in Runs |-> NoResult]
    /\ items = [u \in Urls |-> NoItem]
    /\ versions = [v \in VersionIds |-> NoDocVersion]
    /\ deletedDocs = {} /\ outbox = {} /\ projected = {}
    /\ imports = [i \in Imports |-> NewImport]
    /\ claimNo = [r \in Runs |-> 0] /\ claims = 0

-----------------------------------------------------------------------------
(* The API: claiming the lease and starting the workflow *)

\* Mutant: the claim only replaces the token.
SupersededIgnored(status) == status

\* What a claim does to the runs of the source: a claim over an expired token
\* first fails every run that is still running.
Superseded(status) == IF leaseToken # NoRun /\ status = "running" THEN "failed" ELSE status

\* Mutant: an expired token counts as held.
ClaimableWhenReleased == leaseToken = NoRun

\* sync_lease_token is NULL or sync_lease_expires_at has passed.
Claimable == leaseToken = NoRun \/ ~leaseLive

\* claim_sync, under the row lock: refused while a lease is live.
ClaimSync(r) ==
    /\ starter[r] = "idle"
    /\ Claimable
    /\ runStatus' = [s \in Runs |-> IF s = r THEN "running" ELSE Superseded(runStatus[s])]
    /\ imports' = [i \in Imports |-> [imports[i] EXCEPT !.status = Superseded(@)]]
    /\ syncStatus' = "syncing"
    /\ leaseToken' = r /\ leaseLive' = TRUE
    /\ starter' = [starter EXCEPT ![r] = "starting"]
    /\ claims' = claims + 1
    /\ claimNo' = [claimNo EXCEPT ![r] = claims + 1]
    /\ UNCHANGED <<page, syncCursor, workflow, prepVars, contentVars, outboxVars>>

\* start_workflow returned. The API may also stop here for good: nothing
\* obliges it to take this step.
StartWorkflow(r) ==
    /\ starter[r] = "starting"
    /\ starter' = [starter EXCEPT ![r] = "returned"]
    /\ workflow' = [workflow EXCEPT ![r] = "prepare"]
    /\ UNCHANGED <<page, sourceVars, runStatus, prepVars, contentVars, outboxVars,
                   imports, historyVars>>

\* start_workflow raised, with or without the workflow having been started.
StartWorkflowRaises(r) ==
    /\ starter[r] = "starting"
    /\ starter' = [starter EXCEPT ![r] = "failing"]
    /\ \/ UNCHANGED workflow
       \/ /\ "lost_start_reply" \in Faults
          /\ workflow' = [workflow EXCEPT ![r] = "prepare"]
    /\ UNCHANGED <<page, sourceVars, runStatus, prepVars, contentVars, outboxVars,
                   imports, historyVars>>

\* fail_workflow_start. Its test `item.sync_lease_token == lease_token` reads
\* the object the claim left in the same session (expire_on_commit is off), so
\* it always holds, and the UPDATE names the row by primary key only.
FailWorkflowStart(r) ==
    /\ starter[r] = "failing"
    /\ starter' = [starter EXCEPT ![r] = "returned"]
    /\ syncStatus' = "failed"
    /\ leaseToken' = NoRun /\ leaseLive' = FALSE
    /\ runStatus' = [runStatus EXCEPT ![r] = "failed"]
    /\ UNCHANGED <<page, syncCursor, workflow, prepVars, contentVars, outboxVars,
                   imports, historyVars>>

\* The lease lasts 30 minutes and nothing renews it. The API request that
\* claimed it lasts seconds, so it never expires inside that request unless the
\* request was abandoned before it started the workflow.
LeaseExpires ==
    /\ "lease_expiry" \in Faults
    /\ leaseToken # NoRun /\ leaseLive
    /\ starter[leaseToken] = "returned"
    /\ leaseLive' = FALSE
    /\ UNCHANGED <<page, syncStatus, syncCursor, leaseToken, runVars, prepVars,
                   contentVars, outboxVars, imports, historyVars>>

\* The API process stops after the claim: the rest of the request is lost.
AbandonStart(r) ==
    /\ starter[r] \in {"starting", "failing"}
    /\ starter' = [starter EXCEPT ![r] = "returned"]
    /\ UNCHANGED <<page, sourceVars, runStatus, workflow, prepVars, contentVars,
                   outboxVars, imports, historyVars>>

-----------------------------------------------------------------------------
(* The worker: attempt k of run r's prepare activity *)

At(r, k, pc) == prep[r][k].pc = pc

Waiting(r, k) == workflow[r] = "prepare" /\ attempt[r] = k

SetPrep(r, k, p) == prep' = [prep EXCEPT ![r][k] = p]

Goto(r, k, pc) == SetPrep(r, k, [prep[r][k] EXCEPT !.pc = pc])

\* A non-retryable ApplicationError ends the activity, if Temporal still waits
\* for this attempt, and sends the workflow to its except clause.
AbortPrepare(r, k) ==
    /\ SetPrep(r, k, DeadPrep)
    /\ workflow' = [workflow EXCEPT ![r] = IF Waiting(r, k) THEN "fail" ELSE @]

\* load_context: the token must be the run's and the run running. It does not
\* look at sync_lease_expires_at.
LoadContext(r, k) ==
    /\ Waiting(r, k) /\ At(r, k, "idle")
    /\ IF leaseToken = r /\ runStatus[r] = "running"
       THEN /\ SetPrep(r, k, [prep[r][k] EXCEPT !.pc = "loaded", !.prior = syncCursor])
            /\ UNCHANGED workflow
       ELSE AbortPrepare(r, k)
    /\ UNCHANGED <<page, sourceVars, runStatus, starter, attempt, prepared,
                   contentVars, outboxVars, imports, historyVars>>

\* An empty, non-authoritative page with the next cursor.
EmptyPage(cursor) == [url |-> NoUrl, content |-> cursor]

\* connector.discover: a 304 keeps the cursor, an answer with the hash of the
\* cursor renews its validator; neither has anything to look at.
Discover(r, k) ==
    /\ At(r, k, "loaded")
    /\ LET prior == prep[r][k].prior
       IN  \/ /\ SameValidator(prior, page.content)
              /\ SetPrep(r, k, [prep[r][k] EXCEPT !.pc = "ready", !.page = EmptyPage(prior)])
           \/ /\ SameValidator(prior, page.content) => "ignored_validator" \in Faults
              /\ \/ /\ prior.body = page.content.body
                    /\ SetPrep(r, k, [prep[r][k] EXCEPT !.pc = "ready",
                                         !.page = EmptyPage(page.content)])
                 \/ /\ prior.body # page.content.body
                    /\ SetPrep(r, k, [prep[r][k] EXCEPT !.pc = "discovered", !.page = page])
    /\ UNCHANGED <<page, sourceVars, runVars, attempt, prepared, contentVars,
                   outboxVars, imports, historyVars>>

\* The connector refuses the page (size, type, redirects): a ValueError.
DiscoverRefused(r, k) ==
    /\ "activity_failure" \in Faults
    /\ At(r, k, "loaded")
    /\ AbortPrepare(r, k)
    /\ UNCHANGED <<page, sourceVars, runStatus, starter, attempt, prepared,
                   contentVars, outboxVars, imports, historyVars>>

\* find_item and recover_ingestion_payload, read in one session, decide what
\* the attempt does with the page it discovered.
FindItem(r, k) ==
    /\ At(r, k, "discovered")
    /\ LET p    == prep[r][k].page
           item == items[p.url]
           mine == Recoverable(r, item)
       IN  \/ \E v \in mine :
                SetPrep(r, k, [prep[r][k] EXCEPT !.pc = "deletions", !.job = v])
           \/ /\ mine = {}
              /\ Goto(r, k, IF item.status = "active" /\ Unchanged(item.content, p.content)
                            THEN "unchanged" ELSE "changed")
    /\ UNCHANGED <<page, sourceVars, runVars, attempt, prepared, contentVars,
                   outboxVars, imports, historyVars>>

\* mark_unchanged, a blind UPDATE of the item found before.
MarkUnchanged(r, k) ==
    /\ At(r, k, "unchanged")
    /\ LET p == prep[r][k].page
       IN  items' = [items EXCEPT ![p.url] =
              [@ EXCEPT !.status = "active", !.content = p.content, !.seen = r]]
    /\ Goto(r, k, "deletions")
    /\ UNCHANGED <<page, sourceVars, runVars, attempt, prepared, versions, deletedDocs,
                   outboxVars, imports, historyVars>>

\* The writes of materialize_changed_item: version and workflow run of document
\* doc, its soft deletion undone, and the item bound to it.
Materialize(r, k, doc) ==
    LET p == prep[r][k].page
    IN  /\ versions' = [versions EXCEPT ![<<r, k>>] =
              [status |-> "pending", doc |-> doc, content |-> p.content,
               number |-> NextNumber(doc)]]
        /\ deletedDocs' = deletedDocs \ {doc}
        /\ items' = [items EXCEPT ![p.url] =
              [status |-> "active", content |-> p.content, doc |-> doc,
               seen |-> r, changed |-> r]]
        /\ SetPrep(r, k, [prep[r][k] EXCEPT !.pc = "deletions", !.job = <<r, k>>])
        /\ UNCHANGED <<page, sourceVars, runVars, attempt, prepared, outboxVars,
                       imports, historyVars>>

\* The item's row exists: SELECT ... FOR UPDATE keeps it to the commit.
MaterializeExisting(r, k) ==
    /\ At(r, k, "changed")
    /\ items[prep[r][k].page.url].status # "absent"
    /\ Materialize(r, k, items[prep[r][k].page.url].doc)

\* No row to lock: the transaction goes on to create a document of its own.
BeginInsert(r, k) ==
    /\ At(r, k, "changed")
    /\ items[prep[r][k].page.url].status = "absent"
    /\ Goto(r, k, "insert")
    /\ UNCHANGED <<page, sourceVars, runVars, attempt, prepared, contentVars,
                   outboxVars, imports, historyVars>>

\* Its INSERT ... ON CONFLICT DO UPDATE rebinds a row another one made meanwhile.
MaterializeNew(r, k) ==
    /\ At(r, k, "insert")
    /\ Materialize(r, k, <<r, k>>)

\* Mutant: every active item of the source, seen or not.
AllActive(r) == {u \in Urls : items[u].status = "active"}

\* Active items of the source that run r did not see.
Unseen(r) == {u \in Urls : items[u].status = "active" /\ items[u].seen # r}

\* Mutant: the outbox row of a deletion is not inserted.
Unrecorded(events) == outbox

\* ON CONFLICT (event_key) DO UPDATE: one row per run and document.
Recorded(events) == outbox \cup events

\* mark_snapshot_deletions: events an earlier attempt of the run left, and one
\* for each document of an unseen item.
SnapshotDeletions(r, k) ==
    /\ At(r, k, "deletions")
    /\ LET docs   == {items[u].doc : u \in Unseen(r)}
           events == {e \in outbox : e[1] = r} \cup {<<r, d>> : d \in docs}
       IN  /\ deletedDocs' = deletedDocs \cup docs
           /\ outbox' = Recorded(events)
           /\ SetPrep(r, k, [prep[r][k] EXCEPT !.pc = "ready", !.events = events])
    /\ items' = [u \in Urls |-> IF u \in Unseen(r) THEN [items[u] EXCEPT !.status = "deleted"]
                                ELSE items[u]]
    /\ UNCHANGED <<page, sourceVars, runVars, attempt, prepared, versions, projected,
                   imports, historyVars>>

\* The attempt's result reaches Temporal while it still waits for it.
PrepareReturns(r, k) ==
    /\ Waiting(r, k) /\ At(r, k, "ready")
    /\ prepared' = [prepared EXCEPT ![r] = [cursor |-> prep[r][k].page.content,
                                            job |-> prep[r][k].job,
                                            events |-> prep[r][k].events]]
    /\ SetPrep(r, k, DeadPrep)
    /\ workflow' = [workflow EXCEPT ![r] = "ingest"]
    /\ UNCHANGED <<page, sourceVars, runStatus, starter, attempt, contentVars,
                   outboxVars, imports, historyVars>>

\* Temporal gives up on the attempt: its worker died, or its time ran out and it
\* goes on unheard. The next attempt starts from nothing, or the run fails.
PrepareAttemptLost(r, k) ==
    /\ Waiting(r, k) /\ ~At(r, k, "dead")
    /\ \/ "crash" \in Faults /\ SetPrep(r, k, DeadPrep)
       \/ "late_attempt" \in Faults /\ UNCHANGED prep
    /\ IF k < MaxAttempts
       THEN attempt' = [attempt EXCEPT ![r] = k + 1] /\ UNCHANGED workflow
       ELSE workflow' = [workflow EXCEPT ![r] = "fail"] /\ UNCHANGED attempt
    /\ UNCHANGED <<page, sourceVars, runStatus, starter, prepared, contentVars,
                   outboxVars, imports, historyVars>>

-----------------------------------------------------------------------------
(* The workflow after prepare *)

\* The child DocumentIngestionWorkflow, by its outcome.
IngestChild(r) ==
    /\ workflow[r] = "ingest"
    /\ IF prepared[r].job = NoVersion
       THEN UNCHANGED versions /\ workflow' = [workflow EXCEPT ![r] = "project"]
       ELSE \/ /\ versions' = [versions EXCEPT ![prepared[r].job].status = "completed"]
               /\ workflow' = [workflow EXCEPT ![r] = "project"]
            \/ /\ "activity_failure" \in Faults
               /\ versions' = [versions EXCEPT ![prepared[r].job].status = "failed"]
               /\ workflow' = [workflow EXCEPT ![r] = "fail"]
    /\ UNCHANGED <<page, sourceVars, runStatus, starter, prepVars, items, deletedDocs,
                   outboxVars, imports, historyVars>>

\* project_document_version_to_elasticsearch for one deletion event.
ProjectDeletion(r) ==
    /\ workflow[r] = "project"
    /\ \E e \in prepared[r].events \ projected :
          \/ projected' = projected \cup {e} /\ UNCHANGED workflow
          \/ /\ "activity_failure" \in Faults
             /\ workflow' = [workflow EXCEPT ![r] = "fail"]
             /\ UNCHANGED projected
    /\ UNCHANGED <<page, sourceVars, runStatus, starter, prepVars, contentVars, outbox,
                   imports, historyVars>>

AllProjected(r) ==
    /\ workflow[r] = "project" /\ prepared[r].events \subseteq projected
    /\ workflow' = [workflow EXCEPT ![r] = "finalize"]
    /\ UNCHANGED <<page, sourceVars, runStatus, starter, prepVars, contentVars,
                   outboxVars, imports, historyVars>>

\* Mutant: the row is found by its id alone.
FencedByNothing(r) == TRUE

\* The WHERE clause of finalize and fail: sync_lease_token is still the run's.
Fenced(r) == leaseToken = r

\* finalize commits only on the row that still carries the run's token. Its
\* answer may be lost, and then the activity runs again.
Finalize(r) ==
    /\ workflow[r] = "finalize" /\ Fenced(r)
    /\ syncStatus' = "completed" /\ syncCursor' = prepared[r].cursor
    /\ leaseToken' = NoRun /\ leaseLive' = FALSE
    /\ runStatus' = [runStatus EXCEPT ![r] = "completed"]
    /\ \/ workflow' = [workflow EXCEPT ![r] = "closed"]
       \/ UNCHANGED workflow
    /\ UNCHANGED <<page, starter, prepVars, contentVars, outboxVars, imports, historyVars>>

\* rowcount 0: DataSourceSyncStateError until the attempts are used up.
FinalizeRefused(r) ==
    /\ workflow[r] = "finalize" /\ ~Fenced(r)
    /\ workflow' = [workflow EXCEPT ![r] = "fail"]
    /\ UNCHANGED <<page, sourceVars, runStatus, starter, prepVars, contentVars,
                   outboxVars, imports, historyVars>>

\* Mutant: only the source row is failed.
FailNothing(status) == status

\* Mutant: the run is failed whatever its status.
FailAnyStatus(status) == "failed"

\* Only a running run is failed.
FailRunning(status) == IF status = "running" THEN "failed" ELSE status

\* fail: the source only under the token, the run only while it is running.
FailRun(r) ==
    /\ workflow[r] = "fail"
    /\ workflow' = [workflow EXCEPT ![r] = "closed"]
    /\ IF Fenced(r)
       THEN syncStatus' = "failed" /\ leaseToken' = NoRun /\ leaseLive' = FALSE
       ELSE UNCHANGED <<syncStatus, leaseToken, leaseLive>>
    /\ runStatus' = [runStatus EXCEPT ![r] = FailRunning(@)]
    /\ UNCHANGED <<page, syncCursor, starter, prepVars, contentVars, outboxVars,
                   imports, historyVars>>

-----------------------------------------------------------------------------
(* URL imports of the same page: a run without a lease *)

\* get_or_create and start_sync, for the page as it was fetched.
ImportStart(i) ==
    /\ imports[i].phase = "idle"
    /\ imports' = [imports EXCEPT ![i] = [phase |-> "started", status |-> "running",
                                          prior |-> syncCursor, content |-> page.content]]
    /\ syncStatus' = "syncing"
    /\ UNCHANGED <<page, syncCursor, leaseToken, leaseLive, runVars, prepVars,
                   contentVars, outboxVars, historyVars>>

\* create_uploaded_document: a document and a version of their own.
ImportStore(i) ==
    /\ imports[i].phase = "started"
    /\ imports' = [imports EXCEPT ![i].phase = "stored"]
    /\ UNCHANGED <<page, sourceVars, runVars, prepVars, contentVars, outboxVars,
                   historyVars>>

\* complete_sync. The session writes the cursor only when it differs from the
\* one it loaded.
ImportComplete(i) ==
    /\ imports[i].phase = "stored"
    /\ imports' = [imports EXCEPT ![i] = [@ EXCEPT !.phase = "returned", !.status = "completed"]]
    /\ syncStatus' = "completed"
    /\ syncCursor' = IF Bare(imports[i].content) = imports[i].prior THEN syncCursor
                     ELSE Bare(imports[i].content)
    /\ UNCHANGED <<page, leaseToken, leaseLive, runVars, prepVars, contentVars,
                   outboxVars, historyVars>>

\* Mutant: a failed import records the validator it fetched, too.
ImportFailWithCursor(i) ==
    /\ imports[i].phase = "started"
    /\ imports' = [imports EXCEPT ![i] = [@ EXCEPT !.phase = "raised", !.status = "failed"]]
    /\ syncStatus' = "failed"
    /\ syncCursor' = Bare(imports[i].content)
    /\ UNCHANGED <<page, leaseToken, leaseLive, runVars, prepVars, contentVars,
                   outboxVars, historyVars>>

\* create_uploaded_document raised: fail_sync.
ImportFail(i) ==
    /\ imports[i].phase = "started"
    /\ imports' = [imports EXCEPT ![i] = [@ EXCEPT !.phase = "raised", !.status = "failed"]]
    /\ syncStatus' = "failed"
    /\ UNCHANGED <<page, syncCursor, leaseToken, leaseLive, runVars, prepVars,
                   contentVars, outboxVars, historyVars>>

-----------------------------------------------------------------------------
(* The outside world *)

\* The page's owner changes it or redirects it.
PageChanges ==
    /\ "page_moves" \in Faults \/ \A r \in Runs : workflow[r] # "prepare"
    /\ page' \in [url : Urls, content : Contents] \ {page}
    /\ UNCHANGED <<sourceVars, runVars, prepVars, contentVars, outboxVars, imports,
                   historyVars>>

RequestStep(r) ==
    \/ StartWorkflow(r) \/ StartWorkflowRaises(r)
    \/ FailWorkflowStart(r) \/ AbandonStart(r)

PrepareStep(r, k) ==
    \/ LoadContext(r, k) \/ Discover(r, k) \/ DiscoverRefused(r, k) \/ FindItem(r, k)
    \/ MarkUnchanged(r, k) \/ MaterializeExisting(r, k) \/ BeginInsert(r, k)
    \/ MaterializeNew(r, k) \/ SnapshotDeletions(r, k) \/ PrepareReturns(r, k)

WorkflowStep(r) ==
    \/ IngestChild(r) \/ ProjectDeletion(r) \/ AllProjected(r)
    \/ Finalize(r) \/ FinalizeRefused(r) \/ FailRun(r)

ImportStep(i) == ImportStart(i) \/ ImportStore(i) \/ ImportComplete(i) \/ ImportFail(i)

Next ==
    \/ \E r \in Runs : ClaimSync(r) \/ RequestStep(r) \/ WorkflowStep(r)
    \/ \E r \in Runs, k \in Attempts : PrepareStep(r, k) \/ PrepareAttemptLost(r, k)
    \/ \E i \in Imports : ImportStep(i)
    \/ LeaseExpires
    \/ PageChanges

Spec == Init /\ [][Next]_vars

\* Temporal keeps scheduling the activities and the workflow of a started run,
\* a request ends, if only because its process died, and time passes. Claims,
\* imports, losses and page changes are owed to nobody.
Fairness ==
    /\ \A r \in Runs : WF_vars(RequestStep(r))
    /\ \A r \in Runs : WF_vars(WorkflowStep(r))
    /\ \A r \in Runs, k \in Attempts : WF_vars(PrepareStep(r, k))
    /\ WF_vars(LeaseExpires)

FairSpec == Spec /\ Fairness

-----------------------------------------------------------------------------
(* Lease properties *)

\* At most one leased run of the source is running, and it is the one whose
\* token the row carries ("prevents concurrent runs with database leases").
\* Needs the API's knowledge of a failed start to be right.
LeaseExclusive == \A r \in Runs : runStatus[r] = "running" <=> leaseToken = r

\* Runs finish in the order in which they claimed the lease: once a later run
\* has claimed it, an earlier one never becomes completed, however late its
\* workers are and however often its finalization is retried.
NoStaleCompletion ==
    [][\A r, s \in Runs : /\ 0 < claimNo[r] /\ claimNo[r] < claimNo[s]
                          /\ runStatus[r] # "completed"
                          => runStatus'[r] # "completed"]_vars

\* A run that completed or failed keeps that status, although finalize, fail
\* and the superseding claim may all still be executed for it.
FinishedRunsStayFinished ==
    [][\A r \in Runs : runStatus[r] \in {"completed", "failed"}
                          => runStatus'[r] = runStatus[r]]_vars

Lease == INSTANCE ExclusiveLease WITH Holders <- Runs, NoHolder <- NoRun,
                                      holder <- leaseToken, outcome <- runStatus

\* The row's token and the statuses of the runs behave like an exclusive lease, whatever
\* requests, attempts, finalizations and superseding claims overlap: no status changes but
\* by a claim, by the claim that takes the source away, or by the holder's own end.
ImplementsLease == Lease!Spec

-----------------------------------------------------------------------------
(* Content properties *)

\* Versions of one document never share a number, whichever runs and attempts
\* materialize it at the same time (uq_document_versions_document_version
\* would fail the transaction).
VersionNumbersDistinct ==
    \A v, w \in VersionIds :
        /\ v # w /\ versions[v].status # "absent" /\ versions[w].status # "absent"
        /\ versions[v].doc = versions[w].doc
        => versions[v].number # versions[w].number

\* No validator under which the page shows c's body ever comes with another body. A
\* Last-Modified of one second's resolution, or an ETag that the server forgets to change, is
\* not of this kind: the code then takes the changed page for the old one, and stores its hash.
ToldApart(c) ==
    \A d, e \in Contents : d.body = c.body /\ SameValidator(d, e) => e.body = c.body

\* The body the cursor names, and by which later runs skip the page, exists as a document
\* version ("creates immutable versions for changes"), if its validators tell it apart.
CursorHasVersion ==
    syncCursor # NoContent /\ ToldApart(syncCursor) =>
        \/ \E v \in VersionIds : versions[v].content.body = syncCursor.body
        \/ \E i \in Imports : imports[i].phase \in {"stored", "returned"}
                               /\ imports[i].content.body = syncCursor.body

\* When a run is completed, every version it created is ingested and every
\* deletion it announced is projected, whatever attempts were lost on the way.
CompletedRunLeavesNothingBehind ==
    \A r \in Runs : runStatus[r] = "completed" =>
        /\ \A k \in Attempts : versions[<<r, k>>].status \in {"absent", "completed"}
        /\ \A e \in outbox : e[1] = r => e \in projected

\* The hash stored with an active item, by which the next run skips it, is the
\* one of its document's newest version, if the body's validators tell it apart.
ItemMatchesNewestVersion ==
    \A u \in Urls : items[u].status = "active" /\ ToldApart(items[u].content) =>
        \E v \in VersionsOf(items[u].doc) :
            /\ versions[v].content.body = items[u].content.body
            /\ \A w \in VersionsOf(items[u].doc) \ {v} :
                  versions[w].number < versions[v].number

\* The authoritative snapshot deletes only documents of pages it did not find:
\* never the document of the page the deleting attempt has just discovered.
SnapshotSparesSeenPage ==
    [][\A r \in Runs, k \in Attempts :
          At(r, k, "deletions") /\ prep'[r][k].pc = "ready"
            => items[prep[r][k].page.url].doc \notin deletedDocs' \ deletedDocs]_vars

-----------------------------------------------------------------------------
(* Liveness *)

\* A run whose workflow was started is completed or failed in the end.
StartedRunsFinish ==
    \A r \in Runs : workflow[r] # "none" ~> runStatus[r] \in {"completed", "failed"}

\* The source can always be claimed again sooner or later, also when the API
\* dies between the claim and the start of the workflow.
SourceClaimableAgain == []<>Claimable
=============================================================================
