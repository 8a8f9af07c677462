---------------------------- MODULE WorkflowRuns ----------------------------
(***************************************************************************)
(* The workflow runs of one document, which was uploaded and could not be   *)
(* ingested.  The API creates a run and a version, starts a Temporal        *)
(* workflow and writes the run's status; the worker's ingest_document       *)
(* activity writes the same rows, attempt after attempt; operators reindex  *)
(* the document, retry failed runs and cancel active ones.  Nobody reads a  *)
(* row again before writing it.                                             *)
(*                                                                         *)
(* One action is one database transaction or one call of Temporal.  A run   *)
(* is named by the request that creates it and has one version, so the run  *)
(* also names its version, its chunks and its outbox event.                 *)
(***************************************************************************)
EXTENDS Naturals, FiniteSetsExt

CONSTANTS
    Runs,          \* the requests that upload, reindex or retry
    FirstRun,      \* the upload's, which has failed
    NoRun,         \* no parent
    Cancellable,   \* bound: the runs somebody may try to cancel
    MaxRetryDepth, \* MAX_WORKFLOW_RETRY_DEPTH, 3 in the code
    MaxAttempts,   \* bound: attempts Temporal makes within the 10 minutes
    MaxFaults      \* bound: kinds of faults in one behaviour

(***************************************************************************)
(* start_refused    : start_workflow raises and nothing was started         *)
(* lost_start_reply : start_workflow raises although the server started it  *)
(* slow_api         : the worker begins before the API has written "queued" *)
(* api_crash        : the API dies, or loses the database, in a request     *)
(* worker_crash     : the worker dies in an attempt                         *)
(* lost_commit      : the commit of a completion raises although it is done *)
(* unrecorded       : mark_ingestion_failed raises as well                  *)
(* deleted_in_retry : the document is deleted while it is being retried     *)
(***************************************************************************)
FaultKinds == {"start_refused", "lost_start_reply", "slow_api", "api_crash",
               "worker_crash", "lost_commit", "unrecorded", "deleted_in_retry"}

ASSUME RunConstants ==
    /\ NoRun \notin Runs
    /\ FirstRun \in Runs
    /\ MaxRetryDepth \in Nat
    /\ MaxAttempts \in Nat \ {0}
    /\ MaxFaults \in Nat

VARIABLES
    document,      \* documents row: [status, deleted]
    runs,          \* workflow_runs rows: [status, parent, attached]
    versions,      \* document_versions rows: [status, number]
    chunks,        \* document_chunks and their embeddings, by version
    announced,     \* versions with a document_version_upsert event
    requests,      \* API requests that create runs: [pc, parent, latest, pending]
    cancels,       \* API requests that cancel runs, by run
    workflows,     \* DocumentIngestionWorkflow, by run
    attempts,      \* ingest_document, by run: [pc, number]
    hit            \* history: the faults that have occurred

apiVars == <<requests, cancels>>
rowVars == <<document, runs, versions, chunks, announced>>
vars == <<rowVars, apiVars, workflows, attempts, hit>>

Active == {"pending", "queued", "running"}
RunStatuses == {"none", "completed", "failed", "cancelled"} \cup Active

RunRows == [status : RunStatuses, parent : Runs \cup {NoRun}, attached : BOOLEAN]
VersionRows == [status : {"none", "pending", "completed", "failed"}, number : Nat]
RequestStates == [pc : {"idle", "checked", "reset", "read", "created", "started",
                        "raised", "done"},
                  parent : Runs \cup {NoRun}, latest : Nat, pending : BOOLEAN]
AttemptStates == [pc : {"none", "scheduled", "running", "chunked", "embedded", "committed"},
                  number : 0..MaxAttempts]

\* Every variable has its type, a run that exists has a numbered version, and
\* an open workflow that ingests has an attempt under way.
TypeOK ==
    /\ document \in [status : {"pending", "running", "completed", "failed"}, deleted : BOOLEAN]
    /\ runs \in [Runs -> RunRows]
    /\ versions \in [Runs -> VersionRows]
    /\ chunks \in [Runs -> {"none", "plain", "embedded"}]
    /\ announced \subseteq Runs
    /\ requests \in [Runs -> RequestStates]
    /\ cancels \in [Runs -> {"idle", "pending", "active", "confirmed"}]
    /\ workflows \in [Runs -> {"none", "ingest", "project", "closed"}]
    /\ attempts \in [Runs -> AttemptStates]
    /\ hit \subseteq FaultKinds
    /\ \A r \in Runs : runs[r].status = "none" <=> versions[r].number = 0
    /\ \A r \in Runs : workflows[r] = "ingest" => attempts[r].pc # "none"

\* The document's upload has been ingested without success.
Init ==
    /\ document = [status |-> "failed", deleted |-> FALSE]
    /\ runs = [r \in Runs |-> [status |-> IF r = FirstRun THEN "failed" ELSE "none",
                              parent |-> NoRun, attached |-> r = FirstRun]]
    /\ versions = [r \in Runs |-> IF r = FirstRun THEN [status |-> "failed", number |-> 1]
                                  ELSE [status |-> "none", number |-> 0]]
    /\ chunks = [r \in Runs |-> "none"]
    /\ announced = {}
    /\ requests = [r \in Runs |-> [pc |-> IF r = FirstRun THEN "done" ELSE "idle",
                                   parent |-> NoRun, latest |-> 0, pending |-> FALSE]]
    /\ cancels = [r \in Runs |-> "idle"]
    /\ workflows = [r \in Runs |-> IF r = FirstRun THEN "closed" ELSE "none"]
    /\ attempts = [r \in Runs |-> [pc |-> "none", number |-> 0]]
    /\ hit = {}

\* A fault occurs; no behaviour shows more than MaxFaults kinds.
Fault(kind) ==
    /\ hit' = hit \cup {kind}
    /\ Cardinality(hit') <= MaxFaults

\* The number of the document's newest version
Latest == Max({versions[r].number : r \in Runs})

-----------------------------------------------------------------------------
(* The API: reindex and retry *)

\* create_reindex_workflow_run inserts a version, its asset and a run in one
\* transaction; unique version numbers refuse a second insert.
Insert(r, parent, number) ==
    /\ versions' = [versions EXCEPT ![r] = [status |-> "pending", number |-> number]]
    /\ runs' = [runs EXCEPT ![r] = [status |-> "pending", parent |-> parent, attached |-> FALSE]]
    /\ requests' = [requests EXCEPT ![r].pc = "created"]
    /\ UNCHANGED <<chunks, announced, cancels, workflows, attempts, hit>>

\* Ids are fresh uuids: which unused one is taken makes no difference.
Unused(r) ==
    /\ requests[r].pc = "idle"
    /\ r = CHOOSE q \in {p \in Runs : requests[p].pc = "idle"} : TRUE

Reindex(r) ==
    /\ ~document.deleted
    /\ Unused(r)
    /\ Insert(r, NoRun, Latest + 1)
    /\ document' = [document EXCEPT !.status = "pending"]

\* The n-th ancestor of a run, as resolve_workflow_retry_lineage_summary walks up.
Ancestor(r, n) ==
    LET up[k \in 0..n] == IF k = 0 THEN r
                          ELSE IF up[k - 1] = NoRun THEN NoRun ELSE runs[up[k - 1]].parent
    IN  up[n]

\* resolve_workflow_retry_state
RetryAvailable(p) ==
    /\ runs[p].status = "failed"
    /\ Ancestor(p, MaxRetryDepth) = NoRun
    /\ \A c \in Runs : runs[c].parent = p => runs[c].status \notin Active
    /\ ~document.deleted

\* retry_workflow_run up to its own check of the document; a refusal records an
\* event and changes nothing else.
CheckRetry(r, p) ==
    /\ Unused(r)
    /\ RetryAvailable(p)
    /\ requests' = [requests EXCEPT ![r].pc = "checked", ![r].parent = p]
    /\ UNCHANGED <<rowVars, cancels, workflows, attempts, hit>>

\* The document is marked as pending and committed before there is a run.
ResetDocument(r) ==
    /\ requests[r].pc = "checked"
    /\ IF document.deleted
       THEN /\ requests' = [requests EXCEPT ![r].pc = "done"]
            /\ UNCHANGED document
       ELSE /\ requests' = [requests EXCEPT ![r].pc = "reset"]
            /\ document' = [document EXCEPT !.status = "pending"]
    /\ UNCHANGED <<runs, versions, chunks, announced, cancels, workflows, attempts, hit>>

\* get_document_detail inside create_reindex_workflow_run: the document and its
\* newest version
ReadLatest(r) ==
    /\ requests[r].pc = "reset"
    /\ requests' = IF document.deleted THEN [requests EXCEPT ![r].pc = "done"]
                   ELSE [requests EXCEPT ![r].pc = "read", ![r].latest = Latest,
                                         ![r].pending = (document.status = "pending")]
    /\ UNCHANGED <<rowVars, cancels, workflows, attempts, hit>>

\* The session writes the document's status only if it changes the one it read.
CreateRetry(r) ==
    /\ requests[r].pc = "read"
    /\ requests[r].latest = Latest
    /\ Insert(r, requests[r].parent, Latest + 1)
    /\ IF requests[r].pending THEN UNCHANGED document
       ELSE document' = [document EXCEPT !.status = "pending"]

\* Another version took the number: ResourceConflictError.
LoseNumber(r) ==
    /\ requests[r].pc = "read"
    /\ requests[r].latest # Latest
    /\ requests' = [requests EXCEPT ![r].pc = "done"]
    /\ UNCHANGED <<rowVars, cancels, workflows, attempts, hit>>

-----------------------------------------------------------------------------
(* The API: the start of the workflow *)

\* start_document_ingestion_workflow; Temporal schedules the first attempt.
Start(r, next) ==
    /\ requests[r].pc = "created"
    /\ requests' = [requests EXCEPT ![r].pc = next]
    /\ workflows' = [workflows EXCEPT ![r] = "ingest"]
    /\ attempts' = [attempts EXCEPT ![r] = [pc |-> "scheduled", number |-> 1]]
    /\ UNCHANGED <<rowVars, cancels>>

StartReturns(r) == Start(r, "started") /\ UNCHANGED hit

StartReplyLost(r) == Start(r, "raised") /\ Fault("lost_start_reply")

StartRefused(r) ==
    /\ requests[r].pc = "created"
    /\ Fault("start_refused")
    /\ requests' = [requests EXCEPT ![r].pc = "raised"]
    /\ UNCHANGED <<rowVars, cancels, workflows, attempts>>

\* mark_workflow_run_queued: an UPDATE by primary key, whatever the row says.
MarkQueued(r) ==
    /\ requests[r].pc = "started"
    /\ runs' = [runs EXCEPT ![r].status = "queued", ![r].attached = TRUE]
    /\ requests' = [requests EXCEPT ![r].pc = "done"]
    /\ UNCHANGED <<document, versions, chunks, announced, cancels, workflows, attempts, hit>>

\* mark_workflow_run_failed: neither the version nor the document is touched.
MarkStartFailed(r) ==
    /\ requests[r].pc = "raised"
    /\ runs' = [runs EXCEPT ![r].status = "failed"]
    /\ requests' = [requests EXCEPT ![r].pc = "done"]
    /\ UNCHANGED <<document, versions, chunks, announced, cancels, workflows, attempts, hit>>

RequestDies(r) ==
    /\ requests[r].pc \notin {"idle", "done"}
    /\ Fault("api_crash")
    /\ requests' = [requests EXCEPT ![r].pc = "done"]
    /\ UNCHANGED <<rowVars, cancels, workflows, attempts>>

-----------------------------------------------------------------------------
(* The API: cancellation *)

\* cancel_workflow_run loads the row; a queued or running run without the id of
\* its workflow cannot be cancelled.
LoadForCancel(r) ==
    /\ r \in Cancellable
    /\ cancels[r] = "idle"
    /\ \/ /\ runs[r].status = "pending"
          /\ cancels' = [cancels EXCEPT ![r] = "pending"]
       \/ /\ runs[r].status \in {"queued", "running"}
          /\ runs[r].attached
          /\ cancels' = [cancels EXCEPT ![r] = "active"]
    /\ UNCHANGED <<rowVars, requests, workflows, attempts, hit>>

\* terminate() on the workflow: an attempt already with a worker goes on, one
\* that waits for a worker is dropped.
Terminate(r) ==
    /\ cancels[r] = "active"
    /\ workflows[r] \in {"ingest", "project"}
    /\ cancels' = [cancels EXCEPT ![r] = "confirmed"]
    /\ workflows' = [workflows EXCEPT ![r] = "closed"]
    /\ attempts' = IF attempts[r].pc = "scheduled"
                   THEN [attempts EXCEPT ![r].pc = "none"] ELSE attempts
    /\ UNCHANGED <<rowVars, requests, hit>>

\* The workflow is closed: the cancellation could not be confirmed.
TerminateRefused(r) ==
    /\ cancels[r] = "active"
    /\ workflows[r] = "closed"
    /\ cancels' = [cancels EXCEPT ![r] = "idle"]
    /\ UNCHANGED <<rowVars, requests, workflows, attempts, hit>>

\* Mutant: only the run is cancelled.
CancelRunOnly(r) ==
    /\ cancels[r] \in {"pending", "confirmed"}
    /\ runs' = [runs EXCEPT ![r].status = "cancelled"]
    /\ cancels' = [cancels EXCEPT ![r] = "idle"]
    /\ UNCHANGED <<document, versions, chunks, announced, requests, workflows, attempts, hit>>

\* Document, version and run in one transaction, whatever they say by now.
MarkCancelled(r) ==
    /\ cancels[r] \in {"pending", "confirmed"}
    /\ document' = [document EXCEPT !.status = "failed"]
    /\ versions' = [versions EXCEPT ![r].status = "failed"]
    /\ runs' = [runs EXCEPT ![r].status = "cancelled"]
    /\ cancels' = [cancels EXCEPT ![r] = "idle"]
    /\ UNCHANGED <<chunks, announced, requests, workflows, attempts, hit>>

CancelDies(r) ==
    /\ cancels[r] # "idle"
    /\ Fault("api_crash")
    /\ cancels' = [cancels EXCEPT ![r] = "idle"]
    /\ UNCHANGED <<rowVars, requests, workflows, attempts>>

-----------------------------------------------------------------------------
(* The worker: attempts of ingest_document *)

\* Usually the API has written "queued" before the worker's first write.
Overtakes(r) ==
    IF attempts[r].pc = "scheduled" /\ requests[r].pc = "started"
    THEN Fault("slow_api") ELSE UNCHANGED hit

Progress(r, from, to) ==
    /\ attempts[r].pc = from
    /\ attempts' = [attempts EXCEPT ![r].pc = to]

\* mark_ingestion_running does not look at the run's status.
MarkRunning(r) ==
    /\ Progress(r, "scheduled", "running")
    /\ Overtakes(r)
    /\ runs' = [runs EXCEPT ![r].status = "running"]
    /\ document' = [document EXCEPT !.status = "running"]
    /\ UNCHANGED <<versions, chunks, announced, apiVars, workflows>>

\* replace_document_chunks, after the object was read, parsed and cut
ReplaceChunks(r) ==
    /\ Progress(r, "running", "chunked")
    /\ chunks' = [chunks EXCEPT ![r] = "plain"]
    /\ UNCHANGED <<document, runs, versions, announced, apiVars, workflows, hit>>

\* replace_document_chunk_embeddings, after the provider has answered
Embed(r) ==
    /\ Progress(r, "chunked", "embedded")
    /\ chunks' = [chunks EXCEPT ![r] = "embedded"]
    /\ UNCHANGED <<document, runs, versions, announced, apiVars, workflows, hit>>

\* The rows mark_ingestion_completed writes
Completed(r) ==
    /\ runs' = [runs EXCEPT ![r].status = "completed"]
    /\ document' = [document EXCEPT !.status = "completed"]
    /\ versions' = [versions EXCEPT ![r].status = "completed"]
    /\ announced' = announced \cup {r}
    /\ UNCHANGED <<chunks, apiVars>>

\* The workflow goes on to project the event, unless it was terminated.
Complete(r) ==
    /\ Progress(r, "embedded", "none")
    /\ Completed(r)
    /\ workflows' = IF workflows[r] = "ingest" THEN [workflows EXCEPT ![r] = "project"]
                    ELSE workflows
    /\ UNCHANGED hit

CompletionReplyLost(r) ==
    /\ Progress(r, "embedded", "committed")
    /\ Fault("lost_commit")
    /\ Completed(r)
    /\ UNCHANGED workflows

\* Mutant: the workflow stays open when it gives up.
AfterFailureOpen(r) ==
    /\ attempts' = [attempts EXCEPT ![r].pc = "none"]
    /\ UNCHANGED workflows

\* Temporal's answer to an attempt that raised: another attempt, or none if the
\* error is final, the time is over or the workflow was terminated.
AfterFailure(r) ==
    \/ /\ workflows[r] = "ingest"
       /\ attempts[r].number < MaxAttempts
       /\ attempts' = [attempts EXCEPT ![r] = [pc |-> "scheduled", number |-> @.number + 1]]
       /\ UNCHANGED workflows
    \/ /\ attempts' = [attempts EXCEPT ![r].pc = "none"]
       /\ workflows' = [workflows EXCEPT ![r] = "closed"]

\* Mutant: a failure leaves the version as it is.
FailKeepsVersion(r) ==
    /\ attempts[r].pc # "none"
    /\ runs' = [runs EXCEPT ![r].status = "failed"]
    /\ document' = [document EXCEPT !.status = "failed"]
    /\ AfterFailure(r)
    /\ Overtakes(r)
    /\ UNCHANGED <<versions, chunks, announced, apiVars>>

\* Mutant: a failure leaves the run as it is.
FailKeepsRun(r) ==
    /\ attempts[r].pc # "none"
    /\ document' = [document EXCEPT !.status = "failed"]
    /\ versions' = [versions EXCEPT ![r].status = "failed"]
    /\ AfterFailure(r)
    /\ Overtakes(r)
    /\ UNCHANGED <<runs, chunks, announced, apiVars>>

\* mark_ingestion_failed: run, document and version in one transaction
Fail(r) ==
    /\ attempts[r].pc # "none"
    /\ runs' = [runs EXCEPT ![r].status = "failed"]
    /\ document' = [document EXCEPT !.status = "failed"]
    /\ versions' = [versions EXCEPT ![r].status = "failed"]
    /\ AfterFailure(r)
    /\ Overtakes(r)
    /\ UNCHANGED <<chunks, announced, apiVars>>

FailUnrecorded(r) ==
    /\ attempts[r].pc # "none"
    /\ Fault("unrecorded")
    /\ AfterFailure(r)
    /\ UNCHANGED <<rowVars, apiVars>>

\* No heartbeat and no shorter timeout: the workflow fails when the time is over.
WorkerCrash(r) ==
    /\ attempts[r].pc # "none"
    /\ Fault("worker_crash")
    /\ attempts' = [attempts EXCEPT ![r].pc = "none"]
    /\ workflows' = [workflows EXCEPT ![r] = "closed"]
    /\ UNCHANGED <<rowVars, apiVars>>

\* The projection activity, which SearchProjection models, ends either way.
Project(r) ==
    /\ workflows[r] = "project"
    /\ workflows' = [workflows EXCEPT ![r] = "closed"]
    /\ UNCHANGED <<rowVars, apiVars, attempts, hit>>

-----------------------------------------------------------------------------
(* The document's own life; its events are SearchProjection's *)

SoftDelete ==
    /\ ~document.deleted
    /\ IF \E r \in Runs : requests[r].pc \in {"checked", "reset", "read"}
       THEN Fault("deleted_in_retry") ELSE UNCHANGED hit
    /\ document' = [document EXCEPT !.deleted = TRUE]
    /\ UNCHANGED <<runs, versions, chunks, announced, apiVars, workflows, attempts>>

Restore ==
    /\ document.deleted
    /\ document' = [document EXCEPT !.deleted = FALSE]
    /\ UNCHANGED <<runs, versions, chunks, announced, apiVars, workflows, attempts, hit>>

-----------------------------------------------------------------------------
RequestStep(r) ==
    \/ ResetDocument(r) \/ ReadLatest(r) \/ CreateRetry(r) \/ LoseNumber(r)
    \/ StartReturns(r) \/ StartReplyLost(r) \/ StartRefused(r)
    \/ MarkQueued(r) \/ MarkStartFailed(r) \/ RequestDies(r)

CancelStep(r) ==
    Terminate(r) \/ TerminateRefused(r) \/ MarkCancelled(r) \/ CancelDies(r)

AttemptStep(r) ==
    \/ MarkRunning(r) \/ ReplaceChunks(r) \/ Embed(r) \/ Complete(r)
    \/ CompletionReplyLost(r) \/ Fail(r) \/ FailUnrecorded(r) \/ WorkerCrash(r)

Next ==
    \/ \E r \in Runs :
          \/ Reindex(r) \/ \E p \in Runs : CheckRetry(r, p)
          \/ RequestStep(r)
          \/ LoadForCancel(r) \/ CancelStep(r)
          \/ AttemptStep(r) \/ Project(r)
    \/ SoftDelete \/ Restore

Spec == Init /\ [][Next]_vars

-----------------------------------------------------------------------------
\* What the three rows of a run say together, although each of their writers is
\* blind: a completed run has a searchable, announced version; a cancelled run's
\* version is withdrawn; a run that is still shown as active has not completed,
\* unless the API's late "queued" or an unrecorded failure says so.
RunsAgreeWithVersions ==
    \A r \in Runs :
        /\ runs[r].status = "completed" =>
              versions[r].status = "completed" /\ chunks[r] = "embedded" /\ r \in announced
        /\ runs[r].status = "cancelled" => versions[r].status = "failed"
        /\ runs[r].status \in Active /\ versions[r].status = "completed" =>
              "slow_api" \in hit \/ {"lost_commit", "unrecorded"} \subseteq hit

\* Retrieval reads the newest completed version: its chunks have their vectors and
\* its event was written, whatever attempt is rewriting chunks.
SearchableVersionsAreWhole ==
    \A r \in Runs : versions[r].status = "completed" =>
        \/ chunks[r] = "embedded" /\ r \in announced
        \/ {"lost_commit", "unrecorded"} \subseteq hit

\* Somebody who is going to write the document's status next
Serves(r) ==
    \/ requests[r].pc \in {"reset", "created"}
    \/ requests[r].pc = "read" /\ requests[r].latest = Latest
    \/ attempts[r].pc # "none"
    \/ cancels[r] = "confirmed"

\* A document shown as pending or running is being worked on, unless a fault cut
\* the work off: several requests, cancellations and attempts write its status,
\* and whoever leaves last must not leave it waiting.
WaitingDocumentIsServed ==
    document.status \in {"pending", "running"} =>
        \/ \E r \in Runs : Serves(r)
        \/ hit \cap {"start_refused", "api_crash", "worker_crash", "unrecorded",
                     "deleted_in_retry"} # {}

\* A run shown as active will still be written by its request, an attempt or a
\* cancellation, unless a fault silenced them or hid its end.  A run nobody serves
\* can be neither retried nor cancelled.
ActiveRunIsServed ==
    \A r \in Runs : runs[r].status \in Active =>
        \/ requests[r].pc \in {"created", "started", "raised"}
        \/ attempts[r].pc # "none"
        \/ cancels[r] = "confirmed"
        \/ hit \cap {"slow_api", "api_crash", "worker_crash", "unrecorded"} # {}
=============================================================================
