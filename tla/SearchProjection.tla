-------------------------- MODULE SearchProjection --------------------------
(***************************************************************************)
(* The Elasticsearch projection: outbox events written in the transactions  *)
(* that change documents, the projection activity that applies one event to *)
(* an index, and the command that rebuilds an index and moves the aliases.  *)
(*                                                                         *)
(* One action is one database transaction or one Elasticsearch request.     *)
(* Projections hold a shared PostgreSQL advisory lock, the cutover holds it *)
(* exclusively together with SHARE locks on the document tables.            *)
(***************************************************************************)
EXTENDS Naturals, FiniteSetsExt

CONSTANTS
    Docs,
    Indices,       \* concrete indices, one per index version
    Bootstrap,     \* the one the aliases are created on
    Rebuilds,      \* runs of the backfill command, scoped or atomic rebuilds
    MaxVersion,    \* bound: versions of a document
    MaxWrites,     \* bound: writings of chunks of a document's versions
    MaxDeletes,    \* bound: soft deletions of a document
    MaxEvents,     \* bound: events that changes of documents write
    Faults,        \* see FaultKinds
    NoIndex,       \* an event without index_version: the write alias
    NoRebuild      \* an event that no backfill command enqueued

(***************************************************************************)
(* es_failure          : a request to Elasticsearch raises, whether or not  *)
(*                       it was carried out, a bulk request possibly in part*)
(* crash               : a worker dies between two steps of a projection    *)
(* concurrent_rebuilds : a rebuild is started while another one is running  *)
(***************************************************************************)
FaultKinds == {"es_failure", "crash", "concurrent_rebuilds"}

ASSUME ProjectionConstants ==
    /\ MaxVersion \in Nat /\ MaxWrites \in Nat
    /\ MaxDeletes \in Nat /\ MaxEvents \in Nat
    /\ Faults \subseteq FaultKinds
    /\ NoIndex \notin Indices /\ Bootstrap \in Indices

Versions == 1..MaxVersion

\* A version has several chunks; two stand for all of them. They get new ids
\* whenever they are written: g counts that.
Chunks == {"first", "rest"}
Rows(d, v, g) == {d} \X {v} \X {g} \X Chunks
AllRows == Docs \X Versions \X (Nat \ {0}) \X Chunks

\* version 0: none. n tells deletions and restorations of a document apart,
\* as their event keys do.
Events == [kind : {"upsert", "delete"}, doc : Docs, version : 0..MaxVersion,
           target : Indices \cup {NoIndex}, n : 0..MaxDeletes,
           run : Rebuilds \cup {NoRebuild}]

VARIABLES
    completed,     \* versions of a document with ingestion_status completed
    writes,        \* how often the chunks of a document's versions were written
    lifecycle,     \* "live", "deleted" (deleted_at set) or "purged"
    deletes,       \* how often a document was soft-deleted
    outbox,        \* search_projection_outbox_events
    done,          \* those with status completed. Failed ones are not told apart
                   \* from pending ones: they are claimed alike, and a rebuild that
                   \* waits for one may give up in either case
    inflight,      \* projections between claim_event and their commit
    content,       \* chunk documents of every index
    active,        \* the index both aliases name
    rebuild,       \* the backfill commands
    disturbed      \* history: documents with a version that was withdrawn or
                   \* whose chunks were replaced after its event was written

docVars   == <<completed, writes, lifecycle, deletes, disturbed>>
eventVars == <<outbox, done>>
vars == <<docVars, eventVars, inflight, content, active, rebuild>>

Max0(S) == IF S = {} THEN 0 ELSE Max(S)

\* DISTINCT ON (documents.id) ... ORDER BY version_number DESC among completed.
Latest(d) == Max0(completed[d])

\* load_expected_chunk_ids
Expected == UNION {Rows(d, Latest(d), writes[d][Latest(d)]) :
                     d \in {e \in Docs : lifecycle[e] = "live" /\ completed[e] # {}}}

\* g: which writing of the version's chunks was loaded, 0 before that.
Projections == [event : Events, g : Nat,
                pc : {"claimed", "loaded", "cleared", "written", "released"}]

RebuildStates ==
    [pc : {"idle", "scoped", "checked", "reset", "waiting", "queued", "locked",
           "validated", "promoted", "aborted"},
     target : Indices \cup {NoIndex}, events : SUBSET Events]

HoldsLock(p) == p.pc # "released"

\* pg_advisory_lock and LOCK TABLE ... IN SHARE MODE, held by a rebuild.
CutoverLocked == \E k \in Rebuilds : rebuild[k].pc \in {"locked", "validated"}

IdleRebuild == [pc |-> "idle", target |-> NoIndex, events |-> {}]

\* Every field within its set, an event is completed or in flight or neither, and
\* in flight once at most: the row lock and the status check of claim_event.
TypeOK ==
    /\ completed \in [Docs -> SUBSET Versions]
    /\ writes \in [Docs -> [Versions -> Nat]]
    /\ lifecycle \in [Docs -> {"live", "deleted", "purged"}]
    /\ deletes \in [Docs -> 0..MaxDeletes]
    /\ outbox \subseteq Events
    /\ done \subseteq outbox
    /\ inflight \subseteq Projections
    /\ \A p \in inflight : p.event \in outbox \ done
    /\ \A p, q \in inflight : p.event = q.event => p = q
    /\ content \in [Indices -> SUBSET AllRows]
    /\ active \in Indices
    /\ rebuild \in [Rebuilds -> RebuildStates]
    /\ disturbed \subseteq Docs

Init ==
    /\ completed = [d \in Docs |-> {}]
    /\ writes = [d \in Docs |-> [v \in Versions |-> 0]]
    /\ disturbed = {}
    /\ lifecycle = [d \in Docs |-> "live"]
    /\ deletes = [d \in Docs |-> 0]
    /\ outbox = {} /\ done = {} /\ inflight = {}
    /\ content = [i \in Indices |-> {}]
    /\ active = Bootstrap
    /\ rebuild = [k \in Rebuilds |-> IdleRebuild]

-----------------------------------------------------------------------------
(* Transactions on documents. The cutover's SHARE locks keep them out. *)

Room == Cardinality({e \in outbox : e.run = NoRebuild}) < MaxEvents

Event(kind, d, v, n) == [kind |-> kind, doc |-> d, version |-> v,
                         target |-> NoIndex, n |-> n, run |-> NoRebuild]

Writings(d) == MapThenSumSet(LAMBDA v : writes[d][v], Versions)

Announced(d, v) == Event("upsert", d, v, 0) \in outbox

\* replace_document_chunks, by the first attempt of an ingestion or a later one:
\* the chunks of the version, completed or not, are replaced by new ones.
WriteChunks(d, v) ==
    /\ ~CutoverLocked
    /\ lifecycle[d] # "purged" /\ Writings(d) < MaxWrites
    /\ writes' = [writes EXCEPT ![d][v] = @ + 1]
    /\ disturbed' = IF Announced(d, v) THEN disturbed \cup {d} ELSE disturbed
    /\ UNCHANGED <<completed, lifecycle, deletes, eventVars, inflight, content, active, rebuild>>

\* mark_ingestion_completed. Versions may complete in any order. Completing a
\* version again meets the event's key: it waits for a projection that holds the
\* event, and leaves the event's status alone.
CompleteIngestion(d, v) ==
    /\ ~CutoverLocked /\ (Room \/ Announced(d, v))
    /\ lifecycle[d] # "purged" /\ writes[d][v] > 0 /\ v \notin completed[d]
    /\ \A p \in inflight : p.event # Event("upsert", d, v, 0)
    /\ completed' = [completed EXCEPT ![d] = @ \cup {v}]
    /\ outbox' = outbox \cup {Event("upsert", d, v, 0)}
    /\ UNCHANGED <<writes, lifecycle, deletes, disturbed, done, inflight, content,
                   active, rebuild>>

\* mark_ingestion_failed by another attempt, or cancel_workflow_run: the version
\* is set to failed, whatever it was, and no event says so.
Withdraw(d, v) ==
    /\ ~CutoverLocked
    /\ v \in completed[d]
    /\ completed' = [completed EXCEPT ![d] = @ \ {v}]
    /\ disturbed' = disturbed \cup {d}
    /\ UNCHANGED <<writes, lifecycle, deletes, eventVars, inflight, content, active, rebuild>>

\* soft_delete_document
SoftDelete(d) ==
    /\ ~CutoverLocked /\ Room
    /\ lifecycle[d] = "live" /\ deletes[d] < MaxDeletes
    /\ lifecycle' = [lifecycle EXCEPT ![d] = "deleted"]
    /\ deletes' = [deletes EXCEPT ![d] = @ + 1]
    /\ outbox' = outbox \cup {Event("delete", d, 0, deletes[d] + 1)}
    /\ UNCHANGED <<completed, writes, disturbed, done, inflight, content, active, rebuild>>

\* restore_document: an event for the newest completed version, if there is one.
Restore(d) ==
    /\ ~CutoverLocked /\ Room
    /\ lifecycle[d] = "deleted"
    /\ lifecycle' = [lifecycle EXCEPT ![d] = "live"]
    /\ outbox' = outbox \cup
         (IF completed[d] = {} THEN {} ELSE {Event("upsert", d, Latest(d), deletes[d])})
    /\ UNCHANGED <<completed, writes, deletes, disturbed, done, inflight, content,
                   active, rebuild>>

\* permanently_delete_document: versions and chunks go, the outbox stays.
Purge(d) ==
    /\ ~CutoverLocked /\ Room
    /\ lifecycle[d] = "deleted"
    /\ lifecycle' = [lifecycle EXCEPT ![d] = "purged"]
    /\ completed' = [completed EXCEPT ![d] = {}]
    /\ writes' = [writes EXCEPT ![d] = [v \in Versions |-> 0]]
    /\ outbox' = outbox \cup {Event("delete", d, 0, 0)}
    /\ UNCHANGED <<deletes, disturbed, done, inflight, content, active, rebuild>>

-----------------------------------------------------------------------------
(* project_document_version, delivered as often as Temporal likes *)

Step(p, pc) == inflight' = (inflight \ {p}) \cup {[p EXCEPT !.pc = pc]}

\* The write alias is resolved by every request anew.
TargetOf(p) == IF p.event.target = NoIndex THEN active ELSE p.event.target

Of(d, rows) == {x \in rows : x[1] = d}

\* Mutant: claim_event does not look at the status.
AnyStatus(e) == TRUE

\* claim_event answers a completed event with an idempotent replay.
Unprocessed(e) == e \notin done

\* PostgreSQL grants no shared lock ahead of a waiting exclusive one.
NobodyQueued == \A k \in Rebuilds : rebuild[k].pc # "queued"

\* acquire_projection_runtime_lock and claim_event: the shared advisory lock,
\* then the event's row, kept FOR UPDATE up to the commit.
ClaimEvent(e) ==
    /\ ~CutoverLocked /\ NobodyQueued
    /\ Unprocessed(e)
    /\ \A p \in inflight : p.event # e
    /\ inflight' = inflight \cup {[event |-> e, g |-> 0, pc |-> "claimed"]}
    /\ UNCHANGED <<docVars, eventVars, content, active, rebuild>>

\* load_document_version_projection finds rows only of a completed version of a
\* document that is not deleted.
Loadable(e) == lifecycle[e.doc] = "live" /\ e.version \in completed[e.doc]

LoadRows(p) ==
    /\ p.pc = "claimed" /\ p.event.kind = "upsert"
    /\ Loadable(p.event)
    /\ inflight' = (inflight \ {p}) \cup
         {[p EXCEPT !.pc = "loaded", !.g = writes[p.event.doc][p.event.version]]}
    /\ UNCHANGED <<docVars, eventVars, content, active, rebuild>>

\* SearchProjectionSourceStateError: the lock is released and the claim rolled
\* back; the event is marked as failed.
LoadRefused(p) ==
    /\ p.pc = "claimed" /\ p.event.kind = "upsert"
    /\ ~Loadable(p.event)
    /\ inflight' = inflight \ {p}
    /\ UNCHANGED <<docVars, eventVars, content, active, rebuild>>

\* replace_document's _delete_by_query, or delete_document: every chunk of the
\* document, of whatever version.
ClearDocument(p) ==
    /\ \/ p.pc = "loaded" /\ Step(p, "cleared")
       \/ p.pc = "claimed" /\ p.event.kind = "delete" /\ Step(p, "written")
    /\ content' = [content EXCEPT ![TargetOf(p)] = @ \ Of(p.event.doc, @)]
    /\ UNCHANGED <<docVars, eventVars, active, rebuild>>

\* replace_document's _bulk: the rows loaded before.
WriteRows(p) ==
    /\ p.pc = "cleared"
    /\ Step(p, "written")
    /\ content' = [content EXCEPT ![TargetOf(p)] = @ \cup Rows(p.event.doc, p.event.version, p.g)]
    /\ UNCHANGED <<docVars, eventVars, active, rebuild>>

\* A request raised. What it did is done; the claim is rolled back.
RequestFails(p) ==
    /\ "es_failure" \in Faults
    /\ \/ /\ p.pc = "loaded" \/ (p.pc = "claimed" /\ p.event.kind = "delete")
          /\ \E gone \in {{}, Of(p.event.doc, content[TargetOf(p)])} :
                content' = [content EXCEPT ![TargetOf(p)] = @ \ gone]
       \/ /\ p.pc = "cleared"
          /\ \E part \in {{}, {"first"}, Chunks} :
                content' = [content EXCEPT ![TargetOf(p)] =
                              @ \cup ({p.event.doc} \X {p.event.version} \X {p.g} \X part)]
    /\ inflight' = inflight \ {p}
    /\ UNCHANGED <<docVars, eventVars, active, rebuild>>

\* The worker dies: its session and with it the lock and the claim are gone.
ProjectionLost(p) ==
    /\ "crash" \in Faults
    /\ inflight' = inflight \ {p}
    /\ UNCHANGED <<docVars, eventVars, content, active, rebuild>>

\* mark_completed, not yet committed, and the release of the advisory lock.
ReleaseLock(p) ==
    /\ p.pc = "written"
    /\ Step(p, "released")
    /\ UNCHANGED <<docVars, eventVars, content, active, rebuild>>

CommitProjection(p) ==
    /\ p.pc = "released"
    /\ inflight' = inflight \ {p}
    /\ done' = done \cup {p.event}
    /\ UNCHANGED <<docVars, outbox, content, active, rebuild>>

-----------------------------------------------------------------------------
(* The backfill command: scoped, or run_atomic_rebuild *)

SetRebuild(k, pc) == rebuild' = [rebuild EXCEPT ![k].pc = pc]

InProgress(k) == rebuild[k].pc \notin {"idle", "scoped", "promoted", "aborted"}

\* enqueue_backfill_events for some documents: an event for the newest completed
\* version of each live one, to an index or, for none, to the write alias.
BackfillEvents(k, docs, i) ==
    {[Event("upsert", d, Latest(d), 0) EXCEPT !.target = i, !.run = k] :
        d \in {e \in docs : lifecycle[e] = "live" /\ completed[e] # {}}}

\* The command without a target version: enqueue, dispatch, exit.
ScopedBackfill(k, docs) ==
    /\ rebuild[k].pc = "idle"
    /\ outbox' = outbox \cup BackfillEvents(k, docs, NoIndex)
    /\ SetRebuild(k, "scoped")
    /\ UNCHANGED <<docVars, done, inflight, content, active>>

\* Refused when an alias names the target.
CheckTarget(k, i) ==
    /\ rebuild[k].pc = "idle"
    /\ "concurrent_rebuilds" \in Faults \/ \A j \in Rebuilds : ~InProgress(j)
    /\ i # active
    /\ rebuild' = [rebuild EXCEPT ![k] = [pc |-> "checked", target |-> i, events |-> {}]]
    /\ UNCHANGED <<docVars, eventVars, inflight, content, active>>

\* delete_index and ensure_index
ResetTarget(k) ==
    /\ rebuild[k].pc = "checked"
    /\ content' = [content EXCEPT ![rebuild[k].target] = {}]
    /\ SetRebuild(k, "reset")
    /\ UNCHANGED <<docVars, eventVars, inflight, active>>

\* enqueue_backfill_events and their dispatch
EnqueueBackfill(k) ==
    /\ rebuild[k].pc = "reset"
    /\ LET events == BackfillEvents(k, Docs, rebuild[k].target)
       IN  /\ outbox' = outbox \cup events
           /\ rebuild' = [rebuild EXCEPT ![k].pc = "waiting", ![k].events = events]
    /\ UNCHANGED <<docVars, done, inflight, content, active>>

\* wait_for_projection_events returns, and the cutover asks for its lock.
AllApplied(k) ==
    /\ rebuild[k].pc = "waiting"
    /\ rebuild[k].events \subseteq done
    /\ SetRebuild(k, "queued")
    /\ UNCHANGED <<docVars, eventVars, inflight, content, active>>

\* Mutant: the wait polls on, without a deadline or an eye on failures.
PollsOn(k) == rebuild[k].pc = "waiting" /\ UNCHANGED vars

\* An event failed, or the time is up.
WaitAborts(k) ==
    /\ rebuild[k].pc = "waiting"
    /\ SetRebuild(k, "aborted")
    /\ UNCHANGED <<docVars, eventVars, inflight, content, active>>

\* Mutant: the cutover does not wait for projections in progress.
NobodyAsked == TRUE

\* An exclusive advisory lock excludes the shared ones.
NoSharedHolder == \A p \in inflight : ~HoldsLock(p)

LockCutover(k) ==
    /\ rebuild[k].pc = "queued"
    /\ ~CutoverLocked
    /\ NoSharedHolder
    /\ SetRebuild(k, "locked")
    /\ UNCHANGED <<docVars, eventVars, inflight, content, active>>

\* Mutant: rows the target should not have are not looked for.
NothingMissing(rows) == Expected \subseteq rows

\* Mutant: rows the target should have are not looked for.
NothingUnexpected(rows) == rows \subseteq Expected

\* missing_ids and unexpected_ids are both empty.
Exact(rows) == rows = Expected

Validate(k) ==
    /\ rebuild[k].pc = "locked"
    /\ SetRebuild(k, IF Exact(content[rebuild[k].target]) THEN "validated" ELSE "aborted")
    /\ UNCHANGED <<docVars, eventVars, inflight, content, active>>

\* promote_aliases moves both aliases in one request; a request that raises may
\* have moved them. Then the lock is released.
Promote(k) ==
    /\ rebuild[k].pc = "validated"
    /\ \/ active' = rebuild[k].target /\ SetRebuild(k, "promoted")
       \/ /\ "es_failure" \in Faults
          /\ active' \in {active, rebuild[k].target}
          /\ SetRebuild(k, "aborted")
    /\ UNCHANGED <<docVars, eventVars, inflight, content>>

-----------------------------------------------------------------------------
DocumentStep(d) ==
    \/ \E v \in Versions : WriteChunks(d, v) \/ CompleteIngestion(d, v) \/ Withdraw(d, v)
    \/ SoftDelete(d) \/ Restore(d) \/ Purge(d)

ProjectionStep(p) ==
    \/ LoadRows(p) \/ LoadRefused(p) \/ ClearDocument(p) \/ WriteRows(p)
    \/ ReleaseLock(p) \/ CommitProjection(p)

RebuildStep(k) ==
    \/ ResetTarget(k) \/ EnqueueBackfill(k) \/ AllApplied(k) \/ WaitAborts(k)
    \/ LockCutover(k) \/ Validate(k) \/ Promote(k)

Next ==
    \/ \E d \in Docs : DocumentStep(d)
    \/ \E e \in outbox : ClaimEvent(e)
    \/ \E p \in inflight : ProjectionStep(p) \/ RequestFails(p) \/ ProjectionLost(p)
    \/ \E k \in Rebuilds, docs \in SUBSET Docs : ScopedBackfill(k, docs)
    \/ \E k \in Rebuilds, i \in Indices : CheckTarget(k, i)
    \/ \E k \in Rebuilds : RebuildStep(k)

Spec == Init /\ [][Next]_vars

\* Claimed projections are carried on, if only some of them at a time, and a
\* rebuild command runs to its end. Deliveries are owed to nobody: a dispatch may
\* fail.
Fairness ==
    /\ WF_vars(\E p \in inflight : ProjectionStep(p))
    /\ \A k \in Rebuilds : WF_vars(RebuildStep(k))

FairSpec == Spec /\ Fairness

-----------------------------------------------------------------------------
(* Properties *)

\* Every event of d is completed.
Settled(d) == \A e \in outbox : e.doc = d => e \in done

\* A document that was never deleted, and whose completed versions were left as
\* their events announced them, is searchable once its events are completed: the
\* active index has all chunks of one of its completed versions, as they are in
\* the database, whatever failed, was retried or overlapped, and whatever rebuilds
\* moved the aliases in between.
SettledDocumentsAreFound ==
    \A d \in Docs \ disturbed : Settled(d) /\ deletes[d] = 0 /\ completed[d] # {}
        => \E v \in completed[d] : Rows(d, v, writes[d][v]) \subseteq content[active]

\* The aliases move only to an index that holds exactly the newest completed
\* version of every live document at that moment.
CutoverIsExact == [][active' # active => content'[active'] = Expected']_vars

\* No projection writes on both sides of a cutover: whoever is between its claim
\* and its last request keeps the aliases where they are.
NoProjectionStraddlesCutover ==
    [][active' # active => \A p \in inflight : ~HoldsLock(p)]_vars

\* A completed event is not applied again: an index loses or gains chunks of a
\* document only through an event that is not completed, or a rebuild's reset.
ReplaysChangeNothing ==
    [][\A i \in Indices, d \in Docs :
          Of(d, content[i]) # Of(d, content'[i]) =>
              \/ \E e \in outbox \ done : e.doc = d
              \/ \E k \in Rebuilds : rebuild[k].pc = "checked" /\ rebuild[k].target = i]_vars

\* The projection is "version-safe": when all events of a live document are
\* completed, and its versions were left as these announced them, the active
\* index has its newest version and no other.
VersionSafe ==
    \A d \in Docs \ disturbed : Settled(d) /\ lifecycle[d] = "live" /\ completed[d] # {}
        => Of(d, content[active]) = Rows(d, Latest(d), writes[d][Latest(d)])

\* A rebuild that was started ends, promoted or aborted, although projections
\* and their failures never cease.
RebuildsEnd ==
    \A k \in Rebuilds : rebuild[k].pc = "checked" ~> rebuild[k].pc \in {"promoted", "aborted"}
=============================================================================
