----------------------- MODULE SearchProjectionProofs -----------------------
(***************************************************************************)
(* Type correctness of SearchProjection and the safety of its cutover, for  *)
(* any documents, indices and commands, and under every fault except a      *)
(* second rebuild started beside the first.                                 *)
(*                                                                         *)
(* The cutover is exact because what it validated stays true until it moves *)
(* the aliases: no projection is between its claim and its last request, as *)
(* each holds the shared lock, documents do not change, as the tables are   *)
(* locked, and no other rebuild resets the index.                           *)
(*                                                                         *)
(* The last part shows what the outbox is for: a document whose events are  *)
(* all completed, and whose completed versions were not withdrawn or        *)
(* rewritten afterwards, is found in the index that the aliases name.       *)
(***************************************************************************)
EXTENDS SearchProjection, BoundedMaximum, TLAPS

-----------------------------------------------------------------------------
(* Type correctness *)

\* Only a version with chunks is loaded.
LoadedVersions ==
    \A p \in inflight :
        p.pc \in {"loaded", "cleared"} => p.event.version \in Versions /\ p.g \in Nat \ {0}

\* A completed version has chunks.
WrittenVersions == \A d \in Docs : \A v \in completed[d] : writes[d][v] \in Nat \ {0}

\* A rebuild that was started has an index.
KnownTargets ==
    \A k \in Rebuilds : rebuild[k].pc \notin {"idle", "scoped"} => rebuild[k].target \in Indices

TypeInv == TypeOK /\ LoadedVersions /\ WrittenVersions /\ KnownTargets

LEMMA EventTyped ==
    ASSUME NEW kind \in {"upsert", "delete"}, NEW d \in Docs,
           NEW v \in 0..MaxVersion, NEW n \in 0..MaxDeletes
    PROVE  Event(kind, d, v, n) \in Events
BY DEF Event, Events

LEMMA LatestTyped ==
    ASSUME TypeOK, NEW d \in Docs
    PROVE  /\ Latest(d) \in 0..MaxVersion
           /\ completed[d] # {} => Latest(d) \in completed[d]
<1>1. completed[d] \subseteq Versions
  BY DEF TypeOK
<1>2. MaxVersion \in Nat
  BY ProjectionConstants
<1>3. CASE completed[d] = {}
  BY <1>2, <1>3 DEF Latest, Max0
<1>4. CASE completed[d] # {}
  <2>1. completed[d] \subseteq Nat /\ \A x \in completed[d] : x <= MaxVersion
    BY <1>1, <1>2 DEF Versions
  <2>2. Max(completed[d]) \in completed[d]
    BY <1>2, <1>4, <2>1, MaxOfBounded
  <2> QED
    BY <1>1, <1>2, <1>4, <2>2 DEF Latest, Max0, Versions
<1> QED
  BY <1>3, <1>4

LEMMA BackfillTyped ==
    ASSUME TypeOK, NEW k \in Rebuilds, NEW docs \in SUBSET Docs,
           NEW i \in Indices \cup {NoIndex}
    PROVE  BackfillEvents(k, docs, i) \subseteq Events
<1> SUFFICES ASSUME NEW d \in docs
             PROVE  [Event("upsert", d, Latest(d), 0) EXCEPT !.target = i, !.run = k] \in Events
  BY DEF BackfillEvents
<1>1. Latest(d) \in 0..MaxVersion /\ 0 \in 0..MaxDeletes
  BY LatestTyped, ProjectionConstants
<1>2. Event("upsert", d, Latest(d), 0) \in Events
  BY <1>1, EventTyped
<1> QED
  BY <1>2 DEF Events

\* A step of a document keeps types.
LEMMA DocumentTyped ==
    ASSUME TypeInv, NEW d \in Docs, DocumentStep(d)
    PROVE  TypeInv'
<1> USE DEF TypeInv
<1>0. MaxVersion \in Nat /\ MaxDeletes \in Nat /\ deletes[d] \in 0..MaxDeletes
  BY ProjectionConstants DEF TypeOK
<1>1. \A v \in Versions : v \in 0..MaxVersion
  BY <1>0 DEF Versions
<1>2. 0 \in 0..MaxVersion /\ 0 \in 0..MaxDeletes
  BY <1>0
<1>3. ASSUME NEW v \in Versions, WriteChunks(d, v)
      PROVE  TypeInv'
  <2>1. /\ writes' = [writes EXCEPT ![d] = [writes[d] EXCEPT ![v] = writes[d][v] + 1]]
        /\ disturbed' \in {disturbed, disturbed \cup {d}}
        /\ UNCHANGED <<completed, lifecycle, deletes, eventVars, inflight, content, active, rebuild>>
    BY <1>3 DEF WriteChunks
  <2>2. writes \in [Docs -> [Versions -> Nat]]
    BY DEF TypeOK
  <2>3. /\ writes' \in [Docs -> [Versions -> Nat]]
        /\ \A c \in Docs, u \in Versions : writes'[c][u] \in {writes[c][u], writes[c][u] + 1}
    BY <2>1, <2>2
  <2>4. WrittenVersions'
    BY <2>1, <2>2, <2>3 DEF WrittenVersions, TypeOK
  <2> QED
    BY <2>1, <2>3, <2>4 DEF TypeOK, LoadedVersions, KnownTargets, eventVars
<1>4. ASSUME NEW v \in Versions, CompleteIngestion(d, v)
      PROVE  TypeInv'
  <2>1. Event("upsert", d, v, 0) \in Events
    BY <1>1, <1>2, EventTyped
  <2>2. completed' \in [Docs -> SUBSET Versions]
    BY <1>4 DEF CompleteIngestion, TypeOK
  <2>3. WrittenVersions'
    BY <1>4 DEF CompleteIngestion, WrittenVersions, TypeOK
  <2> QED
    BY <1>4, <2>1, <2>2, <2>3 DEF CompleteIngestion, TypeOK, LoadedVersions, KnownTargets
<1>5. ASSUME NEW v \in Versions, Withdraw(d, v)
      PROVE  TypeInv'
  <2>1. completed' \in [Docs -> SUBSET Versions] /\ disturbed' \subseteq Docs
    BY <1>5 DEF Withdraw, TypeOK
  <2>2. WrittenVersions'
    BY <1>5 DEF Withdraw, WrittenVersions, TypeOK
  <2> QED
    BY <1>5, <2>1, <2>2 DEF Withdraw, TypeOK, LoadedVersions, KnownTargets, eventVars
<1>6. CASE SoftDelete(d)
  <2>1. deletes[d] + 1 \in 0..MaxDeletes
    BY <1>0, <1>6 DEF SoftDelete
  <2>2. Event("delete", d, 0, deletes[d] + 1) \in Events
    BY <1>2, <2>1, EventTyped
  <2>3. /\ lifecycle' \in [Docs -> {"live", "deleted", "purged"}]
        /\ deletes' \in [Docs -> 0..MaxDeletes]
    BY <1>6, <2>1 DEF SoftDelete, TypeOK
  <2> QED
    BY <1>6, <2>2, <2>3 DEF SoftDelete, TypeOK, LoadedVersions, WrittenVersions, KnownTargets
<1>7. CASE Restore(d)
  <2>1. Event("upsert", d, Latest(d), deletes[d]) \in Events
    BY <1>0, LatestTyped, EventTyped
  <2>2. lifecycle' \in [Docs -> {"live", "deleted", "purged"}]
    BY <1>7 DEF Restore, TypeOK
  <2>3. outbox \subseteq outbox' /\ outbox' \subseteq Events
    BY <1>7, <2>1 DEF Restore, TypeOK
  <2> QED
    BY <1>7, <2>2, <2>3 DEF Restore, TypeOK, LoadedVersions, WrittenVersions, KnownTargets
<1>8. CASE Purge(d)
  <2>1. Event("delete", d, 0, 0) \in Events
    BY <1>2, EventTyped
  <2>2. /\ lifecycle' \in [Docs -> {"live", "deleted", "purged"}]
        /\ completed' \in [Docs -> SUBSET Versions]
        /\ writes' \in [Docs -> [Versions -> Nat]]
    BY <1>8 DEF Purge, TypeOK
  <2>3. WrittenVersions'
    BY <1>8 DEF Purge, WrittenVersions, TypeOK
  <2> QED
    BY <1>8, <2>1, <2>2, <2>3 DEF Purge, TypeOK, LoadedVersions, KnownTargets
<1> QED
  BY <1>3, <1>4, <1>5, <1>6, <1>7, <1>8 DEF DocumentStep

\* Moving a projection on keeps the projections' types and their uniqueness.
LEMMA StepTyped ==
    ASSUME TypeInv, NEW p \in inflight,
           NEW pc \in {"loaded", "cleared", "written", "released"}, Step(p, pc),
           pc \in {"loaded", "cleared"} => p.event.version \in Versions /\ p.g \in Nat \ {0},
           UNCHANGED eventVars
    PROVE  /\ inflight' \subseteq Projections
           /\ \A q \in inflight' : q.event \in outbox' \ done'
           /\ \A q, r \in inflight' : q.event = r.event => q = r
           /\ LoadedVersions'
<1> DEFINE new == [p EXCEPT !.pc = pc]
<1>1. p \in Projections /\ p.event \in outbox \ done
  BY DEF TypeInv, TypeOK
<1>2. new \in Projections /\ new.event = p.event /\ new.pc = pc /\ new.g = p.g
  BY <1>1 DEF Projections
<1>3. inflight' = (inflight \ {p}) \cup {new}
  BY DEF Step
<1> HIDE DEF new
<1>4. \A q \in inflight : q # p => q.event # p.event
  BY DEF TypeInv, TypeOK
<1>5. \A q, r \in inflight' : q.event = r.event => q = r
  BY <1>2, <1>3, <1>4 DEF TypeInv, TypeOK
<1>6. LoadedVersions'
  BY <1>2, <1>3 DEF TypeInv, LoadedVersions
<1> QED
  BY <1>1, <1>2, <1>3, <1>5, <1>6 DEF TypeInv, TypeOK, eventVars

LEMMA RowsTyped ==
    ASSUME TypeInv, NEW p \in inflight, p.pc \in {"loaded", "cleared"},
           NEW part \in SUBSET Chunks
    PROVE  {p.event.doc} \X {p.event.version} \X {p.g} \X part \subseteq AllRows
<1>1. p.event \in Events /\ p.event.version \in Versions /\ p.g \in Nat \ {0}
  BY DEF TypeInv, TypeOK, LoadedVersions, KnownTargets, Projections
<1>2. p.event.doc \in Docs
  BY <1>1 DEF Events
<1> QED
  BY <1>1, <1>2 DEF AllRows

\* A step of a projection keeps types.
LEMMA ProjectionTyped ==
    ASSUME TypeInv, NEW p \in inflight,
           ProjectionStep(p) \/ RequestFails(p) \/ ProjectionLost(p)
    PROVE  TypeInv'
<1>0. p \in Projections /\ p.event \in outbox \ done
  BY DEF TypeInv, TypeOK
<1>1. CASE LoadRows(p)
  <2>1. p.event.doc \in Docs
    BY <1>0 DEF Projections, Events
  <2>2. p.event.version \in Versions
    BY <1>1, <2>1 DEF LoadRows, Loadable, TypeInv, TypeOK
  <2>3. writes[p.event.doc][p.event.version] \in Nat \ {0}
    BY <1>1, <2>1 DEF LoadRows, Loadable, TypeInv, WrittenVersions
  <2> DEFINE g == writes[p.event.doc][p.event.version]
             new == [p EXCEPT !.pc = "loaded", !.g = g]
  <2>4. new \in Projections /\ new.event = p.event /\ new.pc = "loaded" /\ new.g = g
    BY <1>0, <2>3 DEF Projections
  <2>5. inflight' = (inflight \ {p}) \cup {new}
    BY <1>1 DEF LoadRows
  <2>6. UNCHANGED <<docVars, eventVars, content, active, rebuild>>
    BY <1>1 DEF LoadRows
  <2>7. g \in Nat \ {0}
    BY <2>3
  <2> HIDE DEF g, new
  <2>8. \A q \in inflight : q # p => q.event # p.event
    BY DEF TypeInv, TypeOK
  <2>9. \A q, r \in inflight' : q.event = r.event => q = r
    BY <2>4, <2>5, <2>8 DEF TypeInv, TypeOK
  <2>10. LoadedVersions'
    BY <2>2, <2>4, <2>5, <2>7 DEF TypeInv, LoadedVersions
  <2> QED
    BY <1>0, <2>4, <2>5, <2>6, <2>9, <2>10
       DEF TypeInv, TypeOK, WrittenVersions, KnownTargets, docVars, eventVars
<1>2. CASE LoadRefused(p)
  BY <1>0, <1>2 DEF LoadRefused, TypeInv, TypeOK, LoadedVersions, WrittenVersions, KnownTargets,
     docVars, eventVars
<1>3. CASE ClearDocument(p)
  <2>1. content' \in [Indices -> SUBSET AllRows]
    BY <1>3 DEF ClearDocument, TypeInv, TypeOK
  <2>2. PICK pc \in {"cleared", "written"} :
            /\ Step(p, pc)
            /\ pc = "cleared" => p.event.version \in Versions /\ p.g \in Nat \ {0}
    BY <1>3 DEF ClearDocument, TypeInv, LoadedVersions
  <2>3. UNCHANGED <<docVars, eventVars, active, rebuild>>
    BY <1>3 DEF ClearDocument
  <2>4. /\ inflight' \subseteq Projections
        /\ \A q \in inflight' : q.event \in outbox' \ done'
        /\ \A q, r \in inflight' : q.event = r.event => q = r
        /\ LoadedVersions'
    BY <2>2, <2>3, StepTyped
  <2> QED
    BY <2>1, <2>3, <2>4 DEF TypeInv, TypeOK, WrittenVersions, KnownTargets, docVars, eventVars
<1>4. CASE WriteRows(p)
  <2>1. Rows(p.event.doc, p.event.version, p.g) \subseteq AllRows
    BY <1>4, RowsTyped DEF WriteRows, Rows
  <2>2. content' \in [Indices -> SUBSET AllRows]
    BY <1>4, <2>1 DEF WriteRows, TypeInv, TypeOK
  <2>3. Step(p, "written") /\ UNCHANGED <<docVars, eventVars, active, rebuild>>
    BY <1>4 DEF WriteRows
  <2>4. /\ inflight' \subseteq Projections
        /\ \A q \in inflight' : q.event \in outbox' \ done'
        /\ \A q, r \in inflight' : q.event = r.event => q = r
        /\ LoadedVersions'
    BY <2>3, StepTyped
  <2> QED
    BY <2>2, <2>3, <2>4 DEF TypeInv, TypeOK, WrittenVersions, KnownTargets, docVars, eventVars
<1>5. CASE ReleaseLock(p)
  <2>1. Step(p, "released") /\ UNCHANGED <<docVars, eventVars, content, active, rebuild>>
    BY <1>5 DEF ReleaseLock
  <2>2. /\ inflight' \subseteq Projections
        /\ \A q \in inflight' : q.event \in outbox' \ done'
        /\ \A q, r \in inflight' : q.event = r.event => q = r
        /\ LoadedVersions'
    BY <2>1, StepTyped
  <2> QED
    BY <2>1, <2>2 DEF TypeInv, TypeOK, WrittenVersions, KnownTargets, docVars, eventVars
<1>6. CASE CommitProjection(p)
  <2>1. \A q \in inflight' : q \in inflight /\ q.event # p.event
    BY <1>6 DEF CommitProjection, TypeInv, TypeOK
  <2> QED
    BY <1>0, <1>6, <2>1 DEF CommitProjection, TypeInv, TypeOK, LoadedVersions, WrittenVersions,
       KnownTargets, docVars
<1>7. CASE RequestFails(p)
  <2>1. content' \in [Indices -> SUBSET AllRows]
    <3>1. CASE \E gone \in {{}, Of(p.event.doc, content[TargetOf(p)])} :
                  content' = [content EXCEPT ![TargetOf(p)] = @ \ gone]
      BY <3>1 DEF TypeInv, TypeOK
    <3>2. CASE /\ p.pc = "cleared"
               /\ \E part \in {{}, {"first"}, Chunks} :
                     content' = [content EXCEPT ![TargetOf(p)] =
                                   @ \cup ({p.event.doc} \X {p.event.version} \X {p.g} \X part)]
      <4>1. PICK part \in SUBSET Chunks :
                content' = [content EXCEPT ![TargetOf(p)] =
                              @ \cup ({p.event.doc} \X {p.event.version} \X {p.g} \X part)]
        BY <3>2 DEF Chunks
      <4>2. {p.event.doc} \X {p.event.version} \X {p.g} \X part \subseteq AllRows
        BY <3>2, RowsTyped
      <4> QED
        BY <4>1, <4>2 DEF TypeInv, TypeOK
    <3> QED
      BY <1>7, <3>1, <3>2 DEF RequestFails
  <2> QED
    BY <1>0, <1>7, <2>1 DEF RequestFails, TypeInv, TypeOK, LoadedVersions, WrittenVersions,
       KnownTargets, docVars, eventVars
<1>8. CASE ProjectionLost(p)
  BY <1>8 DEF ProjectionLost, TypeInv, TypeOK, LoadedVersions, WrittenVersions, KnownTargets,
     docVars, eventVars
<1> QED
  BY <1>1, <1>2, <1>3, <1>4, <1>5, <1>6, <1>7, <1>8 DEF ProjectionStep

LEMMA SetRebuildTyped ==
    ASSUME rebuild \in [Rebuilds -> RebuildStates], KnownTargets, NEW k \in Rebuilds,
           NEW pc \in {"scoped", "reset", "queued", "locked", "validated", "promoted", "aborted"},
           SetRebuild(k, pc), pc = "scoped" \/ rebuild[k].pc \notin {"idle", "scoped"}
    PROVE  rebuild' \in [Rebuilds -> RebuildStates] /\ KnownTargets'
<1> DEFINE new == [rebuild[k] EXCEPT !.pc = pc]
<1>1. new \in RebuildStates /\ new.pc = pc /\ new.target = rebuild[k].target
  <2>1. rebuild[k] \in RebuildStates
    OBVIOUS
  <2> QED
    BY <2>1 DEF RebuildStates
<1>2. rebuild' = [rebuild EXCEPT ![k] = new]
  BY DEF SetRebuild
<1> HIDE DEF new
<1>3. KnownTargets'
  BY <1>1, <1>2 DEF KnownTargets
<1> QED
  BY <1>1, <1>2, <1>3

\* A step of the backfill command keeps types.
LEMMA RebuildTyped ==
    ASSUME TypeInv, NEW k \in Rebuilds,
           \/ RebuildStep(k)
           \/ \E docs \in SUBSET Docs : ScopedBackfill(k, docs)
           \/ \E i \in Indices : CheckTarget(k, i)
    PROVE  TypeInv'
<1>0. /\ rebuild \in [Rebuilds -> RebuildStates] /\ KnownTargets
      /\ rebuild[k].target \in Indices \cup {NoIndex}
  BY DEF TypeInv, TypeOK, RebuildStates
<1>1. ASSUME NEW docs \in SUBSET Docs, ScopedBackfill(k, docs)
      PROVE  TypeInv'
  <2>1. BackfillEvents(k, docs, NoIndex) \subseteq Events
    BY BackfillTyped DEF TypeInv
  <2>2. rebuild' \in [Rebuilds -> RebuildStates] /\ KnownTargets'
    BY <1>0, <1>1, SetRebuildTyped DEF ScopedBackfill
  <2> QED
    BY <1>1, <2>1, <2>2 DEF ScopedBackfill, TypeInv, TypeOK, LoadedVersions, WrittenVersions, docVars
<1>2. ASSUME NEW i \in Indices, CheckTarget(k, i)
      PROVE  TypeInv'
  <2>1. [pc |-> "checked", target |-> i, events |-> {}] \in RebuildStates
    BY DEF RebuildStates
  <2>2. rebuild' \in [Rebuilds -> RebuildStates] /\ KnownTargets'
    BY <1>0, <1>2, <2>1 DEF CheckTarget, KnownTargets
  <2> QED
    BY <1>2, <2>2 DEF CheckTarget, TypeInv, TypeOK, LoadedVersions, WrittenVersions, docVars, eventVars
<1>3. CASE ResetTarget(k)
  <2>1. rebuild' \in [Rebuilds -> RebuildStates] /\ KnownTargets'
    BY <1>0, <1>3, SetRebuildTyped DEF ResetTarget
  <2>2. content' \in [Indices -> SUBSET AllRows]
    BY <1>3 DEF ResetTarget, TypeInv, TypeOK
  <2> QED
    BY <1>3, <2>1, <2>2 DEF ResetTarget, TypeInv, TypeOK, LoadedVersions, WrittenVersions, docVars, eventVars
<1>4. CASE EnqueueBackfill(k)
  <2> DEFINE events == BackfillEvents(k, Docs, rebuild[k].target)
             new    == [rebuild[k] EXCEPT !.pc = "waiting", !.events = events]
  <2>1. events \subseteq Events
    BY <1>0, BackfillTyped DEF TypeInv
  <2>2. rebuild[k].target \in Indices
    BY <1>0, <1>4 DEF EnqueueBackfill, KnownTargets
  <2>3. /\ outbox' = outbox \cup events
        /\ rebuild' = [rebuild EXCEPT ![k] = new]
        /\ UNCHANGED <<docVars, done, inflight, content, active>>
    BY <1>4 DEF EnqueueBackfill
  <2> HIDE DEF events
  <2>4. new \in RebuildStates /\ new.target = rebuild[k].target
    <3>1. rebuild[k] \in RebuildStates
      BY <1>0
    <3> QED
      BY <2>1, <3>1 DEF RebuildStates
  <2> HIDE DEF new
  <2>5. rebuild' \in [Rebuilds -> RebuildStates] /\ KnownTargets'
    BY <1>0, <2>2, <2>3, <2>4 DEF KnownTargets
  <2> QED
    BY <2>1, <2>3, <2>5 DEF TypeInv, TypeOK, LoadedVersions, WrittenVersions, docVars
<1>5. CASE AllApplied(k) \/ WaitAborts(k) \/ LockCutover(k) \/ Validate(k)
  <2>1. rebuild' \in [Rebuilds -> RebuildStates] /\ KnownTargets'
    BY <1>0, <1>5, SetRebuildTyped DEF AllApplied, WaitAborts, LockCutover, Validate
  <2>2. UNCHANGED <<docVars, eventVars, inflight, content, active>>
    BY <1>5 DEF AllApplied, WaitAborts, LockCutover, Validate
  <2> QED
    BY <2>1, <2>2 DEF TypeInv, TypeOK, LoadedVersions, WrittenVersions, docVars, eventVars
<1>6. CASE Promote(k)
  <2>1. rebuild' \in [Rebuilds -> RebuildStates] /\ KnownTargets'
    BY <1>0, <1>6, SetRebuildTyped DEF Promote
  <2>2. UNCHANGED <<docVars, eventVars, inflight, content>>
    BY <1>6 DEF Promote
  <2>3. active' \in Indices
    BY <1>0, <1>6 DEF Promote, KnownTargets, TypeInv, TypeOK
  <2> QED
    BY <2>1, <2>2, <2>3 DEF TypeInv, TypeOK, LoadedVersions, WrittenVersions, docVars, eventVars
<1> QED
  BY <1>1, <1>2, <1>3, <1>4, <1>5, <1>6 DEF RebuildStep

\* TypeOK, strengthened by what is loaded and where rebuilds write, is inductive.
THEOREM TypeInvariant == Spec => []TypeInv
<1>1. Init => TypeInv
  BY ProjectionConstants DEF Init, TypeInv, TypeOK, LoadedVersions, WrittenVersions,
     KnownTargets, IdleRebuild, RebuildStates
<1>2. TypeInv /\ [Next]_vars => TypeInv'
  <2> SUFFICES ASSUME TypeInv, [Next]_vars
               PROVE  TypeInv'
    OBVIOUS
  <2>1. ASSUME NEW d \in Docs, DocumentStep(d)
        PROVE  TypeInv'
    BY <2>1, DocumentTyped
  <2>2. ASSUME NEW e \in outbox, ClaimEvent(e)
        PROVE  TypeInv'
    <3> DEFINE new == [event |-> e, g |-> 0, pc |-> "claimed"]
    <3>1. new \in Projections /\ new.event = e /\ new.pc = "claimed"
      BY DEF Projections, TypeInv, TypeOK
    <3>2. /\ inflight' = inflight \cup {new} /\ e \notin done
          /\ \A p \in inflight : p.event # e
          /\ UNCHANGED <<docVars, eventVars, content, active, rebuild>>
      BY <2>2 DEF ClaimEvent, Unprocessed
    <3> HIDE DEF new
    <3>3. \A q, r \in inflight' : q.event = r.event => q = r
      BY <3>1, <3>2 DEF TypeInv, TypeOK
    <3>4. LoadedVersions'
      BY <3>1, <3>2 DEF TypeInv, LoadedVersions
    <3> QED
      BY <3>1, <3>2, <3>3, <3>4 DEF TypeInv, TypeOK, WrittenVersions, KnownTargets, docVars, eventVars
  <2>3. ASSUME NEW p \in inflight, ProjectionStep(p) \/ RequestFails(p) \/ ProjectionLost(p)
        PROVE  TypeInv'
    BY <2>3, ProjectionTyped
  <2>4. ASSUME NEW k \in Rebuilds, NEW docs \in SUBSET Docs, ScopedBackfill(k, docs)
        PROVE  TypeInv'
    BY <2>4, RebuildTyped
  <2>5. ASSUME NEW k \in Rebuilds, NEW i \in Indices, CheckTarget(k, i)
        PROVE  TypeInv'
    BY <2>5, RebuildTyped
  <2>6. ASSUME NEW k \in Rebuilds, RebuildStep(k)
        PROVE  TypeInv'
    BY <2>6, RebuildTyped
  <2>7. CASE UNCHANGED vars
    BY <2>7 DEF vars, docVars, eventVars, TypeInv, TypeOK, LoadedVersions, WrittenVersions,
       KnownTargets
  <2> QED
    BY <2>1, <2>2, <2>3, <2>4, <2>5, <2>6, <2>7 DEF Next
<1> QED
  BY <1>1, <1>2, PTL DEF Spec

\* TypeOK holds of every behaviour.
THEOREM TypeCorrect == Spec => []TypeOK
<1>1. TypeInv => TypeOK
  BY DEF TypeInv
<1> QED
  BY <1>1, TypeInvariant, PTL
-----------------------------------------------------------------------------
(* The cutover *)

OneRebuildAtATime == "concurrent_rebuilds" \notin Faults

\* Whoever holds the cutover's lock is the only rebuild in progress.
OneInProgress == \A j, k \in Rebuilds : InProgress(j) /\ InProgress(k) => j = k

\* The exclusive lock keeps the shared ones out.
LockExcludes == CutoverLocked => \A p \in inflight : ~HoldsLock(p)

\* What was validated is still true.
ValidatedIsExact ==
    \A k \in Rebuilds : rebuild[k].pc = "validated" => content[rebuild[k].target] = Expected

CutoverInv == OneInProgress /\ LockExcludes /\ ValidatedIsExact

\* What a rebuild reached by SetRebuild looks like.
LEMMA SetRebuildEffect ==
    ASSUME rebuild \in [Rebuilds -> RebuildStates], NEW k \in Rebuilds, NEW pc, SetRebuild(k, pc)
    PROVE  /\ rebuild'[k].pc = pc /\ rebuild'[k].target = rebuild[k].target
           /\ \A j \in Rebuilds : j # k => rebuild'[j] = rebuild[j]
<1>1. rebuild[k] \in RebuildStates
  OBVIOUS
<1>2. rebuild' = [rebuild EXCEPT ![k] = [rebuild[k] EXCEPT !.pc = pc]]
  BY DEF SetRebuild
<1>3. /\ [rebuild[k] EXCEPT !.pc = pc].pc = pc
      /\ [rebuild[k] EXCEPT !.pc = pc].target = rebuild[k].target
  BY <1>1 DEF RebuildStates
<1> QED
  BY <1>2, <1>3

\* A projection that moves on without having released its lock keeps the cutover
\* out; one that ends does no harm.
LEMMA ProjectionKeepsCutover ==
    ASSUME TypeInv, CutoverInv, NEW p \in inflight,
           ProjectionStep(p) \/ RequestFails(p) \/ ProjectionLost(p)
    PROVE  CutoverInv'
<1>1. UNCHANGED <<docVars, rebuild>>
  BY DEF ProjectionStep, RequestFails, ProjectionLost, LoadRows, LoadRefused, ClearDocument,
     WriteRows, ReleaseLock, CommitProjection
<1>2. Expected' = Expected /\ CutoverLocked' = CutoverLocked /\ OneInProgress'
  BY <1>1 DEF Expected, Latest, docVars, CutoverLocked, OneInProgress, CutoverInv, InProgress
<1>3. CASE CutoverLocked
  <2>1. p.pc = "released"
    BY <1>3 DEF CutoverInv, LockExcludes, HoldsLock
  <2>2. inflight' = inflight \ {p} /\ content' = content
    BY <2>1 DEF ProjectionStep, RequestFails, ProjectionLost, LoadRows, LoadRefused,
       ClearDocument, WriteRows, ReleaseLock, CommitProjection
  <2> QED
    BY <1>1, <1>2, <2>2 DEF CutoverInv, LockExcludes, ValidatedIsExact
<1>4. CASE ~CutoverLocked
  BY <1>1, <1>2, <1>4 DEF CutoverInv, LockExcludes, ValidatedIsExact, CutoverLocked
<1> QED
  BY <1>3, <1>4

LEMMA RebuildKeepsCutover ==
    ASSUME TypeInv, CutoverInv, NEW k \in Rebuilds, RebuildStep(k)
    PROVE  CutoverInv'
<1>0. rebuild \in [Rebuilds -> RebuildStates]
  BY DEF TypeInv, TypeOK
<1>1. InProgress(k) /\ \A j \in Rebuilds : j # k => ~InProgress(j)
  BY DEF RebuildStep, ResetTarget, EnqueueBackfill, AllApplied, WaitAborts, LockCutover,
     Validate, Promote, InProgress, CutoverInv, OneInProgress
<1>2. UNCHANGED docVars
  BY DEF RebuildStep, ResetTarget, EnqueueBackfill, AllApplied, WaitAborts, LockCutover,
     Validate, Promote
<1>3. Expected' = Expected
  BY <1>2 DEF Expected, Latest, docVars
<1>4. inflight' = inflight
  BY DEF RebuildStep, ResetTarget, EnqueueBackfill, AllApplied, WaitAborts, LockCutover,
     Validate, Promote
<1>5. \A j \in Rebuilds : j # k => rebuild'[j] = rebuild[j]
  BY <1>0, SetRebuildEffect DEF RebuildStep, ResetTarget, EnqueueBackfill, AllApplied,
     WaitAborts, LockCutover, Validate, Promote
<1>6. OneInProgress' /\ \A j \in Rebuilds : j # k => rebuild'[j].pc \notin {"locked", "validated"}
  BY <1>1, <1>5 DEF OneInProgress, InProgress
<1>7. CASE ResetTarget(k) \/ AllApplied(k) \/ WaitAborts(k) \/ Promote(k)
  <2>1. rebuild'[k].pc \in {"reset", "queued", "aborted", "promoted"}
    BY <1>0, <1>7, SetRebuildEffect DEF ResetTarget, AllApplied, WaitAborts, Promote
  <2> QED
    BY <1>6, <2>1 DEF CutoverInv, LockExcludes, ValidatedIsExact, CutoverLocked
<1>8. CASE EnqueueBackfill(k)
  <2>1. rebuild'[k].pc = "waiting"
    <3>1. rebuild[k] \in RebuildStates
      BY <1>0
    <3> QED
      BY <1>0, <1>8, <3>1 DEF EnqueueBackfill, RebuildStates
  <2> QED
    BY <1>6, <2>1 DEF CutoverInv, LockExcludes, ValidatedIsExact, CutoverLocked
<1>9. CASE LockCutover(k)
  <2>1. rebuild'[k].pc = "locked" /\ \A p \in inflight : ~HoldsLock(p)
    BY <1>0, <1>9, SetRebuildEffect DEF LockCutover, NoSharedHolder
  <2> QED
    BY <1>4, <1>6, <2>1 DEF CutoverInv, LockExcludes, ValidatedIsExact, HoldsLock
<1>10. CASE Validate(k)
  <2>1. CutoverLocked /\ content' = content
    BY <1>10 DEF Validate, CutoverLocked
  <2>2. LockExcludes'
    BY <1>4, <2>1 DEF CutoverInv, LockExcludes, HoldsLock
  <2>3. rebuild'[k].pc = "validated" => content[rebuild[k].target] = Expected
    BY <1>0, <1>10, SetRebuildEffect DEF Validate, Exact
  <2>4. rebuild'[k].target = rebuild[k].target
    BY <1>0, <1>10, SetRebuildEffect DEF Validate
  <2>5. ValidatedIsExact'
    BY <1>3, <1>6, <2>1, <2>3, <2>4 DEF ValidatedIsExact
  <2> QED
    BY <1>6, <2>2, <2>5 DEF CutoverInv
<1> QED
  BY <1>7, <1>8, <1>9, <1>10 DEF RebuildStep

\* With one rebuild at a time, the cutover's invariant is inductive.
THEOREM CutoverInvariant ==
    ASSUME OneRebuildAtATime
    PROVE  Spec => []CutoverInv
<1>1. Init => CutoverInv
  BY DEF Init, CutoverInv, OneInProgress, InProgress, LockExcludes, CutoverLocked,
     ValidatedIsExact, IdleRebuild
<1>2. TypeInv /\ CutoverInv /\ [Next]_vars => CutoverInv'
  <2> SUFFICES ASSUME TypeInv, CutoverInv, [Next]_vars
               PROVE  CutoverInv'
    OBVIOUS
  <2>0. rebuild \in [Rebuilds -> RebuildStates]
    BY DEF TypeInv, TypeOK
  <2>1. ASSUME NEW d \in Docs, DocumentStep(d)
        PROVE  CutoverInv'
    <3>1. ~CutoverLocked /\ UNCHANGED <<inflight, content, rebuild>>
      BY <2>1 DEF DocumentStep, WriteChunks, CompleteIngestion, Withdraw, SoftDelete, Restore,
         Purge
    <3> QED
      BY <3>1 DEF CutoverInv, OneInProgress, InProgress, LockExcludes, CutoverLocked,
         ValidatedIsExact
  <2>2. ASSUME NEW e \in outbox, ClaimEvent(e)
        PROVE  CutoverInv'
    <3>1. ~CutoverLocked /\ UNCHANGED <<content, rebuild>>
      BY <2>2 DEF ClaimEvent
    <3> QED
      BY <3>1 DEF CutoverInv, OneInProgress, InProgress, LockExcludes, CutoverLocked,
         ValidatedIsExact
  <2>3. ASSUME NEW p \in inflight, ProjectionStep(p) \/ RequestFails(p) \/ ProjectionLost(p)
        PROVE  CutoverInv'
    BY <2>3, ProjectionKeepsCutover
  <2>4. ASSUME NEW k \in Rebuilds, NEW docs \in SUBSET Docs, ScopedBackfill(k, docs)
        PROVE  CutoverInv'
    <3>1. /\ rebuild'[k].pc = "scoped"
          /\ \A j \in Rebuilds : j # k => rebuild'[j] = rebuild[j]
      BY <2>0, <2>4, SetRebuildEffect DEF ScopedBackfill
    <3>2. UNCHANGED <<docVars, inflight, content>>
      BY <2>4 DEF ScopedBackfill
    <3>3. Expected' = Expected
      BY <3>2 DEF Expected, Latest, docVars
    <3> QED
      BY <3>1, <3>2, <3>3 DEF CutoverInv, OneInProgress, InProgress, LockExcludes,
         CutoverLocked, ValidatedIsExact, HoldsLock
  <2>5. ASSUME NEW k \in Rebuilds, NEW i \in Indices, CheckTarget(k, i)
        PROVE  CutoverInv'
    <3>1. \A j \in Rebuilds : ~InProgress(j)
      BY <2>5 DEF CheckTarget, OneRebuildAtATime
    <3>2. /\ rebuild'[k].pc = "checked"
          /\ \A j \in Rebuilds : j # k => rebuild'[j] = rebuild[j]
      BY <2>0, <2>5 DEF CheckTarget
    <3> QED
      BY <3>1, <3>2 DEF CutoverInv, OneInProgress, InProgress, LockExcludes,
         CutoverLocked, ValidatedIsExact
  <2>6. ASSUME NEW k \in Rebuilds, RebuildStep(k)
        PROVE  CutoverInv'
    BY <2>6, RebuildKeepsCutover
  <2>7. CASE UNCHANGED vars
    BY <2>7 DEF vars, docVars, CutoverInv, OneInProgress, InProgress, LockExcludes,
       CutoverLocked, HoldsLock, ValidatedIsExact, Expected, Latest
  <2> QED
    BY <2>1, <2>2, <2>3, <2>4, <2>5, <2>6, <2>7 DEF Next
<1> QED
  BY <1>1, <1>2, TypeInvariant, PTL DEF Spec

\* Only Promote moves the aliases.
LEMMA OnlyPromoteMoves ==
    ASSUME [Next]_vars, active' # active
    PROVE  \E k \in Rebuilds : Promote(k)
BY DEF Next, vars, DocumentStep, WriteChunks, CompleteIngestion, Withdraw, SoftDelete, Restore,
   Purge, ClaimEvent,
   ProjectionStep, LoadRows, LoadRefused, ClearDocument, WriteRows, RequestFails,
   ProjectionLost, ReleaseLock, CommitProjection, ScopedBackfill, CheckTarget, RebuildStep,
   ResetTarget, EnqueueBackfill, AllApplied, WaitAborts, LockCutover, Validate

\* The aliases move only to an index that holds exactly what was to be served,
\* although validating and moving are separate requests.
THEOREM CutoversAreExact ==
    ASSUME OneRebuildAtATime
    PROVE  Spec => CutoverIsExact
<1>1. CutoverInv /\ [Next]_vars => [active' # active => content'[active'] = Expected']_vars
  <2> SUFFICES ASSUME CutoverInv, [Next]_vars, active' # active
               PROVE  content'[active'] = Expected'
    OBVIOUS
  <2>1. PICK k \in Rebuilds : Promote(k)
    BY OnlyPromoteMoves
  <2>2. active' = rebuild[k].target /\ UNCHANGED <<docVars, content>>
    BY <2>1 DEF Promote
  <2>3. content[rebuild[k].target] = Expected
    BY <2>1 DEF Promote, CutoverInv, ValidatedIsExact
  <2> QED
    BY <2>2, <2>3 DEF Expected, Latest, docVars
<1> QED
  BY <1>1, CutoverInvariant, PTL DEF Spec, CutoverIsExact

\* No projection is between its claim and its last request when the aliases move.
THEOREM ProjectionsRespectCutovers ==
    ASSUME OneRebuildAtATime
    PROVE  Spec => NoProjectionStraddlesCutover
<1>1. CutoverInv /\ [Next]_vars =>
          [active' # active => \A p \in inflight : ~HoldsLock(p)]_vars
  <2> SUFFICES ASSUME CutoverInv, [Next]_vars, active' # active
               PROVE  \A p \in inflight : ~HoldsLock(p)
    OBVIOUS
  <2>1. PICK k \in Rebuilds : Promote(k)
    BY OnlyPromoteMoves
  <2> QED
    BY <2>1 DEF Promote, CutoverInv, LockExcludes, CutoverLocked
<1> QED
  BY <1>1, CutoverInvariant, PTL DEF Spec, NoProjectionStraddlesCutover

-----------------------------------------------------------------------------
(* Replays *)

\* A delivery of a completed event writes nothing, even one that was claimed
\* while another delivery of the event was in progress.
THEOREM ReplaysAreHarmless == Spec => ReplaysChangeNothing
<1> DEFINE Justified ==
      \A i \in Indices, d \in Docs :
          Of(d, content[i]) # Of(d, content'[i]) =>
              \/ \E e \in outbox \ done : e.doc = d
              \/ \E k \in Rebuilds : rebuild[k].pc = "checked" /\ rebuild[k].target = i
<1>1. TypeInv /\ [Next]_vars => [Justified]_vars
  <2> SUFFICES ASSUME TypeInv, Next
               PROVE  Justified
    OBVIOUS
  <2>1. CASE content' = content
    BY <2>1
  <2>2. ASSUME NEW p \in inflight, ProjectionStep(p) \/ RequestFails(p) \/ ProjectionLost(p)
        PROVE  Justified
    <3> SUFFICES ASSUME NEW i \in Indices, NEW d \in Docs, p.event.doc # d
                 PROVE  Of(d, content[i]) = Of(d, content'[i])
      BY DEF TypeInv, TypeOK
    <3>0. content \in [Indices -> SUBSET AllRows]
      BY DEF TypeInv, TypeOK
    <3>1. CASE content' = content
      BY <3>1
    <3>2. ASSUME NEW D, \A x \in D : x[1] = p.event.doc,
                 \/ content' = [content EXCEPT ![TargetOf(p)] = @ \ D]
                 \/ content' = [content EXCEPT ![TargetOf(p)] = @ \cup D]
          PROVE  Of(d, content[i]) = Of(d, content'[i])
      <4>1. \/ content'[i] = content[i]
            \/ content'[i] = content[i] \ D
            \/ content'[i] = content[i] \cup D
        BY <3>0, <3>2
      <4> QED
        BY <3>2, <4>1 DEF Of
    <3>3. CASE ClearDocument(p)
      BY <3>2, <3>3 DEF ClearDocument, Of
    <3>4. CASE WriteRows(p)
      BY <3>2, <3>4 DEF WriteRows, Rows
    <3>5. CASE RequestFails(p)
      <4>1. ASSUME NEW gone \in {{}, Of(p.event.doc, content[TargetOf(p)])},
                   content' = [content EXCEPT ![TargetOf(p)] = @ \ gone]
            PROVE  Of(d, content[i]) = Of(d, content'[i])
        BY <3>2, <4>1 DEF Of
      <4>2. ASSUME NEW part,
                   content' = [content EXCEPT ![TargetOf(p)] =
                                 @ \cup ({p.event.doc} \X {p.event.version} \X {p.g} \X part)]
            PROVE  Of(d, content[i]) = Of(d, content'[i])
        BY <3>2, <4>2
      <4> QED
        BY <3>5, <4>1, <4>2 DEF RequestFails
    <3> QED
      BY <2>2, <3>1, <3>3, <3>4, <3>5 DEF ProjectionStep, LoadRows, LoadRefused,
         ProjectionLost, ReleaseLock, CommitProjection
  <2>3. ASSUME NEW k \in Rebuilds, ResetTarget(k)
        PROVE  Justified
    BY <2>3 DEF ResetTarget, TypeInv, TypeOK
  <2> QED
    BY <2>1, <2>2, <2>3 DEF Next, DocumentStep, WriteChunks, CompleteIngestion, Withdraw,
       SoftDelete, Restore,
       Purge, ClaimEvent, ScopedBackfill, CheckTarget, RebuildStep, EnqueueBackfill,
       AllApplied, WaitAborts, LockCutover, Validate, Promote
<1> QED
  BY <1>1, TypeInvariant, PTL DEF Spec, ReplaysChangeNothing

-----------------------------------------------------------------------------
(* Settled documents are found *)

\* The event of d is still to be written to the active index.
Owes(d, e) ==
    /\ e.doc = d /\ e.target \in {NoIndex, active}
    /\ \A p \in inflight : p.event = e => p.pc \notin {"written", "released"}

Owed(d) == \E e \in outbox \ done : Owes(d, e)

Found(d) == \E v \in completed[d] : Rows(d, v, writes[d][v]) \subseteq content[active]

\* Never deleted, and its completed versions are as their events announced them.
Kept(d) == deletes[d] = 0 /\ d \notin disturbed

\* Events of such a document are about its completed versions.
EventsOfCompleted ==
    /\ \A d \in Docs : lifecycle[d] # "live" => deletes[d] # 0
    /\ \A e \in outbox :
          Kept(e.doc) => e.kind = "upsert" /\ e.version \in completed[e.doc]

\* A completed version has its event.
CompletedAnnounced == \A d \in Docs : \A v \in completed[d] : Announced(d, v)

\* The chunks a projection of such a document has loaded are those of the database.
LoadedAsStored ==
    \A p \in inflight : Kept(p.event.doc) /\ p.pc \in {"loaded", "cleared"} =>
        p.g = writes[p.event.doc][p.event.version]

\* A rebuild resets no index that is served.
ResetsAside == \A k \in Rebuilds : rebuild[k].pc = "checked" => rebuild[k].target # active

\* Whoever takes a document's chunks from the active index owes them to it.
OwedOrFound == \A d \in Docs : Kept(d) /\ completed[d] # {} => Owed(d) \/ Found(d)

FoundInv ==
    EventsOfCompleted /\ CompletedAnnounced /\ LoadedAsStored /\ ResetsAside /\ OwedOrFound

LEMMA EventFields ==
    ASSUME NEW kind, NEW d, NEW v, NEW n
    PROVE  /\ Event(kind, d, v, n).kind = kind /\ Event(kind, d, v, n).doc = d
           /\ Event(kind, d, v, n).version = v /\ Event(kind, d, v, n).target = NoIndex
BY DEF Event

LEMMA BackfillFields ==
    ASSUME NEW k, NEW docs \in SUBSET Docs, NEW i, NEW e \in BackfillEvents(k, docs, i),
           TypeOK
    PROVE  e.kind = "upsert" /\ e.doc \in Docs /\ e.version \in completed[e.doc]
<1>1. PICK d \in docs : /\ completed[d] # {}
                        /\ e = [Event("upsert", d, Latest(d), 0) EXCEPT !.target = i, !.run = k]
  BY DEF BackfillEvents
<1>2. e.kind = "upsert" /\ e.doc = d /\ e.version = Latest(d)
  BY <1>1 DEF Event
<1> QED
  BY <1>1, <1>2, LatestTyped

\* What the active index was owed and had, it is owed and has.
LEMMA StillOwedOrFound ==
    ASSUME NEW d, active' = active,
           Owed(d) \/ Found(d),
           Owed(d) => Owed(d)' \/ Found(d)',
           Of(d, content[active]) \subseteq content'[active],
           \A v \in completed[d] : v \in completed'[d] /\ writes'[d][v] = writes[d][v]
    PROVE  Owed(d)' \/ Found(d)'
<1>1. CASE Owed(d)
  BY <1>1
<1>2. ASSUME NEW v \in completed[d], Rows(d, v, writes[d][v]) \subseteq content[active]
      PROVE  Found(d)'
  <2>1. Rows(d, v, writes[d][v]) \subseteq content'[active]
    BY <1>2 DEF Rows, Of
  <2> QED
    BY <2>1 DEF Found
<1> QED
  BY <1>1, <1>2 DEF Found

\* Events are added, none is claimed or completed.
LEMMA MoreEvents ==
    ASSUME NEW d, outbox \subseteq outbox', UNCHANGED <<done, inflight, active>>
    PROVE  Owed(d) => Owed(d)'
BY DEF Owed, Owes

LEMMA DocumentKeepsFound ==
    ASSUME TypeInv, FoundInv, NEW d \in Docs, DocumentStep(d)
    PROVE  FoundInv'
<1>0. /\ completed \in [Docs -> SUBSET Versions] /\ outbox \subseteq Events
      /\ lifecycle \in [Docs -> {"live", "deleted", "purged"}]
      /\ deletes \in [Docs -> 0..MaxDeletes] /\ MaxDeletes \in Nat
      /\ writes \in [Docs -> [Versions -> Nat]] /\ disturbed \subseteq Docs
      /\ done \subseteq outbox /\ \A p \in inflight : p.event \in outbox
      /\ writes \in [Docs -> [Versions -> Nat]]
  BY ProjectionConstants DEF TypeInv, TypeOK
<1>1. \A e \in outbox : e.doc \in Docs
  BY <1>0 DEF Events
<1>2. UNCHANGED <<done, inflight, content, active, rebuild>> /\ outbox \subseteq outbox'
  BY DEF DocumentStep, WriteChunks, CompleteIngestion, Withdraw, SoftDelete, Restore, Purge,
     eventVars
<1>3. ResetsAside'
  BY <1>2 DEF FoundInv, ResetsAside
<1>4. ASSUME NEW c \in Docs, Owed(c) \/ Found(c),
             \A v \in completed[c] : v \in completed'[c] /\ writes'[c][v] = writes[c][v]
      PROVE  Owed(c)' \/ Found(c)'
  <2>1. Of(c, content[active]) \subseteq content'[active]
    BY <1>2 DEF Of
  <2> QED
    BY <1>2, <1>4, <2>1, MoreEvents, StillOwedOrFound
<1>5. ASSUME NEW v \in Versions, CompleteIngestion(d, v)
      PROVE  FoundInv'
  <2>1. PICK e : e = Event("upsert", d, v, 0)
    OBVIOUS
  <2>2. e.kind = "upsert" /\ e.doc = d /\ e.version = v /\ e.target = NoIndex
    BY <2>1, EventFields
  <2>3. /\ outbox' = outbox \cup {e} /\ completed' = [completed EXCEPT ![d] = @ \cup {v}]
        /\ v \notin completed[d] /\ UNCHANGED <<writes, lifecycle, deletes, disturbed>>
    BY <1>5, <2>1 DEF CompleteIngestion
  <2>4. /\ completed'[d] = completed[d] \cup {v}
        /\ \A c \in Docs : c # d => completed'[c] = completed[c]
    BY <1>0, <2>3
  <2>5. EventsOfCompleted'
    BY <1>1, <2>2, <2>3, <2>4 DEF FoundInv, EventsOfCompleted, Kept
  <2>6. CompletedAnnounced'
    BY <2>1, <2>3, <2>4 DEF FoundInv, CompletedAnnounced, Announced, Event
  <2>7. LoadedAsStored'
    BY <1>2, <2>3 DEF FoundInv, LoadedAsStored, Kept
  <2>8. Kept(d) => Owed(d)'
    <3>1. Kept(d) => e \notin outbox
      BY <2>2, <2>3 DEF FoundInv, EventsOfCompleted
    <3>2. Kept(d) => e \in outbox' \ done' /\ Owes(d, e)'
      BY <1>0, <1>2, <2>2, <2>3, <3>1 DEF Owes
    <3> QED
      BY <3>2 DEF Owed
  <2>9. OwedOrFound'
    <3> SUFFICES ASSUME NEW c \in Docs, Kept(c)', completed'[c] # {}
                 PROVE  Owed(c)' \/ Found(c)'
      BY DEF OwedOrFound
    <3>1. Kept(c)
      BY <2>3 DEF Kept
    <3>2. CASE c = d
      BY <2>8, <3>1, <3>2
    <3>3. CASE c # d
      <4>1. Owed(c) \/ Found(c)
        BY <2>4, <3>1, <3>3 DEF FoundInv, OwedOrFound
      <4> QED
        BY <1>4, <2>3, <2>4, <3>3, <4>1
    <3> QED
      BY <3>2, <3>3
  <2> QED
    BY <1>3, <2>5, <2>6, <2>7, <2>9 DEF FoundInv
<1>6. ASSUME NEW v \in Versions, WriteChunks(d, v)
      PROVE  FoundInv'
  <2>1. /\ writes' = [writes EXCEPT ![d] = [writes[d] EXCEPT ![v] = writes[d][v] + 1]]
        /\ disturbed' = IF Announced(d, v) THEN disturbed \cup {d} ELSE disturbed
        /\ UNCHANGED <<completed, lifecycle, deletes, outbox>>
    BY <1>6 DEF WriteChunks, eventVars
  <2>2. \A c \in Docs, u \in Versions : c # d \/ u # v => writes'[c][u] = writes[c][u]
    BY <1>0, <2>1
  <2>3. \A c \in Docs : Kept(c)' => Kept(c) /\ (c = d => v \notin completed[d])
    BY <2>1 DEF Kept, FoundInv, CompletedAnnounced
  <2>4. EventsOfCompleted' /\ CompletedAnnounced'
    BY <1>1, <2>1, <2>3 DEF FoundInv, EventsOfCompleted, CompletedAnnounced, Announced, Event
  <2>5. LoadedAsStored'
    <3> SUFFICES ASSUME NEW p \in inflight, Kept(p.event.doc)', p.pc \in {"loaded", "cleared"}
                 PROVE  p.g = writes'[p.event.doc][p.event.version]
      BY <1>2 DEF LoadedAsStored
    <3>1. p.event \in outbox /\ p.event.doc \in Docs
      BY <1>0, <1>1
    <3>2. p.event.version \in completed[p.event.doc] /\ Kept(p.event.doc)
      BY <2>3, <3>1 DEF FoundInv, EventsOfCompleted
    <3>3. p.event.version \in Versions
      BY <1>0, <3>1, <3>2
    <3>4. p.event.doc # d \/ p.event.version # v
      BY <2>3, <3>1, <3>2
    <3> QED
      BY <2>2, <3>1, <3>2, <3>3, <3>4 DEF FoundInv, LoadedAsStored
  <2>6. OwedOrFound'
    <3> SUFFICES ASSUME NEW c \in Docs, Kept(c)', completed[c] # {}
                 PROVE  Owed(c)' \/ Found(c)'
      BY <2>1 DEF OwedOrFound
    <3>1. Owed(c) \/ Found(c)
      BY <2>3 DEF FoundInv, OwedOrFound
    <3>2. \A u \in completed[c] : u \in completed'[c] /\ writes'[c][u] = writes[c][u]
      BY <1>0, <2>1, <2>2, <2>3
    <3> QED
      BY <1>4, <3>1, <3>2
  <2> QED
    BY <1>3, <2>4, <2>5, <2>6 DEF FoundInv
<1>7. ASSUME NEW v \in Versions, Withdraw(d, v)
      PROVE  FoundInv'
  <2>1. /\ completed' = [completed EXCEPT ![d] = @ \ {v}] /\ disturbed' = disturbed \cup {d}
        /\ UNCHANGED <<writes, lifecycle, deletes, outbox>>
    BY <1>7 DEF Withdraw, eventVars
  <2>2. \A c \in Docs : /\ completed'[c] \subseteq completed[c]
                         /\ c # d => completed'[c] = completed[c]
    BY <1>0, <2>1
  <2>3. \A c \in Docs : Kept(c)' => Kept(c) /\ c # d
    BY <2>1 DEF Kept
  <2>4. EventsOfCompleted'
    BY <1>1, <2>1, <2>2, <2>3 DEF FoundInv, EventsOfCompleted
  <2>5. CompletedAnnounced'
    BY <2>1, <2>2 DEF FoundInv, CompletedAnnounced, Announced, Event
  <2>6. LoadedAsStored'
    BY <1>0, <1>1, <1>2, <2>1, <2>3 DEF FoundInv, LoadedAsStored
  <2>7. OwedOrFound'
    BY <1>4, <2>1, <2>2, <2>3 DEF FoundInv, OwedOrFound
  <2> QED
    BY <1>3, <2>4, <2>5, <2>6, <2>7 DEF FoundInv
<1>8. CASE SoftDelete(d)
  <2>1. /\ deletes'[d] # 0 /\ lifecycle'[d] = "deleted"
        /\ \A c \in Docs : c # d => deletes'[c] = deletes[c] /\ lifecycle'[c] = lifecycle[c]
        /\ UNCHANGED <<completed, writes, disturbed>>
    BY <1>0, <1>8 DEF SoftDelete
  <2>2. \A e \in outbox' : e \in outbox \/ e.doc = d
    BY <1>8, EventFields DEF SoftDelete
  <2>3. \A c \in Docs : Kept(c)' => Kept(c) /\ c # d
    BY <2>1 DEF Kept
  <2>4. EventsOfCompleted'
    BY <1>1, <2>1, <2>2, <2>3 DEF FoundInv, EventsOfCompleted
  <2>5. CompletedAnnounced'
    BY <1>2, <2>1 DEF FoundInv, CompletedAnnounced, Announced, Event
  <2>6. LoadedAsStored'
    BY <1>0, <1>1, <1>2, <2>1, <2>3 DEF FoundInv, LoadedAsStored
  <2>7. OwedOrFound'
    BY <1>4, <2>1, <2>3 DEF FoundInv, OwedOrFound
  <2> QED
    BY <1>3, <2>4, <2>5, <2>6, <2>7 DEF FoundInv
<1>9. CASE Restore(d) \/ Purge(d)
  <2>1. UNCHANGED <<deletes, disturbed>> /\ deletes[d] # 0
    BY <1>9 DEF Restore, Purge, FoundInv, EventsOfCompleted
  <2>2. \A c \in Docs : c # d => /\ completed'[c] = completed[c] /\ lifecycle'[c] = lifecycle[c]
                                 /\ writes'[c] = writes[c]
    BY <1>0, <1>9 DEF Restore, Purge
  <2>3. \A e \in outbox' : e \in outbox \/ e.doc = d
    BY <1>9, EventFields DEF Restore, Purge
  <2>4. \A c \in Docs : Kept(c)' => Kept(c) /\ c # d
    BY <2>1 DEF Kept
  <2>5. EventsOfCompleted'
    BY <1>1, <2>1, <2>2, <2>3, <2>4 DEF FoundInv, EventsOfCompleted
  <2>6. CompletedAnnounced'
    <3>1. completed'[d] \subseteq completed[d]
      BY <1>0, <1>9 DEF Restore, Purge
    <3> QED
      BY <1>2, <2>2, <3>1 DEF FoundInv, CompletedAnnounced, Announced, Event
  <2>7. LoadedAsStored'
    BY <1>0, <1>1, <1>2, <2>2, <2>4 DEF FoundInv, LoadedAsStored
  <2>8. OwedOrFound'
    BY <1>4, <2>2, <2>4 DEF FoundInv, OwedOrFound
  <2> QED
    BY <1>3, <2>5, <2>6, <2>7, <2>8 DEF FoundInv
<1> QED
  BY <1>5, <1>6, <1>7, <1>8, <1>9 DEF DocumentStep

\* A projection ends without completing, or moves on and has not written yet, or
\* has written before.
LEMMA ProjectionStillOwes ==
    ASSUME TypeInv, NEW p \in inflight, NEW d \in Docs,
           UNCHANGED <<outbox, active>>, Owed(d),
           \/ inflight' = inflight \ {p} /\ done' = done
           \/ p.pc \in {"written", "released"} /\ inflight' = inflight \ {p}
              /\ done' = done \cup {p.event}
           \/ /\ done' = done
              /\ \E pc \in {"loaded", "cleared", "written", "released"} :
                    /\ Step(p, pc)
                    /\ \/ pc \notin {"written", "released"}
                       \/ p.pc \in {"written", "released"}
                       \/ p.event.target \notin {NoIndex, active}
    PROVE  Owed(d)'
<1>1. PICK e \in outbox \ done : Owes(d, e)
  BY DEF Owed
<1>2. e \notin done'
  BY <1>1 DEF Owes
<1>3. CASE inflight' \subseteq inflight
  BY <1>1, <1>2, <1>3 DEF Owed, Owes
<1>4. ASSUME NEW pc \in {"loaded", "cleared", "written", "released"}, Step(p, pc),
             \/ pc \notin {"written", "released"}
             \/ p.pc \in {"written", "released"}
             \/ p.event.target \notin {NoIndex, active}
      PROVE  Owed(d)'
  <2>1. PICK q : q = [p EXCEPT !.pc = pc]
    OBVIOUS
  <2>2. q.event = p.event /\ q.pc = pc
    BY <2>1 DEF TypeInv, TypeOK, Projections
  <2>3. inflight' = (inflight \ {p}) \cup {q}
    BY <1>4, <2>1 DEF Step
  <2>4. p.event = e => pc \notin {"written", "released"}
    BY <1>1, <1>4 DEF Owes
  <2>5. Owes(d, e)'
    BY <1>1, <2>2, <2>3, <2>4 DEF Owes
  <2> QED
    BY <1>1, <1>2, <2>5 DEF Owed
<1> QED
  BY <1>3, <1>4

LEMMA ProjectionKeepsFound ==
    ASSUME TypeInv, FoundInv, NEW p \in inflight,
           ProjectionStep(p) \/ RequestFails(p) \/ ProjectionLost(p)
    PROVE  FoundInv'
<1>1. UNCHANGED <<docVars, outbox, active, rebuild>>
  BY DEF ProjectionStep, RequestFails, ProjectionLost, LoadRows, LoadRefused, ClearDocument,
     WriteRows, ReleaseLock, CommitProjection, eventVars
<1>2. EventsOfCompleted' /\ ResetsAside'
  BY <1>1 DEF FoundInv, EventsOfCompleted, ResetsAside, Kept, docVars
<1>3. /\ content \in [Indices -> SUBSET AllRows] /\ active \in Indices
      /\ p.event \in outbox \ done /\ p \in Projections
      /\ \A q \in inflight : q.event = p.event => q = p
  BY DEF TypeInv, TypeOK
<1>4. p.event.doc \in Docs
  BY <1>3 DEF Projections, Events
<1>5. p.event.target \notin {NoIndex, active} => TargetOf(p) # active
  BY DEF TargetOf
<1>17. CompletedAnnounced'
  BY <1>1 DEF FoundInv, CompletedAnnounced, Announced, Event, docVars
<1>18. LoadedAsStored'
  <2> SUFFICES ASSUME NEW q \in inflight', Kept(q.event.doc), q.pc \in {"loaded", "cleared"}
               PROVE  q.g = writes[q.event.doc][q.event.version]
    BY <1>1 DEF LoadedAsStored, Kept, docVars
  <2>1. CASE q \in inflight
    BY <2>1 DEF FoundInv, LoadedAsStored
  <2>2. CASE q \notin inflight
    <3>1. CASE LoadRows(p)
      BY <1>3, <2>2, <3>1 DEF LoadRows, Projections
    <3>2. CASE ClearDocument(p)
      <4>1. q.event = p.event /\ q.g = p.g /\ p.pc = "loaded"
        BY <1>3, <2>2, <3>2 DEF ClearDocument, Step, Projections
      <4> QED
        BY <4>1 DEF FoundInv, LoadedAsStored
    <3>3. CASE WriteRows(p) \/ ReleaseLock(p)
      BY <1>3, <2>2, <3>3 DEF WriteRows, ReleaseLock, Step, Projections
    <3> QED
      BY <2>2, <3>1, <3>2, <3>3 DEF ProjectionStep, LoadRefused, CommitProjection, RequestFails,
         ProjectionLost
  <2> QED
    BY <2>1, <2>2
<1>6. SUFFICES ASSUME NEW d \in Docs, Kept(d), completed[d] # {}
               PROVE  Owed(d)' \/ Found(d)'
  BY <1>1, <1>2, <1>17, <1>18 DEF FoundInv, OwedOrFound, Kept, docVars
<1>7. Owed(d) \/ Found(d)
  BY <1>6 DEF FoundInv, OwedOrFound
<1>8. p.event.doc = d => p.event.kind = "upsert" /\ p.event.version \in completed[d]
  BY <1>3, <1>6 DEF FoundInv, EventsOfCompleted
<1>9. ASSUME Of(d, content[active]) \subseteq content'[active], Owed(d) => Owed(d)' \/ Found(d)'
      PROVE  Owed(d)' \/ Found(d)'
  BY <1>1, <1>7, <1>9, StillOwedOrFound DEF docVars
<1>10. ASSUME inflight' = inflight \ {p}, done' = done,
              p.event.doc = d, p.event.target \in {NoIndex, active}
       PROVE  Owed(d)'
  BY <1>1, <1>3, <1>10 DEF Owed, Owes
<1>11. CASE LoadRows(p) \/ ReleaseLock(p)
  <2>1. content' = content /\ done' = done
    BY <1>11 DEF LoadRows, ReleaseLock, eventVars
  <2>2. Owed(d) => Owed(d)'
    <3>1. CASE LoadRows(p)
      <4>1. PICK q : q = [p EXCEPT !.pc = "loaded", !.g = writes[p.event.doc][p.event.version]]
        OBVIOUS
      <4>2. q.event = p.event /\ q.pc = "loaded"
        BY <1>3, <4>1 DEF Projections
      <4>3. inflight' = (inflight \ {p}) \cup {q}
        BY <3>1, <4>1 DEF LoadRows
      <4>4. \A e : Owes(d, e) => Owes(d, e)'
        BY <1>1, <4>2, <4>3 DEF Owes
      <4> QED
        BY <1>1, <2>1, <4>4 DEF Owed
    <3>2. CASE ReleaseLock(p)
      BY <1>1, <2>1, <3>2, ProjectionStillOwes DEF ReleaseLock
    <3> QED
      BY <1>11, <3>1, <3>2
  <2> QED
    BY <1>9, <2>1, <2>2 DEF Of
<1>12. CASE LoadRefused(p) \/ ProjectionLost(p)
  <2>1. content' = content /\ done' = done /\ inflight' = inflight \ {p}
    BY <1>12 DEF LoadRefused, ProjectionLost, eventVars
  <2>2. Owed(d) => Owed(d)'
    BY <1>1, <2>1, ProjectionStillOwes
  <2> QED
    BY <1>9, <2>1, <2>2 DEF Of
<1>13. CASE CommitProjection(p)
  <2>1. content' = content /\ (Owed(d) => Owed(d)')
    BY <1>1, <1>13, ProjectionStillOwes DEF CommitProjection
  <2> QED
    BY <1>9, <2>1 DEF Of
<1>14. CASE ClearDocument(p)
  <2>1. done' = done /\ content' = [content EXCEPT ![TargetOf(p)] = @ \ Of(p.event.doc, @)]
    BY <1>14 DEF ClearDocument, eventVars
  <2>2. CASE p.event.doc = d /\ p.event.target \in {NoIndex, active}
    <3>1. PICK q : q = [p EXCEPT !.pc = "cleared"]
      OBVIOUS
    <3>2. q.event = p.event /\ q.pc = "cleared"
      BY <1>3, <3>1 DEF Projections
    <3>3. inflight' = (inflight \ {p}) \cup {q}
      BY <1>8, <1>14, <2>2, <3>1 DEF ClearDocument, Step
    <3>4. Owes(d, p.event)'
      BY <1>1, <1>3, <2>2, <3>2, <3>3 DEF Owes
    <3> QED
      BY <1>1, <1>3, <2>1, <3>4 DEF Owed
  <2>3. CASE p.event.doc # d
    <3>1. Of(d, content[active]) \subseteq content'[active]
      BY <1>3, <2>1, <2>3 DEF Of
    <3>2. Owed(d) => Owed(d)'
      <4>1. ASSUME Owed(d) PROVE Owed(d)'
        <5>1. PICK e \in outbox \ done : Owes(d, e)
          BY <4>1 DEF Owed
        <5>2. \A pc : [p EXCEPT !.pc = pc].event = p.event
          BY <1>3 DEF Projections
        <5>3. Owes(d, e)'
          BY <1>1, <1>14, <2>3, <5>1, <5>2 DEF Owes, ClearDocument, Step
        <5> QED
          BY <1>1, <2>1, <5>1, <5>3 DEF Owed
      <4> QED
        BY <4>1
    <3> QED
      BY <1>9, <3>1, <3>2
  <2>4. CASE p.event.target \notin {NoIndex, active}
    <3>1. Of(d, content[active]) \subseteq content'[active]
      BY <1>3, <1>5, <2>1, <2>4 DEF Of
    <3>2. Owed(d) => Owed(d)'
      BY <1>1, <1>14, <2>1, <2>4, ProjectionStillOwes DEF ClearDocument
    <3> QED
      BY <1>9, <3>1, <3>2
  <2> QED
    BY <2>2, <2>3, <2>4
<1>15. CASE WriteRows(p)
  <2>1. /\ done' = done /\ Step(p, "written")
        /\ content' = [content EXCEPT ![TargetOf(p)] = @ \cup Rows(p.event.doc, p.event.version, p.g)]
    BY <1>15 DEF WriteRows, eventVars
  <2>2. Of(d, content[active]) \subseteq content'[active]
    BY <1>3, <2>1 DEF Of
  <2>3. CASE p.event.doc = d /\ p.event.target \in {NoIndex, active}
    <3>1. Rows(d, p.event.version, p.g) \subseteq content'[active]
      BY <1>3, <2>1, <2>3 DEF TargetOf
    <3>2. p.g = writes[d][p.event.version]
      BY <1>6, <1>15, <2>3 DEF WriteRows, FoundInv, LoadedAsStored
    <3> QED
      BY <1>1, <1>8, <2>3, <3>1, <3>2 DEF Found, docVars
  <2>4. CASE p.event.doc # d \/ p.event.target \notin {NoIndex, active}
    <3>1. ASSUME Owed(d) PROVE Owed(d)'
      <4>1. PICK e \in outbox \ done : Owes(d, e)
        BY <3>1 DEF Owed
      <4>2. [p EXCEPT !.pc = "written"].event = p.event
        BY <1>3 DEF Projections
      <4>3. Owes(d, e)'
        BY <1>1, <2>1, <2>4, <4>1, <4>2 DEF Owes, Step
      <4> QED
        BY <1>1, <2>1, <4>1, <4>3 DEF Owed
    <3> QED
      BY <1>9, <2>2, <3>1
  <2> QED
    BY <2>3, <2>4
<1>16. CASE RequestFails(p)
  <2>1. done' = done /\ inflight' = inflight \ {p}
    BY <1>16 DEF RequestFails, eventVars
  <2>2. Owed(d) => Owed(d)'
    BY <1>1, <2>1, ProjectionStillOwes
  <2>3. CASE p.event.doc = d /\ p.event.target \in {NoIndex, active}
    BY <1>10, <2>1, <2>3
  <2>4. CASE p.event.doc # d \/ p.event.target \notin {NoIndex, active}
    <3>1. Of(d, content[active]) \subseteq content'[active]
      <4>1. ASSUME NEW gone \in {{}, Of(p.event.doc, content[TargetOf(p)])},
                   content' = [content EXCEPT ![TargetOf(p)] = @ \ gone]
            PROVE  Of(d, content[active]) \subseteq content'[active]
        BY <1>3, <1>5, <2>4, <4>1 DEF Of
      <4>2. ASSUME NEW part,
                   content' = [content EXCEPT ![TargetOf(p)] =
                                 @ \cup ({p.event.doc} \X {p.event.version} \X {p.g} \X part)]
            PROVE  Of(d, content[active]) \subseteq content'[active]
        BY <1>3, <4>2 DEF Of
      <4> QED
        BY <1>16, <4>1, <4>2 DEF RequestFails
    <3> QED
      BY <1>9, <2>2, <3>1
  <2> QED
    BY <2>3, <2>4
<1> QED
  BY <1>11, <1>12, <1>13, <1>14, <1>15, <1>16 DEF ProjectionStep

LEMMA RebuildKeepsFound ==
    ASSUME TypeInv, CutoverInv, FoundInv, NEW k \in Rebuilds, RebuildStep(k)
    PROVE  FoundInv'
<1>0. /\ rebuild \in [Rebuilds -> RebuildStates] /\ active \in Indices
      /\ content \in [Indices -> SUBSET AllRows]
  BY DEF TypeInv, TypeOK
<1>1. UNCHANGED <<docVars, done, inflight>> /\ outbox \subseteq outbox'
  BY DEF RebuildStep, ResetTarget, EnqueueBackfill, AllApplied, WaitAborts, LockCutover,
     Validate, Promote, eventVars
<1>2. InProgress(k) /\ \A j \in Rebuilds : j # k => ~InProgress(j)
  BY DEF RebuildStep, ResetTarget, EnqueueBackfill, AllApplied, WaitAborts, LockCutover,
     Validate, Promote, InProgress, CutoverInv, OneInProgress
<1>3. ResetsAside'
  <2>1. \A j \in Rebuilds : j # k => rebuild'[j] = rebuild[j]
    BY <1>0, SetRebuildEffect DEF RebuildStep, ResetTarget, EnqueueBackfill, AllApplied,
       WaitAborts, LockCutover, Validate, Promote
  <2>2. rebuild'[k].pc # "checked"
    <3>1. CASE EnqueueBackfill(k)
      <4>1. rebuild[k] \in RebuildStates
        BY <1>0
      <4> QED
        BY <1>0, <3>1, <4>1 DEF EnqueueBackfill, RebuildStates
    <3>2. CASE ~EnqueueBackfill(k)
      <4>1. \E pc : pc # "checked" /\ SetRebuild(k, pc)
        BY <3>2 DEF RebuildStep, ResetTarget, AllApplied, WaitAborts, LockCutover, Validate,
           Promote
      <4> QED
        BY <1>0, <4>1, SetRebuildEffect
    <3> QED
      BY <3>1, <3>2
  <2>3. \A j \in Rebuilds : j # k => rebuild'[j].pc # "checked"
    BY <1>2, <2>1 DEF InProgress
  <2> QED
    BY <2>2, <2>3 DEF ResetsAside
<1>4. EventsOfCompleted'
  <2>1. \A e \in outbox' \ outbox : e.kind = "upsert" /\ e.version \in completed[e.doc]
    BY BackfillFields DEF RebuildStep, ResetTarget, EnqueueBackfill, AllApplied, WaitAborts,
       LockCutover, Validate, Promote, eventVars, TypeInv
  <2> QED
    BY <1>1, <2>1 DEF FoundInv, EventsOfCompleted, Kept, docVars
<1>17. CompletedAnnounced' /\ LoadedAsStored'
  BY <1>1 DEF FoundInv, CompletedAnnounced, Announced, Event, LoadedAsStored, Kept, docVars
<1>5. CASE active' = active
  <2>1. content'[active] = content[active]
    BY <1>0, <1>5 DEF FoundInv, ResetsAside, RebuildStep, ResetTarget, EnqueueBackfill,
       AllApplied, WaitAborts, LockCutover, Validate, Promote
  <2>2. \A d \in Docs : Owed(d) \/ Found(d) => Owed(d)' \/ Found(d)'
    BY <1>1, <1>5, <2>1, MoreEvents DEF Found, docVars
  <2> QED
    BY <1>1, <1>3, <1>4, <1>17, <2>2 DEF FoundInv, OwedOrFound, Kept, docVars
<1>6. CASE active' # active
  <2>1. rebuild[k].pc = "validated" /\ active' = rebuild[k].target /\ content' = content
    BY <1>6 DEF RebuildStep, ResetTarget, EnqueueBackfill, AllApplied, WaitAborts,
       LockCutover, Validate, Promote
  <2>2. content'[active'] = Expected
    BY <2>1 DEF CutoverInv, ValidatedIsExact
  <2>3. ASSUME NEW d \in Docs, Kept(d), completed[d] # {}
        PROVE  Found(d)'
    <3>1. lifecycle[d] = "live"
      BY <2>3 DEF FoundInv, EventsOfCompleted, Kept
    <3>2. Rows(d, Latest(d), writes[d][Latest(d)]) \subseteq Expected
      BY <2>3, <3>1 DEF Expected
    <3>3. Latest(d) \in completed[d]
      BY <2>3, LatestTyped DEF TypeInv
    <3> QED
      BY <1>1, <2>2, <3>2, <3>3 DEF Found, docVars
  <2> QED
    BY <1>1, <1>3, <1>4, <1>17, <2>3 DEF FoundInv, OwedOrFound, Kept, docVars
<1> QED
  BY <1>5, <1>6

\* Steps that start a backfill or claim an event.
LEMMA StartsKeepFound ==
    ASSUME TypeInv, CutoverInv, FoundInv, OneRebuildAtATime,
           \/ \E e \in outbox : ClaimEvent(e)
           \/ \E k \in Rebuilds, docs \in SUBSET Docs : ScopedBackfill(k, docs)
           \/ \E k \in Rebuilds, i \in Indices : CheckTarget(k, i)
    PROVE  FoundInv'
<1>0. rebuild \in [Rebuilds -> RebuildStates] /\ outbox \subseteq Events
  BY DEF TypeInv, TypeOK
<1>1. UNCHANGED <<docVars, done, content, active>> /\ outbox \subseteq outbox'
  BY DEF ClaimEvent, ScopedBackfill, CheckTarget, eventVars
<1>2. EventsOfCompleted'
  <2>1. \A e \in outbox' \ outbox : e.kind = "upsert" /\ e.version \in completed[e.doc]
    BY BackfillFields DEF ClaimEvent, ScopedBackfill, CheckTarget, eventVars, TypeInv
  <2> QED
    BY <1>1, <2>1 DEF FoundInv, EventsOfCompleted, Kept, docVars
<1>3. ResetsAside'
  <2>1. CASE \E e \in outbox : ClaimEvent(e)
    BY <1>1, <2>1 DEF ClaimEvent, FoundInv, ResetsAside
  <2>2. ASSUME NEW k \in Rebuilds, NEW docs \in SUBSET Docs, ScopedBackfill(k, docs)
        PROVE  ResetsAside'
    <3>1. /\ rebuild'[k].pc = "scoped"
          /\ \A j \in Rebuilds : j # k => rebuild'[j] = rebuild[j]
      BY <1>0, <2>2, SetRebuildEffect DEF ScopedBackfill
    <3> QED
      BY <1>1, <3>1 DEF FoundInv, ResetsAside
  <2>3. ASSUME NEW k \in Rebuilds, NEW i \in Indices, CheckTarget(k, i)
        PROVE  ResetsAside'
    <3>1. /\ rebuild'[k].target # active
          /\ \A j \in Rebuilds : j # k => rebuild'[j] = rebuild[j]
      BY <1>0, <2>3 DEF CheckTarget
    <3> QED
      BY <1>1, <3>1 DEF FoundInv, ResetsAside
  <2> QED
    BY <2>1, <2>2, <2>3
<1>4. \A p \in inflight' \ inflight : p.pc = "claimed"
  BY DEF ClaimEvent, ScopedBackfill, CheckTarget
<1>5. \A d \in Docs : Owed(d) => Owed(d)'
  BY <1>1, <1>4 DEF Owed, Owes
<1>6. CompletedAnnounced' /\ LoadedAsStored'
  BY <1>1, <1>4 DEF FoundInv, CompletedAnnounced, Announced, Event, LoadedAsStored, Kept, docVars
<1> QED
  BY <1>1, <1>2, <1>3, <1>5, <1>6 DEF FoundInv, OwedOrFound, Found, Kept, docVars

\* Once the events of a document are completed that was never deleted, and whose
\* versions were neither withdrawn nor rewritten after they were announced, the
\* active index has all chunks of one of its completed versions, for any documents,
\* versions, indices and successive rebuilds, whatever failed or was lost in between.
THEOREM DocumentsAreFound ==
    ASSUME OneRebuildAtATime
    PROVE  Spec => []SettledDocumentsAreFound
<1>1. Init => FoundInv
  BY DEF Init, FoundInv, EventsOfCompleted, CompletedAnnounced, LoadedAsStored, ResetsAside,
     OwedOrFound, IdleRebuild
<1>2. TypeInv /\ CutoverInv /\ FoundInv /\ [Next]_vars => FoundInv'
  <2> SUFFICES ASSUME TypeInv, CutoverInv, FoundInv, [Next]_vars
               PROVE  FoundInv'
    OBVIOUS
  <2>1. CASE UNCHANGED vars
    BY <2>1 DEF vars, docVars, eventVars, FoundInv, EventsOfCompleted, CompletedAnnounced,
       Announced, Event, LoadedAsStored, ResetsAside, OwedOrFound, Owed, Owes, Found, Kept
  <2> QED
    BY <2>1, DocumentKeepsFound, ProjectionKeepsFound, RebuildKeepsFound, StartsKeepFound
       DEF Next
<1>3. FoundInv => SettledDocumentsAreFound
  BY DEF FoundInv, OwedOrFound, Owed, Owes, Found, SettledDocumentsAreFound, Settled, Kept
<1> QED
  BY <1>1, <1>2, <1>3, TypeInvariant, CutoverInvariant, PTL DEF Spec
=============================================================================
