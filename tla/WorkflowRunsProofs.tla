------------------------- MODULE WorkflowRunsProofs -------------------------
(***************************************************************************)
(* What the rows of a run, its version and its document say together, and  *)
(* that whatever is shown as in progress is being worked on, for any number *)
(* of runs, attempts and faults.  Every action is one lemma.               *)
(***************************************************************************)
EXTENDS WorkflowRuns, BoundedMaximum, TLAPS

(***************************************************************************)
(* The inductive invariant                                                 *)
(***************************************************************************)

\* Where a request is while its run has not been inserted
Before == {"idle", "checked", "reset", "read"}
\* A completion was reported as failed, and a failure could not be recorded.
Both == {"lost_commit", "unrecorded"} \subseteq hit

\* A request's place and its rows: there is no run before the insert, no workflow and
\* no attempt before the start, and nobody cancels a queued run before its request has
\* written "queued".
Lifecycle ==
    \A r \in Runs :
        /\ requests[r].pc \in Before => runs[r].status = "none"
        /\ runs[r].status = "none" =>
              /\ requests[r].pc \in Before \cup {"done"}
              /\ attempts[r].pc = "none" /\ workflows[r] = "none"
              /\ cancels[r] = "idle" /\ versions[r].status = "none"
        /\ requests[r].pc = "created" =>
              /\ attempts[r].pc = "none" /\ versions[r].status # "completed"
        /\ requests[r].pc # "done" => ~runs[r].attached /\ cancels[r] \notin {"active", "confirmed"}

\* An attempt's place, its run, its chunks and its version
Attempting ==
    \A r \in Runs :
        /\ attempts[r].pc \in {"running", "chunked", "embedded"} => runs[r].status # "completed"
        /\ attempts[r].pc = "embedded" => chunks[r] = "embedded"
        /\ attempts[r].pc = "committed" => "lost_commit" \in hit
        /\ attempts[r].pc \in {"scheduled", "running", "chunked", "embedded"} =>
              versions[r].status # "completed" \/ Both

\* Between the start of the workflow and "queued" the worker has not begun, unless the
\* API was slow.
Starting ==
    \A r \in Runs : requests[r].pc = "started" /\ "slow_api" \notin hit =>
        /\ versions[r].status # "completed"
        /\ attempts[r].pc \in {"scheduled", "none"}
        /\ attempts[r].pc = "none" => "worker_crash" \in hit \/ "unrecorded" \in hit

\* A document deleted under a retry has left its mark.
Deleted ==
    \A r \in Runs : document.deleted /\ requests[r].pc \in {"checked", "reset", "read"} =>
        "deleted_in_retry" \in hit

\* The version numbers have a bound; Max exists.
Bounded == \E b \in Nat : \A r \in Runs : versions[r].number <= b

\* The invariant of all steps
RInv == /\ TypeOK /\ Lifecycle /\ Attempting /\ Starting /\ Bounded
        /\ RunsAgreeWithVersions /\ SearchableVersionsAreWhole

(***************************************************************************)
(* Lemmas about the rows                                                   *)
(***************************************************************************)

\* The newest version's number is a number, and none is larger.
LEMMA LatestIsNat ==
    ASSUME TypeOK, Bounded
    PROVE  Latest \in Nat /\ \A r \in Runs : versions[r].number <= Latest
<1> DEFINE S == {versions[r].number : r \in Runs}
<1>1. PICK b \in Nat : \A r \in Runs : versions[r].number <= b
  BY DEF Bounded
<1>2. S \subseteq Nat /\ S # {} /\ \A x \in S : x <= b
  BY <1>1, RunConstants DEF TypeOK, VersionRows
<1>3. Max(S) \in S /\ \A x \in S : x <= Max(S)
  BY <1>1, <1>2, MaxOfBounded
<1>4. Latest = Max(S)
  BY DEF Latest
<1> QED
  BY <1>2, <1>3, <1>4

\* Setting one field of one row keeps the type of the table.
LEMMA StatusTyped ==
    ASSUME TypeOK, NEW r \in Runs, NEW s \in RunStatuses
    PROVE  [runs EXCEPT ![r].status = s] \in [Runs -> RunRows]
<1>1. runs[r] \in RunRows /\ runs \in [Runs -> RunRows]
  BY DEF TypeOK
<1>2. [runs[r] EXCEPT !.status = s] \in RunRows
  BY <1>1 DEF RunRows
<1> QED
  BY <1>1, <1>2

\* So does moving a request on.
LEMMA RequestPcTyped ==
    ASSUME TypeOK, NEW r \in Runs,
           NEW pc \in {"idle", "checked", "reset", "read", "created", "started", "raised", "done"}
    PROVE  [requests EXCEPT ![r].pc = pc] \in [Runs -> RequestStates]
<1>1. requests[r] \in RequestStates /\ requests \in [Runs -> RequestStates]
  BY DEF TypeOK
<1>2. [requests[r] EXCEPT !.pc = pc] \in RequestStates
  BY <1>1 DEF RequestStates
<1> QED
  BY <1>1, <1>2

\* What Temporal does with a failed attempt keeps the type of the attempts.
LEMMA AfterFailureTyped ==
    ASSUME TypeOK, NEW r \in Runs, AfterFailure(r)
    PROVE  attempts' \in [Runs -> AttemptStates]
<1>1. attempts[r] \in AttemptStates /\ attempts \in [Runs -> AttemptStates]
  BY DEF TypeOK
<1>2. [attempts[r] EXCEPT !.pc = "none"] \in AttemptStates
  BY <1>1 DEF AttemptStates
<1>3. CASE attempts' = [attempts EXCEPT ![r].pc = "none"]
  BY <1>1, <1>2, <1>3
<1>4. CASE /\ attempts[r].number < MaxAttempts
           /\ attempts' = [attempts EXCEPT ![r] = [pc |-> "scheduled", number |-> @.number + 1]]
  <2>1. [pc |-> "scheduled", number |-> attempts[r].number + 1] \in AttemptStates
    BY <1>1, <1>4, RunConstants DEF AttemptStates
  <2> QED
    BY <1>1, <1>4, <2>1
<1> QED
  BY <1>3, <1>4 DEF AfterFailure

(***************************************************************************)
(* Every step keeps the invariant                                          *)
(***************************************************************************)

LEMMA StepReindex ==
    ASSUME RInv, NEW r \in Runs, Reindex(r)
    PROVE  RInv'
<1>1. TypeOK'
  <2>1. document' \in [status : {"pending", "running", "completed", "failed"}, deleted : BOOLEAN]
    BY DEF Reindex, RInv, TypeOK
  <2>2. versions' \in [Runs -> VersionRows]
    BY LatestIsNat DEF Reindex, Insert, RInv, TypeOK, VersionRows
  <2>3. runs' \in [Runs -> RunRows]
    BY DEF Reindex, Insert, RInv, TypeOK, RunRows, RunStatuses, Active
  <2>4. requests' \in [Runs -> RequestStates]
    BY RequestPcTyped DEF Reindex, Insert, RInv
  <2>5. \A q \in Runs : (runs[q].status = "none" <=> versions[q].number = 0)'
    BY LatestIsNat DEF Reindex, Insert, RInv, TypeOK
  <2>6. \A q \in Runs : (workflows[q] = "ingest" => attempts[q].pc # "none")'
    BY DEF Reindex, Insert, RInv, TypeOK
  <2> QED
    BY <2>1, <2>2, <2>3, <2>4, <2>5, <2>6 DEF Reindex, Insert, RInv, TypeOK
<1>2. Lifecycle' /\ Attempting' /\ Starting'
  BY DEF Reindex, Insert, Unused, RInv, TypeOK, Lifecycle, Before, Attempting, Both, Starting
<1>3. RunsAgreeWithVersions' /\ SearchableVersionsAreWhole'
  BY DEF Reindex, Insert, RInv, TypeOK, RunsAgreeWithVersions, SearchableVersionsAreWhole
<1>4. Bounded'
  <2>1. PICK n \in Nat : n = Latest /\ \A q \in Runs : versions[q].number <= n
    BY LatestIsNat DEF RInv
  <2>2. versions' = [versions EXCEPT ![r] = [status |-> "pending", number |-> n + 1]]
    BY <2>1 DEF Reindex, Insert
  <2>3. \A q \in Runs : versions'[q].number <= n + 1
    BY <2>1, <2>2 DEF RInv, TypeOK, VersionRows
  <2> QED
    BY <2>1, <2>3 DEF Bounded
<1> QED
  BY <1>1, <1>2, <1>3, <1>4 DEF RInv

LEMMA StepCheckRetry ==
    ASSUME RInv, NEW r \in Runs, NEW p \in Runs, CheckRetry(r, p)
    PROVE  RInv'
<1>1. TypeOK'
  <2>1. requests' \in [Runs -> RequestStates]
    <3>1. requests[r] \in RequestStates /\ requests \in [Runs -> RequestStates]
      BY DEF RInv, TypeOK
    <3>2. [requests[r] EXCEPT !.pc = "checked", !.parent = p] \in RequestStates
      BY <3>1 DEF RequestStates
    <3>3. requests' = [requests EXCEPT ![r] = [requests[r] EXCEPT !.pc = "checked", !.parent = p]]
      BY <3>1 DEF CheckRetry
    <3> QED
      BY <3>1, <3>2, <3>3
  <2>2. \A q \in Runs : (runs[q].status = "none" <=> versions[q].number = 0)'
    BY DEF CheckRetry, rowVars, RInv, TypeOK
  <2>3. \A q \in Runs : (workflows[q] = "ingest" => attempts[q].pc # "none")'
    BY DEF CheckRetry, RInv, TypeOK
  <2> QED
    BY <2>1, <2>2, <2>3 DEF CheckRetry, rowVars, RInv, TypeOK
<1>2. Lifecycle' /\ Attempting' /\ Starting'
  <2>1. Lifecycle'
    BY DEF CheckRetry, Unused, RInv, rowVars, TypeOK, Lifecycle, Before
  <2>2. Attempting'
    BY DEF CheckRetry, Unused, RInv, rowVars, TypeOK, Attempting, Both
  <2>3. Starting'
    BY DEF CheckRetry, Unused, RInv, rowVars, TypeOK, Starting
  <2> QED
    BY <2>1, <2>2, <2>3
<1>3. RunsAgreeWithVersions' /\ SearchableVersionsAreWhole'
  BY DEF CheckRetry, RInv, rowVars, RunsAgreeWithVersions, SearchableVersionsAreWhole
<1>4. Bounded'
  BY DEF CheckRetry, rowVars, RInv, Bounded
<1> QED
  BY <1>1, <1>2, <1>3, <1>4 DEF RInv

LEMMA StepResetDocument ==
    ASSUME RInv, NEW r \in Runs, ResetDocument(r)
    PROVE  RInv'
<1>1. TypeOK'
  <2>1. document' \in [status : {"pending", "running", "completed", "failed"}, deleted : BOOLEAN]
    BY DEF ResetDocument, RInv, TypeOK
  <2>2. requests' \in [Runs -> RequestStates]
    <3>1. CASE document.deleted
      BY <3>1, RequestPcTyped, ZenonT(30) DEF ResetDocument, RInv
    <3>2. CASE ~document.deleted
      BY <3>2, RequestPcTyped, ZenonT(30) DEF ResetDocument, RInv
    <3> QED
      BY <3>1, <3>2
  <2>3. \A q \in Runs : (runs[q].status = "none" <=> versions[q].number = 0)'
    BY DEF ResetDocument, RInv, TypeOK
  <2>4. \A q \in Runs : (workflows[q] = "ingest" => attempts[q].pc # "none")'
    BY DEF ResetDocument, RInv, TypeOK
  <2> QED
    BY <2>1, <2>2, <2>3, <2>4 DEF ResetDocument, RInv, TypeOK
<1>2. /\ requests[r].pc \in Before /\ requests'[r].pc \in Before \cup {"done"}
      /\ \A q \in Runs \ {r} : requests'[q] = requests[q]
  <2>1. CASE document.deleted
    BY <2>1 DEF ResetDocument, RInv, TypeOK, RequestStates, Before
  <2>2. CASE ~document.deleted
    BY <2>2 DEF ResetDocument, RInv, TypeOK, RequestStates, Before
  <2> QED
    BY <2>1, <2>2
<1>3. UNCHANGED <<runs, versions, chunks, announced, cancels, workflows, attempts, hit>>
  BY DEF ResetDocument
<1>4. Lifecycle' /\ Attempting' /\ Starting' /\ RunsAgreeWithVersions' /\ SearchableVersionsAreWhole'
  BY <1>2, <1>3
     DEF RInv, Before, Both, Lifecycle, Attempting, Starting, RunsAgreeWithVersions,
     SearchableVersionsAreWhole
<1>5. Bounded'
  BY DEF ResetDocument, RInv, Bounded
<1> QED
  BY <1>1, <1>4, <1>5 DEF RInv

LEMMA StepReadLatest ==
    ASSUME RInv, NEW r \in Runs, ReadLatest(r)
    PROVE  RInv'
<1>1. TypeOK'
  <2>1. requests' \in [Runs -> RequestStates]
    <3>1. CASE document.deleted
      BY <3>1, RequestPcTyped DEF ReadLatest, RInv
    <3>2. CASE ~document.deleted
      <4>1. PICK n \in Nat : n = Latest
        BY LatestIsNat DEF RInv
      <4>2. requests[r] \in RequestStates /\ requests \in [Runs -> RequestStates]
        BY DEF RInv, TypeOK
      <4> DEFINE read == [requests[r] EXCEPT !.pc = "read", !.latest = n,
                                             !.pending = (document.status = "pending")]
      <4>3. read \in RequestStates
        BY <4>2 DEF RequestStates
      <4>4. requests' = [requests EXCEPT ![r] = read]
        BY <3>2, <4>1, <4>2 DEF ReadLatest
      <4> QED
        BY <4>2, <4>3, <4>4
    <3> QED
      BY <3>1, <3>2
  <2>2. \A q \in Runs : (runs[q].status = "none" <=> versions[q].number = 0)'
    BY LatestIsNat DEF ReadLatest, rowVars, RInv, TypeOK
  <2>3. \A q \in Runs : (workflows[q] = "ingest" => attempts[q].pc # "none")'
    BY DEF ReadLatest, RInv, TypeOK
  <2> QED
    BY <2>1, <2>2, <2>3 DEF ReadLatest, rowVars, RInv, TypeOK
<1>2. /\ requests[r].pc \in Before /\ requests'[r].pc \in Before \cup {"done"}
      /\ \A q \in Runs \ {r} : requests'[q] = requests[q]
  <2>1. CASE document.deleted
    BY <2>1 DEF ReadLatest, RInv, Before
  <2>2. CASE ~document.deleted
    BY <2>2 DEF ReadLatest, RInv, TypeOK, Before
  <2> QED
    BY <2>1, <2>2
<1>3. UNCHANGED <<runs, versions, chunks, announced, cancels, workflows, attempts, hit>>
  BY DEF ReadLatest, rowVars
<1>4. Lifecycle' /\ Attempting' /\ Starting' /\ RunsAgreeWithVersions' /\ SearchableVersionsAreWhole'
  BY <1>2, <1>3
     DEF RInv, Before, Both, Lifecycle, Attempting, Starting, RunsAgreeWithVersions,
     SearchableVersionsAreWhole
<1>5. Bounded'
  BY DEF ReadLatest, rowVars, RInv, Bounded
<1> QED
  BY <1>1, <1>4, <1>5 DEF RInv

LEMMA StepCreateRetry ==
    ASSUME RInv, NEW r \in Runs, CreateRetry(r)
    PROVE  RInv'
<1>1. TypeOK'
  <2>1. document' \in [status : {"pending", "running", "completed", "failed"}, deleted : BOOLEAN]
    BY DEF CreateRetry, RInv, TypeOK
  <2>2. versions' \in [Runs -> VersionRows]
    BY LatestIsNat DEF CreateRetry, Insert, RInv, TypeOK, VersionRows
  <2>3. runs' \in [Runs -> RunRows]
    <3>1. requests[r].parent \in Runs \cup {NoRun} /\ runs \in [Runs -> RunRows]
      BY DEF RInv, TypeOK, RequestStates
    <3>2. [status |-> "pending", parent |-> requests[r].parent, attached |-> FALSE] \in RunRows
      BY <3>1 DEF RunRows, RunStatuses, Active
    <3> QED
      BY <3>1, <3>2 DEF CreateRetry, Insert
  <2>4. requests' \in [Runs -> RequestStates]
    BY RequestPcTyped DEF CreateRetry, Insert, RInv
  <2>5. \A q \in Runs : (runs[q].status = "none" <=> versions[q].number = 0)'
    BY LatestIsNat DEF CreateRetry, Insert, RInv, TypeOK
  <2>6. \A q \in Runs : (workflows[q] = "ingest" => attempts[q].pc # "none")'
    BY DEF CreateRetry, Insert, RInv, TypeOK
  <2> QED
    BY <2>1, <2>2, <2>3, <2>4, <2>5, <2>6 DEF CreateRetry, Insert, RInv, TypeOK
<1>2. Lifecycle' /\ Attempting' /\ Starting'
  BY DEF CreateRetry, Insert, RInv, TypeOK, Lifecycle, Before, Attempting, Both, Starting
<1>3. RunsAgreeWithVersions' /\ SearchableVersionsAreWhole'
  BY DEF CreateRetry, Insert, RInv, TypeOK, RunsAgreeWithVersions, SearchableVersionsAreWhole
<1>4. Bounded'
  <2>1. PICK n \in Nat : n = Latest /\ \A q \in Runs : versions[q].number <= n
    BY LatestIsNat DEF RInv
  <2>2. versions' = [versions EXCEPT ![r] = [status |-> "pending", number |-> n + 1]]
    BY <2>1 DEF CreateRetry, Insert
  <2>3. \A q \in Runs : versions'[q].number <= n + 1
    BY <2>1, <2>2 DEF RInv, TypeOK, VersionRows
  <2> QED
    BY <2>1, <2>3 DEF Bounded
<1> QED
  BY <1>1, <1>2, <1>3, <1>4 DEF RInv

LEMMA StepLoseNumber ==
    ASSUME RInv, NEW r \in Runs, LoseNumber(r)
    PROVE  RInv'
<1>1. TypeOK'
  <2>1. requests' \in [Runs -> RequestStates]
    BY RequestPcTyped DEF LoseNumber, RInv
  <2>2. \A q \in Runs : (runs[q].status = "none" <=> versions[q].number = 0)'
    BY DEF LoseNumber, rowVars, RInv, TypeOK
  <2>3. \A q \in Runs : (workflows[q] = "ingest" => attempts[q].pc # "none")'
    BY DEF LoseNumber, RInv, TypeOK
  <2> QED
    BY <2>1, <2>2, <2>3 DEF LoseNumber, rowVars, RInv, TypeOK
<1>2. Lifecycle' /\ Attempting' /\ Starting'
  BY DEF LoseNumber, RInv, rowVars, Lifecycle, Before, Attempting, Both, Starting
<1>3. RunsAgreeWithVersions' /\ SearchableVersionsAreWhole'
  BY DEF LoseNumber, RInv, rowVars, RunsAgreeWithVersions, SearchableVersionsAreWhole
<1>4. Bounded'
  BY DEF LoseNumber, rowVars, RInv, Bounded
<1> QED
  BY <1>1, <1>2, <1>3, <1>4 DEF RInv

LEMMA StepStartReturns ==
    ASSUME RInv, NEW r \in Runs, StartReturns(r)
    PROVE  RInv'
<1>1. TypeOK'
  <2>1. requests' \in [Runs -> RequestStates]
    BY RequestPcTyped DEF StartReturns, Start, RInv
  <2>2. workflows' \in [Runs -> {"none", "ingest", "project", "closed"}]
    BY DEF StartReturns, Start, RInv, TypeOK
  <2>3. attempts' \in [Runs -> AttemptStates]
    BY RunConstants DEF StartReturns, Start, RInv, TypeOK, AttemptStates
  <2>4. \A q \in Runs : (runs[q].status = "none" <=> versions[q].number = 0)'
    BY DEF StartReturns, Start, rowVars, RInv, TypeOK
  <2>5. \A q \in Runs : (workflows[q] = "ingest" => attempts[q].pc # "none")'
    BY DEF StartReturns, Start, RInv, TypeOK
  <2> QED
    BY <2>1, <2>2, <2>3, <2>4, <2>5 DEF StartReturns, Start, rowVars, RInv, TypeOK
<1>2. Lifecycle' /\ Attempting' /\ Starting'
  BY DEF StartReturns, Start, RInv, rowVars, TypeOK, Lifecycle, Before, Attempting, Both, Starting
<1>3. RunsAgreeWithVersions' /\ SearchableVersionsAreWhole'
  BY DEF StartReturns, Start, RInv, rowVars, RunsAgreeWithVersions, SearchableVersionsAreWhole
<1>4. Bounded'
  BY DEF StartReturns, Start, rowVars, RInv, Bounded
<1> QED
  BY <1>1, <1>2, <1>3, <1>4 DEF RInv

LEMMA StepStartReplyLost ==
    ASSUME RInv, NEW r \in Runs, StartReplyLost(r)
    PROVE  RInv'
<1>1. TypeOK'
  <2>1. requests' \in [Runs -> RequestStates]
    BY RequestPcTyped DEF StartReplyLost, Start, RInv
  <2>2. workflows' \in [Runs -> {"none", "ingest", "project", "closed"}]
    BY DEF StartReplyLost, Start, RInv, TypeOK
  <2>3. attempts' \in [Runs -> AttemptStates]
    BY RunConstants DEF StartReplyLost, Start, RInv, TypeOK, AttemptStates
  <2>4. hit' \subseteq FaultKinds
    BY DEF StartReplyLost, Fault, RInv, TypeOK, FaultKinds
  <2>5. \A q \in Runs : (runs[q].status = "none" <=> versions[q].number = 0)'
    BY DEF StartReplyLost, Start, rowVars, RInv, TypeOK
  <2>6. \A q \in Runs : (workflows[q] = "ingest" => attempts[q].pc # "none")'
    BY DEF StartReplyLost, Start, RInv, TypeOK
  <2> QED
    BY <2>1, <2>2, <2>3, <2>4, <2>5, <2>6 DEF StartReplyLost, Start, rowVars, RInv, TypeOK
<1>2. Lifecycle' /\ Attempting' /\ Starting'
  BY DEF StartReplyLost, Start, Fault, RInv, rowVars, TypeOK, Lifecycle, Before, Attempting, Both,
     Starting
<1>3. RunsAgreeWithVersions' /\ SearchableVersionsAreWhole'
  BY DEF StartReplyLost, Start, Fault, RInv, rowVars, RunsAgreeWithVersions,
     SearchableVersionsAreWhole
<1>4. Bounded'
  BY DEF StartReplyLost, Start, rowVars, RInv, Bounded
<1> QED
  BY <1>1, <1>2, <1>3, <1>4 DEF RInv

LEMMA StepStartRefused ==
    ASSUME RInv, NEW r \in Runs, StartRefused(r)
    PROVE  RInv'
<1>1. TypeOK'
  <2>1. requests' \in [Runs -> RequestStates]
    BY RequestPcTyped DEF StartRefused, RInv
  <2>2. hit' \subseteq FaultKinds
    BY DEF StartRefused, Fault, RInv, TypeOK, FaultKinds
  <2>3. \A q \in Runs : (runs[q].status = "none" <=> versions[q].number = 0)'
    BY DEF StartRefused, rowVars, RInv, TypeOK
  <2>4. \A q \in Runs : (workflows[q] = "ingest" => attempts[q].pc # "none")'
    BY DEF StartRefused, RInv, TypeOK
  <2> QED
    BY <2>1, <2>2, <2>3, <2>4 DEF StartRefused, rowVars, RInv, TypeOK
<1>2. Lifecycle' /\ Attempting' /\ Starting'
  BY DEF StartRefused, Fault, RInv, rowVars, Lifecycle, Before, Attempting, Both, Starting
<1>3. RunsAgreeWithVersions' /\ SearchableVersionsAreWhole'
  BY DEF StartRefused, Fault, RInv, rowVars, RunsAgreeWithVersions, SearchableVersionsAreWhole
<1>4. Bounded'
  BY DEF StartRefused, rowVars, RInv, Bounded
<1> QED
  BY <1>1, <1>2, <1>3, <1>4 DEF RInv

LEMMA StepMarkQueued ==
    ASSUME RInv, NEW r \in Runs, MarkQueued(r)
    PROVE  RInv'
<1>1. TypeOK'
  <2>1. runs' \in [Runs -> RunRows]
    <3>1. runs[r] \in RunRows /\ runs \in [Runs -> RunRows]
      BY DEF RInv, TypeOK
    <3>2. [runs[r] EXCEPT !.status = "queued", !.attached = TRUE] \in RunRows
      BY <3>1 DEF RunRows, RunStatuses, Active
    <3>3. runs' = [runs EXCEPT ![r] = [runs[r] EXCEPT !.status = "queued", !.attached = TRUE]]
      BY <3>1 DEF MarkQueued
    <3> QED
      BY <3>1, <3>2, <3>3
  <2>2. requests' \in [Runs -> RequestStates]
    BY RequestPcTyped DEF MarkQueued, RInv
  <2>3. \A q \in Runs : (runs[q].status = "none" <=> versions[q].number = 0)'
    BY DEF MarkQueued, RInv, TypeOK, Lifecycle, Before
  <2>4. \A q \in Runs : (workflows[q] = "ingest" => attempts[q].pc # "none")'
    BY DEF MarkQueued, RInv, TypeOK
  <2> QED
    BY <2>1, <2>2, <2>3, <2>4 DEF MarkQueued, RInv, TypeOK
<1>2. Lifecycle' /\ Attempting' /\ Starting'
  BY DEF MarkQueued, RInv, TypeOK, RunRows, VersionRows, AttemptStates, Lifecycle, Before, Starting
<1>3. RunsAgreeWithVersions' /\ SearchableVersionsAreWhole'
  BY DEF MarkQueued, RInv, TypeOK, RunRows, RequestStates, AttemptStates, RunStatuses, Lifecycle,
     Before, Attempting
<1>4. Bounded'
  BY DEF MarkQueued, RInv, Bounded
<1> QED
  BY <1>1, <1>2, <1>3, <1>4 DEF RInv

LEMMA StepMarkStartFailed ==
    ASSUME RInv, NEW r \in Runs, MarkStartFailed(r)
    PROVE  RInv'
<1>1. TypeOK'
  <2>1. runs' \in [Runs -> RunRows]
    BY StatusTyped DEF MarkStartFailed, RInv, RunStatuses
  <2>2. requests' \in [Runs -> RequestStates]
    BY RequestPcTyped DEF MarkStartFailed, RInv
  <2>3. \A q \in Runs : (runs[q].status = "none" <=> versions[q].number = 0)'
    BY DEF MarkStartFailed, RInv, TypeOK, Lifecycle, Before
  <2>4. \A q \in Runs : (workflows[q] = "ingest" => attempts[q].pc # "none")'
    BY DEF MarkStartFailed, RInv, TypeOK
  <2> QED
    BY <2>1, <2>2, <2>3, <2>4 DEF MarkStartFailed, RInv, TypeOK
<1>2. Lifecycle' /\ Attempting' /\ Starting'
  BY DEF MarkStartFailed, RInv, Lifecycle, Before, Attempting, Both, Starting
<1>3. RunsAgreeWithVersions' /\ SearchableVersionsAreWhole'
  BY DEF MarkStartFailed, RInv, Active, RunsAgreeWithVersions, SearchableVersionsAreWhole
<1>4. Bounded'
  BY DEF MarkStartFailed, RInv, Bounded
<1> QED
  BY <1>1, <1>2, <1>3, <1>4 DEF RInv

LEMMA StepRequestDies ==
    ASSUME RInv, NEW r \in Runs, RequestDies(r)
    PROVE  RInv'
<1>1. TypeOK'
  <2>1. requests' \in [Runs -> RequestStates]
    BY RequestPcTyped DEF RequestDies, RInv
  <2>2. hit' \subseteq FaultKinds
    BY DEF RequestDies, Fault, RInv, TypeOK, FaultKinds
  <2>3. \A q \in Runs : (runs[q].status = "none" <=> versions[q].number = 0)'
    BY DEF RequestDies, rowVars, RInv, TypeOK
  <2>4. \A q \in Runs : (workflows[q] = "ingest" => attempts[q].pc # "none")'
    BY DEF RequestDies, RInv, TypeOK
  <2> QED
    BY <2>1, <2>2, <2>3, <2>4 DEF RequestDies, rowVars, RInv, TypeOK
<1>2. Lifecycle' /\ Attempting' /\ Starting'
  BY DEF RequestDies, Fault, RInv, rowVars, Lifecycle, Before, Attempting, Both, Starting
<1>3. RunsAgreeWithVersions' /\ SearchableVersionsAreWhole'
  BY DEF RequestDies, Fault, RInv, rowVars, RunsAgreeWithVersions, SearchableVersionsAreWhole
<1>4. Bounded'
  BY DEF RequestDies, rowVars, RInv, Bounded
<1> QED
  BY <1>1, <1>2, <1>3, <1>4 DEF RInv

LEMMA StepLoadForCancel ==
    ASSUME RInv, NEW r \in Runs, LoadForCancel(r)
    PROVE  RInv'
<1>1. TypeOK'
  <2>1. cancels' \in [Runs -> {"idle", "pending", "active", "confirmed"}]
    BY DEF LoadForCancel, RInv, TypeOK
  <2>2. \A q \in Runs : (runs[q].status = "none" <=> versions[q].number = 0)'
    BY DEF LoadForCancel, rowVars, RInv, TypeOK
  <2>3. \A q \in Runs : (workflows[q] = "ingest" => attempts[q].pc # "none")'
    BY DEF LoadForCancel, RInv, TypeOK
  <2> QED
    BY <2>1, <2>2, <2>3 DEF LoadForCancel, rowVars, RInv, TypeOK
<1>2. Lifecycle' /\ Attempting' /\ Starting'
  BY DEF LoadForCancel, RInv, rowVars, TypeOK, Lifecycle, Attempting, Both, Starting
<1>3. RunsAgreeWithVersions' /\ SearchableVersionsAreWhole'
  BY DEF LoadForCancel, RInv, rowVars, RunsAgreeWithVersions, SearchableVersionsAreWhole
<1>4. Bounded'
  BY DEF LoadForCancel, rowVars, RInv, Bounded
<1> QED
  BY <1>1, <1>2, <1>3, <1>4 DEF RInv

LEMMA StepTerminate ==
    ASSUME RInv, NEW r \in Runs, Terminate(r)
    PROVE  RInv'
<1>1. TypeOK'
  <2>1. cancels' \in [Runs -> {"idle", "pending", "active", "confirmed"}]
    BY DEF Terminate, RInv, TypeOK
  <2>2. workflows' \in [Runs -> {"none", "ingest", "project", "closed"}]
    BY DEF Terminate, RInv, TypeOK
  <2>3. attempts' \in [Runs -> AttemptStates]
    BY DEF Terminate, RInv, TypeOK, AttemptStates
  <2>4. \A q \in Runs : (runs[q].status = "none" <=> versions[q].number = 0)'
    BY DEF Terminate, rowVars, RInv, TypeOK
  <2>5. \A q \in Runs : (workflows[q] = "ingest" => attempts[q].pc # "none")'
    BY DEF Terminate, RInv, TypeOK
  <2> QED
    BY <2>1, <2>2, <2>3, <2>4, <2>5 DEF Terminate, rowVars, RInv, TypeOK
<1>2. Lifecycle' /\ Attempting' /\ Starting'
  BY DEF Terminate, RInv, rowVars, Lifecycle, Attempting, Both, Starting
<1>3. RunsAgreeWithVersions' /\ SearchableVersionsAreWhole'
  BY DEF Terminate, RInv, rowVars, RunsAgreeWithVersions, SearchableVersionsAreWhole
<1>4. Bounded'
  BY DEF Terminate, rowVars, RInv, Bounded
<1> QED
  BY <1>1, <1>2, <1>3, <1>4 DEF RInv

LEMMA StepTerminateRefused ==
    ASSUME RInv, NEW r \in Runs, TerminateRefused(r)
    PROVE  RInv'
<1>1. TypeOK'
  <2>1. cancels' \in [Runs -> {"idle", "pending", "active", "confirmed"}]
    BY DEF TerminateRefused, RInv, TypeOK
  <2>2. \A q \in Runs : (runs[q].status = "none" <=> versions[q].number = 0)'
    BY DEF TerminateRefused, rowVars, RInv, TypeOK
  <2>3. \A q \in Runs : (workflows[q] = "ingest" => attempts[q].pc # "none")'
    BY DEF TerminateRefused, RInv, TypeOK
  <2> QED
    BY <2>1, <2>2, <2>3 DEF TerminateRefused, rowVars, RInv, TypeOK
<1>2. Lifecycle' /\ Attempting' /\ Starting'
  BY DEF TerminateRefused, RInv, rowVars, Lifecycle, Attempting, Both, Starting
<1>3. RunsAgreeWithVersions' /\ SearchableVersionsAreWhole'
  BY DEF TerminateRefused, RInv, rowVars, RunsAgreeWithVersions, SearchableVersionsAreWhole
<1>4. Bounded'
  BY DEF TerminateRefused, rowVars, RInv, Bounded
<1> QED
  BY <1>1, <1>2, <1>3, <1>4 DEF RInv

LEMMA StepMarkCancelled ==
    ASSUME RInv, NEW r \in Runs, MarkCancelled(r)
    PROVE  RInv'
<1>1. TypeOK'
  <2>1. document' \in [status : {"pending", "running", "completed", "failed"}, deleted : BOOLEAN]
    BY DEF MarkCancelled, RInv, TypeOK
  <2>2. versions' \in [Runs -> VersionRows]
    BY DEF MarkCancelled, RInv, TypeOK, VersionRows
  <2>3. runs' \in [Runs -> RunRows]
    BY StatusTyped DEF MarkCancelled, RInv, RunStatuses
  <2>4. cancels' \in [Runs -> {"idle", "pending", "active", "confirmed"}]
    BY DEF MarkCancelled, RInv, TypeOK
  <2>5. \A q \in Runs : (runs[q].status = "none" <=> versions[q].number = 0)'
    BY DEF MarkCancelled, RInv, TypeOK, Lifecycle
  <2>6. \A q \in Runs : (workflows[q] = "ingest" => attempts[q].pc # "none")'
    BY DEF MarkCancelled, RInv, TypeOK
  <2> QED
    BY <2>1, <2>2, <2>3, <2>4, <2>5, <2>6 DEF MarkCancelled, RInv, TypeOK
<1>2. Lifecycle' /\ Attempting' /\ Starting'
  BY DEF MarkCancelled, RInv, Lifecycle, Attempting, Both, Starting
<1>3. RunsAgreeWithVersions' /\ SearchableVersionsAreWhole'
  BY DEF MarkCancelled, RInv, TypeOK, RunsAgreeWithVersions, SearchableVersionsAreWhole
<1>4. Bounded'
  BY DEF MarkCancelled, RInv, Bounded
<1> QED
  BY <1>1, <1>2, <1>3, <1>4 DEF RInv

LEMMA StepCancelDies ==
    ASSUME RInv, NEW r \in Runs, CancelDies(r)
    PROVE  RInv'
<1>1. TypeOK'
  <2>1. cancels' \in [Runs -> {"idle", "pending", "active", "confirmed"}]
    BY DEF CancelDies, RInv, TypeOK
  <2>2. hit' \subseteq FaultKinds
    BY DEF CancelDies, Fault, RInv, TypeOK, FaultKinds
  <2>3. \A q \in Runs : (runs[q].status = "none" <=> versions[q].number = 0)'
    BY DEF CancelDies, rowVars, RInv, TypeOK
  <2>4. \A q \in Runs : (workflows[q] = "ingest" => attempts[q].pc # "none")'
    BY DEF CancelDies, RInv, TypeOK
  <2> QED
    BY <2>1, <2>2, <2>3, <2>4 DEF CancelDies, rowVars, RInv, TypeOK
<1>2. Lifecycle' /\ Attempting' /\ Starting'
  BY DEF CancelDies, Fault, RInv, rowVars, Lifecycle, Attempting, Both, Starting
<1>3. RunsAgreeWithVersions' /\ SearchableVersionsAreWhole'
  BY DEF CancelDies, Fault, RInv, rowVars, RunsAgreeWithVersions, SearchableVersionsAreWhole
<1>4. Bounded'
  BY DEF CancelDies, rowVars, RInv, Bounded
<1> QED
  BY <1>1, <1>2, <1>3, <1>4 DEF RInv

LEMMA StepMarkRunning ==
    ASSUME RInv, NEW r \in Runs, MarkRunning(r)
    PROVE  RInv'
<1>1. TypeOK'
  <2>1. attempts' \in [Runs -> AttemptStates]
    BY DEF MarkRunning, Progress, RInv, TypeOK, AttemptStates
  <2>2. hit' \subseteq FaultKinds
    BY DEF MarkRunning, Overtakes, Fault, RInv, TypeOK, FaultKinds
  <2>3. runs' \in [Runs -> RunRows]
    BY StatusTyped DEF MarkRunning, RInv, RunStatuses, Active
  <2>4. document' \in [status : {"pending", "running", "completed", "failed"}, deleted : BOOLEAN]
    BY DEF MarkRunning, RInv, TypeOK
  <2>5. \A q \in Runs : (runs[q].status = "none" <=> versions[q].number = 0)'
    BY DEF MarkRunning, Progress, RInv, TypeOK, Lifecycle
  <2>6. \A q \in Runs : (workflows[q] = "ingest" => attempts[q].pc # "none")'
    BY DEF MarkRunning, Progress, RInv, TypeOK
  <2> QED
    BY <2>1, <2>2, <2>3, <2>4, <2>5, <2>6 DEF MarkRunning, apiVars, RInv, TypeOK
<1>2. Lifecycle' /\ Attempting' /\ Starting'
  BY DEF MarkRunning, Progress, Overtakes, Fault, RInv, apiVars, TypeOK, Lifecycle, Attempting,
     Both, Starting
<1>3. RunsAgreeWithVersions' /\ SearchableVersionsAreWhole'
  BY DEF MarkRunning, Progress, Overtakes, Fault, RInv, Attempting, Both, RunsAgreeWithVersions,
     SearchableVersionsAreWhole
<1>4. Bounded'
  BY DEF MarkRunning, RInv, Bounded
<1> QED
  BY <1>1, <1>2, <1>3, <1>4 DEF RInv

LEMMA StepReplaceChunks ==
    ASSUME RInv, NEW r \in Runs, ReplaceChunks(r)
    PROVE  RInv'
<1>1. TypeOK'
  <2>1. attempts' \in [Runs -> AttemptStates]
    BY RunConstants, SMTT(20) DEF ReplaceChunks, Progress, RInv, TypeOK, AttemptStates
  <2>2. chunks' \in [Runs -> {"none", "plain", "embedded"}]
    BY DEF ReplaceChunks, RInv, TypeOK
  <2>3. \A q \in Runs : (runs[q].status = "none" <=> versions[q].number = 0)'
    BY DEF ReplaceChunks, RInv, TypeOK
  <2>4. \A q \in Runs : (workflows[q] = "ingest" => attempts[q].pc # "none")'
    BY DEF ReplaceChunks, Progress, RInv, TypeOK
  <2> QED
    BY <2>1, <2>2, <2>3, <2>4 DEF ReplaceChunks, apiVars, RInv, TypeOK
<1>2. Lifecycle' /\ Attempting' /\ Starting'
  BY DEF ReplaceChunks, Progress, RInv, apiVars, Lifecycle, Attempting, Both, Starting
<1>3. RunsAgreeWithVersions' /\ SearchableVersionsAreWhole'
  BY DEF ReplaceChunks, Progress, RInv, Attempting, Both, RunsAgreeWithVersions,
     SearchableVersionsAreWhole
<1>4. Bounded'
  BY DEF ReplaceChunks, RInv, Bounded
<1> QED
  BY <1>1, <1>2, <1>3, <1>4 DEF RInv

LEMMA StepEmbed ==
    ASSUME RInv, NEW r \in Runs, Embed(r)
    PROVE  RInv'
<1>1. TypeOK'
  <2>1. attempts' \in [Runs -> AttemptStates]
    BY DEF Embed, Progress, RInv, TypeOK, AttemptStates
  <2>2. chunks' \in [Runs -> {"none", "plain", "embedded"}]
    BY DEF Embed, RInv, TypeOK
  <2>3. \A q \in Runs : (runs[q].status = "none" <=> versions[q].number = 0)'
    BY DEF Embed, RInv, TypeOK
  <2>4. \A q \in Runs : (workflows[q] = "ingest" => attempts[q].pc # "none")'
    BY DEF Embed, Progress, RInv, TypeOK
  <2> QED
    BY <2>1, <2>2, <2>3, <2>4 DEF Embed, apiVars, RInv, TypeOK
<1>2. Lifecycle' /\ Attempting' /\ Starting'
  BY DEF Embed, Progress, RInv, apiVars, TypeOK, Lifecycle, Attempting, Both, Starting
<1>3. RunsAgreeWithVersions' /\ SearchableVersionsAreWhole'
  BY DEF Embed, RInv, RunsAgreeWithVersions, SearchableVersionsAreWhole
<1>4. Bounded'
  BY DEF Embed, RInv, Bounded
<1> QED
  BY <1>1, <1>2, <1>3, <1>4 DEF RInv

LEMMA StepComplete ==
    ASSUME RInv, NEW r \in Runs, Complete(r)
    PROVE  RInv'
<1>1. TypeOK'
  <2>1. attempts' \in [Runs -> AttemptStates]
    BY DEF Complete, Progress, RInv, TypeOK, AttemptStates
  <2>2. runs' \in [Runs -> RunRows]
    BY StatusTyped DEF Complete, Completed, RInv, RunStatuses
  <2>3. document' \in [status : {"pending", "running", "completed", "failed"}, deleted : BOOLEAN]
    BY DEF Complete, Completed, RInv, TypeOK
  <2>4. versions' \in [Runs -> VersionRows]
    BY DEF Complete, Completed, RInv, TypeOK, VersionRows
  <2>5. announced' \subseteq Runs
    BY DEF Complete, Completed, RInv, TypeOK
  <2>6. workflows' \in [Runs -> {"none", "ingest", "project", "closed"}]
    BY DEF Complete, RInv, TypeOK
  <2>7. \A q \in Runs : (runs[q].status = "none" <=> versions[q].number = 0)'
    BY DEF Complete, Progress, Completed, RInv, TypeOK, Lifecycle
  <2>8. \A q \in Runs : (workflows[q] = "ingest" => attempts[q].pc # "none")'
    BY DEF Complete, Progress, RInv, TypeOK
  <2> QED
    BY <2>1, <2>2, <2>3, <2>4, <2>5, <2>6, <2>7, <2>8 DEF Complete, Completed, apiVars, RInv, TypeOK
<1>2. Lifecycle' /\ Attempting' /\ Starting'
  BY DEF Complete, Progress, Completed, RInv, apiVars, TypeOK, Lifecycle, Attempting, Both, Starting
<1>3. RunsAgreeWithVersions' /\ SearchableVersionsAreWhole'
  BY DEF Complete, Progress, Completed, RInv, TypeOK, Active, Attempting, RunsAgreeWithVersions,
     SearchableVersionsAreWhole
<1>4. Bounded'
  BY DEF Complete, Completed, RInv, Bounded
<1> QED
  BY <1>1, <1>2, <1>3, <1>4 DEF RInv

LEMMA StepCompletionReplyLost ==
    ASSUME RInv, NEW r \in Runs, CompletionReplyLost(r)
    PROVE  RInv'
<1>1. TypeOK'
  <2>1. attempts' \in [Runs -> AttemptStates]
    BY DEF CompletionReplyLost, Progress, Fault, RInv, TypeOK, AttemptStates
  <2>2. hit' \subseteq FaultKinds
    BY DEF CompletionReplyLost, Fault, RInv, TypeOK, FaultKinds
  <2>3. runs' \in [Runs -> RunRows]
    BY StatusTyped DEF CompletionReplyLost, Completed, RInv, RunStatuses
  <2>4. document' \in [status : {"pending", "running", "completed", "failed"}, deleted : BOOLEAN]
    BY DEF CompletionReplyLost, Completed, RInv, TypeOK
  <2>5. versions' \in [Runs -> VersionRows]
    BY DEF CompletionReplyLost, Completed, RInv, TypeOK, VersionRows
  <2>6. announced' \subseteq Runs
    BY DEF CompletionReplyLost, Completed, RInv, TypeOK
  <2>7. \A q \in Runs : (runs[q].status = "none" <=> versions[q].number = 0)'
    BY DEF CompletionReplyLost, Progress, Completed, RInv, TypeOK, Lifecycle
  <2>8. \A q \in Runs : (workflows[q] = "ingest" => attempts[q].pc # "none")'
    BY DEF CompletionReplyLost, Progress, RInv, TypeOK
  <2> QED
    BY <2>1, <2>2, <2>3, <2>4, <2>5, <2>6, <2>7, <2>8
       DEF CompletionReplyLost, Completed, apiVars, RInv, TypeOK
<1>2. Lifecycle' /\ Attempting' /\ Starting'
  BY DEF CompletionReplyLost, Progress, Completed, Fault, RInv, apiVars, TypeOK, Lifecycle,
     Attempting, Both, Starting
<1>3. RunsAgreeWithVersions' /\ SearchableVersionsAreWhole'
  BY DEF CompletionReplyLost, Progress, Completed, Fault, RInv, TypeOK, Active, Attempting,
     RunsAgreeWithVersions, SearchableVersionsAreWhole
<1>4. Bounded'
  BY DEF CompletionReplyLost, Completed, RInv, Bounded
<1> QED
  BY <1>1, <1>2, <1>3, <1>4 DEF RInv

LEMMA StepFail ==
    ASSUME RInv, NEW r \in Runs, Fail(r)
    PROVE  RInv'
<1>1. TypeOK'
  <2>1. runs' \in [Runs -> RunRows]
    BY StatusTyped DEF Fail, RInv, RunStatuses
  <2>2. document' \in [status : {"pending", "running", "completed", "failed"}, deleted : BOOLEAN]
    BY DEF Fail, RInv, TypeOK
  <2>3. versions' \in [Runs -> VersionRows]
    BY DEF Fail, RInv, TypeOK, VersionRows
  <2>4. attempts' \in [Runs -> AttemptStates]
    BY AfterFailureTyped DEF Fail, RInv
  <2>5. workflows' \in [Runs -> {"none", "ingest", "project", "closed"}]
    BY DEF Fail, AfterFailure, RInv, TypeOK
  <2>6. hit' \subseteq FaultKinds
    BY DEF Fail, Overtakes, Fault, RInv, TypeOK, FaultKinds
  <2>7. \A q \in Runs : (runs[q].status = "none" <=> versions[q].number = 0)'
    BY DEF Fail, RInv, TypeOK, Lifecycle
  <2>8. \A q \in Runs : (workflows[q] = "ingest" => attempts[q].pc # "none")'
    BY DEF Fail, AfterFailure, RInv, TypeOK
  <2> QED
    BY <2>1, <2>2, <2>3, <2>4, <2>5, <2>6, <2>7, <2>8 DEF Fail, apiVars, RInv, TypeOK
<1>2. Lifecycle' /\ Attempting' /\ Starting'
  BY DEF Fail, AfterFailure, Overtakes, Fault, RInv, apiVars, TypeOK, AttemptStates, Lifecycle,
     Attempting, Both, Starting
<1>3. RunsAgreeWithVersions' /\ SearchableVersionsAreWhole'
  BY DEF Fail, Overtakes, Fault, RInv, TypeOK, RunsAgreeWithVersions, SearchableVersionsAreWhole
<1>4. Bounded'
  BY DEF Fail, RInv, Bounded
<1> QED
  BY <1>1, <1>2, <1>3, <1>4 DEF RInv

LEMMA StepFailUnrecorded ==
    ASSUME RInv, NEW r \in Runs, FailUnrecorded(r)
    PROVE  RInv'
<1>1. TypeOK'
  <2>1. attempts' \in [Runs -> AttemptStates]
    BY AfterFailureTyped DEF FailUnrecorded, RInv
  <2>2. workflows' \in [Runs -> {"none", "ingest", "project", "closed"}]
    BY DEF FailUnrecorded, AfterFailure, RInv, TypeOK
  <2>3. hit' \subseteq FaultKinds
    BY DEF FailUnrecorded, Fault, RInv, TypeOK, FaultKinds
  <2>4. \A q \in Runs : (runs[q].status = "none" <=> versions[q].number = 0)'
    BY DEF FailUnrecorded, rowVars, RInv, TypeOK
  <2>5. \A q \in Runs : (workflows[q] = "ingest" => attempts[q].pc # "none")'
    BY DEF FailUnrecorded, AfterFailure, RInv, TypeOK
  <2> QED
    BY <2>1, <2>2, <2>3, <2>4, <2>5 DEF FailUnrecorded, rowVars, apiVars, RInv, TypeOK
<1>2. Lifecycle' /\ Attempting' /\ Starting' /\ RunsAgreeWithVersions' /\ SearchableVersionsAreWhole'
  <2> DEFINE Again ==
           /\ workflows' = workflows
           /\ attempts' = [attempts EXCEPT ![r] = [pc |-> "scheduled", number |-> @.number + 1]]
  <2> DEFINE GivenUp ==
           /\ workflows' = [workflows EXCEPT ![r] = "closed"]
           /\ attempts' = [attempts EXCEPT ![r].pc = "none"]
  <2>1. Lifecycle'
    <3>1. CASE Again
      BY <3>1 DEF FailUnrecorded, RInv, rowVars, apiVars, Lifecycle
    <3>2. CASE GivenUp
      BY <3>2 DEF FailUnrecorded, RInv, rowVars, apiVars, Lifecycle
    <3> QED
      BY <3>1, <3>2 DEF FailUnrecorded, AfterFailure
  <2>2. Attempting'
    <3>1. CASE Again
      BY <3>1 DEF FailUnrecorded, Fault, RInv, rowVars, TypeOK, AttemptStates, Both, Attempting
    <3>2. CASE GivenUp
      BY <3>2 DEF FailUnrecorded, Fault, RInv, rowVars, Both, Attempting
    <3> QED
      BY <3>1, <3>2 DEF FailUnrecorded, AfterFailure
  <2>3. Starting'
    <3>1. CASE Again
      BY <3>1 DEF FailUnrecorded, Fault, RInv, rowVars, apiVars, Starting
    <3>2. CASE GivenUp
      BY <3>2 DEF FailUnrecorded, Fault, RInv, rowVars, apiVars, Starting
    <3> QED
      BY <3>1, <3>2 DEF FailUnrecorded, AfterFailure
  <2>4. RunsAgreeWithVersions'
    <3>1. CASE Again
      BY <3>1 DEF FailUnrecorded, Fault, RInv, rowVars, RunsAgreeWithVersions
    <3>2. CASE GivenUp
      BY <3>2 DEF FailUnrecorded, Fault, RInv, rowVars, RunsAgreeWithVersions
    <3> QED
      BY <3>1, <3>2 DEF FailUnrecorded, AfterFailure
  <2>5. SearchableVersionsAreWhole'
    <3>1. CASE Again
      BY <3>1 DEF FailUnrecorded, Fault, RInv, rowVars, SearchableVersionsAreWhole
    <3>2. CASE GivenUp
      BY <3>2 DEF FailUnrecorded, Fault, RInv, rowVars, SearchableVersionsAreWhole
    <3> QED
      BY <3>1, <3>2 DEF FailUnrecorded, AfterFailure
  <2> QED
    BY <2>1, <2>2, <2>3, <2>4, <2>5
<1>3. Bounded'
  BY DEF FailUnrecorded, rowVars, RInv, Bounded
<1> QED
  BY <1>1, <1>2, <1>3 DEF RInv

LEMMA StepWorkerCrash ==
    ASSUME RInv, NEW r \in Runs, WorkerCrash(r)
    PROVE  RInv'
<1>1. TypeOK'
  <2>1. attempts' \in [Runs -> AttemptStates]
    BY RunConstants DEF WorkerCrash, RInv, TypeOK, AttemptStates
  <2>2. workflows' \in [Runs -> {"none", "ingest", "project", "closed"}]
    BY DEF WorkerCrash, RInv, TypeOK
  <2>3. hit' \subseteq FaultKinds
    BY DEF WorkerCrash, Fault, RInv, TypeOK, FaultKinds
  <2>4. \A q \in Runs : (runs[q].status = "none" <=> versions[q].number = 0)'
    BY DEF WorkerCrash, rowVars, RInv, TypeOK
  <2>5. \A q \in Runs : (workflows[q] = "ingest" => attempts[q].pc # "none")'
    BY DEF WorkerCrash, RInv, TypeOK
  <2> QED
    BY <2>1, <2>2, <2>3, <2>4, <2>5 DEF WorkerCrash, rowVars, apiVars, RInv, TypeOK
<1>2. Lifecycle' /\ Attempting' /\ Starting' /\ RunsAgreeWithVersions' /\ SearchableVersionsAreWhole'
  <2>1. Lifecycle'
    BY DEF WorkerCrash, RInv, rowVars, apiVars, Lifecycle
  <2>2. Attempting'
    BY DEF WorkerCrash, Fault, RInv, rowVars, Both, Attempting
  <2>3. Starting'
    BY DEF WorkerCrash, Fault, RInv, rowVars, apiVars, Starting
  <2>4. RunsAgreeWithVersions'
    BY DEF WorkerCrash, Fault, RInv, rowVars, RunsAgreeWithVersions
  <2>5. SearchableVersionsAreWhole'
    BY DEF WorkerCrash, Fault, RInv, rowVars, SearchableVersionsAreWhole
  <2> QED
    BY <2>1, <2>2, <2>3, <2>4, <2>5
<1>3. Bounded'
  BY DEF WorkerCrash, rowVars, RInv, Bounded
<1> QED
  BY <1>1, <1>2, <1>3 DEF RInv

LEMMA StepProject ==
    ASSUME RInv, NEW r \in Runs, Project(r)
    PROVE  RInv'
<1>1. TypeOK'
  <2>1. workflows' \in [Runs -> {"none", "ingest", "project", "closed"}]
    BY DEF Project, RInv, TypeOK
  <2>2. \A q \in Runs : (runs[q].status = "none" <=> versions[q].number = 0)'
    BY DEF Project, rowVars, RInv, TypeOK
  <2>3. \A q \in Runs : (workflows[q] = "ingest" => attempts[q].pc # "none")'
    BY DEF Project, RInv, TypeOK
  <2> QED
    BY <2>1, <2>2, <2>3 DEF Project, rowVars, apiVars, RInv, TypeOK
<1>2. Lifecycle' /\ Attempting' /\ Starting'
  BY DEF Project, RInv, rowVars, apiVars, Lifecycle, Attempting, Both, Starting
<1>3. RunsAgreeWithVersions' /\ SearchableVersionsAreWhole'
  BY DEF Project, RInv, rowVars, RunsAgreeWithVersions, SearchableVersionsAreWhole
<1>4. Bounded'
  BY DEF Project, rowVars, RInv, Bounded
<1> QED
  BY <1>1, <1>2, <1>3, <1>4 DEF RInv

LEMMA StepDeletion ==
    ASSUME RInv, SoftDelete \/ Restore
    PROVE  RInv'
<1>1. /\ document' \in [status : {"pending", "running", "completed", "failed"}, deleted : BOOLEAN]
      /\ hit' \subseteq FaultKinds /\ hit \subseteq hit'
      /\ UNCHANGED <<runs, versions, chunks, announced, apiVars, workflows, attempts>>
  BY ZenonT(30) DEF SoftDelete, Restore, Fault, FaultKinds, RInv, TypeOK
<1>2. TypeOK' /\ Bounded'
  BY <1>1 DEF apiVars, RInv, TypeOK, Bounded
<1>3. Lifecycle' /\ Attempting' /\ Starting' /\ RunsAgreeWithVersions' /\ SearchableVersionsAreWhole'
  BY <1>1 DEF apiVars, RInv, Both, Lifecycle, Attempting, Starting, RunsAgreeWithVersions,
     SearchableVersionsAreWhole
<1> QED
  BY <1>2, <1>3 DEF RInv

LEMMA InitRInv == Init => RInv
<1> SUFFICES ASSUME Init PROVE RInv
  OBVIOUS
<1>1. TypeOK
  BY RunConstants DEF Init, TypeOK, RunRows, RunStatuses, VersionRows, RequestStates, AttemptStates
<1>2. Lifecycle /\ Attempting /\ Starting
  BY DEF Init, Lifecycle, Attempting, Starting, Before
<1>3. Bounded
  <2>1. \A r \in Runs : versions[r].number <= 1
    BY DEF Init
  <2> QED
    BY <2>1 DEF Bounded
<1>4. RunsAgreeWithVersions /\ SearchableVersionsAreWhole
  BY DEF Init, RunsAgreeWithVersions, SearchableVersionsAreWhole
<1> QED
  BY <1>1, <1>2, <1>3, <1>4 DEF RInv

LEMMA RInvKept == RInv /\ [Next]_vars => RInv'
<1> SUFFICES ASSUME RInv, [Next]_vars PROVE RInv'
  OBVIOUS
<1>1. ASSUME NEW r \in Runs, Reindex(r) \/ (\E p \in Runs : CheckRetry(r, p)) PROVE RInv'
  BY <1>1, StepReindex, StepCheckRetry
<1>2. ASSUME NEW r \in Runs, RequestStep(r) PROVE RInv'
  BY <1>2, StepResetDocument, StepReadLatest, StepCreateRetry, StepLoseNumber, StepStartReturns,
     StepStartReplyLost, StepStartRefused, StepMarkQueued, StepMarkStartFailed, StepRequestDies
     DEF RequestStep
<1>3. ASSUME NEW r \in Runs, LoadForCancel(r) \/ CancelStep(r) PROVE RInv'
  BY <1>3, StepLoadForCancel, StepTerminate, StepTerminateRefused, StepMarkCancelled, StepCancelDies
     DEF CancelStep
<1>4. ASSUME NEW r \in Runs, AttemptStep(r) \/ Project(r) PROVE RInv'
  BY <1>4, StepMarkRunning, StepReplaceChunks, StepEmbed, StepComplete, StepCompletionReplyLost,
     StepFail, StepFailUnrecorded, StepWorkerCrash, StepProject
     DEF AttemptStep
<1>5. CASE UNCHANGED vars
  BY <1>5 DEF vars, rowVars, apiVars, RInv, TypeOK, Bounded, Both, Lifecycle, Attempting,
     Starting, RunsAgreeWithVersions, SearchableVersionsAreWhole
<1> QED
  BY <1>1, <1>2, <1>3, <1>4, <1>5, StepDeletion DEF Next

(***************************************************************************)
(* What is in progress is served: every step keeps SInv where RInv holds   *)
(***************************************************************************)

\* Whatever is in progress is served; needs the mark of a deletion under a retry.
SInv == Deleted /\ WaitingDocumentIsServed /\ ActiveRunIsServed

\* A step that leaves the numbers alone leaves the newest one.
LEMMA LatestStays ==
    ASSUME \A r \in Runs : versions'[r].number = versions[r].number
    PROVE  Latest' = Latest
<1>1. {versions'[r].number : r \in Runs} = {versions[r].number : r \in Runs}
  OBVIOUS
<1> QED
  BY <1>1 DEF Latest

LEMMA ServedReindex ==
    ASSUME RInv, SInv, NEW r \in Runs, Reindex(r)
    PROVE  SInv'
<1>1. Deleted'
  BY DEF Reindex, RInv, SInv, Deleted
<1>2. WaitingDocumentIsServed'
  BY DEF Reindex, Insert, RInv, TypeOK, SInv, WaitingDocumentIsServed, Serves
<1>3. ActiveRunIsServed'
  BY DEF Reindex, Insert, RInv, TypeOK, SInv, ActiveRunIsServed
<1> QED
  BY <1>1, <1>2, <1>3 DEF SInv

LEMMA ServedCheckRetry ==
    ASSUME RInv, SInv, NEW r \in Runs, NEW p \in Runs, CheckRetry(r, p)
    PROVE  SInv'
<1>1. Latest' = Latest
  BY LatestStays DEF CheckRetry, RInv, rowVars
<1>2. Deleted'
  BY DEF CheckRetry, RInv, rowVars, RetryAvailable, SInv, Deleted
<1>3. WaitingDocumentIsServed'
  BY <1>1, ZenonT(30)
     DEF CheckRetry, Unused, RInv, TypeOK, rowVars, SInv, WaitingDocumentIsServed, Serves
<1>4. ActiveRunIsServed'
  <2>1. /\ runs[r].status = "none"
        /\ UNCHANGED <<runs, attempts, cancels, hit>>
        /\ \A q \in Runs \ {r} : requests'[q] = requests[q]
    BY DEF CheckRetry, Unused, rowVars, RInv, TypeOK, Lifecycle, Before
  <2> QED
    BY <2>1 DEF SInv, ActiveRunIsServed, Active
<1> QED
  BY <1>2, <1>3, <1>4 DEF SInv

LEMMA ServedResetDocument ==
    ASSUME RInv, SInv, NEW r \in Runs, ResetDocument(r)
    PROVE  SInv'
<1>1. Latest' = Latest
  BY LatestStays DEF ResetDocument, RInv
<1>2. Deleted'
  BY DEF ResetDocument, RInv, TypeOK, SInv, Deleted
<1>3. WaitingDocumentIsServed'
  BY <1>1 DEF ResetDocument, RInv, TypeOK, RequestStates, SInv, Deleted, WaitingDocumentIsServed,
     Serves
<1>4. ActiveRunIsServed'
  <2>1. /\ runs[r].status = "none"
        /\ UNCHANGED <<runs, attempts, cancels, hit>>
        /\ \A q \in Runs \ {r} : requests'[q] = requests[q]
    <3>1. CASE document.deleted
      BY <3>1 DEF ResetDocument, RInv, TypeOK, Lifecycle, Before
    <3>2. CASE ~document.deleted
      BY <3>2 DEF ResetDocument, RInv, TypeOK, Lifecycle, Before
    <3> QED
      BY <3>1, <3>2
  <2> QED
    BY <2>1 DEF SInv, ActiveRunIsServed, Active
<1> QED
  BY <1>2, <1>3, <1>4 DEF SInv

LEMMA ServedReadLatest ==
    ASSUME RInv, SInv, NEW r \in Runs, ReadLatest(r)
    PROVE  SInv'
<1>1. Latest' = Latest
  BY LatestStays DEF ReadLatest, RInv, rowVars
<1>2. Deleted'
  BY DEF ReadLatest, RInv, rowVars, SInv, Deleted
<1>3. WaitingDocumentIsServed'
  BY <1>1 DEF ReadLatest, RInv, TypeOK, SInv, Deleted, WaitingDocumentIsServed, Serves
<1>4. ActiveRunIsServed'
  BY DEF ReadLatest, RInv, TypeOK, rowVars, SInv, ActiveRunIsServed
<1> QED
  BY <1>2, <1>3, <1>4 DEF SInv

LEMMA ServedCreateRetry ==
    ASSUME RInv, SInv, NEW r \in Runs, CreateRetry(r)
    PROVE  SInv'
<1>1. Deleted'
  BY DEF CreateRetry, Insert, RInv, TypeOK, SInv, Deleted
<1>2. WaitingDocumentIsServed'
  BY DEF CreateRetry, Insert, RInv, TypeOK, SInv, WaitingDocumentIsServed, Serves
<1>3. ActiveRunIsServed'
  BY DEF CreateRetry, Insert, RInv, TypeOK, SInv, ActiveRunIsServed
<1> QED
  BY <1>1, <1>2, <1>3 DEF SInv

LEMMA ServedLoseNumber ==
    ASSUME RInv, SInv, NEW r \in Runs, LoseNumber(r)
    PROVE  SInv'
<1>1. Latest' = Latest
  BY LatestStays DEF LoseNumber, RInv, rowVars
<1>2. Deleted'
  BY DEF LoseNumber, RInv, rowVars, SInv, Deleted
<1>3. WaitingDocumentIsServed'
  BY <1>1 DEF LoseNumber, RInv, rowVars, SInv, WaitingDocumentIsServed, Serves
<1>4. ActiveRunIsServed'
  BY DEF LoseNumber, RInv, rowVars, SInv, ActiveRunIsServed
<1> QED
  BY <1>2, <1>3, <1>4 DEF SInv

LEMMA ServedStartReturns ==
    ASSUME RInv, SInv, NEW r \in Runs, StartReturns(r)
    PROVE  SInv'
<1>1. Latest' = Latest
  BY LatestStays DEF StartReturns, Start, RInv, rowVars
<1>2. Deleted'
  BY DEF StartReturns, Start, RInv, rowVars, SInv, Deleted
<1>3. WaitingDocumentIsServed'
  BY <1>1 DEF StartReturns, Start, RInv, TypeOK, SInv, WaitingDocumentIsServed, Serves
<1>4. ActiveRunIsServed'
  BY DEF StartReturns, Start, RInv, rowVars, SInv, ActiveRunIsServed
<1> QED
  BY <1>2, <1>3, <1>4 DEF SInv

LEMMA ServedStartReplyLost ==
    ASSUME RInv, SInv, NEW r \in Runs, StartReplyLost(r)
    PROVE  SInv'
<1>1. Latest' = Latest
  BY LatestStays DEF StartReplyLost, Start, RInv, rowVars
<1>2. Deleted'
  BY DEF StartReplyLost, Start, Fault, RInv, rowVars, SInv, Deleted
<1>3. WaitingDocumentIsServed'
  BY <1>1 DEF StartReplyLost, Start, RInv, TypeOK, SInv, WaitingDocumentIsServed, Serves
<1>4. ActiveRunIsServed'
  BY DEF StartReplyLost, Start, Fault, RInv, rowVars, SInv, ActiveRunIsServed
<1> QED
  BY <1>2, <1>3, <1>4 DEF SInv

LEMMA ServedStartRefused ==
    ASSUME RInv, SInv, NEW r \in Runs, StartRefused(r)
    PROVE  SInv'
<1>1. Latest' = Latest
  BY LatestStays DEF StartRefused, RInv, rowVars
<1>2. Deleted'
  BY DEF StartRefused, Fault, RInv, rowVars, SInv, Deleted
<1>3. WaitingDocumentIsServed'
  BY <1>1 DEF StartRefused, Fault, RInv, SInv, WaitingDocumentIsServed
<1>4. ActiveRunIsServed'
  BY DEF StartRefused, Fault, RInv, rowVars, SInv, ActiveRunIsServed
<1> QED
  BY <1>2, <1>3, <1>4 DEF SInv

LEMMA ServedMarkQueued ==
    ASSUME RInv, SInv, NEW r \in Runs, MarkQueued(r)
    PROVE  SInv'
<1>1. Latest' = Latest
  BY LatestStays DEF MarkQueued, RInv
<1>2. Deleted'
  BY DEF MarkQueued, RInv, SInv, Deleted
<1>3. WaitingDocumentIsServed'
  BY <1>1 DEF MarkQueued, RInv, SInv, WaitingDocumentIsServed, Serves
<1>4. ActiveRunIsServed'
  <2>1. requests[r].pc = "started" /\ UNCHANGED <<attempts, cancels, hit>>
    BY DEF MarkQueued
  <2>2. \A q \in Runs \ {r} : requests'[q] = requests[q] /\ runs'[q] = runs[q]
    BY DEF MarkQueued, RInv, TypeOK
  <2>3. attempts[r].pc # "none" \/ hit \cap {"slow_api", "api_crash", "worker_crash", "unrecorded"} # {}
    BY <2>1 DEF RInv, Starting
  <2> QED
    BY <2>1, <2>2, <2>3 DEF SInv, ActiveRunIsServed
<1> QED
  BY <1>2, <1>3, <1>4 DEF SInv

LEMMA ServedMarkStartFailed ==
    ASSUME RInv, SInv, NEW r \in Runs, MarkStartFailed(r)
    PROVE  SInv'
<1>1. Latest' = Latest
  BY LatestStays DEF MarkStartFailed, RInv
<1>2. Deleted'
  BY DEF MarkStartFailed, RInv, SInv, Deleted
<1>3. WaitingDocumentIsServed'
  BY <1>1 DEF MarkStartFailed, RInv, SInv, WaitingDocumentIsServed, Serves
<1>4. ActiveRunIsServed'
  BY DEF MarkStartFailed, RInv, TypeOK, Active, SInv, ActiveRunIsServed
<1> QED
  BY <1>2, <1>3, <1>4 DEF SInv

LEMMA ServedRequestDies ==
    ASSUME RInv, SInv, NEW r \in Runs, RequestDies(r)
    PROVE  SInv'
<1>1. Latest' = Latest
  BY LatestStays DEF RequestDies, RInv, rowVars
<1>2. Deleted'
  BY DEF RequestDies, Fault, RInv, rowVars, SInv, Deleted
<1>3. WaitingDocumentIsServed'
  BY <1>1 DEF RequestDies, Fault, RInv, SInv, WaitingDocumentIsServed
<1>4. ActiveRunIsServed'
  BY DEF RequestDies, Fault, RInv, SInv, ActiveRunIsServed
<1> QED
  BY <1>2, <1>3, <1>4 DEF SInv

LEMMA ServedLoadForCancel ==
    ASSUME RInv, SInv, NEW r \in Runs, LoadForCancel(r)
    PROVE  SInv'
<1>1. Latest' = Latest
  BY LatestStays DEF LoadForCancel, RInv, rowVars
<1>2. Deleted'
  BY DEF LoadForCancel, RInv, rowVars, SInv, Deleted
<1>3. WaitingDocumentIsServed'
  BY <1>1 DEF LoadForCancel, RInv, TypeOK, rowVars, SInv, WaitingDocumentIsServed, Serves
<1>4. ActiveRunIsServed'
  <2>1. /\ UNCHANGED <<runs, attempts, requests, hit>>
        /\ \A q \in Runs : cancels[q] = "confirmed" => cancels'[q] = "confirmed"
    BY DEF LoadForCancel, rowVars, RInv, TypeOK
  <2> QED
    BY <2>1 DEF SInv, ActiveRunIsServed
<1> QED
  BY <1>2, <1>3, <1>4 DEF SInv

LEMMA ServedTerminate ==
    ASSUME RInv, SInv, NEW r \in Runs, Terminate(r)
    PROVE  SInv'
<1>1. Latest' = Latest
  BY LatestStays DEF Terminate, RInv, rowVars
<1>2. Deleted'
  BY DEF Terminate, RInv, rowVars, SInv, Deleted
<1>3. WaitingDocumentIsServed'
  BY <1>1 DEF Terminate, RInv, TypeOK, SInv, WaitingDocumentIsServed, Serves
<1>4. ActiveRunIsServed'
  BY DEF Terminate, RInv, TypeOK, rowVars, SInv, ActiveRunIsServed
<1> QED
  BY <1>2, <1>3, <1>4 DEF SInv

LEMMA ServedTerminateRefused ==
    ASSUME RInv, SInv, NEW r \in Runs, TerminateRefused(r)
    PROVE  SInv'
<1>1. Latest' = Latest
  BY LatestStays DEF TerminateRefused, RInv, rowVars
<1>2. Deleted'
  BY DEF TerminateRefused, RInv, rowVars, SInv, Deleted
<1>3. WaitingDocumentIsServed'
  BY <1>1 DEF TerminateRefused, RInv, rowVars, SInv, WaitingDocumentIsServed, Serves
<1>4. ActiveRunIsServed'
  BY DEF TerminateRefused, RInv, rowVars, SInv, ActiveRunIsServed
<1> QED
  BY <1>2, <1>3, <1>4 DEF SInv

LEMMA ServedMarkCancelled ==
    ASSUME RInv, SInv, NEW r \in Runs, MarkCancelled(r)
    PROVE  SInv'
<1>1. Latest' = Latest
  BY LatestStays DEF MarkCancelled, RInv
<1>2. Deleted'
  BY DEF MarkCancelled, RInv, SInv, Deleted
<1>3. WaitingDocumentIsServed'
  BY <1>1 DEF MarkCancelled, RInv, SInv, WaitingDocumentIsServed
<1>4. ActiveRunIsServed'
  BY DEF MarkCancelled, RInv, TypeOK, Active, SInv, ActiveRunIsServed
<1> QED
  BY <1>2, <1>3, <1>4 DEF SInv

LEMMA ServedCancelDies ==
    ASSUME RInv, SInv, NEW r \in Runs, CancelDies(r)
    PROVE  SInv'
<1>1. Latest' = Latest
  BY LatestStays DEF CancelDies, RInv, rowVars
<1>2. Deleted'
  BY DEF CancelDies, Fault, RInv, rowVars, SInv, Deleted
<1>3. WaitingDocumentIsServed'
  BY <1>1 DEF CancelDies, Fault, RInv, SInv, WaitingDocumentIsServed
<1>4. ActiveRunIsServed'
  BY DEF CancelDies, Fault, RInv, SInv, ActiveRunIsServed
<1> QED
  BY <1>2, <1>3, <1>4 DEF SInv

LEMMA ServedMarkRunning ==
    ASSUME RInv, SInv, NEW r \in Runs, MarkRunning(r)
    PROVE  SInv'
<1>1. Latest' = Latest
  BY LatestStays DEF MarkRunning, RInv
<1>2. Deleted'
  BY DEF MarkRunning, Overtakes, Fault, RInv, apiVars, SInv, Deleted
<1>3. WaitingDocumentIsServed'
  BY <1>1 DEF MarkRunning, Progress, RInv, SInv, WaitingDocumentIsServed, Serves
<1>4. ActiveRunIsServed'
  BY DEF MarkRunning, Progress, Overtakes, Fault, RInv, apiVars, SInv, ActiveRunIsServed
<1> QED
  BY <1>2, <1>3, <1>4 DEF SInv

LEMMA ServedReplaceChunks ==
    ASSUME RInv, SInv, NEW r \in Runs, ReplaceChunks(r)
    PROVE  SInv'
<1>1. Latest' = Latest
  BY LatestStays DEF ReplaceChunks, RInv
<1>2. Deleted'
  BY DEF ReplaceChunks, RInv, apiVars, SInv, Deleted
<1>3. WaitingDocumentIsServed'
  BY <1>1 DEF ReplaceChunks, Progress, RInv, SInv, WaitingDocumentIsServed, Serves
<1>4. ActiveRunIsServed'
  BY DEF ReplaceChunks, Progress, RInv, apiVars, SInv, ActiveRunIsServed
<1> QED
  BY <1>2, <1>3, <1>4 DEF SInv

LEMMA ServedEmbed ==
    ASSUME RInv, SInv, NEW r \in Runs, Embed(r)
    PROVE  SInv'
<1>1. Latest' = Latest
  BY LatestStays DEF Embed, RInv
<1>2. Deleted'
  BY DEF Embed, RInv, apiVars, SInv, Deleted
<1>3. WaitingDocumentIsServed'
  BY <1>1 DEF Embed, Progress, RInv, SInv, WaitingDocumentIsServed, Serves
<1>4. ActiveRunIsServed'
  BY DEF Embed, Progress, RInv, apiVars, SInv, ActiveRunIsServed
<1> QED
  BY <1>2, <1>3, <1>4 DEF SInv

LEMMA ServedComplete ==
    ASSUME RInv, SInv, NEW r \in Runs, Complete(r)
    PROVE  SInv'
<1>1. Latest' = Latest
  BY LatestStays DEF Complete, Completed, RInv
<1>2. Deleted'
  BY DEF Complete, Completed, RInv, apiVars, SInv, Deleted
<1>3. WaitingDocumentIsServed'
  BY <1>1 DEF Complete, Completed, RInv, SInv, WaitingDocumentIsServed
<1>4. ActiveRunIsServed'
  BY DEF Complete, Progress, Completed, RInv, TypeOK, apiVars, Active, SInv, ActiveRunIsServed
<1> QED
  BY <1>2, <1>3, <1>4 DEF SInv

LEMMA ServedCompletionReplyLost ==
    ASSUME RInv, SInv, NEW r \in Runs, CompletionReplyLost(r)
    PROVE  SInv'
<1>1. Latest' = Latest
  BY LatestStays DEF CompletionReplyLost, Completed, RInv
<1>2. Deleted'
  BY DEF CompletionReplyLost, Completed, Fault, RInv, apiVars, SInv, Deleted
<1>3. WaitingDocumentIsServed'
  BY <1>1 DEF CompletionReplyLost, Completed, RInv, SInv, WaitingDocumentIsServed
<1>4. ActiveRunIsServed'
  BY DEF CompletionReplyLost, Progress, Completed, Fault, RInv, apiVars, SInv, ActiveRunIsServed
<1> QED
  BY <1>2, <1>3, <1>4 DEF SInv

LEMMA ServedFail ==
    ASSUME RInv, SInv, NEW r \in Runs, Fail(r)
    PROVE  SInv'
<1>1. Latest' = Latest
  BY LatestStays DEF Fail, RInv
<1>2. Deleted'
  BY DEF Fail, Overtakes, Fault, RInv, apiVars, SInv, Deleted
<1>3. WaitingDocumentIsServed'
  BY <1>1 DEF Fail, RInv, SInv, WaitingDocumentIsServed
<1>4. ActiveRunIsServed'
  BY DEF Fail, AfterFailure, Overtakes, Fault, RInv, TypeOK, apiVars, Active, SInv,
     ActiveRunIsServed
<1> QED
  BY <1>2, <1>3, <1>4 DEF SInv

LEMMA ServedFailUnrecorded ==
    ASSUME RInv, SInv, NEW r \in Runs, FailUnrecorded(r)
    PROVE  SInv'
<1>1. Latest' = Latest
  BY LatestStays DEF FailUnrecorded, RInv, rowVars
<1>2. Deleted'
  BY DEF FailUnrecorded, Fault, RInv, rowVars, apiVars, SInv, Deleted
<1>3. WaitingDocumentIsServed'
  BY <1>1 DEF FailUnrecorded, Fault, RInv, SInv, WaitingDocumentIsServed
<1>4. ActiveRunIsServed'
  BY DEF FailUnrecorded, Fault, RInv, SInv, ActiveRunIsServed
<1> QED
  BY <1>2, <1>3, <1>4 DEF SInv

LEMMA ServedWorkerCrash ==
    ASSUME RInv, SInv, NEW r \in Runs, WorkerCrash(r)
    PROVE  SInv'
<1>1. Latest' = Latest
  BY LatestStays DEF WorkerCrash, RInv, rowVars
<1>2. Deleted'
  BY DEF WorkerCrash, Fault, RInv, rowVars, apiVars, SInv, Deleted
<1>3. WaitingDocumentIsServed'
  BY <1>1 DEF WorkerCrash, Fault, RInv, SInv, WaitingDocumentIsServed
<1>4. ActiveRunIsServed'
  BY DEF WorkerCrash, Fault, RInv, SInv, ActiveRunIsServed
<1> QED
  BY <1>2, <1>3, <1>4 DEF SInv

LEMMA ServedProject ==
    ASSUME RInv, SInv, NEW r \in Runs, Project(r)
    PROVE  SInv'
<1>1. Latest' = Latest
  BY LatestStays DEF Project, RInv, rowVars
<1>2. Deleted'
  BY DEF Project, RInv, rowVars, apiVars, SInv, Deleted
<1>3. WaitingDocumentIsServed'
  BY <1>1 DEF Project, RInv, rowVars, apiVars, SInv, WaitingDocumentIsServed, Serves
<1>4. ActiveRunIsServed'
  BY DEF Project, RInv, rowVars, apiVars, SInv, ActiveRunIsServed
<1> QED
  BY <1>2, <1>3, <1>4 DEF SInv

LEMMA ServedDeletion ==
    ASSUME RInv, SInv, SoftDelete \/ Restore
    PROVE  SInv'
<1>1. /\ document'.status = document.status /\ hit \subseteq hit'
      /\ UNCHANGED <<runs, versions, chunks, announced, apiVars, workflows, attempts>>
  BY DEF SoftDelete, Restore, Fault, RInv, TypeOK
<1>2. Latest' = Latest
  BY <1>1, LatestStays
<1>3. Deleted'
  BY DEF SoftDelete, Restore, Fault, apiVars, RInv, SInv, Deleted
<1>4. WaitingDocumentIsServed' /\ ActiveRunIsServed'
  BY <1>1, <1>2 DEF apiVars, SInv, WaitingDocumentIsServed, Serves, ActiveRunIsServed
<1> QED
  BY <1>3, <1>4 DEF SInv

LEMMA ServedStays ==
    ASSUME RInv, SInv, [Next]_vars
    PROVE  SInv'
<1>1. ASSUME NEW r \in Runs, Reindex(r) \/ (\E p \in Runs : CheckRetry(r, p)) PROVE SInv'
  BY <1>1, ServedReindex, ServedCheckRetry
<1>2. ASSUME NEW r \in Runs, RequestStep(r) PROVE SInv'
  BY <1>2, ServedResetDocument, ServedReadLatest, ServedCreateRetry, ServedLoseNumber,
     ServedStartReturns, ServedStartReplyLost, ServedStartRefused, ServedMarkQueued,
     ServedMarkStartFailed, ServedRequestDies
     DEF RequestStep
<1>3. ASSUME NEW r \in Runs, LoadForCancel(r) \/ CancelStep(r) PROVE SInv'
  BY <1>3, ServedLoadForCancel, ServedTerminate, ServedTerminateRefused, ServedMarkCancelled,
     ServedCancelDies
     DEF CancelStep
<1>4. ASSUME NEW r \in Runs, AttemptStep(r) \/ Project(r) PROVE SInv'
  BY <1>4, ServedMarkRunning, ServedReplaceChunks, ServedEmbed, ServedComplete,
     ServedCompletionReplyLost, ServedFail, ServedFailUnrecorded, ServedWorkerCrash, ServedProject
     DEF AttemptStep
<1>5. CASE UNCHANGED vars
  <2>1. Latest' = Latest
    BY <1>5, LatestStays DEF vars, rowVars
  <2> QED
    BY <1>5, <2>1
       DEF vars, rowVars, apiVars, SInv, Deleted, WaitingDocumentIsServed, Serves, ActiveRunIsServed
<1> QED
  BY <1>1, <1>2, <1>3, <1>4, <1>5, ServedDeletion DEF Next

(***************************************************************************)
(* The theorems                                                            *)
(***************************************************************************)

\* The requests of the API, the attempts of ingest_document and the cancellations keep
\* the inductive invariant, however their blind writes interleave.
THEOREM RunsInvariant == Spec => []RInv
<1> QED
  BY InitRInv, RInvKept, PTL DEF Spec

\* Every variable has its type; a run that exists has a numbered version.
THEOREM RunsTypeCorrect == Spec => []TypeOK
<1>1. RInv => TypeOK
  BY DEF RInv
<1> QED
  BY <1>1, RunsInvariant, PTL

\* The blind writers of workflow_runs and document_versions (mark_workflow_run_queued,
\* mark_ingestion_*, cancel_workflow_run) never leave a run that contradicts its version.
THEOREM RowsAgree == Spec => []RunsAgreeWithVersions
<1>1. RInv => RunsAgreeWithVersions
  BY DEF RInv
<1> QED
  BY <1>1, RunsInvariant, PTL

\* A completed version has its embedded chunks and its outbox event, whatever attempt of
\* ingest_document is rewriting chunks.
THEOREM SearchableWhole == Spec => []SearchableVersionsAreWhole
<1>1. RInv => SearchableVersionsAreWhole
  BY DEF RInv
<1> QED
  BY <1>1, RunsInvariant, PTL

\* Whatever the rows show as in progress is being worked on, or a fault is to blame: the
\* invariant behind the two theorems below.
THEOREM RunsServed == Spec => []SInv
<1>1. Init => SInv
  BY DEF Init, SInv, Deleted, WaitingDocumentIsServed, ActiveRunIsServed, Active
<1>2. RInv /\ SInv /\ [Next]_vars => SInv'
  BY ServedStays
<1> QED
  BY <1>1, <1>2, RunsInvariant, PTL DEF Spec

\* A document is not left pending or running by the requests, attempts and cancellations
\* that write its status, unless one of them was cut off.
THEOREM DocumentServed == Spec => []WaitingDocumentIsServed
<1>1. SInv => WaitingDocumentIsServed
  BY DEF SInv
<1> QED
  BY <1>1, RunsServed, PTL

\* A run shown as active has somebody who will write it: reindex, retry or cancel, or an
\* attempt of ingest_document.
THEOREM RunServed == Spec => []ActiveRunIsServed
<1>1. SInv => ActiveRunIsServed
  BY DEF SInv
<1> QED
  BY <1>1, RunsServed, PTL

=============================================================================
