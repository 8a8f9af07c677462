------------------------ MODULE DataSourceSyncProofs ------------------------
(***************************************************************************)
(* Theorems about DataSourceSync, for any number of runs, attempts, imports,*)
(* pages and contents.                                                      *)
(*                                                                         *)
(* The first part needs only what the row remembers of the claims and holds *)
(* under every fault.  The second part adds the API request's knowledge: it *)
(* holds unless start_workflow can raise for a workflow that was started.   *)
(* The third part is type correctness and the numbering of versions, under  *)
(* every fault: COALESCE(MAX(version_number), 0) + 1 is a fresh number      *)
(* because the numbers in use are bounded, so that the maximum exists, and  *)
(* because each materialization computes it in the transaction that stores  *)
(* it.                                                                      *)
(*                                                                         *)
(* The other parts are about what attempts leave for each other.  Part 4    *)
(* says what a step of an attempt can be, once for all the invariants that  *)
(* follow.  Part 5, under every fault: the rows name who made them.  Part 6:*)
(* the cursor names a stored content, unless the page moves under a run.    *)
(* Part 7: what an attempt found stays as it found it, if attempts exclude  *)
(* each other.  Part 8: a completed run leaves nothing behind, if moreover  *)
(* nobody else moves the page or the cursor.  Each part's hypotheses name   *)
(* the faults under which TLC shows its property violated.                  *)
(***************************************************************************)
EXTENDS DataSourceSync, BoundedMaximum, TLAPS

LeaseTypes ==
    /\ leaseToken \in Runs \cup {NoRun}
    /\ runStatus \in [Runs -> RunStatuses]
    /\ starter \in [Runs -> {"idle", "starting", "failing", "returned"}]
    /\ workflow \in [Runs -> WorkflowSteps]
    /\ claimNo \in [Runs -> Nat]
    /\ claims \in Nat

-----------------------------------------------------------------------------
(* Part 1: fencing *)

\* The token is always the one of the latest claim.
TokenIsLatest ==
    \A r \in Runs : /\ claimNo[r] <= claims
                    /\ leaseToken = r => claimNo[r] = claims

FenceInv == LeaseTypes /\ TokenIsLatest

\* What every action but the claim does to the lease: it keeps the token or
\* clears it, and leaves the history alone.
LEMMA OnlyClaimsTakeTheToken ==
    ASSUME FenceInv, Next
    PROVE  \/ \E r \in Runs : ClaimSync(r)
           \/ /\ leaseToken' \in {leaseToken, NoRun}
              /\ UNCHANGED historyVars
<1> SUFFICES ASSUME ~\E r \in Runs : ClaimSync(r)
             PROVE  leaseToken' \in {leaseToken, NoRun} /\ UNCHANGED historyVars
    OBVIOUS
<1>1. ASSUME NEW r \in Runs, RequestStep(r)
      PROVE  leaseToken' \in {leaseToken, NoRun} /\ UNCHANGED historyVars
  BY <1>1 DEF RequestStep, StartWorkflow, StartWorkflowRaises, FailWorkflowStart,
              AbandonStart, sourceVars, historyVars
<1>2. ASSUME NEW r \in Runs, WorkflowStep(r)
      PROVE  leaseToken' \in {leaseToken, NoRun} /\ UNCHANGED historyVars
  BY <1>2 DEF WorkflowStep, IngestChild, ProjectDeletion, AllProjected, Finalize,
              FinalizeRefused, FailRun, sourceVars, historyVars
<1>3. ASSUME NEW r \in Runs, NEW k \in Attempts, PrepareStep(r, k)
      PROVE  leaseToken' \in {leaseToken, NoRun} /\ UNCHANGED historyVars
  BY <1>3 DEF PrepareStep, LoadContext, Discover, DiscoverRefused, FindItem,
              MarkUnchanged, MaterializeExisting, BeginInsert, MaterializeNew,
              Materialize, SnapshotDeletions, PrepareReturns, sourceVars, historyVars
<1>4. ASSUME NEW r \in Runs, NEW k \in Attempts, PrepareAttemptLost(r, k)
      PROVE  leaseToken' \in {leaseToken, NoRun} /\ UNCHANGED historyVars
  BY <1>4 DEF PrepareAttemptLost, sourceVars, historyVars
<1>5. ASSUME NEW i \in Imports, ImportStep(i)
      PROVE  leaseToken' \in {leaseToken, NoRun} /\ UNCHANGED historyVars
  BY <1>5 DEF ImportStep, ImportStart, ImportStore, ImportComplete, ImportFail,
              sourceVars, historyVars
<1>6. CASE LeaseExpires
  BY <1>6 DEF LeaseExpires, historyVars
<1>7. CASE PageChanges
  BY <1>7 DEF PageChanges, sourceVars, historyVars
<1> QED
  BY <1>1, <1>2, <1>3, <1>4, <1>5, <1>6, <1>7 DEF Next

\* What a status can become: only the claims start runs, only the fenced
\* finalization completes them.
LEMMA OnlyFencedRunsComplete ==
    ASSUME FenceInv, Next, NEW r \in Runs,
           runStatus[r] # "completed", runStatus'[r] = "completed"
    PROVE  leaseToken = r
<1>1. ASSUME NEW s \in Runs, ClaimSync(s)  PROVE FALSE
  BY <1>1 DEF ClaimSync, FenceInv, LeaseTypes, RunStatuses, WorkflowSteps, Superseded
<1>2. ASSUME NEW s \in Runs, RequestStep(s)  PROVE FALSE
  BY <1>2 DEF RequestStep, StartWorkflow, StartWorkflowRaises, FailWorkflowStart,
              AbandonStart, FenceInv, LeaseTypes, RunStatuses, WorkflowSteps
<1>3. ASSUME NEW s \in Runs, WorkflowStep(s)  PROVE leaseToken = r
  <2>1. CASE Finalize(s)
    BY <2>1 DEF Finalize, Fenced, FenceInv, LeaseTypes, RunStatuses, WorkflowSteps
  <2>2. CASE FailRun(s)
    BY <2>2 DEF FailRun, FailRunning, FenceInv, LeaseTypes, RunStatuses, WorkflowSteps
  <2> QED
    BY <1>3, <2>1, <2>2 DEF WorkflowStep, IngestChild, ProjectDeletion, AllProjected,
                            FinalizeRefused
<1>4. ASSUME NEW s \in Runs, NEW k \in Attempts, PrepareStep(s, k)  PROVE FALSE
  BY <1>4 DEF PrepareStep, LoadContext, Discover, DiscoverRefused, FindItem,
              MarkUnchanged, MaterializeExisting, BeginInsert, MaterializeNew,
              Materialize, SnapshotDeletions, PrepareReturns, runVars
<1>5. ASSUME NEW s \in Runs, NEW k \in Attempts, PrepareAttemptLost(s, k)  PROVE FALSE
  BY <1>5 DEF PrepareAttemptLost
<1>6. ASSUME NEW i \in Imports, ImportStep(i)  PROVE FALSE
  BY <1>6 DEF ImportStep, ImportStart, ImportStore, ImportComplete, ImportFail, runVars
<1>7. CASE LeaseExpires
  BY <1>7 DEF LeaseExpires, runVars
<1>8. CASE PageChanges
  BY <1>8 DEF PageChanges, runVars
<1> QED
  BY <1>1, <1>2, <1>3, <1>4, <1>5, <1>6, <1>7, <1>8 DEF Next

LEMMA LeaseTypesInductive ==
    ASSUME LeaseTypes, [Next]_vars  PROVE LeaseTypes'
<1> USE DEF LeaseTypes, RunStatuses, WorkflowSteps
<1>1. ASSUME NEW r \in Runs, ClaimSync(r)  PROVE LeaseTypes'
  BY <1>1 DEF ClaimSync, Superseded
<1>2. ASSUME NEW r \in Runs, RequestStep(r)  PROVE LeaseTypes'
  BY <1>2 DEF RequestStep, StartWorkflow, StartWorkflowRaises, FailWorkflowStart,
              AbandonStart, sourceVars, historyVars
<1>3. ASSUME NEW r \in Runs, WorkflowStep(r)  PROVE LeaseTypes'
  <2>1. CASE IngestChild(r)
    BY <2>1 DEF IngestChild, sourceVars, historyVars
  <2>2. CASE ProjectDeletion(r)
    BY <2>2 DEF ProjectDeletion, sourceVars, historyVars
  <2>3. CASE AllProjected(r)
    BY <2>3 DEF AllProjected, sourceVars, historyVars
  <2>4. CASE Finalize(r)
    BY <2>4 DEF Finalize, historyVars
  <2>5. CASE FinalizeRefused(r)
    BY <2>5 DEF FinalizeRefused, sourceVars, historyVars
  <2>6. CASE FailRun(r)
    BY <2>6 DEF FailRun, FailRunning, Fenced, historyVars
  <2> QED
    BY <1>3, <2>1, <2>2, <2>3, <2>4, <2>5, <2>6 DEF WorkflowStep
<1>4. ASSUME NEW r \in Runs, NEW k \in Attempts, PrepareStep(r, k)  PROVE LeaseTypes'
  BY <1>4 DEF PrepareStep, LoadContext, Discover, DiscoverRefused, FindItem,
              MarkUnchanged, MaterializeExisting, BeginInsert, MaterializeNew,
              Materialize, SnapshotDeletions, PrepareReturns, AbortPrepare,
              sourceVars, runVars, historyVars
<1>5. ASSUME NEW r \in Runs, NEW k \in Attempts, PrepareAttemptLost(r, k)
      PROVE  LeaseTypes'
  BY <1>5 DEF PrepareAttemptLost, sourceVars, historyVars
<1>6. ASSUME NEW i \in Imports, ImportStep(i)  PROVE LeaseTypes'
  BY <1>6 DEF ImportStep, ImportStart, ImportStore, ImportComplete, ImportFail,
              sourceVars, runVars, historyVars
<1>7. CASE LeaseExpires
  BY <1>7 DEF LeaseExpires, runVars, historyVars
<1>8. CASE PageChanges
  BY <1>8 DEF PageChanges, sourceVars, runVars, historyVars
<1>9. CASE UNCHANGED vars
  BY <1>9 DEF vars, sourceVars, runVars, historyVars
<1> QED
  BY <1>1, <1>2, <1>3, <1>4, <1>5, <1>6, <1>7, <1>8, <1>9 DEF Next

\* The fencing invariant holds in every reachable state.
THEOREM FencingInvariant == Spec => []FenceInv
<1>1. Init => FenceInv
  BY SyncConstants DEF Init, FenceInv, LeaseTypes, RunStatuses, WorkflowSteps, TokenIsLatest
<1>2. ASSUME FenceInv, [Next]_vars  PROVE FenceInv'
  <2>1. LeaseTypes'
    BY <1>2, LeaseTypesInductive DEF FenceInv
  <2>2. TokenIsLatest'
    <3>1. ASSUME NEW r \in Runs, ClaimSync(r)  PROVE TokenIsLatest'
      BY <1>2, <3>1 DEF ClaimSync, FenceInv, LeaseTypes, TokenIsLatest
    <3>2. ASSUME leaseToken' \in {leaseToken, NoRun}, UNCHANGED historyVars
          PROVE  TokenIsLatest'
      BY <1>2, <3>2, SyncConstants DEF FenceInv, LeaseTypes, TokenIsLatest, historyVars
    <3>3. CASE UNCHANGED vars
      BY <1>2, <3>3 DEF FenceInv, TokenIsLatest, vars, sourceVars, historyVars
    <3> QED
      BY <1>2, <3>1, <3>2, <3>3, OnlyClaimsTakeTheToken
  <2> QED
    BY <2>1, <2>2 DEF FenceInv
<1> QED
  BY <1>1, <1>2, PTL DEF Spec

\* A run that a later claim has overtaken never becomes completed: however
\* many attempts, workers and duplicated finalizations there are.
THEOREM StaleRunsNeverComplete == Spec => NoStaleCompletion
<1>1. ASSUME FenceInv, [Next]_vars, NEW r \in Runs, NEW s \in Runs,
             0 < claimNo[r], claimNo[r] < claimNo[s], runStatus[r] # "completed"
      PROVE  runStatus'[r] # "completed"
  <2>1. leaseToken # r
    BY <1>1 DEF FenceInv, LeaseTypes, TokenIsLatest
  <2>2. CASE Next
    BY <1>1, <2>1, <2>2, OnlyFencedRunsComplete
  <2>3. CASE UNCHANGED vars
    BY <1>1, <2>3 DEF vars, runVars
  <2> QED
    BY <1>1, <2>2, <2>3
<1>2. FenceInv /\ [Next]_vars
        => [\A r, s \in Runs : /\ 0 < claimNo[r] /\ claimNo[r] < claimNo[s]
                               /\ runStatus[r] # "completed"
                               => runStatus'[r] # "completed"]_vars
  BY <1>1
<1> QED
  BY <1>2, FencingInvariant, PTL DEF Spec, NoStaleCompletion

-----------------------------------------------------------------------------
(* Part 2: the lease excludes concurrent runs *)

\* A request still in progress owns a live lease and has no workflow yet; a run
\* nobody claimed has neither a status nor a workflow.
RequestOwnsLease ==
    \A r \in Runs :
        /\ starter[r] = "idle" => runStatus[r] = "none" /\ workflow[r] = "none"
        /\ starter[r] \in {"starting", "failing"} =>
              leaseToken = r /\ leaseLive /\ workflow[r] = "none"

LeaseInv == LeaseTypes /\ RequestOwnsLease /\ LeaseExclusive

ReliableStart == "lost_start_reply" \notin Faults

\* The steps outside the API keep the lease of a request in progress and touch
\* only workflows that were started.
LEMMA WorkersRespectRequests ==
    ASSUME LeaseInv, NEW r \in Runs, WorkflowStep(r)
    PROVE  LeaseExclusive' /\ RequestOwnsLease'
<1> USE DEF LeaseInv, LeaseTypes, RunStatuses, WorkflowSteps, LeaseExclusive, RequestOwnsLease
<1>1. CASE IngestChild(r)
  BY <1>1 DEF IngestChild, sourceVars
<1>2. CASE ProjectDeletion(r)
  BY <1>2 DEF ProjectDeletion, sourceVars
<1>3. CASE AllProjected(r)
  BY <1>3 DEF AllProjected, sourceVars
<1>4. CASE Finalize(r)
  BY <1>4, SyncConstants DEF Finalize, Fenced
<1>5. CASE FinalizeRefused(r)
  BY <1>5 DEF FinalizeRefused, sourceVars
<1>6. CASE FailRun(r)
  <2>1. CASE Fenced(r)
    BY <1>6, <2>1, SyncConstants DEF FailRun, FailRunning, Fenced
  <2>2. CASE ~Fenced(r)
    BY <1>6, <2>2 DEF FailRun, FailRunning, Fenced
  <2> QED
    BY <2>1, <2>2
<1> QED
  BY <1>1, <1>2, <1>3, <1>4, <1>5, <1>6 DEF WorkflowStep

\* The lease invariant, when a raised start_workflow means that nothing started.
THEOREM LeaseInvariant == ASSUME ReliableStart PROVE Spec => []LeaseInv
<1>1. Init => LeaseInv
  BY SyncConstants DEF Init, LeaseInv, LeaseTypes, RunStatuses, WorkflowSteps, LeaseExclusive,
                       RequestOwnsLease
<1>2. ASSUME LeaseInv, [Next]_vars  PROVE LeaseInv'
  <2> USE <1>2 DEF LeaseInv, LeaseTypes, RunStatuses, WorkflowSteps, LeaseExclusive, RequestOwnsLease
  <2>1. LeaseTypes'
    BY LeaseTypesInductive
  <2>2. ASSUME NEW r \in Runs, ClaimSync(r)  PROVE LeaseExclusive' /\ RequestOwnsLease'
    BY <2>2, SyncConstants DEF ClaimSync, Claimable, Superseded
  <2>3. ASSUME NEW r \in Runs, RequestStep(r)
        PROVE  LeaseExclusive' /\ RequestOwnsLease'
    <3>1. CASE StartWorkflow(r)
      BY <3>1 DEF StartWorkflow, sourceVars
    <3>2. CASE StartWorkflowRaises(r)
      BY <3>2 DEF StartWorkflowRaises, ReliableStart, sourceVars
    <3>3. CASE FailWorkflowStart(r)
      BY <3>3, SyncConstants DEF FailWorkflowStart
    <3>4. CASE AbandonStart(r)
      BY <3>4 DEF AbandonStart, sourceVars
    <3> QED
      BY <2>3, <3>1, <3>2, <3>3, <3>4 DEF RequestStep
  <2>4. ASSUME NEW r \in Runs, WorkflowStep(r)
        PROVE  LeaseExclusive' /\ RequestOwnsLease'
    BY <2>4, WorkersRespectRequests
  <2>5. ASSUME NEW r \in Runs, NEW k \in Attempts, PrepareStep(r, k)
        PROVE  LeaseExclusive' /\ RequestOwnsLease'
    <3>1. CASE LoadContext(r, k)
      BY <3>1 DEF LoadContext, AbortPrepare, Waiting, sourceVars
    <3>2. CASE DiscoverRefused(r, k)
      BY <3>2 DEF DiscoverRefused, AbortPrepare, Waiting, sourceVars
    <3>3. CASE PrepareReturns(r, k)
      BY <3>3 DEF PrepareReturns, Waiting, sourceVars
    <3>4. ASSUME UNCHANGED <<sourceVars, runVars>>
          PROVE  LeaseExclusive' /\ RequestOwnsLease'
      BY <3>4 DEF sourceVars, runVars
    <3> QED
      BY <2>5, <3>1, <3>2, <3>3, <3>4
         DEF PrepareStep, Discover, FindItem, MarkUnchanged, MaterializeExisting,
             BeginInsert, MaterializeNew, Materialize, SnapshotDeletions
  <2>6. ASSUME NEW r \in Runs, NEW k \in Attempts, PrepareAttemptLost(r, k)
        PROVE  LeaseExclusive' /\ RequestOwnsLease'
    BY <2>6 DEF PrepareAttemptLost, Waiting, sourceVars
  <2>7. ASSUME NEW i \in Imports, ImportStep(i)
        PROVE  LeaseExclusive' /\ RequestOwnsLease'
    BY <2>7 DEF ImportStep, ImportStart, ImportStore, ImportComplete, ImportFail,
                sourceVars, runVars
  <2>8. CASE LeaseExpires
    BY <2>1, <2>8 DEF LeaseExpires, runVars
  <2>9. CASE PageChanges
    BY <2>1, <2>9 DEF PageChanges, sourceVars, runVars
  <2>10. CASE UNCHANGED vars
    BY <2>1, <2>10 DEF vars, sourceVars, runVars
  <2> QED
    BY <2>1, <2>2, <2>3, <2>4, <2>5, <2>6, <2>7, <2>8, <2>9, <2>10 DEF Next
<1> QED
  BY <1>1, <1>2, PTL DEF Spec

\* No two runs of the source are ever running at once, and the running one is
\* the one whose token is on the row.
THEOREM LeaseExcludesConcurrentRuns ==
    ASSUME ReliableStart PROVE Spec => []LeaseExclusive
<1>1. LeaseInv => LeaseExclusive
  BY DEF LeaseInv
<1> QED
  BY <1>1, LeaseInvariant, PTL

\* Neither a late finalization, nor a failure handler, nor a superseding claim
\* changes the status of a run that is over.
THEOREM FinishedRunsAreFinal ==
    ASSUME ReliableStart PROVE Spec => FinishedRunsStayFinished
<1>1. ASSUME LeaseInv, Next, NEW r \in Runs, runStatus[r] \in {"completed", "failed"}
      PROVE  runStatus'[r] = runStatus[r]
  <2> USE <1>1 DEF LeaseInv, LeaseTypes, RunStatuses, WorkflowSteps, LeaseExclusive, RequestOwnsLease
  <2>1. ASSUME NEW s \in Runs, ClaimSync(s)  PROVE runStatus'[r] = runStatus[r]
    BY <2>1 DEF ClaimSync, Superseded
  <2>2. ASSUME NEW s \in Runs, RequestStep(s)  PROVE runStatus'[r] = runStatus[r]
    BY <2>2 DEF RequestStep, StartWorkflow, StartWorkflowRaises, FailWorkflowStart,
                AbandonStart
  <2>3. ASSUME NEW s \in Runs, WorkflowStep(s)  PROVE runStatus'[r] = runStatus[r]
    BY <2>3 DEF WorkflowStep, IngestChild, ProjectDeletion, AllProjected, Finalize,
                FinalizeRefused, FailRun, FailRunning, Fenced
  <2>4. ASSUME NEW s \in Runs, NEW k \in Attempts, PrepareStep(s, k)
        PROVE  runStatus'[r] = runStatus[r]
    BY <2>4 DEF PrepareStep, LoadContext, Discover, DiscoverRefused, FindItem,
                MarkUnchanged, MaterializeExisting, BeginInsert, MaterializeNew,
                Materialize, SnapshotDeletions, PrepareReturns, runVars
  <2>5. ASSUME NEW s \in Runs, NEW k \in Attempts, PrepareAttemptLost(s, k)
        PROVE  runStatus'[r] = runStatus[r]
    BY <2>5 DEF PrepareAttemptLost
  <2>6. ASSUME NEW i \in Imports, ImportStep(i)  PROVE runStatus'[r] = runStatus[r]
    BY <2>6 DEF ImportStep, ImportStart, ImportStore, ImportComplete, ImportFail, runVars
  <2>7. CASE LeaseExpires
    BY <2>7 DEF LeaseExpires, runVars
  <2>8. CASE PageChanges
    BY <2>8 DEF PageChanges, runVars
  <2> QED
    BY <2>1, <2>2, <2>3, <2>4, <2>5, <2>6, <2>7, <2>8 DEF Next
<1>2. LeaseInv /\ [Next]_vars
        => [\A r \in Runs : runStatus[r] \in {"completed", "failed"}
               => runStatus'[r] = runStatus[r]]_vars
  BY <1>1
<1> QED
  BY <1>2, LeaseInvariant, PTL DEF Spec, FinishedRunsStayFinished

-----------------------------------------------------------------------------
(* Part 3: the refinement *)

\* A step of the synchronization is a step of the abstract lease or leaves it alone.
LEMMA StepsRefine ==
    ASSUME ReliableStart, LeaseInv, Next
    PROVE  Lease!Next \/ UNCHANGED <<leaseToken, runStatus>>
<1> USE DEF LeaseInv, LeaseTypes, RunStatuses, WorkflowSteps, LeaseExclusive, RequestOwnsLease
<1> DEFINE Stutter == UNCHANGED <<leaseToken, runStatus>>
<1>1. ASSUME NEW r \in Runs, ClaimSync(r)  PROVE Lease!Next
  <2>1. CASE leaseToken = NoRun
    <3>1. Lease!Acquire(r)
      BY <1>1, <2>1 DEF ClaimSync, Superseded, Lease!Acquire
    <3> QED
      BY <3>1 DEF Lease!Next
  <2>2. CASE leaseToken # NoRun
    <3>1. runStatus' = [runStatus EXCEPT ![leaseToken] = "failed", ![r] = "running"]
      BY <1>1, <2>2 DEF ClaimSync, Superseded
    <3>2. Lease!Seize(r)
      BY <1>1, <2>2, <3>1 DEF ClaimSync, Lease!Seize
    <3> QED
      BY <3>2 DEF Lease!Next
  <2> QED
    BY <2>1, <2>2
<1>2. ASSUME NEW r \in Runs, RequestStep(r)  PROVE Lease!Next \/ Stutter
  <2>1. CASE FailWorkflowStart(r)
    <3>1. Lease!Release(r, "failed")
      BY <2>1 DEF FailWorkflowStart, Lease!Release
    <3> QED
      BY <3>1 DEF Lease!Next
  <2> QED
    BY <1>2, <2>1 DEF RequestStep, StartWorkflow, StartWorkflowRaises, AbandonStart, sourceVars
<1>3. ASSUME NEW r \in Runs, WorkflowStep(r)  PROVE Lease!Next \/ Stutter
  <2>1. CASE Finalize(r)
    <3>1. Lease!Release(r, "completed")
      BY <2>1 DEF Finalize, Fenced, Lease!Release
    <3> QED
      BY <3>1 DEF Lease!Next
  <2>2. CASE FailRun(r) /\ Fenced(r)
    <3>1. Lease!Release(r, "failed")
      BY <2>2 DEF FailRun, FailRunning, Fenced, Lease!Release
    <3> QED
      BY <3>1 DEF Lease!Next
  <2>3. CASE FailRun(r) /\ ~Fenced(r)
    <3>1. runStatus[r] # "running" /\ UNCHANGED leaseToken
      BY <2>3 DEF FailRun, Fenced
    <3>2. runStatus' = runStatus
      BY <2>3, <3>1 DEF FailRun, FailRunning
    <3> QED
      BY <3>1, <3>2
  <2> QED
    BY <1>3, <2>1, <2>2, <2>3
       DEF WorkflowStep, IngestChild, ProjectDeletion, AllProjected, FinalizeRefused, sourceVars
<1>4. ASSUME NEW r \in Runs, NEW k \in Attempts, PrepareStep(r, k)  PROVE Stutter
  BY <1>4 DEF PrepareStep, LoadContext, Discover, DiscoverRefused, FindItem,
              MarkUnchanged, MaterializeExisting, BeginInsert, MaterializeNew,
              Materialize, SnapshotDeletions, PrepareReturns, sourceVars, runVars
<1>5. ASSUME NEW r \in Runs, NEW k \in Attempts, PrepareAttemptLost(r, k)  PROVE Stutter
  BY <1>5 DEF PrepareAttemptLost, sourceVars
<1>6. ASSUME NEW i \in Imports, ImportStep(i)  PROVE Stutter
  BY <1>6 DEF ImportStep, ImportStart, ImportStore, ImportComplete, ImportFail,
              sourceVars, runVars
<1>7. CASE LeaseExpires
  BY <1>7 DEF LeaseExpires, runVars
<1>8. CASE PageChanges
  BY <1>8 DEF PageChanges, sourceVars, runVars
<1> QED
  BY <1>1, <1>2, <1>3, <1>4, <1>5, <1>6, <1>7, <1>8 DEF Next

\* Synchronization implements the exclusive lease, for any number of runs, attempts and
\* imports and under every fault but a lost start reply.
THEOREM SynchronizationIsALease == ASSUME ReliableStart PROVE Spec => ImplementsLease
<1>1. Init => Lease!Init
  BY DEF Init, Lease!Init
<1>2. LeaseInv /\ [Next]_vars => [Lease!Next]_<<leaseToken, runStatus>>
  <2>1. ASSUME UNCHANGED vars  PROVE UNCHANGED <<leaseToken, runStatus>>
    BY <2>1 DEF vars, sourceVars, runVars
  <2> QED
    BY <2>1, StepsRefine
<1> QED
  BY <1>1, <1>2, LeaseInvariant, PTL DEF Spec, ImplementsLease, Lease!Spec, Lease!leaseVars

-----------------------------------------------------------------------------
(* Part 3: type correctness and the numbering of versions *)

\* An attempt past the connector knows where the page it found is.
FoundPages ==
    \A r \in Runs, k \in Attempts :
        prep[r][k].pc \in {"discovered", "unchanged", "changed", "insert", "deletions"}
            => prep[r][k].page \in [url : Urls, content : Contents]

\* Jobs name versions that exist, events are in the outbox.
JobsExist ==
    /\ \A r \in Runs, k \in Attempts :
          /\ prep[r][k].job # NoVersion => versions[prep[r][k].job].status # "absent"
          /\ prep[r][k].events \subseteq outbox
    /\ \A r \in Runs :
          /\ prepared[r].job # NoVersion => versions[prepared[r].job].status # "absent"
          /\ prepared[r].events \subseteq outbox

\* Rows that exist name a document.
RowsNameDocuments ==
    /\ \A v \in VersionIds : versions[v].status = "absent" => versions[v].doc = NoVersion
    /\ \A u \in Urls : IF items[u].status = "absent" THEN items[u].changed = NoRun
                                                     ELSE items[u].doc \in VersionIds

\* An item found unchanged is never removed.
UnchangedRowsExist ==
    \A r \in Runs, k \in Attempts :
        prep[r][k].pc = "unchanged" => items[prep[r][k].page.url].status # "absent"

NumbersBounded == \E b \in Nat : \A v \in VersionIds : versions[v].number <= b

SyncInv == /\ TypeOK /\ FoundPages /\ JobsExist /\ RowsNameDocuments
           /\ UnchangedRowsExist /\ NumbersBounded /\ VersionNumbersDistinct

\* The next number of a document is larger than all it has.
LEMMA CursorFacts ==
    /\ NoContent \in Cursors /\ Contents \subseteq Cursors
    /\ \A c \in Contents \cup {NoContent} : Bare(c) \in Cursors
BY DEF Cursors, Bare, NoContent

LEMMA NextNumberIsFresh ==
    ASSUME TypeOK, NumbersBounded, NEW doc
    PROVE  /\ NextNumber(doc) \in Nat
           /\ \A v \in VersionsOf(doc) : versions[v].number < NextNumber(doc)
<1> DEFINE S == {0} \cup {versions[v].number : v \in VersionsOf(doc)}
<1>1. PICK b \in Nat : \A v \in VersionIds : versions[v].number <= b
  BY DEF NumbersBounded
<1>2. \A v \in VersionIds : versions[v].number \in Nat
  BY DEF TypeOK, VersionRows
<1>3. S \subseteq Nat /\ S # {} /\ 0 \in S /\ \A x \in S : x <= b
  BY <1>1, <1>2 DEF VersionsOf
<1>4. Max(S) \in S /\ \A x \in S : x <= Max(S)
  <2> HIDE DEF S
  <2> QED
    BY <1>3, MaxOfBounded
<1>5. NextNumber(doc) = 1 + Max(S)
  BY DEF NextNumber
<1>6. \A v \in VersionsOf(doc) : versions[v].number \in S
  OBVIOUS
<1>7. Max(S) \in Nat /\ NextNumber(doc) = 1 + Max(S)
  BY <1>3, <1>4, <1>5
<1>8. ASSUME NEW v \in VersionsOf(doc)  PROVE versions[v].number < NextNumber(doc)
  <2>1. versions[v].number \in S
    BY <1>6
  <2> HIDE DEF S
  <2>2. versions[v].number <= Max(S) /\ versions[v].number \in Nat
    BY <1>3, <1>4, <2>1
  <2> QED
    BY <1>7, <2>2
<1>9. NextNumber(doc) \in Nat
  <2> HIDE DEF S
  <2> QED
    BY <1>7
<1> QED
  BY <1>8, <1>9

\* A materialization for a document keeps the invariant.
LEMMA MaterializeKeepsInv ==
    ASSUME SyncInv, NEW r \in Runs, NEW k \in Attempts, NEW doc \in VersionIds,
           prep[r][k].pc \in {"changed", "insert"}, Materialize(r, k, doc)
    PROVE  SyncInv'
<1> DEFINE n == NextNumber(doc)
           p == prep[r][k].page
<1>1. /\ n \in Nat
      /\ \A v \in VersionsOf(doc) : versions[v].number < n
  BY NextNumberIsFresh DEF SyncInv
<1>2. p \in [url : Urls, content : Contents]
  BY DEF SyncInv, FoundPages
<1>3. /\ versions' = [versions EXCEPT ![<<r, k>>] =
             [status |-> "pending", doc |-> doc, content |-> p.content, number |-> n]]
      /\ deletedDocs' = deletedDocs \ {doc}
      /\ items' = [items EXCEPT ![p.url] =
             [status |-> "active", content |-> p.content, doc |-> doc,
              seen |-> r, changed |-> r]]
      /\ prep' = [prep EXCEPT ![r][k] =
                     [prep[r][k] EXCEPT !.pc = "deletions", !.job = <<r, k>>]]
      /\ UNCHANGED <<page, sourceVars, runVars, attempt, prepared, outboxVars,
                     imports, historyVars>>
  BY DEF Materialize, SetPrep
<1> HIDE DEF n
<1>4. <<r, k>> \in VersionIds /\ <<r, k>> # NoVersion
  BY SyncConstants DEF VersionIds, Attempts
<1>5. versions' \in [VersionIds -> VersionRows]
  BY <1>1, <1>2, <1>3, <1>4 DEF SyncInv, TypeOK, VersionRows
<1>6. items' \in [Urls -> ItemRows]
  BY <1>2, <1>3 DEF SyncInv, TypeOK, ItemRows
<1>7. prep' \in [Runs -> [Attempts -> PrepStates]]
  <2>1. [prep[r][k] EXCEPT !.pc = "deletions", !.job = <<r, k>>] \in PrepStates
    <3>1. prep[r][k] \in PrepStates
      BY DEF SyncInv, TypeOK
    <3> QED
      BY <1>4, <3>1 DEF PrepStates, PrepPcs
  <2> QED
    BY <1>3, <2>1 DEF SyncInv, TypeOK
<1>8. TypeOK'
  BY <1>3, <1>5, <1>6, <1>7 DEF SyncInv, TypeOK, sourceVars, runVars, outboxVars, historyVars
<1>9. FoundPages'
  BY <1>2, <1>3 DEF SyncInv, TypeOK, FoundPages, PrepStates
<1>10. JobsExist'
  <2>1. \A v \in VersionIds : versions[v].status # "absent" => versions'[v].status # "absent"
    BY <1>3, <1>4 DEF SyncInv, TypeOK
  <2>2. versions'[<<r, k>>].status # "absent"
    BY <1>3, <1>4 DEF SyncInv, TypeOK
  <2>3. \A s \in Runs, j \in Attempts :
           /\ prep'[s][j].job = prep[s][j].job \/ prep'[s][j].job = <<r, k>>
           /\ prep'[s][j].events = prep[s][j].events
           /\ prep[s][j].job \in VersionIds \cup {NoVersion}
    BY <1>3 DEF SyncInv, TypeOK, PrepStates
  <2>4. \A s \in Runs : prepared[s].job \in VersionIds \cup {NoVersion}
    BY DEF SyncInv, TypeOK, PrepareResults
  <2> QED
    BY <1>3, <2>1, <2>2, <2>3, <2>4 DEF SyncInv, JobsExist, outboxVars
<1>11. RowsNameDocuments'
  BY <1>2, <1>3, <1>4 DEF SyncInv, TypeOK, RowsNameDocuments, VersionRows, ItemRows
<1>12. NumbersBounded'
  <2>1. PICK b \in Nat : \A v \in VersionIds : versions[v].number <= b
    BY DEF SyncInv, NumbersBounded
  <2>2. \A v \in VersionIds : versions'[v].number <= b + n
    BY <1>1, <1>3, <2>1 DEF SyncInv, TypeOK, VersionRows
  <2> QED
    BY <1>1, <2>1, <2>2 DEF NumbersBounded
<1>13. VersionNumbersDistinct'
  <2> SUFFICES ASSUME NEW v \in VersionIds, NEW w \in VersionIds, v # w,
                      versions'[v].status # "absent", versions'[w].status # "absent",
                      versions'[v].doc = versions'[w].doc
               PROVE  versions'[v].number # versions'[w].number
    BY DEF VersionNumbersDistinct
  <2>1. ASSUME NEW x \in VersionIds, x # <<r, k>>, versions[x].doc = doc
        PROVE  versions[x].number < n /\ versions[x].number \in Nat
    BY <1>1, <2>1 DEF VersionsOf, SyncInv, TypeOK, VersionRows
  <2>2. CASE v = <<r, k>>
    BY <1>1, <1>3, <1>4, <2>1, <2>2 DEF SyncInv, TypeOK
  <2>3. CASE w = <<r, k>>
    BY <1>1, <1>3, <1>4, <2>1, <2>3 DEF SyncInv, TypeOK
  <2>4. CASE v # <<r, k>> /\ w # <<r, k>>
    BY <1>3, <2>4 DEF SyncInv, TypeOK, VersionNumbersDistinct
  <2> QED
    BY <2>2, <2>3, <2>4
<1>14. UnchangedRowsExist'
  <2>1. \A u \in Urls : items[u].status # "absent" => items'[u].status # "absent"
    BY <1>2, <1>3 DEF SyncInv, TypeOK
  <2>2. \A s \in Runs, j \in Attempts :
           prep'[s][j].pc = "unchanged" => prep'[s][j] = prep[s][j]
    BY <1>3 DEF SyncInv, TypeOK, PrepStates
  <2> QED
    BY <2>1, <2>2 DEF SyncInv, UnchangedRowsExist, FoundPages
<1> QED
  BY <1>8, <1>9, <1>10, <1>11, <1>12, <1>13, <1>14 DEF SyncInv

-----------------------------------------------------------------------------
(* The steps of a prepare attempt *)

\* What an attempt may become without breaking the invariant.
Sound(p) ==
    /\ p \in PrepStates
    /\ p.pc \in {"discovered", "unchanged", "changed", "insert", "deletions"}
          => p.page \in [url : Urls, content : Contents]
    /\ p.job # NoVersion => versions[p.job].status # "absent"
    /\ p.pc = "unchanged" => items[p.page.url].status # "absent"

LEMMA SetPrepKeepsInv ==
    ASSUME SyncInv, NEW r \in Runs, NEW k \in Attempts, NEW p, SetPrep(r, k, p),
           Sound(p), p.events \subseteq outbox', outbox \subseteq outbox',
           UNCHANGED <<versions, prepared>>
    PROVE  /\ prep' \in [Runs -> [Attempts -> PrepStates]]
           /\ FoundPages' /\ JobsExist'
           /\ UNCHANGED items => UnchangedRowsExist'
<1>1. prep' = [prep EXCEPT ![r][k] = p]
  BY DEF SetPrep
<1>2. prep \in [Runs -> [Attempts -> PrepStates]]
  BY DEF SyncInv, TypeOK
<1>3. prep' \in [Runs -> [Attempts -> PrepStates]]
  BY <1>1, <1>2 DEF Sound
<1>4. \A s \in Runs, j \in Attempts : prep'[s][j] = IF s = r /\ j = k THEN p ELSE prep[s][j]
  BY <1>1, <1>2
<1>5. FoundPages'
  BY <1>4 DEF SyncInv, FoundPages, Sound
<1>6. JobsExist'
  BY <1>4 DEF SyncInv, JobsExist, Sound
<1>7. ASSUME UNCHANGED items  PROVE UnchangedRowsExist'
  BY <1>4, <1>7 DEF SyncInv, UnchangedRowsExist, Sound
<1> QED
  BY <1>3, <1>5, <1>6, <1>7

LEMMA DeadPrepIsSound == Sound(DeadPrep) /\ DeadPrep.events = {}
BY CursorFacts DEF Sound, DeadPrep, IdlePrep, PrepStates, PrepPcs, NoPage

\* An attempt's state is sound already.
LEMMA PrepIsSound ==
    ASSUME SyncInv, NEW r \in Runs, NEW k \in Attempts
    PROVE  Sound(prep[r][k]) /\ prep[r][k].events \subseteq outbox
BY DEF SyncInv, TypeOK, FoundPages, JobsExist, UnchangedRowsExist, Sound

\* Moving on keeps it so, if the page was found before or is found now.
LEMMA GotoIsSound ==
    ASSUME SyncInv, NEW r \in Runs, NEW k \in Attempts, NEW pc \in PrepPcs,
           prep[r][k].page \in [url : Urls, content : Contents],
           pc = "unchanged" => items[prep[r][k].page.url].status # "absent"
    PROVE  LET p == [prep[r][k] EXCEPT !.pc = pc]
           IN  Sound(p) /\ p.events \subseteq outbox
<1>1. Sound(prep[r][k]) /\ prep[r][k].events \subseteq outbox
  BY PrepIsSound
<1> QED
  BY <1>1 DEF Sound, PrepStates

\* Everything else in the invariant is about variables such a step leaves alone.
LEMMA OnlyPrepChanges ==
    ASSUME SyncInv, prep' \in [Runs -> [Attempts -> PrepStates]], FoundPages', JobsExist',
           UnchangedRowsExist',
           workflow' \in [Runs -> WorkflowSteps],
           UNCHANGED <<page, sourceVars, runStatus, starter, attempt, prepared,
                       contentVars, outboxVars, imports, historyVars>>
    PROVE  SyncInv'
BY DEF SyncInv, TypeOK, RowsNameDocuments, NumbersBounded, VersionNumbersDistinct,
       VersionsOf, sourceVars, contentVars, outboxVars, historyVars

\* An attempt that only moves its own state keeps the invariant.
LEMMA QuietStepKeepsInv ==
    ASSUME SyncInv, NEW r \in Runs, NEW k \in Attempts, NEW p, SetPrep(r, k, p),
           Sound(p), p.events \subseteq outbox,
           workflow' \in [Runs -> WorkflowSteps],
           UNCHANGED <<page, sourceVars, runStatus, starter, attempt, prepared,
                       contentVars, outboxVars, imports, historyVars>>
    PROVE  SyncInv'
<1>1. UNCHANGED <<versions, prepared, items>> /\ outbox' = outbox
  BY DEF contentVars, outboxVars
<1>2. /\ prep' \in [Runs -> [Attempts -> PrepStates]]
      /\ FoundPages' /\ JobsExist' /\ UnchangedRowsExist'
  BY <1>1, SetPrepKeepsInv
<1> QED
  BY <1>2, OnlyPrepChanges

LEMMA AbortKeepsInv ==
    ASSUME SyncInv, NEW r \in Runs, NEW k \in Attempts, AbortPrepare(r, k),
           UNCHANGED <<page, sourceVars, runStatus, starter, attempt, prepared,
                       contentVars, outboxVars, imports, historyVars>>
    PROVE  SyncInv'
<1>1. SetPrep(r, k, DeadPrep)
  BY DEF AbortPrepare
<1>2. workflow' \in [Runs -> WorkflowSteps]
  BY DEF AbortPrepare, SyncInv, TypeOK, WorkflowSteps
<1>3. DeadPrep.events \subseteq outbox
  BY DeadPrepIsSound
<1> QED
  BY <1>1, <1>2, <1>3, DeadPrepIsSound, QuietStepKeepsInv

LEMMA LoadContextKeepsInv ==
    ASSUME SyncInv, NEW r \in Runs, NEW k \in Attempts, LoadContext(r, k)
    PROVE  SyncInv'
<1> DEFINE p == [prep[r][k] EXCEPT !.pc = "loaded", !.prior = syncCursor]
<1>1. CASE AbortPrepare(r, k)
  BY <1>1, AbortKeepsInv DEF LoadContext
<1>2. CASE SetPrep(r, k, p) /\ UNCHANGED workflow
  <2>1. prep[r][k] \in PrepStates /\ syncCursor \in Cursors
    BY DEF SyncInv, TypeOK
  <2>2. Sound(prep[r][k]) /\ prep[r][k].events \subseteq outbox
    BY PrepIsSound
  <2>3. Sound(p) /\ p.events \subseteq outbox
    BY <2>1, <2>2 DEF Sound, PrepStates, PrepPcs
  <2>4. workflow' \in [Runs -> WorkflowSteps]
    BY <1>2 DEF SyncInv, TypeOK
  <2> HIDE DEF p
  <2> QED
    BY <1>2, <2>3, <2>4, QuietStepKeepsInv DEF LoadContext
<1> QED
  BY <1>1, <1>2 DEF LoadContext

LEMMA DiscoverKeepsInv ==
    ASSUME SyncInv, NEW r \in Runs, NEW k \in Attempts, Discover(r, k)
    PROVE  SyncInv'
<1> DEFINE empty(c) == [prep[r][k] EXCEPT !.pc = "ready", !.page = EmptyPage(c)]
           found    == [prep[r][k] EXCEPT !.pc = "discovered", !.page = page]
<1>1. prep[r][k] \in PrepStates /\ page \in [url : Urls, content : Contents]
  BY DEF SyncInv, TypeOK
<1>2. Sound(prep[r][k]) /\ prep[r][k].events \subseteq outbox
  BY PrepIsSound
<1>3. \A c \in Cursors : Sound(empty(c)) /\ empty(c).events \subseteq outbox
  BY <1>1, <1>2 DEF Sound, PrepStates, PrepPcs, EmptyPage
<1>4. Sound(found) /\ found.events \subseteq outbox
  BY <1>1, <1>2, CursorFacts DEF Sound, PrepStates, PrepPcs
<1>5. (\E c \in Cursors : SetPrep(r, k, empty(c))) \/ SetPrep(r, k, found)
  <2>1. prep[r][k].prior \in Cursors /\ page.content \in Cursors
    BY <1>1, CursorFacts DEF PrepStates
  <2> QED
    BY <2>1 DEF Discover
<1>6. /\ workflow' \in [Runs -> WorkflowSteps]
      /\ UNCHANGED <<page, sourceVars, runStatus, starter, attempt, prepared,
                     contentVars, outboxVars, imports, historyVars>>
  BY DEF Discover, runVars, SyncInv, TypeOK
<1> HIDE DEF empty, found
<1> QED
  BY <1>3, <1>4, <1>5, <1>6, QuietStepKeepsInv

LEMMA FindItemKeepsInv ==
    ASSUME SyncInv, NEW r \in Runs, NEW k \in Attempts, FindItem(r, k)
    PROVE  SyncInv'
<1>1. /\ workflow' \in [Runs -> WorkflowSteps]
      /\ UNCHANGED <<page, sourceVars, runStatus, starter, attempt, prepared,
                     contentVars, outboxVars, imports, historyVars>>
  BY DEF FindItem, runVars, SyncInv, TypeOK
<1>2. prep[r][k].page \in [url : Urls, content : Contents] /\ prep[r][k] \in PrepStates
  <2>1. prep[r][k].page \in [url : Urls, content : Contents]
    BY DEF FindItem, At, SyncInv, FoundPages
  <2>2. prep[r][k] \in PrepStates
    BY DEF SyncInv, TypeOK
  <2> QED
    BY <2>1, <2>2
<1>3. ASSUME NEW v \in Recoverable(r, items[prep[r][k].page.url]),
             SetPrep(r, k, [prep[r][k] EXCEPT !.pc = "deletions", !.job = v])
      PROVE  SyncInv'
  <2> DEFINE p == [prep[r][k] EXCEPT !.pc = "deletions", !.job = v]
             item == items[prep[r][k].page.url]
  <2>1. v \in VersionIds /\ versions[v].doc = item.doc /\ item.changed = r
    BY <1>3 DEF Recoverable, VersionsOf
  <2>2. item \in ItemRows
    BY <1>2 DEF SyncInv, TypeOK
  <2>3. PICK u \in Urls : item = items[u]
    BY <1>2
  <2>4. versions[v].status # "absent"
    BY <2>1, <2>3, SyncConstants DEF SyncInv, RowsNameDocuments, VersionIds, Attempts
  <2>5. Sound(prep[r][k]) /\ prep[r][k].events \subseteq outbox
    BY PrepIsSound
  <2>6. Sound(p) /\ p.events \subseteq outbox
    BY <1>2, <2>1, <2>4, <2>5 DEF Sound, PrepStates, PrepPcs
  <2> HIDE DEF p
  <2> QED
    BY <1>1, <1>3, <2>6, QuietStepKeepsInv DEF p
<1>4. ASSUME NEW pc \in {"unchanged", "changed"}, Goto(r, k, pc),
             pc = "unchanged" => items[prep[r][k].page.url].status = "active"
      PROVE  SyncInv'
  <2> DEFINE p == [prep[r][k] EXCEPT !.pc = pc]
  <2>1. Sound(p) /\ p.events \subseteq outbox
    BY <1>2, <1>4, GotoIsSound DEF PrepPcs
  <2>2. SetPrep(r, k, p)
    BY <1>4 DEF Goto
  <2> HIDE DEF p
  <2> QED
    BY <1>1, <2>1, <2>2, QuietStepKeepsInv
<1> DEFINE found == prep[r][k].page
           item  == items[found.url]
           next  == IF item.status = "active" /\ Unchanged(item.content, found.content)
                    THEN "unchanged" ELSE "changed"
<1>5. \/ \E v \in Recoverable(r, item) :
            SetPrep(r, k, [prep[r][k] EXCEPT !.pc = "deletions", !.job = v])
      \/ Goto(r, k, next)
  BY DEF FindItem
<1>6. next \in {"unchanged", "changed"} /\ (next = "unchanged" => item.status = "active")
  OBVIOUS
<1>7. CASE Goto(r, k, next)
  <2> HIDE DEF next
  <2> QED
    BY <1>4, <1>6, <1>7
<1> QED
  BY <1>3, <1>5, <1>7

LEMMA MarkUnchangedKeepsInv ==
    ASSUME SyncInv, NEW r \in Runs, NEW k \in Attempts, MarkUnchanged(r, k)
    PROVE  SyncInv'
<1> DEFINE found == prep[r][k].page
           row   == [items[found.url] EXCEPT !.status = "active",
                           !.content = found.content, !.seen = r]
<1>1. /\ found \in [url : Urls, content : Contents]
      /\ items[found.url].status # "absent"
  BY DEF MarkUnchanged, At, SyncInv, FoundPages, UnchangedRowsExist
<1>2. items' = [items EXCEPT ![found.url] = row] /\ items \in [Urls -> ItemRows]
  BY DEF MarkUnchanged, SyncInv, TypeOK
<1>row. /\ row \in ItemRows /\ row.status = "active"
      /\ row.doc = items[found.url].doc /\ row.changed = items[found.url].changed
  <2>1. items[found.url] \in ItemRows
    BY <1>1, <1>2
  <2> QED
    BY <1>1, <2>1 DEF ItemRows
<1> HIDE DEF row
<1>3. \A u \in Urls : /\ items'[u].status = IF u = found.url THEN "active"
                                             ELSE items[u].status
                      /\ items'[u].doc = items[u].doc
                      /\ items'[u].changed = items[u].changed
  BY <1>row, <1>1, <1>2
<1>4. items' \in [Urls -> ItemRows]
  BY <1>row, <1>1, <1>2
<1>6. UNCHANGED <<versions, prepared>> /\ outbox' = outbox
  BY DEF MarkUnchanged, outboxVars
<1>5. RowsNameDocuments'
  <2>1. RowsNameDocuments
    BY DEF SyncInv
  <2> HIDE DEF found
  <2> QED
    BY <2>1, <1>1, <1>3, <1>6 DEF RowsNameDocuments
<1> DEFINE p == [prep[r][k] EXCEPT !.pc = "deletions"]
<1>7. Sound(p) /\ p.events \subseteq outbox
  BY <1>1, GotoIsSound DEF PrepPcs
<1>8. SetPrep(r, k, p)
  BY DEF MarkUnchanged, Goto
<1> HIDE DEF p
<1>9. prep' \in [Runs -> [Attempts -> PrepStates]] /\ FoundPages' /\ JobsExist'
  BY <1>6, <1>7, <1>8, SetPrepKeepsInv
<1>10. UnchangedRowsExist'
  <2>1. \A s \in Runs, j \in Attempts :
           prep'[s][j].pc = "unchanged" => prep'[s][j] = prep[s][j]
    BY <1>8 DEF p, SetPrep, SyncInv, TypeOK, PrepStates
  <2> QED
    BY <1>3, <2>1 DEF SyncInv, UnchangedRowsExist, FoundPages
<1>11. TypeOK'
  BY <1>4, <1>9 DEF MarkUnchanged, SyncInv, TypeOK, sourceVars, runVars, outboxVars,
                   historyVars
<1>12. NumbersBounded' /\ VersionNumbersDistinct'
  BY <1>6 DEF SyncInv, NumbersBounded, VersionNumbersDistinct
<1> QED
  BY <1>5, <1>9, <1>10, <1>11, <1>12 DEF SyncInv

LEMMA SnapshotDeletionsKeepsInv ==
    ASSUME SyncInv, NEW r \in Runs, NEW k \in Attempts, SnapshotDeletions(r, k)
    PROVE  SyncInv'
<1> DEFINE docs   == {items[u].doc : u \in Unseen(r)}
           events == {e \in outbox : e[1] = r} \cup {<<r, d>> : d \in docs}
           p      == [prep[r][k] EXCEPT !.pc = "ready", !.events = events]
<1>1. docs \subseteq VersionIds
  BY DEF Unseen, SyncInv, RowsNameDocuments
<1>2. events \subseteq Runs \X VersionIds
  BY <1>1 DEF SyncInv, TypeOK
<1>3. /\ deletedDocs' = deletedDocs \cup docs
      /\ outbox' = outbox \cup events
      /\ SetPrep(r, k, p)
      /\ items' = [u \in Urls |-> IF u \in Unseen(r)
                                 THEN [items[u] EXCEPT !.status = "deleted"] ELSE items[u]]
      /\ UNCHANGED <<page, sourceVars, runVars, attempt, prepared, versions, projected,
                     imports, historyVars>>
  BY DEF SnapshotDeletions, Recorded
<1> HIDE DEF docs, events
<1>4. Sound(prep[r][k]) /\ prep[r][k] \in PrepStates
  BY PrepIsSound DEF SyncInv, TypeOK
<1>5. Sound(p) /\ p.events = events
  BY <1>2, <1>4 DEF Sound, PrepStates, PrepPcs
<1>6. prep' \in [Runs -> [Attempts -> PrepStates]] /\ FoundPages' /\ JobsExist'
  <2> HIDE DEF p
  <2> QED
    BY <1>3, <1>5, SetPrepKeepsInv
<1>7. \A u \in Urls : /\ items[u].status = "absent" <=> items'[u].status = "absent"
                      /\ items'[u].doc = items[u].doc
                      /\ items'[u].changed = items[u].changed
  BY <1>3 DEF SyncInv, TypeOK, ItemRows, Unseen
<1>8. items' \in [Urls -> ItemRows]
  <2>1. \A u \in Urls : /\ items[u] \in ItemRows
                        /\ [items[u] EXCEPT !.status = "deleted"] \in ItemRows
    <3>1. ASSUME NEW u \in Urls
          PROVE  items[u] \in ItemRows /\ [items[u] EXCEPT !.status = "deleted"] \in ItemRows
      <4>1. items[u] \in ItemRows
        BY DEF SyncInv, TypeOK
      <4> QED
        BY <4>1 DEF ItemRows
    <3> QED
      BY <3>1
  <2> QED
    BY <1>3, <2>1
<1>9. RowsNameDocuments'
  BY <1>3, <1>7 DEF SyncInv, RowsNameDocuments
<1>10. UnchangedRowsExist'
  <2>1. \A s \in Runs, j \in Attempts :
           prep'[s][j].pc = "unchanged" => prep'[s][j] = prep[s][j]
    BY <1>3 DEF p, SetPrep, SyncInv, TypeOK, PrepStates
  <2> QED
    BY <1>7, <2>1 DEF SyncInv, UnchangedRowsExist, FoundPages
<1>11. TypeOK'
  BY <1>1, <1>2, <1>3, <1>6, <1>8 DEF SyncInv, TypeOK, sourceVars, runVars, historyVars
<1>12. NumbersBounded' /\ VersionNumbersDistinct'
  BY <1>3 DEF SyncInv, NumbersBounded, VersionNumbersDistinct
<1> QED
  BY <1>6, <1>9, <1>10, <1>11, <1>12 DEF SyncInv

LEMMA PrepareReturnsKeepsInv ==
    ASSUME SyncInv, NEW r \in Runs, NEW k \in Attempts, PrepareReturns(r, k)
    PROVE  SyncInv'
<1> DEFINE result == [cursor |-> prep[r][k].page.content, job |-> prep[r][k].job,
                      events |-> prep[r][k].events]
<1>1. Sound(prep[r][k]) /\ prep[r][k].events \subseteq outbox
  BY PrepIsSound
<1>2. prepared' = [prepared EXCEPT ![r] = result] /\ SetPrep(r, k, DeadPrep)
  BY DEF PrepareReturns
<1>3. result \in PrepareResults
  BY <1>1 DEF Sound, PrepStates, PrepareResults
<1>4. /\ workflow' \in [Runs -> WorkflowSteps]
      /\ UNCHANGED <<page, sourceVars, runStatus, starter, attempt, contentVars,
                     outboxVars, imports, historyVars>>
  BY DEF PrepareReturns, SyncInv, TypeOK, WorkflowSteps
<1>5. \A s \in Runs, j \in Attempts :
         prep'[s][j] = IF s = r /\ j = k THEN DeadPrep ELSE prep[s][j]
  BY <1>2 DEF SetPrep, SyncInv, TypeOK
<1>6. prep' \in [Runs -> [Attempts -> PrepStates]]
  BY <1>2, DeadPrepIsSound DEF SetPrep, SyncInv, TypeOK, Sound
<1>7. FoundPages'
  BY <1>5, DeadPrepIsSound DEF SyncInv, FoundPages, Sound
<1>8. UnchangedRowsExist'
  BY <1>4, <1>5, DeadPrepIsSound DEF SyncInv, UnchangedRowsExist, Sound, contentVars
<1>9. \A s \in Runs : prepared'[s] = IF s = r THEN result ELSE prepared[s]
  BY <1>2 DEF SyncInv, TypeOK
<1>10. JobsExist'
  BY <1>1, <1>4, <1>5, <1>9, DeadPrepIsSound
     DEF SyncInv, JobsExist, Sound, contentVars, outboxVars
<1> HIDE DEF result
<1>11. prepared' \in [Runs -> PrepareResults]
  BY <1>2, <1>3 DEF SyncInv, TypeOK
<1> QED
  BY <1>4, <1>6, <1>7, <1>8, <1>10, <1>11
     DEF SyncInv, TypeOK, RowsNameDocuments, NumbersBounded, VersionNumbersDistinct,
         sourceVars, contentVars, outboxVars, historyVars

-----------------------------------------------------------------------------
(* The other steps *)

\* Steps that leave the attempts and the content tables alone.
LEMMA RowsUntouched ==
    ASSUME SyncInv, TypeOK', UNCHANGED <<prep, prepared, contentVars>>, outbox' = outbox
    PROVE  SyncInv'
BY DEF SyncInv, FoundPages, JobsExist, RowsNameDocuments, UnchangedRowsExist,
       NumbersBounded, VersionNumbersDistinct, contentVars

LEMMA IngestChildKeepsInv ==
    ASSUME SyncInv, NEW r \in Runs, IngestChild(r)
    PROVE  SyncInv'
<1> DEFINE job == prepared[r].job
<1>1. job \in VersionIds \cup {NoVersion} /\ (job # NoVersion => versions[job].status # "absent")
  BY DEF SyncInv, TypeOK, PrepareResults, JobsExist
<1>2. /\ workflow' \in [Runs -> WorkflowSteps]
      /\ UNCHANGED <<page, sourceVars, runStatus, starter, prepVars, items, deletedDocs,
                     outboxVars, imports, historyVars>>
  BY DEF IngestChild, SyncInv, TypeOK, WorkflowSteps
<1>3. CASE UNCHANGED versions
  BY <1>2, <1>3 DEF SyncInv, TypeOK, FoundPages, JobsExist, RowsNameDocuments,
       UnchangedRowsExist, NumbersBounded, VersionNumbersDistinct, sourceVars, prepVars,
       outboxVars, historyVars
<1>4. ASSUME NEW status \in {"completed", "failed"}, job # NoVersion,
             versions' = [versions EXCEPT ![job].status = status]
      PROVE  SyncInv'
  <2> DEFINE row == [versions[job] EXCEPT !.status = status]
  <2>1. job \in VersionIds /\ versions[job] \in VersionRows
    BY <1>1, <1>4 DEF SyncInv, TypeOK
  <2> HIDE DEF job
  <2>2. /\ row \in VersionRows /\ row.status = status
        /\ row.doc = versions[job].doc /\ row.number = versions[job].number
    BY <2>1, <1>4 DEF VersionRows
  <2>3. versions' = [versions EXCEPT ![job] = row] /\ versions \in [VersionIds -> VersionRows]
    BY <1>4 DEF SyncInv, TypeOK
  <2> HIDE DEF row
  <2>4. versions' \in [VersionIds -> VersionRows]
    BY <2>1, <2>2, <2>3
  <2>5. \A v \in VersionIds : /\ versions'[v].doc = versions[v].doc
                              /\ versions'[v].number = versions[v].number
                              /\ versions'[v].status = "absent" <=> versions[v].status = "absent"
    BY <1>1, <1>4, <2>1, <2>2, <2>3 DEF job
  <2>6. TypeOK'
    BY <1>2, <2>4 DEF SyncInv, TypeOK, sourceVars, prepVars, outboxVars, historyVars
  <2>7. FoundPages' /\ UnchangedRowsExist'
    BY <1>2 DEF SyncInv, FoundPages, UnchangedRowsExist, prepVars
  <2>8. JobsExist'
    <3>1. \A s \in Runs, j \in Attempts : prep[s][j].job \in VersionIds \cup {NoVersion}
      BY DEF SyncInv, TypeOK, PrepStates
    <3>2. \A s \in Runs : prepared[s].job \in VersionIds \cup {NoVersion}
      BY DEF SyncInv, TypeOK, PrepareResults
    <3> QED
      BY <1>2, <2>5, <3>1, <3>2 DEF SyncInv, JobsExist, prepVars, outboxVars
  <2>9. RowsNameDocuments'
    BY <1>2, <2>5 DEF SyncInv, RowsNameDocuments
  <2>10. NumbersBounded' /\ VersionNumbersDistinct'
    BY <2>5 DEF SyncInv, NumbersBounded, VersionNumbersDistinct
  <2> QED
    BY <2>6, <2>7, <2>8, <2>9, <2>10 DEF SyncInv
<1> QED
  BY <1>3, <1>4 DEF IngestChild

\* The type invariant, with what makes it inductive.
THEOREM SyncInvariant == Spec => []SyncInv
<1>1. Init => SyncInv
  <2> SUFFICES ASSUME Init PROVE SyncInv
    OBVIOUS
  <2>1. 1 \in Attempts /\ MaxAttempts \in Nat
    BY SyncConstants DEF Attempts
  <2>2. IdlePrep \in PrepStates /\ IdlePrep.job = NoVersion /\ IdlePrep.events = {}
        /\ IdlePrep.pc = "idle"
    BY CursorFacts DEF IdlePrep, PrepStates, PrepPcs, NoPage
  <2>3. NoResult \in PrepareResults /\ NoResult.job = NoVersion /\ NoResult.events = {}
    BY CursorFacts DEF NoResult, PrepareResults
  <2>4. NoItem \in ItemRows /\ NoItem.status = "absent" /\ NoItem.changed = NoRun
    BY DEF NoItem, ItemRows
  <2>5. NoDocVersion \in VersionRows /\ NoDocVersion.status = "absent"
        /\ NoDocVersion.doc = NoVersion /\ NoDocVersion.number = 0
    BY DEF NoDocVersion, VersionRows
  <2>6. NewImport \in ImportStates
    BY CursorFacts DEF NewImport, ImportStates
  <2>7. TypeOK
    BY <2>1, <2>2, <2>3, <2>4, <2>5, <2>6, CursorFacts DEF Init, TypeOK, RunStatuses, WorkflowSteps
  <2> QED
    BY <2>2, <2>3, <2>4, <2>5, <2>7
       DEF Init, SyncInv, FoundPages, JobsExist, RowsNameDocuments, UnchangedRowsExist,
           NumbersBounded, VersionNumbersDistinct
<1>2. ASSUME SyncInv, [Next]_vars  PROVE SyncInv'
  <2> USE <1>2
  <2>1. ASSUME NEW r \in Runs, ClaimSync(r)  PROVE SyncInv'
    <3>1. imports' \in [Imports -> ImportStates]
      <4>1. \A i \in Imports : /\ imports[i] \in ImportStates
                               /\ Superseded(imports[i].status) \in RunStatuses
        BY DEF SyncInv, TypeOK, ImportStates, Superseded, RunStatuses
      <4>2. \A i \in Imports :
               [imports[i] EXCEPT !.status = Superseded(imports[i].status)] \in ImportStates
        BY <4>1 DEF ImportStates, RunStatuses
      <4>3. imports' = [i \in Imports |->
                          [imports[i] EXCEPT !.status = Superseded(imports[i].status)]]
        BY <2>1 DEF ClaimSync
      <4> QED
        BY <4>2, <4>3
    <3>2. TypeOK'
      BY <2>1, <3>1 DEF ClaimSync, SyncInv, TypeOK, Superseded, RunStatuses, prepVars,
                        contentVars, outboxVars
    <3> QED
      BY <2>1, <3>2, RowsUntouched DEF ClaimSync, prepVars, outboxVars
  <2>2. ASSUME NEW r \in Runs, RequestStep(r)  PROVE SyncInv'
    <3>1. TypeOK'
      BY <2>2 DEF RequestStep, StartWorkflow, StartWorkflowRaises, FailWorkflowStart,
                  AbandonStart, SyncInv, TypeOK, RunStatuses, WorkflowSteps, sourceVars,
                  prepVars, contentVars, outboxVars, historyVars
    <3> QED
      BY <2>2, <3>1, RowsUntouched
         DEF RequestStep, StartWorkflow, StartWorkflowRaises, FailWorkflowStart,
             AbandonStart, prepVars, outboxVars
  <2>3. ASSUME NEW r \in Runs, WorkflowStep(r)  PROVE SyncInv'
    <3>1. CASE IngestChild(r)
      BY <3>1, IngestChildKeepsInv
    <3>2. CASE ProjectDeletion(r)
      <4>1. TypeOK'
        BY <3>2 DEF ProjectDeletion, SyncInv, TypeOK, JobsExist, WorkflowSteps, sourceVars,
                    prepVars, contentVars, historyVars
      <4> QED
        BY <3>2, <4>1, RowsUntouched DEF ProjectDeletion, prepVars
    <3>3. CASE AllProjected(r) \/ FinalizeRefused(r)
      <4>1. TypeOK'
        BY <3>3 DEF AllProjected, FinalizeRefused, SyncInv, TypeOK, WorkflowSteps, sourceVars,
                    prepVars, contentVars, outboxVars, historyVars
      <4> QED
        BY <3>3, <4>1, RowsUntouched DEF AllProjected, FinalizeRefused, prepVars, outboxVars
    <3>4. CASE Finalize(r)
      <4>1. TypeOK'
        BY <3>4 DEF Finalize, SyncInv, TypeOK, PrepareResults, RunStatuses, WorkflowSteps,
                    prepVars, contentVars, outboxVars, historyVars
      <4> QED
        BY <3>4, <4>1, RowsUntouched DEF Finalize, prepVars, outboxVars
    <3>5. CASE FailRun(r)
      <4>1. TypeOK'
        BY <3>5 DEF FailRun, FailRunning, SyncInv, TypeOK, RunStatuses, WorkflowSteps,
                    prepVars, contentVars, outboxVars, historyVars
      <4> QED
        BY <3>5, <4>1, RowsUntouched DEF FailRun, prepVars, outboxVars
    <3> QED
      BY <2>3, <3>1, <3>2, <3>3, <3>4, <3>5 DEF WorkflowStep
  <2>4. ASSUME NEW r \in Runs, NEW k \in Attempts, PrepareStep(r, k)  PROVE SyncInv'
    <3>1. CASE DiscoverRefused(r, k)
      BY <3>1, AbortKeepsInv DEF DiscoverRefused
    <3>2. CASE BeginInsert(r, k)
      <4> DEFINE p == [prep[r][k] EXCEPT !.pc = "insert"]
      <4>1. prep[r][k].page \in [url : Urls, content : Contents]
        BY <3>2 DEF BeginInsert, At, SyncInv, FoundPages
      <4>2. Sound(p) /\ p.events \subseteq outbox
        BY <4>1, GotoIsSound DEF PrepPcs
      <4>3. /\ SetPrep(r, k, p) /\ workflow' \in [Runs -> WorkflowSteps]
            /\ UNCHANGED <<page, sourceVars, runStatus, starter, attempt, prepared,
                           contentVars, outboxVars, imports, historyVars>>
        BY <3>2 DEF BeginInsert, Goto, runVars, SyncInv, TypeOK
      <4> HIDE DEF p
      <4> QED
        BY <4>2, <4>3, QuietStepKeepsInv
    <3>3. CASE MaterializeExisting(r, k)
      <4>1. items[prep[r][k].page.url].doc \in VersionIds
        BY <3>3 DEF MaterializeExisting, At, SyncInv, FoundPages, RowsNameDocuments
      <4> QED
        BY <3>3, <4>1, MaterializeKeepsInv DEF MaterializeExisting, At
    <3>4. CASE MaterializeNew(r, k)
      <4>1. <<r, k>> \in VersionIds
        BY DEF VersionIds
      <4> QED
        BY <3>4, <4>1, MaterializeKeepsInv DEF MaterializeNew, At
    <3> QED
      BY <2>4, <3>1, <3>2, <3>3, <3>4, LoadContextKeepsInv, DiscoverKeepsInv,
         FindItemKeepsInv, MarkUnchangedKeepsInv, SnapshotDeletionsKeepsInv,
         PrepareReturnsKeepsInv DEF PrepareStep
  <2>5. ASSUME NEW r \in Runs, NEW k \in Attempts, PrepareAttemptLost(r, k)  PROVE SyncInv'
    <3>1. /\ workflow' \in [Runs -> WorkflowSteps] /\ attempt' \in [Runs -> Attempts]
          /\ UNCHANGED <<page, sourceVars, runStatus, starter, prepared, contentVars,
                         outboxVars, imports, historyVars>>
      <4>1. workflow \in [Runs -> WorkflowSteps] /\ attempt \in [Runs -> Attempts]
        BY DEF SyncInv, TypeOK
      <4>2. k < MaxAttempts => k + 1 \in Attempts
        BY SyncConstants DEF Attempts
      <4>3. "fail" \in WorkflowSteps
        BY DEF WorkflowSteps
      <4> QED
        BY <2>5, <4>1, <4>2, <4>3 DEF PrepareAttemptLost
    <3>2. CASE UNCHANGED prep
      <4>1. TypeOK'
        BY <3>1, <3>2 DEF SyncInv, TypeOK, sourceVars, contentVars, outboxVars, historyVars
      <4> QED
        BY <3>1, <3>2, <4>1, RowsUntouched DEF outboxVars
    <3>3. CASE SetPrep(r, k, DeadPrep)
      <4>1. UNCHANGED <<versions, items, prepared>> /\ outbox' = outbox
        BY <3>1 DEF contentVars, outboxVars
      <4>2. /\ prep' \in [Runs -> [Attempts -> PrepStates]]
            /\ FoundPages' /\ JobsExist' /\ UnchangedRowsExist'
        BY <3>3, <4>1, DeadPrepIsSound, SetPrepKeepsInv
      <4> QED
        BY <3>1, <4>1, <4>2
           DEF SyncInv, TypeOK, RowsNameDocuments, NumbersBounded, VersionNumbersDistinct,
               sourceVars, contentVars, outboxVars, historyVars
    <3> QED
      BY <2>5, <3>2, <3>3 DEF PrepareAttemptLost
  <2>6. ASSUME NEW i \in Imports, ImportStep(i)  PROVE SyncInv'
    <3>1. imports[i] \in ImportStates
      BY DEF SyncInv, TypeOK
    <3>2. imports' \in [Imports -> ImportStates]
      <4>1. CASE ImportStart(i)
        BY <4>1 DEF ImportStart, SyncInv, TypeOK, ImportStates
      <4>2. CASE ImportStore(i)
        <5>1. [imports[i] EXCEPT !.phase = "stored"] \in ImportStates
          BY <3>1 DEF ImportStates
        <5> QED
          BY <4>2, <5>1 DEF ImportStore, SyncInv, TypeOK
      <4>3. ASSUME NEW phase \in {"returned", "raised"}, NEW status \in {"completed", "failed"},
                   imports' = [imports EXCEPT ![i] =
                                 [@ EXCEPT !.phase = phase, !.status = status]]
            PROVE  imports' \in [Imports -> ImportStates]
        <5>1. [imports[i] EXCEPT !.phase = phase, !.status = status] \in ImportStates
          BY <3>1 DEF ImportStates
        <5> QED
          BY <4>3, <5>1 DEF SyncInv, TypeOK
      <4> QED
        BY <2>6, <4>1, <4>2, <4>3 DEF ImportStep, ImportComplete, ImportFail
    <3>3. /\ syncStatus' \in {"never_synced", "syncing", "completed", "failed"}
          /\ syncCursor' \in Cursors
          /\ UNCHANGED <<page, leaseToken, leaseLive, runVars, prepVars, contentVars,
                         outboxVars, historyVars>>
      <4>1. imports[i].content \in Contents \cup {NoContent}
        BY <3>1 DEF ImportStates
      <4> QED
        BY <2>6, <4>1, CursorFacts DEF ImportStep, ImportStart, ImportStore, ImportComplete,
           ImportFail, SyncInv, TypeOK, sourceVars
    <3>4. TypeOK'
      BY <3>2, <3>3 DEF SyncInv, TypeOK, runVars, prepVars, contentVars, outboxVars, historyVars
    <3> QED
      BY <3>3, <3>4, RowsUntouched DEF prepVars, outboxVars
  <2>7. CASE LeaseExpires \/ PageChanges \/ UNCHANGED vars
    <3>1. TypeOK'
      BY <2>7 DEF LeaseExpires, PageChanges, vars, SyncInv, TypeOK, sourceVars, runVars,
         prepVars, contentVars, outboxVars, historyVars
    <3> QED
      BY <2>7, <3>1, RowsUntouched DEF LeaseExpires, PageChanges, vars, prepVars, outboxVars
  <2> QED
    BY <2>1, <2>2, <2>3, <2>4, <2>5, <2>6, <2>7 DEF Next
<1> QED
  BY <1>1, <1>2, PTL DEF Spec

\* Every reachable state is type correct, and a projected deletion has its outbox
\* row.
THEOREM TypeCorrect == Spec => []TypeOK
<1>1. SyncInv => TypeOK
  BY DEF SyncInv
<1> QED
  BY <1>1, SyncInvariant, PTL

\* The versions of a document have distinct numbers, whatever runs, attempts and
\* workers materialize it at once.
THEOREM VersionNumbersAreDistinct == Spec => []VersionNumbersDistinct
<1>1. SyncInv => VersionNumbersDistinct
  BY DEF SyncInv
<1> QED
  BY <1>1, SyncInvariant, PTL


-----------------------------------------------------------------------------
(* Part 4: what the steps of an attempt do to it and to the rows *)

RowsKept == UNCHANGED <<items, versions, deletedDocs, outbox>>

\* The attempt goes on from one place to the next.
Moves(r, k, from, to) ==
    prep[r][k].pc = from /\ prep'[r][k].pc = to /\ UNCHANGED <<workflow, attempt, prepared>>

KeepsPage(r, k) == prep'[r][k].page = prep[r][k].page /\ prep'[r][k].prior = prep[r][k].prior
KeepsJob(r, k) == prep'[r][k].job = prep[r][k].job /\ prep'[r][k].events = prep[r][k].events

Ends(r, k) ==
    /\ Waiting(r, k) \/ prep[r][k].pc = "loaded"
    /\ \/ prep'[r][k] = DeadPrep
       \/ "late_attempt" \in Faults /\ prep'[r][k] = prep[r][k]
    /\ \A s \in Runs : /\ s # r => workflow'[s] = workflow[s] /\ attempt'[s] = attempt[s]
                       /\ workflow'[s] # workflow[s] => workflow'[s] = "fail"
    /\ RowsKept /\ UNCHANGED prepared

Returns(r, k) ==
    /\ prep[r][k].pc = "ready" /\ Waiting(r, k) /\ prep'[r][k] = DeadPrep
    /\ workflow'[r] = "ingest"
    /\ prepared'[r].cursor = prep[r][k].page.content /\ prepared'[r].job = prep[r][k].job
    /\ prepared'[r].events = prep[r][k].events
    /\ \A s \in Runs : s # r => workflow'[s] = workflow[s] /\ prepared'[s] = prepared[s]
    /\ RowsKept /\ UNCHANGED attempt

Loads(r, k) ==
    /\ Moves(r, k, "idle", "loaded") /\ Waiting(r, k) /\ leaseToken = r
    /\ prep'[r][k].prior = syncCursor /\ prep'[r][k].page = prep[r][k].page
    /\ KeepsJob(r, k) /\ RowsKept

Skips(r, k) ==
    /\ Moves(r, k, "loaded", "ready") /\ Unchanged(prep[r][k].prior, page.content)
    /\ prep'[r][k].page.content \in {prep[r][k].prior, page.content}
    /\ prep'[r][k].prior = prep[r][k].prior
    /\ KeepsJob(r, k) /\ RowsKept

Discovers(r, k) ==
    /\ Moves(r, k, "loaded", "discovered")
    /\ Unchanged(prep[r][k].prior, page.content) => "ignored_validator" \in Faults
    /\ prep'[r][k].page = page /\ prep'[r][k].prior = prep[r][k].prior
    /\ KeepsJob(r, k) /\ RowsKept

Recovers(r, k) ==
    /\ Moves(r, k, "discovered", "deletions")
    /\ prep'[r][k].job \in Recoverable(r, items[prep[r][k].page.url])
    /\ KeepsPage(r, k) /\ RowsKept

Decides(r, k) ==
    /\ \/ /\ Moves(r, k, "discovered", "unchanged")
          /\ items[prep[r][k].page.url].status = "active"
          /\ Unchanged(items[prep[r][k].page.url].content, prep[r][k].page.content)
       \/ Moves(r, k, "discovered", "changed")
    /\ Recoverable(r, items[prep[r][k].page.url]) = {}
    /\ KeepsPage(r, k) /\ KeepsJob(r, k) /\ RowsKept

Marks(r, k) ==
    /\ Moves(r, k, "unchanged", "deletions")
    /\ \A u \in Urls :
          /\ items'[u].doc = items[u].doc /\ items'[u].changed = items[u].changed
          /\ IF u = prep[r][k].page.url
             THEN /\ items'[u].status = "active" /\ items'[u].seen = r
                  /\ items'[u].content = prep[r][k].page.content
             ELSE items'[u] = items[u]
    /\ KeepsPage(r, k) /\ KeepsJob(r, k) /\ UNCHANGED <<versions, deletedDocs, outbox>>

Begins(r, k) ==
    /\ Moves(r, k, "changed", "insert")
    /\ KeepsPage(r, k) /\ KeepsJob(r, k) /\ RowsKept

\* The version and the item that a materialization for document doc leaves.
Writes(r, k, doc) ==
    /\ prep[r][k].pc \in {"changed", "insert"} /\ prep'[r][k].pc = "deletions"
    /\ UNCHANGED <<workflow, attempt, prepared>>
    /\ versions'[<<r, k>>] = [status |-> "pending", doc |-> doc, number |-> NextNumber(doc),
                              content |-> prep[r][k].page.content]
    /\ \A v \in VersionIds \ {<<r, k>>} : versions'[v] = versions[v]
    /\ items'[prep[r][k].page.url] = [status |-> "active", content |-> prep[r][k].page.content,
                                      doc |-> doc, seen |-> r, changed |-> r]
    /\ \A u \in Urls \ {prep[r][k].page.url} : items'[u] = items[u]
    /\ \/ doc = <<r, k>>
       \/ /\ items[prep[r][k].page.url].status # "absent"
          /\ doc = items[prep[r][k].page.url].doc
    /\ prep'[r][k].job = <<r, k>>
    /\ KeepsPage(r, k) /\ UNCHANGED outbox

Snapshots(r, k) ==
    /\ Moves(r, k, "deletions", "ready")
    /\ \A u \in Urls :
          /\ items'[u].doc = items[u].doc /\ items'[u].changed = items[u].changed
          /\ items'[u].seen = items[u].seen /\ items'[u].content = items[u].content
          /\ items'[u].status = IF items[u].status = "active" /\ items[u].seen # r
                                THEN "deleted" ELSE items[u].status
    /\ \A e \in outbox' : e \notin outbox => e[1] = r
    /\ \A e \in outbox' : e[1] = r => e \in prep'[r][k].events
    /\ deletedDocs' = deletedDocs \cup {items[u].doc : u \in Unseen(r)}
    /\ KeepsPage(r, k) /\ prep'[r][k].job = prep[r][k].job /\ UNCHANGED versions

OthersWait(r, k) == \A s \in Runs, j \in Attempts : s # r \/ j # k => prep'[s][j] = prep[s][j]

AttemptStep(r, k) ==
    /\ OthersWait(r, k)
    /\ UNCHANGED <<page, syncCursor, leaseToken, leaseLive, runStatus, starter, imports, projected>>
    /\ \/ Ends(r, k) \/ Returns(r, k) \/ Loads(r, k) \/ Skips(r, k) \/ Discovers(r, k)
       \/ Recovers(r, k) \/ Decides(r, k) \/ Marks(r, k) \/ Begins(r, k)
       \/ (\E doc \in VersionIds : Writes(r, k, doc)) \/ Snapshots(r, k)

LEMMA PrepAfter ==
    ASSUME TypeOK, NEW r \in Runs, NEW k \in Attempts, NEW p, SetPrep(r, k, p)
    PROVE  prep'[r][k] = p /\ OthersWait(r, k)
BY DEF TypeOK, SetPrep, OthersWait

LEMMA PcAfter ==
    ASSUME TypeOK, NEW r \in Runs, NEW k \in Attempts, NEW pc,
           SetPrep(r, k, [prep[r][k] EXCEPT !.pc = pc])
    PROVE  OthersWait(r, k) /\ prep'[r][k].pc = pc /\ KeepsPage(r, k) /\ KeepsJob(r, k)
<1>1. PICK p : p = [prep[r][k] EXCEPT !.pc = pc]
  OBVIOUS
<1>2. prep[r][k] \in PrepStates
  BY DEF TypeOK
<1>3. SetPrep(r, k, p)
  BY <1>1
<1>4. prep'[r][k] = p /\ OthersWait(r, k)
  BY <1>3, PrepAfter
<1> QED
  BY <1>1, <1>2, <1>4 DEF PrepStates, KeepsPage, KeepsJob

LEMMA EndEffects ==
    ASSUME SyncInv, NEW r \in Runs, NEW k \in Attempts,
           \/ LoadContext(r, k) /\ AbortPrepare(r, k)
           \/ DiscoverRefused(r, k) \/ PrepareReturns(r, k) \/ PrepareAttemptLost(r, k)
    PROVE  AttemptStep(r, k)
<1>1. TypeOK /\ workflow \in [Runs -> WorkflowSteps] /\ attempt \in [Runs -> Attempts]
      /\ prepared \in [Runs -> PrepareResults]
  BY DEF SyncInv, TypeOK
<1>2. UNCHANGED <<page, syncCursor, leaseToken, leaseLive, runStatus, starter, imports, projected>>
      /\ RowsKept
  BY DEF LoadContext, DiscoverRefused, PrepareReturns, PrepareAttemptLost, sourceVars, contentVars,
         outboxVars, RowsKept
<1>3. ASSUME AbortPrepare(r, k), UNCHANGED <<prepared, attempt>>,
             Waiting(r, k) \/ prep[r][k].pc = "loaded"
      PROVE  AttemptStep(r, k)
  <2>1. \A s \in Runs : /\ s # r => workflow'[s] = workflow[s]
                        /\ workflow'[s] # workflow[s] => workflow'[s] = "fail"
    BY <1>1, <1>3 DEF AbortPrepare
  <2>2. SetPrep(r, k, DeadPrep)
    BY <1>3 DEF AbortPrepare
  <2> QED
    BY <1>1, <1>2, <1>3, <2>1, <2>2, PrepAfter DEF AttemptStep, Ends
<1>4. CASE PrepareReturns(r, k)
  <2>1. prepared'[r] = [cursor |-> prep[r][k].page.content, job |-> prep[r][k].job,
                        events |-> prep[r][k].events]
        /\ \A s \in Runs : s # r => prepared'[s] = prepared[s]
    BY <1>1, <1>4 DEF PrepareReturns
  <2>2. workflow'[r] = "ingest" /\ \A s \in Runs : s # r => workflow'[s] = workflow[s]
    BY <1>1, <1>4 DEF PrepareReturns
  <2>3. SetPrep(r, k, DeadPrep) /\ Waiting(r, k) /\ prep[r][k].pc = "ready" /\ UNCHANGED attempt
    BY <1>4 DEF PrepareReturns, At
  <2>4. Returns(r, k)
    BY <1>1, <1>2, <2>1, <2>2, <2>3, PrepAfter DEF Returns
  <2> QED
    BY <1>1, <1>2, <2>3, <2>4, PrepAfter DEF AttemptStep
<1>5. CASE PrepareAttemptLost(r, k)
  <2>1. \A s \in Runs : /\ s # r => workflow'[s] = workflow[s] /\ attempt'[s] = attempt[s]
                        /\ workflow'[s] # workflow[s] => workflow'[s] = "fail"
    BY <1>1, <1>5 DEF PrepareAttemptLost
  <2>2. UNCHANGED prepared /\ Waiting(r, k)
    BY <1>5 DEF PrepareAttemptLost
  <2>3. CASE SetPrep(r, k, DeadPrep)
    BY <1>1, <1>2, <2>1, <2>2, <2>3, PrepAfter DEF AttemptStep, Ends
  <2>4. CASE "late_attempt" \in Faults /\ UNCHANGED prep
    BY <1>1, <1>2, <2>1, <2>2, <2>4 DEF AttemptStep, Ends, OthersWait
  <2> QED
    BY <1>5, <2>3, <2>4 DEF PrepareAttemptLost
<1> QED
  BY <1>3, <1>4, <1>5 DEF LoadContext, DiscoverRefused, At

LEMMA ReadEffects ==
    ASSUME SyncInv, NEW r \in Runs, NEW k \in Attempts,
           LoadContext(r, k) \/ Discover(r, k) \/ FindItem(r, k) \/ BeginInsert(r, k)
    PROVE  AttemptStep(r, k)
<1>1. TypeOK
  BY DEF SyncInv
<1>2. prep[r][k] \in PrepStates
  BY <1>1 DEF TypeOK
<1>3. UNCHANGED <<page, syncCursor, leaseToken, leaseLive, runStatus, starter, imports, projected>>
      /\ RowsKept /\ UNCHANGED <<attempt, prepared>>
  BY DEF LoadContext, Discover, FindItem, BeginInsert, sourceVars, runVars, contentVars,
         outboxVars, RowsKept
<1>4. CASE LoadContext(r, k)
  <2>1. CASE AbortPrepare(r, k)
    BY <1>4, <2>1, EndEffects
  <2>2. CASE leaseToken = r /\ UNCHANGED workflow
             /\ SetPrep(r, k, [prep[r][k] EXCEPT !.pc = "loaded", !.prior = syncCursor])
    <3>1. PICK p : SetPrep(r, k, p) /\ p = [prep[r][k] EXCEPT !.pc = "loaded", !.prior = syncCursor]
      BY <2>2
    <3>2. prep'[r][k] = p
      BY <1>1, <3>1, PrepAfter
    <3>3. prep'[r][k].pc = "loaded" /\ prep'[r][k].prior = syncCursor
          /\ prep'[r][k].page = prep[r][k].page /\ KeepsJob(r, k)
      BY <1>2, <3>1, <3>2 DEF PrepStates, KeepsPage, KeepsJob
    <3>4. Loads(r, k)
      BY <1>3, <1>4, <2>2, <3>3 DEF LoadContext, At, Loads, Moves
    <3> QED
      BY <1>1, <1>3, <2>2, <3>4, PrepAfter DEF AttemptStep
  <2> QED
    BY <1>4, <2>1, <2>2 DEF LoadContext
<1>5. CASE Discover(r, k)
  <2>1. UNCHANGED workflow /\ prep[r][k].pc = "loaded"
    BY <1>5 DEF Discover, At, runVars
  <2>2. ASSUME NEW c \in {prep[r][k].prior, page.content},
               Unchanged(prep[r][k].prior, page.content),
               SetPrep(r, k, [prep[r][k] EXCEPT !.pc = "ready", !.page = EmptyPage(c)])
        PROVE  AttemptStep(r, k)
    <3>1. PICK p : SetPrep(r, k, p) /\ p = [prep[r][k] EXCEPT !.pc = "ready", !.page = EmptyPage(c)]
      BY <2>2
    <3>2. prep'[r][k] = p
      BY <1>1, <3>1, PrepAfter
    <3>3. prep'[r][k].pc = "ready" /\ prep'[r][k].page.content = c
          /\ prep'[r][k].prior = prep[r][k].prior /\ KeepsJob(r, k)
      BY <1>2, <3>1, <3>2 DEF PrepStates, KeepsPage, KeepsJob, EmptyPage
    <3>4. Skips(r, k)
      BY <1>3, <2>1, <2>2, <3>3 DEF Skips, Moves
    <3> QED
      BY <1>1, <1>3, <2>2, <3>4, PrepAfter DEF AttemptStep
  <2>3. ASSUME Unchanged(prep[r][k].prior, page.content) => "ignored_validator" \in Faults,
               SetPrep(r, k, [prep[r][k] EXCEPT !.pc = "discovered", !.page = page])
        PROVE  AttemptStep(r, k)
    <3>1. PICK p : SetPrep(r, k, p) /\ p = [prep[r][k] EXCEPT !.pc = "discovered", !.page = page]
      BY <2>3
    <3>2. prep'[r][k] = p
      BY <1>1, <3>1, PrepAfter
    <3>3. prep'[r][k].pc = "discovered" /\ prep'[r][k].page = page
          /\ prep'[r][k].prior = prep[r][k].prior /\ KeepsJob(r, k)
      BY <1>2, <3>1, <3>2 DEF PrepStates, KeepsPage, KeepsJob
    <3>4. Discovers(r, k)
      BY <1>3, <2>1, <2>3, <3>3 DEF Discovers, Moves
    <3> QED
      BY <1>1, <1>3, <2>3, <3>4, PrepAfter DEF AttemptStep
  <2>4. \/ /\ Unchanged(prep[r][k].prior, page.content)
           /\ \E c \in {prep[r][k].prior, page.content} :
                 SetPrep(r, k, [prep[r][k] EXCEPT !.pc = "ready", !.page = EmptyPage(c)])
        \/ /\ Unchanged(prep[r][k].prior, page.content) => "ignored_validator" \in Faults
           /\ SetPrep(r, k, [prep[r][k] EXCEPT !.pc = "discovered", !.page = page])
    BY <1>5 DEF Discover, Unchanged
  <2> QED
    BY <2>2, <2>3, <2>4
<1>6. CASE FindItem(r, k)
  <2>1. UNCHANGED workflow /\ prep[r][k].pc = "discovered"
    BY <1>6 DEF FindItem, At, runVars
  <2>2. ASSUME NEW v \in Recoverable(r, items[prep[r][k].page.url]),
               SetPrep(r, k, [prep[r][k] EXCEPT !.pc = "deletions", !.job = v])
        PROVE  AttemptStep(r, k)
    <3>1. PICK p : SetPrep(r, k, p) /\ p = [prep[r][k] EXCEPT !.pc = "deletions", !.job = v]
      BY <2>2
    <3>2. prep'[r][k] = p
      BY <1>1, <3>1, PrepAfter
    <3>3. prep'[r][k].pc = "deletions" /\ prep'[r][k].job = v /\ KeepsPage(r, k)
      BY <1>2, <3>1, <3>2 DEF PrepStates, KeepsPage, KeepsJob
    <3>4. Recovers(r, k)
      BY <1>3, <2>1, <2>2, <3>3 DEF Recovers, Moves
    <3> QED
      BY <1>1, <1>3, <2>2, <3>4, PrepAfter DEF AttemptStep
  <2>3. ASSUME NEW pc \in {"unchanged", "changed"}, Goto(r, k, pc),
               Recoverable(r, items[prep[r][k].page.url]) = {},
               pc = "unchanged" => /\ items[prep[r][k].page.url].status = "active"
                                   /\ Unchanged(items[prep[r][k].page.url].content,
                                                prep[r][k].page.content)
        PROVE  AttemptStep(r, k)
    <3>1. SetPrep(r, k, [prep[r][k] EXCEPT !.pc = pc])
      BY <2>3 DEF Goto
    <3>2. Decides(r, k)
      BY <1>1, <1>3, <2>1, <2>3, <3>1, PcAfter DEF Decides, Moves, KeepsPage, KeepsJob
    <3> QED
      BY <1>1, <1>3, <3>1, <3>2, PrepAfter DEF AttemptStep
  <2> DEFINE item == items[prep[r][k].page.url]
             next == IF item.status = "active" /\ Unchanged(item.content, prep[r][k].page.content)
                     THEN "unchanged" ELSE "changed"
  <2>4. \/ \E v \in Recoverable(r, item) :
              SetPrep(r, k, [prep[r][k] EXCEPT !.pc = "deletions", !.job = v])
        \/ Recoverable(r, item) = {} /\ Goto(r, k, next)
    BY <1>6 DEF FindItem
  <2>5. next \in {"unchanged", "changed"}
        /\ (next = "unchanged" => /\ item.status = "active"
                                  /\ Unchanged(item.content, prep[r][k].page.content))
    OBVIOUS
  <2> HIDE DEF next
  <2> QED
    BY <2>2, <2>3, <2>4, <2>5
<1>7. CASE BeginInsert(r, k)
  <2>1. SetPrep(r, k, [prep[r][k] EXCEPT !.pc = "insert"]) /\ UNCHANGED workflow
        /\ prep[r][k].pc = "changed"
    BY <1>7 DEF BeginInsert, Goto, At, runVars
  <2>2. Begins(r, k)
    BY <1>1, <1>3, <2>1, PcAfter DEF Begins, Moves, KeepsPage, KeepsJob
  <2> QED
    BY <1>1, <1>3, <2>1, <2>2, PrepAfter DEF AttemptStep
<1> QED
  BY <1>4, <1>5, <1>6, <1>7

LEMMA MarkEffects ==
    ASSUME SyncInv, NEW r \in Runs, NEW k \in Attempts, MarkUnchanged(r, k)
    PROVE  AttemptStep(r, k)
<1>1. /\ TypeOK /\ prep[r][k].pc = "unchanged" /\ prep[r][k].page.url \in Urls
      /\ items \in [Urls -> ItemRows]
  BY DEF MarkUnchanged, At, SyncInv, FoundPages, TypeOK
<1>2. /\ UNCHANGED <<page, syncCursor, leaseToken, leaseLive, runStatus, starter, imports, projected>>
      /\ UNCHANGED <<workflow, attempt, prepared, versions, deletedDocs, outbox>>
  BY DEF MarkUnchanged, sourceVars, runVars, outboxVars
<1>3. SetPrep(r, k, [prep[r][k] EXCEPT !.pc = "deletions"])
  BY DEF MarkUnchanged, Goto
<1>4. PICK row : /\ items' = [items EXCEPT ![prep[r][k].page.url] = row]
                 /\ row = [items[prep[r][k].page.url] EXCEPT !.status = "active",
                              !.content = prep[r][k].page.content, !.seen = r]
  BY DEF MarkUnchanged
<1>5. /\ row.status = "active" /\ row.content = prep[r][k].page.content /\ row.seen = r
      /\ row.doc = items[prep[r][k].page.url].doc
      /\ row.changed = items[prep[r][k].page.url].changed
  BY <1>1, <1>4 DEF ItemRows
<1>6. \A u \in Urls : items'[u] = IF u = prep[r][k].page.url THEN row ELSE items[u]
  BY <1>1, <1>4
<1>7. prep'[r][k].pc = "deletions" /\ KeepsPage(r, k) /\ KeepsJob(r, k) /\ OthersWait(r, k)
  BY <1>1, <1>3, PcAfter
<1>8. Marks(r, k)
  BY <1>1, <1>2, <1>5, <1>6, <1>7 DEF Marks, Moves
<1> QED
  BY <1>2, <1>7, <1>8 DEF AttemptStep

LEMMA WriteEffects ==
    ASSUME SyncInv, NEW r \in Runs, NEW k \in Attempts,
           MaterializeExisting(r, k) \/ MaterializeNew(r, k)
    PROVE  AttemptStep(r, k)
<1>1. /\ TypeOK /\ prep[r][k].pc \in {"changed", "insert"} /\ prep[r][k].page.url \in Urls
      /\ items \in [Urls -> ItemRows] /\ versions \in [VersionIds -> VersionRows]
      /\ <<r, k>> \in VersionIds /\ prep[r][k] \in PrepStates
  BY DEF MaterializeExisting, MaterializeNew, At, SyncInv, FoundPages, TypeOK, VersionIds
<1>2. PICK doc : /\ Materialize(r, k, doc)
                 /\ \/ doc = <<r, k>>
                    \/ /\ items[prep[r][k].page.url].status # "absent"
                       /\ doc = items[prep[r][k].page.url].doc
  BY DEF MaterializeExisting, MaterializeNew
<1>3. doc \in VersionIds
  BY <1>1, <1>2 DEF SyncInv, RowsNameDocuments
<1>4. /\ UNCHANGED <<page, syncCursor, leaseToken, leaseLive, runStatus, starter, imports, projected>>
      /\ UNCHANGED <<workflow, attempt, prepared, outbox>>
  BY <1>2 DEF Materialize, sourceVars, runVars, outboxVars
<1>5. PICK new, row :
         /\ new = [status |-> "pending", doc |-> doc, number |-> NextNumber(doc),
                   content |-> prep[r][k].page.content]
         /\ row = [status |-> "active", content |-> prep[r][k].page.content,
                   doc |-> doc, seen |-> r, changed |-> r]
         /\ versions' = [versions EXCEPT ![<<r, k>>] = new]
         /\ items' = [items EXCEPT ![prep[r][k].page.url] = row]
  BY <1>2 DEF Materialize
<1>6. /\ versions'[<<r, k>>] = new /\ \A v \in VersionIds \ {<<r, k>>} : versions'[v] = versions[v]
      /\ items'[prep[r][k].page.url] = row
      /\ \A u \in Urls \ {prep[r][k].page.url} : items'[u] = items[u]
  BY <1>1, <1>5
<1>7. PICK p : SetPrep(r, k, p) /\ p = [prep[r][k] EXCEPT !.pc = "deletions", !.job = <<r, k>>]
  BY <1>2 DEF Materialize
<1>8. prep'[r][k] = p /\ OthersWait(r, k)
  BY <1>1, <1>7, PrepAfter
<1>9. prep'[r][k].pc = "deletions" /\ prep'[r][k].job = <<r, k>> /\ KeepsPage(r, k)
  BY <1>1, <1>7, <1>8 DEF PrepStates, KeepsPage
<1>10. Writes(r, k, doc)
  BY <1>1, <1>2, <1>4, <1>5, <1>6, <1>9 DEF Writes
<1> QED
  BY <1>3, <1>4, <1>8, <1>10 DEF AttemptStep

LEMMA SnapshotEffects ==
    ASSUME SyncInv, NEW r \in Runs, NEW k \in Attempts, SnapshotDeletions(r, k)
    PROVE  AttemptStep(r, k)
<1>1. /\ TypeOK /\ prep[r][k].pc = "deletions" /\ items \in [Urls -> ItemRows]
      /\ prep[r][k] \in PrepStates
  BY DEF SnapshotDeletions, At, SyncInv, TypeOK
<1>2. /\ UNCHANGED <<page, syncCursor, leaseToken, leaseLive, runStatus, starter, imports, projected>>
      /\ UNCHANGED <<workflow, attempt, prepared, versions>>
  BY DEF SnapshotDeletions, sourceVars, runVars
<1>3. PICK events :
         /\ events = {e \in outbox : e[1] = r} \cup
                     {<<r, d>> : d \in {items[u].doc : u \in Unseen(r)}}
         /\ outbox' = outbox \cup events
         /\ SetPrep(r, k, [prep[r][k] EXCEPT !.pc = "ready", !.events = events])
  BY DEF SnapshotDeletions, Recorded
<1>4. PICK p : SetPrep(r, k, p) /\ p = [prep[r][k] EXCEPT !.pc = "ready", !.events = events]
  BY <1>3
<1>5. prep'[r][k] = p /\ OthersWait(r, k)
  BY <1>1, <1>4, PrepAfter
<1>6. /\ prep'[r][k].pc = "ready" /\ prep'[r][k].events = events /\ KeepsPage(r, k)
      /\ prep'[r][k].job = prep[r][k].job
  BY <1>1, <1>4, <1>5 DEF PrepStates, KeepsPage
<1>7. /\ \A e \in outbox' : e \notin outbox => e[1] = r
      /\ \A e \in outbox' : e[1] = r => e \in events
  BY <1>3
<1>8. deletedDocs' = deletedDocs \cup {items[u].doc : u \in Unseen(r)}
  BY DEF SnapshotDeletions
<1>9. \A u \in Urls :
          /\ items'[u].doc = items[u].doc /\ items'[u].changed = items[u].changed
          /\ items'[u].seen = items[u].seen /\ items'[u].content = items[u].content
          /\ items'[u].status = IF items[u].status = "active" /\ items[u].seen # r
                                THEN "deleted" ELSE items[u].status
  <2> SUFFICES ASSUME NEW u \in Urls
               PROVE  /\ items'[u].doc = items[u].doc /\ items'[u].changed = items[u].changed
                      /\ items'[u].seen = items[u].seen /\ items'[u].content = items[u].content
                      /\ items'[u].status = IF items[u].status = "active" /\ items[u].seen # r
                                            THEN "deleted" ELSE items[u].status
    OBVIOUS
  <2>1. items'[u] = IF u \in Unseen(r) THEN [items[u] EXCEPT !.status = "deleted"] ELSE items[u]
    BY DEF SnapshotDeletions
  <2>2. items[u] \in ItemRows
    BY <1>1
  <2>3. u \in Unseen(r) <=> items[u].status = "active" /\ items[u].seen # r
    BY DEF Unseen
  <2> QED
    BY <2>1, <2>2, <2>3 DEF ItemRows
<1>10. Snapshots(r, k)
  BY <1>1, <1>2, <1>6, <1>7, <1>8, <1>9 DEF Snapshots, Moves
<1> QED
  BY <1>2, <1>5, <1>10 DEF AttemptStep

\* Every step of an attempt, its loss included, is one of these.
LEMMA AttemptEffects ==
    ASSUME SyncInv, NEW r \in Runs, NEW k \in Attempts,
           PrepareStep(r, k) \/ PrepareAttemptLost(r, k)
    PROVE  AttemptStep(r, k)
BY EndEffects, ReadEffects, MarkEffects, WriteEffects, SnapshotEffects DEF PrepareStep

\* The other steps leave the attempts and the items alone, and of a version they change the
\* status, of one that exists.
LEMMA OtherEffects ==
    ASSUME SyncInv,
           \/ \E r \in Runs : ClaimSync(r) \/ RequestStep(r) \/ WorkflowStep(r)
           \/ \E i \in Imports : ImportStep(i)
           \/ LeaseExpires \/ PageChanges \/ UNCHANGED vars
    PROVE  /\ UNCHANGED <<prep, items, deletedDocs, outbox, attempt, prepared>>
           /\ \A v \in VersionIds :
                 /\ versions'[v].doc = versions[v].doc /\ versions'[v].content = versions[v].content
                 /\ versions'[v].number = versions[v].number
                 /\ versions'[v].status = "absent" <=> versions[v].status = "absent"
<1>1. UNCHANGED <<prep, items, deletedDocs, outbox, attempt, prepared>>
  BY DEF ClaimSync, RequestStep, StartWorkflow, StartWorkflowRaises, FailWorkflowStart,
         AbandonStart, WorkflowStep, IngestChild, ProjectDeletion, AllProjected, Finalize,
         FinalizeRefused, FailRun, ImportStep, ImportStart, ImportStore, ImportComplete, ImportFail,
         LeaseExpires, PageChanges, vars, prepVars, contentVars, outboxVars
<1>2. CASE UNCHANGED versions
  BY <1>1, <1>2
<1>3. ASSUME NEW r \in Runs, IngestChild(r), prepared[r].job # NoVersion
      PROVE  \A v \in VersionIds :
                 /\ versions'[v].doc = versions[v].doc /\ versions'[v].content = versions[v].content
                 /\ versions'[v].number = versions[v].number
                 /\ versions'[v].status = "absent" <=> versions[v].status = "absent"
  <2>1. /\ prepared[r].job \in VersionIds /\ versions[prepared[r].job].status # "absent"
        /\ versions \in [VersionIds -> VersionRows]
    BY <1>3 DEF SyncInv, TypeOK, JobsExist, PrepareResults
  <2>2. PICK status \in {"completed", "failed"} :
            versions' = [versions EXCEPT ![prepared[r].job].status = status]
    BY <1>3 DEF IngestChild
  <2>3. \A v \in VersionIds : /\ v # prepared[r].job => versions'[v] = versions[v]
                              /\ versions[v] \in VersionRows
                              /\ v = prepared[r].job =>
                                    versions'[v] = [versions[v] EXCEPT !.status = status]
    BY <2>1, <2>2
  <2>4. ASSUME NEW v \in VersionIds, v = prepared[r].job
        PROVE  /\ versions'[v].doc = versions[v].doc /\ versions'[v].content = versions[v].content
               /\ versions'[v].number = versions[v].number
               /\ versions'[v].status # "absent" /\ versions[v].status # "absent"
    BY <2>1, <2>3, <2>4 DEF VersionRows
  <2> QED
    BY <2>3, <2>4
<1>4. UNCHANGED versions \/ \E r \in Runs : IngestChild(r) /\ prepared[r].job # NoVersion
  BY DEF ClaimSync, RequestStep, StartWorkflow, StartWorkflowRaises, FailWorkflowStart,
         AbandonStart, WorkflowStep, IngestChild, ProjectDeletion, AllProjected, Finalize,
         FinalizeRefused, FailRun, ImportStep, ImportStart, ImportStore, ImportComplete, ImportFail,
         LeaseExpires, PageChanges, vars, contentVars
<1> QED
  BY <1>1, <1>2, <1>3, <1>4

-----------------------------------------------------------------------------
(* Part 5: the rows that attempts leave *)

\* Before an attempt has written, nothing names its version or its document.
FreshAttempts ==
    \A r \in Runs, k \in Attempts :
        prep[r][k].pc \in {"idle", "loaded", "discovered", "unchanged", "changed", "insert"} =>
            /\ versions[<<r, k>>].status = "absent"
            /\ \A v \in VersionIds : versions[v].doc # <<r, k>>
            /\ \A u \in Urls : items[u].doc # <<r, k>>

OneItemPerDocument ==
    \A u, w \in Urls :
        u # w /\ items[u].status # "absent" /\ items[w].status # "absent"
            => items[u].doc # items[w].doc

\* A run whose workflow was not started left no trace.
Untouched ==
    \A r \in Runs : workflow[r] = "none" =>
        /\ \A k \in Attempts : prep[r][k].pc = "idle"
        /\ \A u \in Urls : items[u].seen # r /\ items[u].changed # r
        /\ \A e \in outbox : e[1] # r

StartsOnce == \A r \in Runs : starter[r] \in {"idle", "starting"} => workflow[r] = "none"

RowsInv == FreshAttempts /\ OneItemPerDocument /\ Untouched /\ StartsOnce

\* A workflow that was started stays started, and it is started once.
LEMMA OtherWorkflowMoves ==
    ASSUME SyncInv, StartsOnce,
           \/ \E r \in Runs : ClaimSync(r) \/ RequestStep(r) \/ WorkflowStep(r)
           \/ \E i \in Imports : ImportStep(i)
           \/ LeaseExpires \/ PageChanges \/ UNCHANGED vars
    PROVE  StartsOnce' /\ \A r \in Runs : workflow'[r] = "none" => workflow[r] = "none"
<1> USE DEF SyncInv, TypeOK, StartsOnce
<1>1. ASSUME NEW r \in Runs, ClaimSync(r)
      PROVE  StartsOnce' /\ \A s \in Runs : workflow'[s] = "none" => workflow[s] = "none"
  BY <1>1 DEF ClaimSync
<1>2. ASSUME NEW r \in Runs, RequestStep(r)
      PROVE  StartsOnce' /\ \A s \in Runs : workflow'[s] = "none" => workflow[s] = "none"
  BY <1>2 DEF RequestStep, StartWorkflow, StartWorkflowRaises, FailWorkflowStart, AbandonStart
<1>3. ASSUME NEW r \in Runs, WorkflowStep(r)
      PROVE  StartsOnce' /\ \A s \in Runs : workflow'[s] = "none" => workflow[s] = "none"
  BY <1>3 DEF WorkflowStep, IngestChild, ProjectDeletion, AllProjected, Finalize,
              FinalizeRefused, FailRun
<1>4. ASSUME UNCHANGED <<starter, workflow>>
      PROVE  StartsOnce' /\ \A s \in Runs : workflow'[s] = "none" => workflow[s] = "none"
  BY <1>4
<1> QED
  BY <1>1, <1>2, <1>3, <1>4 DEF ImportStep, ImportStart, ImportStore, ImportComplete, ImportFail,
     LeaseExpires, PageChanges, vars, runVars

LEMMA FreshAttemptsKept ==
    ASSUME SyncInv, RowsInv, NEW r \in Runs, NEW k \in Attempts, AttemptStep(r, k)
    PROVE  FreshAttempts'
<1> DEFINE Fresh == {"idle", "loaded", "discovered", "unchanged", "changed", "insert"}
<1> SUFFICES ASSUME NEW s \in Runs, NEW j \in Attempts, prep'[s][j].pc \in Fresh
             PROVE  /\ versions'[<<s, j>>].status = "absent"
                    /\ \A v \in VersionIds : versions'[v].doc # <<s, j>>
                    /\ \A u \in Urls : items'[u].doc # <<s, j>>
  BY DEF FreshAttempts
<1>1. prep[s][j].pc \in Fresh
  <2>1. CASE s = r /\ j = k
    BY <2>1 DEF AttemptStep, Ends, Returns, Loads, Skips, Discovers, Recovers, Decides, Marks, Begins,
                Writes, Snapshots, Moves, DeadPrep, IdlePrep
  <2>2. CASE ~(s = r /\ j = k)
    BY <2>2 DEF AttemptStep, OthersWait
  <2> QED
    BY <2>1, <2>2
<1>2. /\ versions[<<s, j>>].status = "absent"
      /\ \A v \in VersionIds : versions[v].doc # <<s, j>>
      /\ \A u \in Urls : items[u].doc # <<s, j>>
  BY <1>1 DEF RowsInv, FreshAttempts
<1>3. ASSUME NEW doc \in VersionIds, Writes(r, k, doc)
      PROVE  /\ versions'[<<s, j>>].status = "absent"
             /\ \A v \in VersionIds : versions'[v].doc # <<s, j>>
             /\ \A u \in Urls : items'[u].doc # <<s, j>>
  <2>1. <<s, j>> # <<r, k>> /\ <<s, j>> \in VersionIds /\ <<r, k>> \in VersionIds
    BY <1>3 DEF Writes, VersionIds
  <2>2. prep[r][k].page.url \in Urls
    BY <1>3 DEF Writes, SyncInv, FoundPages
  <2>3. doc # <<s, j>>
    BY <1>2, <1>3, <2>1, <2>2 DEF Writes
  <2> QED
    BY <1>2, <1>3, <2>1, <2>2, <2>3 DEF Writes
<1>4. CASE Marks(r, k)
  BY <1>2, <1>4 DEF Marks
<1>5. CASE Snapshots(r, k)
  BY <1>2, <1>5 DEF Snapshots
<1>6. CASE RowsKept
  BY <1>2, <1>6 DEF RowsKept
<1> QED
  BY <1>3, <1>4, <1>5, <1>6
     DEF AttemptStep, Ends, Returns, Loads, Skips, Discovers, Recovers, Decides, Begins

LEMMA OneItemKept ==
    ASSUME SyncInv, RowsInv, NEW r \in Runs, NEW k \in Attempts, AttemptStep(r, k)
    PROVE  OneItemPerDocument'
<1> SUFFICES ASSUME NEW u \in Urls, NEW w \in Urls, u # w,
                    items'[u].status # "absent", items'[w].status # "absent"
             PROVE  items'[u].doc # items'[w].doc
  BY DEF OneItemPerDocument
<1>1. items[u].status # "absent" /\ items[w].status # "absent" => items[u].doc # items[w].doc
  BY DEF RowsInv, OneItemPerDocument
<1>2. ASSUME NEW doc \in VersionIds, Writes(r, k, doc)
      PROVE  items'[u].doc # items'[w].doc
  <2>1. /\ prep[r][k].page.url \in Urls
        /\ doc = <<r, k>> => \A x \in Urls : items[x].doc # doc
    BY <1>2 DEF Writes, SyncInv, FoundPages, RowsInv, FreshAttempts
  <2>2. items'[prep[r][k].page.url].doc = doc
    BY <1>2 DEF Writes
  <2>3. ASSUME NEW x \in Urls, x # prep[r][k].page.url, items'[x].status # "absent"
        PROVE  items'[x].doc # doc
    BY <1>2, <2>1, <2>3 DEF Writes, RowsInv, OneItemPerDocument
  <2>4. CASE u = prep[r][k].page.url
    BY <2>2, <2>3, <2>4
  <2>5. CASE w = prep[r][k].page.url
    BY <2>2, <2>3, <2>5
  <2>6. CASE u # prep[r][k].page.url /\ w # prep[r][k].page.url
    BY <1>1, <1>2, <2>6 DEF Writes
  <2> QED
    BY <2>4, <2>5, <2>6
<1>3. CASE Marks(r, k)
  <2>1. items[prep[r][k].page.url].status # "absent"
    BY <1>3 DEF Marks, Moves, SyncInv, UnchangedRowsExist
  <2>2. \A x \in Urls : items'[x].doc = items[x].doc
                        /\ (items'[x].status # "absent" => items[x].status # "absent")
    BY <1>3, <2>1 DEF Marks
  <2> QED
    BY <1>1, <2>2
<1>4. CASE Snapshots(r, k)
  <2>1. \A x \in Urls : items'[x].doc = items[x].doc
                        /\ (items'[x].status # "absent" => items[x].status # "absent")
    BY <1>4 DEF Snapshots
  <2> QED
    BY <1>1, <2>1
<1>5. CASE RowsKept
  BY <1>1, <1>5 DEF RowsKept
<1> QED
  BY <1>2, <1>3, <1>4, <1>5
     DEF AttemptStep, Ends, Returns, Loads, Skips, Discovers, Recovers, Decides, Begins

LEMMA UntouchedKept ==
    ASSUME SyncInv, RowsInv, NEW r \in Runs, NEW k \in Attempts, AttemptStep(r, k)
    PROVE  Untouched' /\ StartsOnce'
<1>1. workflow[r] # "none" /\ (prep[r][k].pc # "idle" \/ Waiting(r, k))
  <2>1. prep[r][k].pc # "idle" \/ Waiting(r, k)
    BY DEF AttemptStep, Ends, Returns, Loads, Skips, Discovers, Recovers, Decides, Marks, Begins,
           Writes, Snapshots, Moves
  <2> QED
    BY <2>1 DEF RowsInv, Untouched, Waiting
<1>2. \A s \in Runs : workflow'[s] = "none" <=> workflow[s] = "none"
  <2>1. CASE Ends(r, k)
    BY <1>1, <2>1 DEF Ends
  <2>2. CASE Returns(r, k)
    BY <1>1, <2>2 DEF Returns
  <2>3. CASE UNCHANGED workflow
    BY <2>3
  <2> QED
    BY <2>1, <2>2, <2>3 DEF AttemptStep, Loads, Skips, Discovers, Recovers, Decides, Marks, Begins,
                            Writes, Snapshots, Moves
<1>3. StartsOnce'
  BY <1>2 DEF RowsInv, StartsOnce, AttemptStep
<1>4. ASSUME NEW s \in Runs, workflow'[s] = "none"
      PROVE  /\ \A j \in Attempts : prep'[s][j].pc = "idle"
             /\ \A u \in Urls : items'[u].seen # s /\ items'[u].changed # s
             /\ \A e \in outbox' : e[1] # s
  <2>1. s # r /\ workflow[s] = "none"
    BY <1>1, <1>2, <1>4
  <2>2. /\ \A j \in Attempts : prep[s][j].pc = "idle"
        /\ \A u \in Urls : items[u].seen # s /\ items[u].changed # s
        /\ \A e \in outbox : e[1] # s
    BY <2>1 DEF RowsInv, Untouched
  <2>3. \A j \in Attempts : prep'[s][j].pc = "idle"
    BY <2>1, <2>2 DEF AttemptStep, OthersWait
  <2>4. ASSUME NEW doc \in VersionIds, Writes(r, k, doc)
        PROVE  /\ \A u \in Urls : items'[u].seen # s /\ items'[u].changed # s
               /\ \A e \in outbox' : e[1] # s
    <3>1. \A u \in Urls : items'[u].seen \in {items[u].seen, r}
                          /\ items'[u].changed \in {items[u].changed, r}
      BY <2>4 DEF Writes
    <3>2. outbox' = outbox
      BY <2>4 DEF Writes
    <3> QED
      BY <2>1, <2>2, <3>1, <3>2
  <2>5. CASE Marks(r, k)
    <3>1. \A u \in Urls : items'[u].seen \in {items[u].seen, r} /\ items'[u].changed = items[u].changed
      BY <2>5 DEF Marks
    <3>2. outbox' = outbox
      BY <2>5 DEF Marks
    <3> QED
      BY <2>1, <2>2, <2>3, <3>1, <3>2
  <2>6. CASE Snapshots(r, k)
    BY <2>1, <2>2, <2>3, <2>6 DEF Snapshots
  <2>7. CASE RowsKept
    BY <2>2, <2>3, <2>7 DEF RowsKept
  <2> QED
    BY <2>3, <2>4, <2>5, <2>6, <2>7
       DEF AttemptStep, Ends, Returns, Loads, Skips, Discovers, Recovers, Decides, Begins
<1> QED
  BY <1>3, <1>4 DEF Untouched

\* Under every fault: the attempt names the document it creates, an item has a document of its
\* own, and a run whose workflow was not started is unknown to the rows.
THEOREM RowsInvariant == Spec => []RowsInv
<1>1. ASSUME Init  PROVE RowsInv
  <2>1. /\ NoItem.status = "absent" /\ NoItem.doc = NoVersion
        /\ NoItem.seen = NoRun /\ NoItem.changed = NoRun
        /\ NoDocVersion.status = "absent" /\ NoDocVersion.doc = NoVersion
        /\ IdlePrep.pc = "idle"
    BY DEF NoItem, NoDocVersion, IdlePrep
  <2>2. \A r \in Runs, k \in Attempts : <<r, k>> \in VersionIds /\ <<r, k>> # NoVersion
    BY SyncConstants DEF VersionIds, Attempts
  <2>3. FreshAttempts
    BY <1>1, <2>1, <2>2 DEF Init, FreshAttempts
  <2>4. OneItemPerDocument /\ Untouched /\ StartsOnce
    BY <1>1, <2>1, SyncConstants DEF Init, OneItemPerDocument, Untouched, StartsOnce
  <2> QED
    BY <2>3, <2>4 DEF RowsInv
<1>2. ASSUME SyncInv, RowsInv, [Next]_vars  PROVE RowsInv'
  <2>1. ASSUME NEW r \in Runs, NEW k \in Attempts, AttemptStep(r, k)  PROVE RowsInv'
    BY <1>2, <2>1, FreshAttemptsKept, OneItemKept, UntouchedKept DEF RowsInv
  <2>2. CASE \/ \E r \in Runs : ClaimSync(r) \/ RequestStep(r) \/ WorkflowStep(r)
             \/ \E i \in Imports : ImportStep(i)
             \/ LeaseExpires \/ PageChanges \/ UNCHANGED vars
    <3>1. /\ UNCHANGED <<prep, items, deletedDocs, outbox>>
          /\ \A v \in VersionIds : versions'[v].doc = versions[v].doc
                /\ (versions'[v].status = "absent" <=> versions[v].status = "absent")
      BY <1>2, <2>2, OtherEffects
    <3>2. StartsOnce' /\ \A r \in Runs : workflow'[r] = "none" => workflow[r] = "none"
      BY <1>2, <2>2, OtherWorkflowMoves DEF RowsInv
    <3>3. FreshAttempts'
      BY <1>2, <3>1 DEF RowsInv, FreshAttempts, VersionIds
    <3>4. OneItemPerDocument'
      BY <1>2, <3>1 DEF RowsInv, OneItemPerDocument
    <3>5. Untouched'
      BY <1>2, <3>1, <3>2 DEF RowsInv, Untouched
    <3> QED
      BY <3>2, <3>3, <3>4, <3>5 DEF RowsInv
  <2> QED
    BY <1>2, <2>1, <2>2, AttemptEffects DEF Next
<1> QED
  BY <1>1, <1>2, SyncInvariant, PTL DEF Spec

-----------------------------------------------------------------------------
(* Part 6: the cursor *)

\* The contents whose body some version or import holds.
Stored(c) ==
    \/ \E v \in VersionIds : versions[v].status # "absent" /\ versions[v].content.body = c.body
    \/ \E i \in Imports : imports[i].phase \in {"stored", "returned"}
                           /\ imports[i].content.body = c.body

\* What may be remembered of a page: nothing, what is stored, and what no validator tells apart.
Known == {c \in Cursors : c = NoContent \/ Stored(c) \/ ~ToldApart(c)}

\* Whatever a run could carry to the cursor is known.
OnlyKnown ==
    /\ syncCursor \in Known
    /\ \A u \in Urls : items[u].content \in Known
    /\ \A r \in Runs : prepared[r].cursor \in Known
    /\ \A r \in Runs, k \in Attempts :
          /\ prep[r][k].prior \in Known
          /\ prep[r][k].pc = "unchanged" => prep[r][k].page.content \in Known
          /\ prep[r][k].pc \in {"deletions", "ready"} /\ workflow[r] = "prepare"
                => prep[r][k].page.content \in Known

\* While a run prepares, its attempts find one page.
OnePage ==
    \A r \in Runs : workflow[r] = "prepare" =>
        \A k \in Attempts :
            /\ prep[r][k].pc \in {"discovered", "unchanged", "changed", "insert", "deletions"}
                  => prep[r][k].page = page
            /\ versions[<<r, k>>].status # "absent" => versions[<<r, k>>].content = page.content

CursorInv == OnlyKnown /\ OnePage

\* What is stored stays so, and so does what is known.
LEMMA KnownGrows ==
    ASSUME \A v \in VersionIds : versions[v].status # "absent" =>
              versions'[v].status # "absent" /\ versions'[v].content = versions[v].content,
           \A i \in Imports : imports[i].phase \in {"stored", "returned"} =>
              imports'[i].phase \in {"stored", "returned"} /\ imports'[i].content = imports[i].content
    PROVE  Known \subseteq Known'
<1>1. \A c : Stored(c) => Stored(c)'
  BY DEF Stored
<1>2. Cursors' = Cursors /\ NoContent' = NoContent /\ \A c : ToldApart(c)' <=> ToldApart(c)
  BY DEF Cursors, NoContent, ToldApart, SameValidator, Bare
<1> QED
  BY <1>1, <1>2 DEF Known

\* A validator that tells a body apart came with that body only.
LEMMA ToldApartBodies ==
    ASSUME NEW old \in Cursors, NEW new \in Contents, Unchanged(old, new), ToldApart(new)
    PROVE  ToldApart(old) /\ new.body = old.body
<1>1. old.body = new.body
  <2>1. CASE SameValidator(old, new)
    <3>1. old \in Contents
      BY <2>1, SyncConstants DEF Cursors, Bare, NoContent, SameValidator
    <3>2. SameValidator(new, old)
      BY <2>1 DEF SameValidator
    <3> QED
      BY <3>1, <3>2 DEF ToldApart
  <2> QED
    BY <2>1 DEF Unchanged
<1> QED
  BY <1>1 DEF ToldApart

\* So a page that the code takes for one it knows is known.
LEMMA UnchangedIsKnown ==
    ASSUME NEW old \in Known, NEW new \in Contents, Unchanged(old, new)
    PROVE  new \in Known
<1>1. new \in Cursors /\ new.body \in Bodies
  BY CursorFacts, SyncConstants
<1> SUFFICES ASSUME ToldApart(new)  PROVE Stored(new)
  BY <1>1 DEF Known
<1>2. old.body = new.body /\ ToldApart(old)
  BY ToldApartBodies DEF Known
<1>3. old # NoContent
  BY <1>1, <1>2, SyncConstants DEF NoContent
<1>4. Stored(old)
  BY <1>2, <1>3 DEF Known
<1> QED
  BY <1>2, <1>4 DEF Stored

\* The bare hash of what an import stored is known.
LEMMA BareIsKnown ==
    ASSUME NEW c \in Contents \cup {NoContent}, Stored(c)
    PROVE  Bare(c) \in Known
<1>1. Bare(c).body = c.body
  BY SyncConstants DEF Bare, NoContent
<1>2. Stored(Bare(c))
  BY <1>1 DEF Stored
<1> QED
  BY <1>2, CursorFacts DEF Known

LEMMA AttemptsKeepKnown ==
    ASSUME SyncInv, RowsInv, NEW r \in Runs, NEW k \in Attempts, AttemptStep(r, k)
    PROVE  /\ Known \subseteq Known'
           /\ \A doc \in VersionIds : Writes(r, k, doc) => prep[r][k].page.content \in Known'
<1>1. UNCHANGED imports
  BY DEF AttemptStep
<1>2. ASSUME NEW doc \in VersionIds, Writes(r, k, doc)
      PROVE  /\ \A v \in VersionIds : versions[v].status # "absent" =>
                    versions'[v].status # "absent" /\ versions'[v].content = versions[v].content
             /\ prep[r][k].page.content \in Known'
  <2>1. versions[<<r, k>>].status = "absent" /\ <<r, k>> \in VersionIds
    BY <1>2 DEF Writes, RowsInv, FreshAttempts, VersionIds
  <2>2. versions'[<<r, k>>].status # "absent"
        /\ versions'[<<r, k>>].content = prep[r][k].page.content
    BY <1>2 DEF Writes
  <2>3. \A v \in VersionIds : versions[v].status # "absent" =>
            versions'[v].status # "absent" /\ versions'[v].content = versions[v].content
    BY <1>2, <2>1 DEF Writes
  <2>4. PICK c : c = prep[r][k].page.content
    OBVIOUS
  <2>5. Stored(c)'
    BY <2>1, <2>2, <2>4 DEF Stored
  <2>6. c \in Cursors
    BY <1>2, <2>4, CursorFacts DEF Writes, SyncInv, FoundPages
  <2> QED
    BY <2>3, <2>4, <2>5, <2>6 DEF Known
<1>3. CASE UNCHANGED versions
  <2>1. \A doc \in VersionIds : ~Writes(r, k, doc)
    <3> SUFFICES ASSUME NEW doc \in VersionIds, Writes(r, k, doc)  PROVE FALSE
      OBVIOUS
    <3>1. versions[<<r, k>>].status = "absent"
      BY DEF Writes, RowsInv, FreshAttempts
    <3>2. versions'[<<r, k>>].status = "pending"
      BY DEF Writes
    <3> QED
      BY <1>3, <3>1, <3>2
  <2> QED
    BY <1>1, <1>3, <2>1, KnownGrows
<1>4. CASE \E doc \in VersionIds : Writes(r, k, doc)
  BY <1>1, <1>2, <1>4, KnownGrows
<1> QED
  BY <1>3, <1>4 DEF AttemptStep, Ends, Returns, Loads, Skips, Discovers, Recovers, Decides, Marks,
     Begins, Snapshots, RowsKept

\* An import's content stays once it is stored.
LEMMA ImportsKeepStored ==
    ASSUME SyncInv, NEW i \in Imports, ImportStep(i), NEW j \in Imports,
           imports[j].phase \in {"stored", "returned"}
    PROVE  imports'[j].phase \in {"stored", "returned"} /\ imports'[j].content = imports[j].content
<1>1. imports \in [Imports -> ImportStates] /\ imports[i] \in ImportStates
  BY DEF SyncInv, TypeOK
<1>2. CASE i # j
  BY <1>1, <1>2 DEF ImportStep, ImportStart, ImportStore, ImportComplete, ImportFail
<1>3. CASE i = j
  <2>1. ImportStore(i) \/ ImportComplete(i)
    BY <1>3 DEF ImportStep, ImportStart, ImportFail
  <2>2. imports[i].phase = "stored"
    BY <1>3, <2>1 DEF ImportStore, ImportComplete
  <2>3. CASE ImportStore(i)
    BY <2>2, <2>3 DEF ImportStore
  <2>4. CASE ImportComplete(i)
    <3>1. imports'[i] = [imports[i] EXCEPT !.phase = "returned", !.status = "completed"]
      BY <1>1, <2>4 DEF ImportComplete
    <3> QED
      BY <1>1, <1>3, <3>1 DEF ImportStates
  <2> QED
    BY <2>1, <2>3, <2>4
<1> QED
  BY <1>2, <1>3

LEMMA OthersKeepKnown ==
    ASSUME SyncInv,
           \/ \E r \in Runs : ClaimSync(r) \/ RequestStep(r) \/ WorkflowStep(r)
           \/ \E i \in Imports : ImportStep(i)
           \/ LeaseExpires \/ PageChanges \/ UNCHANGED vars
    PROVE  Known \subseteq Known'
<1>1. \A v \in VersionIds : /\ versions'[v].content = versions[v].content
                            /\ versions'[v].status = "absent" <=> versions[v].status = "absent"
  BY OtherEffects
<1>2. \A j \in Imports : imports[j].phase \in {"stored", "returned"} =>
          imports'[j].phase \in {"stored", "returned"} /\ imports'[j].content = imports[j].content
  <2>1. ASSUME NEW r \in Runs, ClaimSync(r), NEW j \in Imports
        PROVE  imports'[j].phase = imports[j].phase /\ imports'[j].content = imports[j].content
    <3>1. imports'[j] = [imports[j] EXCEPT !.status = Superseded(imports[j].status)]
      BY <2>1 DEF ClaimSync
    <3>2. imports[j] \in ImportStates
      BY DEF SyncInv, TypeOK
    <3> QED
      BY <3>1, <3>2 DEF ImportStates
  <2>2. ASSUME UNCHANGED imports, NEW j \in Imports
        PROVE  imports'[j].phase = imports[j].phase /\ imports'[j].content = imports[j].content
    BY <2>2
  <2>3. \/ \E r \in Runs : ClaimSync(r)
        \/ \E i \in Imports : ImportStep(i)
        \/ UNCHANGED imports
    BY DEF RequestStep, StartWorkflow, StartWorkflowRaises, FailWorkflowStart,
           AbandonStart, WorkflowStep, IngestChild, ProjectDeletion, AllProjected, Finalize,
           FinalizeRefused, FailRun, LeaseExpires, PageChanges, vars
  <2> QED
    BY <2>1, <2>2, <2>3, ImportsKeepStored
<1> QED
  BY <1>1, <1>2, KnownGrows

\* No workflow goes back to prepare, and while one prepares the page stays.
LEMMA OthersWhilePreparing ==
    ASSUME SyncInv, RowsInv, "page_moves" \notin Faults,
           \/ \E r \in Runs : ClaimSync(r) \/ RequestStep(r) \/ WorkflowStep(r)
           \/ \E i \in Imports : ImportStep(i)
           \/ LeaseExpires \/ PageChanges \/ UNCHANGED vars
    PROVE  \A r \in Runs : workflow'[r] = "prepare" =>
              workflow[r] = "none" \/ (workflow[r] = "prepare" /\ page' = page)
<1> USE DEF SyncInv, TypeOK
<1>1. ASSUME NEW s \in Runs, ClaimSync(s)  PROVE UNCHANGED <<workflow, page>>
  BY <1>1 DEF ClaimSync
<1>2. ASSUME NEW s \in Runs, RequestStep(s), NEW r \in Runs, workflow'[r] = "prepare"
      PROVE  (workflow[r] = "none" \/ workflow[r] = "prepare") /\ page' = page
  BY <1>2 DEF RowsInv, StartsOnce, RequestStep, StartWorkflow, StartWorkflowRaises,
              FailWorkflowStart, AbandonStart
<1>3. ASSUME NEW s \in Runs, WorkflowStep(s), NEW r \in Runs, workflow'[r] = "prepare"
      PROVE  workflow[r] = "prepare" /\ page' = page
  BY <1>3 DEF WorkflowStep, IngestChild, ProjectDeletion, AllProjected, Finalize,
              FinalizeRefused, FailRun
<1>4. CASE PageChanges
  BY <1>4 DEF PageChanges, runVars
<1>5. ASSUME UNCHANGED <<workflow, page>>
      PROVE  \A r \in Runs : workflow'[r] = "prepare" => workflow[r] = "prepare" /\ page' = page
  BY <1>5
<1>6. \/ \E r \in Runs : ClaimSync(r) \/ RequestStep(r) \/ WorkflowStep(r)
      \/ PageChanges \/ UNCHANGED <<workflow, page>>
  BY DEF ImportStep, ImportStart, ImportStore, ImportComplete, ImportFail, LeaseExpires, vars, runVars
<1> QED
  BY <1>1, <1>2, <1>3, <1>4, <1>5, <1>6

LEMMA CursorComesFromKnown ==
    ASSUME SyncInv, CursorInv,
           \/ \E r \in Runs : ClaimSync(r) \/ RequestStep(r) \/ WorkflowStep(r)
           \/ \E i \in Imports : ImportStep(i)
           \/ LeaseExpires \/ PageChanges \/ UNCHANGED vars
    PROVE  syncCursor' \in Known
<1>1. ASSUME NEW r \in Runs, Finalize(r)  PROVE syncCursor' \in Known
  BY <1>1 DEF Finalize, CursorInv, OnlyKnown
<1>2. ASSUME NEW i \in Imports, ImportComplete(i)  PROVE syncCursor' \in Known
  <2>1. imports[i].content \in Contents \cup {NoContent}
    BY DEF SyncInv, TypeOK, ImportStates
  <2>2. Stored(imports[i].content)
    BY <1>2 DEF ImportComplete, Stored
  <2>3. Bare(imports[i].content) \in Known
    BY <2>1, <2>2, BareIsKnown
  <2> QED
    BY <1>2, <2>3 DEF ImportComplete, CursorInv, OnlyKnown
<1>3. CASE UNCHANGED syncCursor
  BY <1>3 DEF CursorInv, OnlyKnown
<1> QED
  BY <1>1, <1>2, <1>3 DEF ClaimSync, RequestStep, StartWorkflow, StartWorkflowRaises,
     FailWorkflowStart, AbandonStart, WorkflowStep, IngestChild, ProjectDeletion, AllProjected,
     FinalizeRefused, FailRun, ImportStep, ImportStart, ImportStore, ImportFail, LeaseExpires,
     PageChanges, vars, sourceVars

\* The page of an attempt that recovered the version of an earlier one is the page that one
\* stored.
LEMMA RecoveredPageIsKnown ==
    ASSUME SyncInv, CursorInv, NEW r \in Runs, NEW k \in Attempts, Recovers(r, k),
           workflow[r] = "prepare"
    PROVE  prep[r][k].page.content \in Known
<1>1. PICK j \in Attempts : /\ <<r, j>> \in VersionIds
                            /\ versions[<<r, j>>].doc = items[prep[r][k].page.url].doc
                            /\ items[prep[r][k].page.url].changed = r
  <2>1. PICK v \in VersionIds : /\ versions[v].doc = items[prep[r][k].page.url].doc /\ v[1] = r
                               /\ items[prep[r][k].page.url].changed = r
    BY DEF Recovers, Recoverable, VersionsOf
  <2>2. PICK j \in Attempts : v = <<r, j>>
    BY <2>1 DEF VersionIds
  <2> QED
    BY <2>1, <2>2
<1>2. prep[r][k].page.url \in Urls /\ prep[r][k].page = page
  BY DEF Recovers, Moves, SyncInv, FoundPages, CursorInv, OnePage
<1>3. items[prep[r][k].page.url].doc \in VersionIds
  BY <1>1, <1>2, SyncConstants DEF SyncInv, RowsNameDocuments
<1>4. versions[<<r, j>>].status # "absent"
  BY <1>1, <1>3, SyncConstants DEF SyncInv, RowsNameDocuments, VersionIds, Attempts
<1>5. versions[<<r, j>>].content = page.content
  BY <1>4 DEF CursorInv, OnePage
<1>6. page.content \in Cursors
  BY CursorFacts DEF SyncInv, TypeOK
<1>7. Stored(page.content)
  BY <1>1, <1>4, <1>5 DEF Stored
<1> QED
  BY <1>2, <1>6, <1>7 DEF Known

LEMMA AttemptWorkflow ==
    ASSUME SyncInv, NEW r \in Runs, NEW k \in Attempts, AttemptStep(r, k)
    PROVE  \A s \in Runs : workflow'[s] = "prepare" => workflow[s] = "prepare"
BY DEF AttemptStep, Ends, Returns, Loads, Skips, Discovers, Recovers, Decides, Marks, Begins,
       Writes, Snapshots, Moves

LEMMA AttemptsKeepOnePage ==
    ASSUME SyncInv, RowsInv, CursorInv, NEW r \in Runs, NEW k \in Attempts, AttemptStep(r, k)
    PROVE  OnePage'
<1> DEFINE Found == {"discovered", "unchanged", "changed", "insert", "deletions"}
<1> SUFFICES ASSUME NEW s \in Runs, workflow'[s] = "prepare", NEW j \in Attempts
             PROVE  /\ prep'[s][j].pc \in Found => prep'[s][j].page = page'
                    /\ versions'[<<s, j>>].status # "absent" =>
                          versions'[<<s, j>>].content = page'.content
  BY DEF OnePage
<1>1. /\ workflow[s] = "prepare" /\ page' = page
      /\ prep[s][j].pc \in Found => prep[s][j].page = page
      /\ versions[<<s, j>>].status # "absent" => versions[<<s, j>>].content = page.content
  BY AttemptWorkflow DEF CursorInv, OnePage, AttemptStep
<1>2. prep'[s][j].pc \in Found => prep'[s][j].page = page'
  <2>1. CASE ~(s = r /\ j = k)
    BY <1>1, <2>1 DEF AttemptStep, OthersWait
  <2>2. CASE s = r /\ j = k
    <3>1. CASE Ends(r, k)
      BY <1>1, <2>2, <3>1 DEF Ends, DeadPrep, IdlePrep
    <3>2. CASE Returns(r, k) \/ Loads(r, k) \/ Skips(r, k) \/ Snapshots(r, k)
      BY <2>2, <3>2 DEF Returns, Loads, Skips, Snapshots, Moves, DeadPrep, IdlePrep
    <3>3. CASE Discovers(r, k)
      BY <1>1, <2>2, <3>3 DEF Discovers
    <3>4. CASE Recovers(r, k) \/ Decides(r, k) \/ Marks(r, k) \/ Begins(r, k)
               \/ \E doc \in VersionIds : Writes(r, k, doc)
      BY <1>1, <2>2, <3>4 DEF Recovers, Decides, Marks, Begins, Writes, Moves, KeepsPage
    <3> QED
      BY <3>1, <3>2, <3>3, <3>4 DEF AttemptStep
  <2> QED
    BY <2>1, <2>2
<1>3. versions'[<<s, j>>].status # "absent" => versions'[<<s, j>>].content = page'.content
  <2>1. ASSUME NEW doc \in VersionIds, Writes(r, k, doc)
        PROVE  versions'[<<s, j>>].status # "absent" => versions'[<<s, j>>].content = page'.content
    <3>1. CASE s = r /\ j = k
      BY <1>1, <2>1, <3>1 DEF Writes
    <3>2. CASE ~(s = r /\ j = k)
      <4>1. <<s, j>> \in VersionIds \ {<<r, k>>}
        BY <3>2 DEF VersionIds
      <4>2. versions'[<<s, j>>] = versions[<<s, j>>]
        BY <2>1, <4>1 DEF Writes
      <4> QED
        BY <1>1, <4>2
    <3> QED
      BY <3>1, <3>2
  <2>2. CASE UNCHANGED versions
    BY <1>1, <2>2
  <2> QED
    BY <2>1, <2>2 DEF AttemptStep, Ends, Returns, Loads, Skips, Discovers, Recovers, Decides, Marks,
       Begins, Snapshots, RowsKept
<1> QED
  BY <1>2, <1>3

LEMMA AttemptsCarryKnown ==
    ASSUME SyncInv, RowsInv, CursorInv, NEW r \in Runs, NEW k \in Attempts, AttemptStep(r, k)
    PROVE  OnlyKnown'
<1>1. Known \subseteq Known'
      /\ \A doc \in VersionIds : Writes(r, k, doc) => prep[r][k].page.content \in Known'
  BY AttemptsKeepKnown
<1>2. syncCursor' \in Known'
  BY <1>1 DEF AttemptStep, CursorInv, OnlyKnown
<1>3. \A u \in Urls : items'[u].content \in Known'
  <2> SUFFICES ASSUME NEW u \in Urls  PROVE items'[u].content \in Known'
    OBVIOUS
  <2>1. items[u].content \in Known
    BY DEF CursorInv, OnlyKnown
  <2>2. ASSUME NEW doc \in VersionIds, Writes(r, k, doc)
        PROVE  items'[u].content \in Known'
    <3>1. prep[r][k].page.content \in Known'
      BY <1>1, <2>2
    <3>2. /\ items'[prep[r][k].page.url].content = prep[r][k].page.content
          /\ u # prep[r][k].page.url => items'[u] = items[u]
      BY <2>2 DEF Writes
    <3>3. CASE u = prep[r][k].page.url
      BY <3>1, <3>2, <3>3
    <3>4. CASE u # prep[r][k].page.url
      BY <1>1, <2>1, <3>2, <3>4
    <3> QED
      BY <3>3, <3>4
  <2>3. CASE Marks(r, k)
    <3>1. prep[r][k].page.content \in Known
      BY <2>3 DEF Marks, Moves, CursorInv, OnlyKnown
    <3>2. items'[u].content \in {items[u].content, prep[r][k].page.content}
      BY <2>3 DEF Marks
    <3> QED
      BY <1>1, <2>1, <3>1, <3>2
  <2>4. CASE Snapshots(r, k)
    BY <1>1, <2>1, <2>4 DEF Snapshots
  <2>5. CASE RowsKept
    BY <1>1, <2>1, <2>5 DEF RowsKept
  <2> QED
    BY <2>2, <2>3, <2>4, <2>5
       DEF AttemptStep, Ends, Returns, Loads, Skips, Discovers, Recovers, Decides, Begins
<1>4. \A s \in Runs : prepared'[s].cursor \in Known'
  <2> SUFFICES ASSUME NEW s \in Runs  PROVE prepared'[s].cursor \in Known'
    OBVIOUS
  <2>1. prepared[s].cursor \in Known
    BY DEF CursorInv, OnlyKnown
  <2>2. CASE Returns(r, k)
    <3>1. prep[r][k].page.content \in Known
      BY <2>2 DEF Returns, Waiting, CursorInv, OnlyKnown
    <3> QED
      BY <1>1, <2>1, <2>2, <3>1 DEF Returns
  <2>3. CASE UNCHANGED prepared
    BY <1>1, <2>1, <2>3
  <2> QED
    BY <2>2, <2>3 DEF AttemptStep, Ends, Loads, Skips, Discovers, Recovers, Decides, Marks, Begins,
       Writes, Snapshots, Moves
<1>5. ASSUME NEW s \in Runs, NEW j \in Attempts
      PROVE  /\ prep'[s][j].prior \in Known'
             /\ prep'[s][j].pc = "unchanged" => prep'[s][j].page.content \in Known'
             /\ prep'[s][j].pc \in {"deletions", "ready"} /\ workflow'[s] = "prepare"
                   => prep'[s][j].page.content \in Known'
  <2>1. /\ prep[s][j].prior \in Known
        /\ prep[s][j].pc = "unchanged" => prep[s][j].page.content \in Known
        /\ prep[s][j].pc \in {"deletions", "ready"} /\ workflow[s] = "prepare"
              => prep[s][j].page.content \in Known
        /\ workflow'[s] = "prepare" => workflow[s] = "prepare"
    BY AttemptWorkflow DEF CursorInv, OnlyKnown
  <2>2. CASE ~(s = r /\ j = k)
    BY <1>1, <2>1, <2>2 DEF AttemptStep, OthersWait
  <2>3. CASE s = r /\ j = k
    <3>1. CASE Ends(r, k) \/ Returns(r, k)
      <4>1. prep'[r][k] \in {DeadPrep, prep[r][k]}
        BY <3>1 DEF Ends, Returns
      <4>2. DeadPrep.pc = "dead" /\ DeadPrep.prior = NoContent /\ NoContent \in Known
        BY CursorFacts DEF DeadPrep, IdlePrep, Known
      <4> QED
        BY <1>1, <2>1, <2>3, <4>1, <4>2
    <3>2. CASE Loads(r, k)
      <4>1. syncCursor \in Known
        BY DEF CursorInv, OnlyKnown
      <4> QED
        BY <1>1, <2>3, <3>2, <4>1 DEF Loads, Moves
    <3>3. CASE Skips(r, k)
      <4>1. page.content \in Contents
        BY DEF SyncInv, TypeOK
      <4>2. prep'[r][k].page.content \in Known
        BY <2>1, <2>3, <3>3, <4>1, UnchangedIsKnown DEF Skips
      <4> QED
        BY <1>1, <2>1, <2>3, <3>3, <4>2 DEF Skips, Moves
    <3>4. CASE Discovers(r, k)
      BY <1>1, <2>1, <2>3, <3>4 DEF Discovers, Moves
    <3>5. CASE Recovers(r, k)
      <4>1. workflow[r] = "prepare" => prep[r][k].page.content \in Known
        BY <3>5, RecoveredPageIsKnown
      <4> QED
        BY <1>1, <2>1, <2>3, <3>5, <4>1 DEF Recovers, Moves, KeepsPage
    <3>6. CASE Decides(r, k)
      <4>1. prep[r][k].page.url \in Urls
        BY <3>6 DEF Decides, Moves, SyncInv, FoundPages
      <4>2. items[prep[r][k].page.url].content \in Known
        BY <4>1 DEF CursorInv, OnlyKnown
      <4>3. prep[r][k].page.content \in Contents
        BY <3>6 DEF Decides, Moves, SyncInv, FoundPages
      <4>4. prep'[r][k].pc = "unchanged" => prep[r][k].page.content \in Known
        BY <3>6, <4>2, <4>3, UnchangedIsKnown DEF Decides, Moves
      <4> QED
        BY <1>1, <2>1, <2>3, <3>6, <4>4 DEF Decides, Moves, KeepsPage
    <3>7. CASE Marks(r, k) \/ Begins(r, k) \/ Snapshots(r, k)
      BY <1>1, <2>1, <2>3, <3>7 DEF Marks, Begins, Snapshots, Moves, KeepsPage
    <3>8. ASSUME NEW doc \in VersionIds, Writes(r, k, doc)
          PROVE  /\ prep'[s][j].prior \in Known'
                 /\ prep'[s][j].pc = "unchanged" => prep'[s][j].page.content \in Known'
                 /\ prep'[s][j].pc \in {"deletions", "ready"} /\ workflow'[s] = "prepare"
                       => prep'[s][j].page.content \in Known'
      BY <1>1, <2>1, <2>3, <3>8 DEF Writes, KeepsPage
    <3> QED
      BY <3>1, <3>2, <3>3, <3>4, <3>5, <3>6, <3>7, <3>8 DEF AttemptStep
  <2> QED
    BY <2>2, <2>3
<1> QED
  BY <1>2, <1>3, <1>4, <1>5 DEF OnlyKnown

\* What the cursor can become is stored somewhere, or no validator tells it apart, as long as a
\* page does not change under the attempts of one run.
THEOREM CursorInvariant == ASSUME "page_moves" \notin Faults PROVE Spec => []CursorInv
<1>1. ASSUME Init  PROVE CursorInv
  <2>1. /\ NoItem.content = NoContent /\ NoResult.cursor = NoContent /\ IdlePrep.prior = NoContent
        /\ NoDocVersion.status = "absent" /\ IdlePrep.pc = "idle"
    BY DEF NoItem, NoResult, IdlePrep, NoDocVersion
  <2>2. NoContent \in Known
    BY CursorFacts DEF Known
  <2> QED
    BY <1>1, <2>1, <2>2 DEF Init, CursorInv, OnlyKnown, OnePage
<1>2. ASSUME SyncInv, RowsInv, CursorInv, [Next]_vars  PROVE CursorInv'
  <2>1. ASSUME NEW r \in Runs, NEW k \in Attempts, AttemptStep(r, k)  PROVE CursorInv'
    BY <1>2, <2>1, AttemptsKeepOnePage, AttemptsCarryKnown DEF CursorInv
  <2>2. CASE \/ \E r \in Runs : ClaimSync(r) \/ RequestStep(r) \/ WorkflowStep(r)
             \/ \E i \in Imports : ImportStep(i)
             \/ LeaseExpires \/ PageChanges \/ UNCHANGED vars
    <3>1. /\ UNCHANGED <<prep, items, prepared>>
          /\ \A v \in VersionIds : versions'[v].content = versions[v].content
                /\ (versions'[v].status = "absent" <=> versions[v].status = "absent")
      BY <1>2, <2>2, OtherEffects
    <3>2. \A r \in Runs : workflow'[r] = "prepare" =>
              workflow[r] = "none" \/ (workflow[r] = "prepare" /\ page' = page)
      BY <1>2, <2>2, OthersWhilePreparing
    <3>3. \A r \in Runs, k \in Attempts : workflow[r] = "none" =>
              prep[r][k].pc = "idle" /\ versions[<<r, k>>].status = "absent"
      BY <1>2 DEF RowsInv, Untouched, FreshAttempts
    <3>4. Known \subseteq Known' /\ syncCursor' \in Known
      BY <1>2, <2>2, OthersKeepKnown, CursorComesFromKnown
    <3>5. OnePage'
      BY <1>2, <3>1, <3>2, <3>3 DEF CursorInv, OnePage, VersionIds
    <3>6. OnlyKnown'
      BY <1>2, <3>1, <3>2, <3>3, <3>4 DEF CursorInv, OnlyKnown
    <3> QED
      BY <3>5, <3>6 DEF CursorInv
  <2> QED
    BY <1>2, <2>1, <2>2, AttemptEffects DEF Next
<1> QED
  BY <1>1, <1>2, SyncInvariant, RowsInvariant, PTL DEF Spec

\* The body by which later runs skip the page exists as a version or as an import's
\* document, unless its validators also come with other bodies: no failure, loss,
\* expiry or overtaken attempt leaves a cursor to nothing.
THEOREM CursorIsBacked == ASSUME "page_moves" \notin Faults PROVE Spec => []CursorHasVersion
<1>1. CursorInv => CursorHasVersion
  BY DEF CursorInv, OnlyKnown, Known, Stored, CursorHasVersion
<1> QED
  BY <1>1, CursorInvariant, PTL

-----------------------------------------------------------------------------
(* Part 7: one attempt at a time *)

\* Starts are answered, leases outlive their runs and attempts end in their time.
AttemptsInTime == {"lost_start_reply", "lease_expiry", "late_attempt"} \cap Faults = {}

\* An attempt under way is the one that is waited for, and its run holds the lease.
OneAttempt ==
    /\ leaseToken # NoRun => leaseLive
    /\ \A r \in Runs : workflow[r] \in {"prepare", "ingest", "project"} => leaseToken = r
    /\ \A r \in Runs, k \in Attempts : prep[r][k].pc \notin {"idle", "dead"} => Waiting(r, k)

\* What it decided is still so, and what it wrote is still there.
FoundStays ==
    /\ \A r \in Runs, k \in Attempts :
          /\ prep[r][k].pc = "unchanged" =>
                /\ items[prep[r][k].page.url].status = "active"
                /\ Unchanged(items[prep[r][k].page.url].content, prep[r][k].page.content)
          /\ prep[r][k].pc = "deletions" =>
                /\ items[prep[r][k].page.url].status # "absent"
                /\ items[prep[r][k].page.url].seen = r
    /\ \A r \in Runs, u \in Urls : leaseToken = r /\ items[u].changed = r => items[u].seen = r

AloneInv == OneAttempt /\ FoundStays /\ ItemMatchesNewestVersion

\* The hypotheses of every step of this part.
AloneBefore == AttemptsInTime /\ SyncInv /\ RowsInv /\ LeaseInv /\ AloneInv

LEMMA OnlyOneAttempt ==
    ASSUME AloneBefore, NEW r \in Runs, NEW k \in Attempts, NEW s \in Runs, NEW j \in Attempts,
           prep[r][k].pc \notin {"idle", "dead"} \/ Waiting(r, k),
           prep[s][j].pc \notin {"idle", "dead"}
    PROVE  s = r /\ j = k /\ leaseToken = r
<1>1. Waiting(r, k) /\ Waiting(s, j)
  BY DEF AloneBefore, AloneInv, OneAttempt
<1>2. leaseToken = r /\ leaseToken = s
  BY <1>1 DEF AloneBefore, AloneInv, OneAttempt, Waiting
<1> QED
  BY <1>1, <1>2 DEF Waiting

\* The attempt that takes a step is the one under way.
LEMMA SteppingAttempt ==
    ASSUME AloneBefore, NEW r \in Runs, NEW k \in Attempts, AttemptStep(r, k)
    PROVE  Waiting(r, k) /\ leaseToken = r
<1>1. prep[r][k].pc \notin {"idle", "dead"} \/ Waiting(r, k)
  BY DEF AttemptStep, Ends, Returns, Loads, Skips, Discovers, Recovers, Decides, Marks, Begins,
         Writes, Snapshots, Moves
<1>2. Waiting(r, k)
  BY <1>1 DEF AloneBefore, AloneInv, OneAttempt
<1> QED
  BY <1>2 DEF AloneBefore, AloneInv, OneAttempt, Waiting

LEMMA AttemptKeepsOneAttempt ==
    ASSUME AloneBefore, NEW r \in Runs, NEW k \in Attempts, AttemptStep(r, k)
    PROVE  OneAttempt'
<1>1. Waiting(r, k) /\ leaseToken = r
  BY SteppingAttempt
<1>2. UNCHANGED <<leaseToken, leaseLive>>
  BY DEF AttemptStep
<1>3. \A s \in Runs : s # r => workflow'[s] = workflow[s]
  BY DEF AttemptStep, Ends, Returns, Loads, Skips, Discovers, Recovers, Decides, Marks, Begins,
         Writes, Snapshots, Moves
<1>4. \A s \in Runs : workflow'[s] \in {"prepare", "ingest", "project"} => leaseToken' = s
  BY <1>1, <1>2, <1>3 DEF AloneBefore, AloneInv, OneAttempt
<1>5. ASSUME NEW s \in Runs, NEW j \in Attempts, prep'[s][j].pc \notin {"idle", "dead"}
      PROVE  Waiting(s, j)'
  <2>1. s = r /\ j = k
    <3>1. CASE ~(s = r /\ j = k)
      <4>1. prep[s][j].pc \notin {"idle", "dead"}
        BY <1>5, <3>1 DEF AttemptStep, OthersWait
      <4> QED
        BY <1>1, <3>1, <4>1, OnlyOneAttempt
    <3> QED
      BY <3>1
  <2>2. ~Ends(r, k) /\ ~Returns(r, k)
    BY <1>5, <2>1 DEF Ends, Returns, DeadPrep, IdlePrep, AloneBefore, AttemptsInTime
  <2>3. UNCHANGED <<workflow, attempt>>
    BY <2>2 DEF AttemptStep, Loads, Skips, Discovers, Recovers, Decides, Marks, Begins, Writes,
                Snapshots, Moves
  <2> QED
    BY <1>1, <2>1, <2>3 DEF Waiting
<1> QED
  BY <1>2, <1>4, <1>5 DEF AloneBefore, AloneInv, OneAttempt

LEMMA OthersKeepOneAttempt ==
    ASSUME AloneBefore,
           \/ \E r \in Runs : ClaimSync(r) \/ RequestStep(r) \/ WorkflowStep(r)
           \/ \E i \in Imports : ImportStep(i)
           \/ LeaseExpires \/ PageChanges \/ UNCHANGED vars
    PROVE  OneAttempt'
<1>1. /\ leaseToken # NoRun => leaseLive
      /\ \A r \in Runs : workflow[r] \in {"prepare", "ingest", "project"} => leaseToken = r
      /\ \A r \in Runs, k \in Attempts :
            prep[r][k].pc \notin {"idle", "dead"} => workflow[r] = "prepare" /\ attempt[r] = k
      /\ workflow \in [Runs -> WorkflowSteps]
  BY DEF AloneBefore, AloneInv, OneAttempt, Waiting, LeaseInv, LeaseTypes
<1>2. UNCHANGED <<prep, attempt>>
  BY OtherEffects DEF AloneBefore
<1>3. ASSUME /\ leaseToken' # NoRun => leaseLive'
             /\ \A r \in Runs : workflow'[r] \in {"prepare", "ingest", "project"} => leaseToken' = r
             /\ \A r \in Runs : workflow[r] = "prepare" => workflow'[r] = "prepare"
      PROVE  OneAttempt'
  BY <1>1, <1>2, <1>3 DEF OneAttempt, Waiting
<1> DEFINE Lease2 ==
        /\ leaseToken' # NoRun => leaseLive'
        /\ \A r \in Runs : workflow'[r] \in {"prepare", "ingest", "project"} => leaseToken' = r
        /\ \A r \in Runs : workflow[r] = "prepare" => workflow'[r] = "prepare"
<1>4. ASSUME NEW s \in Runs, ClaimSync(s)  PROVE Lease2
  BY <1>1, <1>4, SyncConstants DEF ClaimSync, Claimable
<1>5. ASSUME NEW s \in Runs, RequestStep(s)  PROVE Lease2
  <2>1. starter[s] \in {"starting", "failing"} => leaseToken = s /\ leaseLive /\ workflow[s] = "none"
    BY DEF AloneBefore, LeaseInv, RequestOwnsLease
  <2>2. "lost_start_reply" \notin Faults
    BY DEF AloneBefore, AttemptsInTime
  <2>3. CASE StartWorkflow(s)
    BY <1>1, <2>1, <2>3 DEF StartWorkflow, sourceVars
  <2>4. CASE StartWorkflowRaises(s)
    BY <1>1, <2>1, <2>2, <2>4 DEF StartWorkflowRaises, sourceVars
  <2>5. CASE FailWorkflowStart(s)
    BY <1>1, <2>1, <2>5 DEF FailWorkflowStart
  <2>6. CASE AbandonStart(s)
    BY <1>1, <2>6 DEF AbandonStart, sourceVars
  <2> QED
    BY <1>5, <2>3, <2>4, <2>5, <2>6 DEF RequestStep
<1>6. ASSUME NEW s \in Runs, WorkflowStep(s)  PROVE Lease2
  <2>1. CASE IngestChild(s)
    BY <1>1, <2>1 DEF IngestChild, sourceVars
  <2>2. CASE ProjectDeletion(s)
    BY <1>1, <2>2 DEF ProjectDeletion, sourceVars
  <2>3. CASE AllProjected(s)
    BY <1>1, <2>3 DEF AllProjected, sourceVars
  <2>4. CASE Finalize(s)
    BY <1>1, <2>4 DEF Finalize, Fenced
  <2>5. CASE FinalizeRefused(s)
    BY <1>1, <2>5 DEF FinalizeRefused, sourceVars
  <2>6. CASE FailRun(s)
    BY <1>1, <2>6 DEF FailRun, Fenced
  <2> QED
    BY <1>6, <2>1, <2>2, <2>3, <2>4, <2>5, <2>6 DEF WorkflowStep
<1>7. ASSUME UNCHANGED <<leaseToken, leaseLive, workflow>>  PROVE Lease2
  BY <1>1, <1>7
<1>8. ~LeaseExpires
  BY DEF LeaseExpires, AloneBefore, AttemptsInTime
<1>9. \/ \E r \in Runs : ClaimSync(r) \/ RequestStep(r) \/ WorkflowStep(r)
      \/ UNCHANGED <<leaseToken, leaseLive, workflow>>
  BY <1>8 DEF ImportStep, ImportStart, ImportStore, ImportComplete, ImportFail, PageChanges, vars,
              runVars, sourceVars
<1>10. Lease2
  BY <1>4, <1>5, <1>6, <1>7, <1>9
<1> QED
  BY <1>3, <1>10

LEMMA AttemptKeepsFound ==
    ASSUME AloneBefore, NEW r \in Runs, NEW k \in Attempts, AttemptStep(r, k)
    PROVE  FoundStays'
<1>1. Waiting(r, k) /\ leaseToken = r /\ leaseToken' = leaseToken
  BY SteppingAttempt DEF AttemptStep
<1>2. FoundStays /\ prep[r][k].pc \in PrepPcs
  BY DEF AloneBefore, AloneInv, SyncInv, TypeOK, PrepStates
<1>3. ASSUME NEW s \in Runs, NEW j \in Attempts, prep'[s][j].pc \in {"unchanged", "deletions"}
      PROVE  s = r /\ j = k
  <2>1. CASE ~(s = r /\ j = k)
    <3>1. prep[s][j].pc \notin {"idle", "dead"}
      BY <1>3, <2>1 DEF AttemptStep, OthersWait
    <3> QED
      BY <1>1, <2>1, <3>1, OnlyOneAttempt
  <2> QED
    BY <2>1
<1>4. prep'[r][k].pc = "unchanged" =>
          /\ items'[prep'[r][k].page.url].status = "active"
          /\ Unchanged(items'[prep'[r][k].page.url].content, prep'[r][k].page.content)
  <2> SUFFICES ASSUME prep'[r][k].pc = "unchanged"
               PROVE  /\ items'[prep'[r][k].page.url].status = "active"
                      /\ Unchanged(items'[prep'[r][k].page.url].content, prep'[r][k].page.content)
    OBVIOUS
  <2>1. CASE Ends(r, k)
    BY <2>1 DEF Ends, DeadPrep, IdlePrep, AloneBefore, AttemptsInTime
  <2>2. CASE Decides(r, k)
    BY <2>2 DEF Decides, Moves, KeepsPage, RowsKept
  <2> QED
    BY <2>1, <2>2 DEF AttemptStep, Returns, Loads, Skips, Discovers, Recovers, Marks, Begins, Writes,
                      Snapshots, Moves, DeadPrep, IdlePrep
<1>5. prep'[r][k].pc = "deletions" =>
          /\ items'[prep'[r][k].page.url].status # "absent"
          /\ items'[prep'[r][k].page.url].seen = r
  <2> SUFFICES ASSUME prep'[r][k].pc = "deletions"
               PROVE  /\ items'[prep'[r][k].page.url].status # "absent"
                      /\ items'[prep'[r][k].page.url].seen = r
    OBVIOUS
  <2>1. CASE Ends(r, k)
    BY <2>1 DEF Ends, DeadPrep, IdlePrep, AloneBefore, AttemptsInTime
  <2>2. CASE Recovers(r, k)
    <3>1. prep[r][k].page.url \in Urls
      BY <2>2 DEF Recovers, Moves, AloneBefore, SyncInv, FoundPages
    <3>2. items[prep[r][k].page.url].changed = r
      BY <2>2 DEF Recovers, Recoverable
    <3>3. items[prep[r][k].page.url].status # "absent"
      BY <3>1, <3>2, SyncConstants DEF AloneBefore, SyncInv, RowsNameDocuments
    <3>4. items[prep[r][k].page.url].seen = r
      BY <1>1, <1>2, <3>1, <3>2 DEF FoundStays
    <3> QED
      BY <2>2, <3>3, <3>4 DEF Recovers, KeepsPage, RowsKept
  <2>3. CASE Marks(r, k)
    <3>1. prep[r][k].page.url \in Urls
      BY <2>3 DEF Marks, Moves, AloneBefore, SyncInv, FoundPages
    <3> QED
      BY <2>3, <3>1 DEF Marks, KeepsPage
  <2>4. ASSUME NEW doc \in VersionIds, Writes(r, k, doc)
        PROVE  /\ items'[prep'[r][k].page.url].status # "absent"
               /\ items'[prep'[r][k].page.url].seen = r
    BY <2>4 DEF Writes, KeepsPage
  <2> QED
    BY <2>1, <2>2, <2>3, <2>4 DEF AttemptStep, Returns, Loads, Skips, Discovers, Decides, Begins,
                                  Snapshots, Moves, DeadPrep, IdlePrep
<1>6. ASSUME NEW s \in Runs, NEW u \in Urls, leaseToken' = s, items'[u].changed = s
      PROVE  items'[u].seen = s
  <2>1. s = r /\ (items[u].changed = r => items[u].seen = r)
    BY <1>1, <1>2, <1>6 DEF FoundStays
  <2>2. ASSUME NEW doc \in VersionIds, Writes(r, k, doc)
        PROVE  items'[u].seen = s
    BY <1>6, <2>1, <2>2 DEF Writes
  <2>3. CASE Marks(r, k)
    BY <1>6, <2>1, <2>3 DEF Marks
  <2>4. CASE Snapshots(r, k)
    BY <1>6, <2>1, <2>4 DEF Snapshots
  <2>5. CASE RowsKept
    BY <1>6, <2>1, <2>5 DEF RowsKept
  <2> QED
    BY <2>2, <2>3, <2>4, <2>5
       DEF AttemptStep, Ends, Returns, Loads, Skips, Discovers, Recovers, Decides, Begins
<1> QED
  BY <1>3, <1>4, <1>5, <1>6 DEF FoundStays

LEMMA OthersKeepFound ==
    ASSUME AloneBefore,
           \/ \E r \in Runs : ClaimSync(r) \/ RequestStep(r) \/ WorkflowStep(r)
           \/ \E i \in Imports : ImportStep(i)
           \/ LeaseExpires \/ PageChanges \/ UNCHANGED vars
    PROVE  FoundStays' /\ ItemMatchesNewestVersion'
<1>1. /\ UNCHANGED <<prep, items>>
      /\ \A v \in VersionIds :
            /\ versions'[v].doc = versions[v].doc /\ versions'[v].content = versions[v].content
            /\ versions'[v].number = versions[v].number
  BY OtherEffects DEF AloneBefore
<1>2. \A d : VersionsOf(d)' = VersionsOf(d)
  BY <1>1 DEF VersionsOf
<1>3. ItemMatchesNewestVersion'
  BY <1>1, <1>2 DEF AloneBefore, AloneInv, ItemMatchesNewestVersion, VersionsOf
<1>4. leaseToken' \in {leaseToken, NoRun}
      \/ \E r \in Runs : leaseToken' = r /\ \A u \in Urls : items[u].changed # r
  <2>1. ASSUME NEW r \in Runs, ClaimSync(r)
        PROVE  leaseToken' = r /\ \A u \in Urls : items[u].changed # r
    BY <2>1 DEF ClaimSync, AloneBefore, RowsInv, StartsOnce, Untouched
  <2> QED
    BY <2>1 DEF RequestStep, StartWorkflow, StartWorkflowRaises, FailWorkflowStart,
         AbandonStart, WorkflowStep, IngestChild, ProjectDeletion, AllProjected, Finalize,
         FinalizeRefused, FailRun, ImportStep, ImportStart, ImportStore, ImportComplete, ImportFail,
         LeaseExpires, PageChanges, vars, sourceVars
<1>5. FoundStays'
  <2>1. FoundStays
    BY DEF AloneBefore, AloneInv
  <2>2. ASSUME NEW r \in Runs, NEW u \in Urls, leaseToken' = r, items[u].changed = r
        PROVE  items[u].seen = r
    BY <1>4, <2>1, <2>2, SyncConstants DEF FoundStays
  <2> QED
    BY <1>1, <2>1, <2>2 DEF FoundStays
<1> QED
  BY <1>3, <1>5

LEMMA AttemptKeepsNewest ==
    ASSUME AloneBefore, NEW r \in Runs, NEW k \in Attempts, AttemptStep(r, k)
    PROVE  ItemMatchesNewestVersion'
<1>1. /\ ItemMatchesNewestVersion /\ RowsNameDocuments /\ NumbersBounded /\ TypeOK
      /\ OneItemPerDocument /\ FreshAttempts /\ FoundStays
  BY DEF AloneBefore, AloneInv, SyncInv, RowsInv
<1>2. ASSUME UNCHANGED versions,
             \A u \in Urls : items'[u].status = "active" =>
                /\ items[u].status = "active" /\ items'[u].doc = items[u].doc
                /\ ToldApart(items'[u].content) =>
                      ToldApart(items[u].content) /\ items'[u].content.body = items[u].content.body
      PROVE  ItemMatchesNewestVersion'
  BY <1>1, <1>2 DEF ItemMatchesNewestVersion, VersionsOf
<1>3. ASSUME NEW doc \in VersionIds, Writes(r, k, doc)
      PROVE  ItemMatchesNewestVersion'
  <2> DEFINE new == <<r, k>>
             url == prep[r][k].page.url
  <2>1. url \in Urls /\ new \in VersionIds /\ versions[new].status = "absent"
        /\ \A v \in VersionIds : versions[v].doc # new
        /\ \A u \in Urls : items[u].doc # new
    <3>1. prep[r][k].pc \in {"changed", "insert"}
      BY <1>3 DEF Writes
    <3>2. url \in Urls
      BY <3>1 DEF AloneBefore, SyncInv, FoundPages
    <3> QED
      BY <1>1, <3>1, <3>2 DEF FreshAttempts, VersionIds
  <2>2. versions[new].doc = NoVersion /\ NoVersion \notin VersionIds
    BY <1>1, <2>1, SyncConstants DEF RowsNameDocuments, VersionIds, Attempts
  <2>3. /\ versions'[new].doc = doc /\ versions'[new].number = NextNumber(doc)
        /\ versions'[new].content = prep[r][k].page.content
        /\ \A v \in VersionIds : v # new => versions'[v] = versions[v]
        /\ items'[url].status = "active" /\ items'[url].doc = doc
        /\ items'[url].content = prep[r][k].page.content
        /\ \A u \in Urls : u # url => items'[u] = items[u]
        /\ doc = new \/ (items[url].status # "absent" /\ doc = items[url].doc)
    <3>1. versions'[new] = [status |-> "pending", doc |-> doc, number |-> NextNumber(doc),
                            content |-> prep[r][k].page.content]
          /\ items'[url] = [status |-> "active", content |-> prep[r][k].page.content,
                            doc |-> doc, seen |-> r, changed |-> r]
      BY <1>3 DEF Writes
    <3>2. /\ \A v \in VersionIds : v # new => versions'[v] = versions[v]
          /\ \A u \in Urls : u # url => items'[u] = items[u]
          /\ doc = new \/ (items[url].status # "absent" /\ doc = items[url].doc)
      BY <1>3 DEF Writes
    <3> HIDE DEF new, url
    <3> QED
      BY <3>1, <3>2
  <2>4. \A v \in VersionIds : versions[v].doc = doc => versions[v].number < NextNumber(doc)
    BY <1>1, NextNumberIsFresh DEF VersionsOf
  <2> HIDE DEF new, url
  <2> SUFFICES ASSUME NEW u \in Urls, items'[u].status = "active", ToldApart(items'[u].content)
               PROVE  \E v \in VersionIds :
                         /\ versions'[v].doc = items'[u].doc
                         /\ versions'[v].content.body = items'[u].content.body
                         /\ \A w \in VersionIds : w # v /\ versions'[w].doc = items'[u].doc =>
                               versions'[w].number < versions'[v].number
    BY DEF ItemMatchesNewestVersion, VersionsOf
  <2>5. CASE u = url
    <3>1. \A w \in VersionIds : w # new /\ versions'[w].doc = doc =>
              versions'[w].number < versions'[new].number
      BY <2>3, <2>4
    <3> QED
      BY <2>1, <2>3, <2>5, <3>1
  <2>6. CASE u # url
    <3>1. items'[u] = items[u] /\ items[u].status = "active" /\ ToldApart(items[u].content)
      BY <2>3, <2>6
    <3>2. items[u].doc \in VersionIds /\ items[u].doc # doc
      BY <1>1, <2>1, <2>3, <2>6, <3>1 DEF RowsNameDocuments, OneItemPerDocument
    <3>3. PICK v \in VersionIds :
             /\ versions[v].doc = items[u].doc
             /\ versions[v].content.body = items[u].content.body
             /\ \A w \in VersionIds : w # v /\ versions[w].doc = items[u].doc =>
                   versions[w].number < versions[v].number
      BY <1>1, <3>1 DEF ItemMatchesNewestVersion, VersionsOf
    <3>4. v # new
      BY <2>2, <3>2, <3>3
    <3>5. \A w \in VersionIds : versions'[w].doc = items[u].doc => w # new
      BY <2>3, <3>2
    <3> QED
      BY <2>3, <3>1, <3>3, <3>4, <3>5
  <2> QED
    BY <2>5, <2>6
<1>4. CASE Marks(r, k)
  <2>1. /\ items[prep[r][k].page.url].status = "active" /\ prep[r][k].page.url \in Urls
        /\ Unchanged(items[prep[r][k].page.url].content, prep[r][k].page.content)
        /\ prep[r][k].page.content \in Contents
    BY <1>1, <1>4 DEF Marks, Moves, FoundStays, AloneBefore, SyncInv, FoundPages
  <2>2. items[prep[r][k].page.url].content \in Contents \cup {NoContent}
    BY <1>1, <2>1 DEF TypeOK, ItemRows
  <2>3. ToldApart(prep[r][k].page.content) =>
            /\ ToldApart(items[prep[r][k].page.url].content)
            /\ prep[r][k].page.content.body = items[prep[r][k].page.url].content.body
    BY <2>1, <2>2, ToldApartBodies, CursorFacts
  <2>4. \A u \in Urls :
            /\ items'[u].status = "active" => items[u].status = "active"
            /\ items'[u].doc = items[u].doc
            /\ ToldApart(items'[u].content) =>
                  ToldApart(items[u].content) /\ items'[u].content.body = items[u].content.body
    BY <1>4, <2>1, <2>3 DEF Marks
  <2> QED
    BY <1>2, <1>4, <2>4 DEF Marks
<1>5. CASE Snapshots(r, k)
  <2>1. \A u \in Urls : /\ items'[u].status = "active" => items[u].status = "active"
                        /\ items'[u].content = items[u].content /\ items'[u].doc = items[u].doc
    BY <1>5 DEF Snapshots
  <2> QED
    BY <1>2, <1>5, <2>1 DEF Snapshots
<1>6. CASE RowsKept
  BY <1>2, <1>6 DEF RowsKept
<1> QED
  BY <1>3, <1>4, <1>5, <1>6
     DEF AttemptStep, Ends, Returns, Loads, Skips, Discovers, Recovers, Decides, Begins

\* With starts answered, leases that outlive their runs and attempts that end in their time,
\* one attempt at a time works on the source, and the rows stay as it found them: crashes,
\* imports and a page that moves do not change that.
THEOREM AloneInvariant == ASSUME AttemptsInTime PROVE Spec => []AloneInv
<1>1. ASSUME Init  PROVE AloneInv
  <2>1. /\ NoItem.status = "absent" /\ NoItem.changed = NoRun /\ IdlePrep.pc = "idle"
    BY DEF NoItem, IdlePrep
  <2> QED
    BY <1>1, <2>1, SyncConstants DEF Init, AloneInv, OneAttempt, FoundStays,
       ItemMatchesNewestVersion
<1>2. ASSUME SyncInv, RowsInv, LeaseInv, AloneInv, [Next]_vars  PROVE AloneInv'
  <2>1. AloneBefore
    BY <1>2 DEF AloneBefore
  <2>2. ASSUME NEW r \in Runs, NEW k \in Attempts, AttemptStep(r, k)  PROVE AloneInv'
    BY <2>1, <2>2, AttemptKeepsOneAttempt, AttemptKeepsFound, AttemptKeepsNewest DEF AloneInv
  <2>3. CASE \/ \E r \in Runs : ClaimSync(r) \/ RequestStep(r) \/ WorkflowStep(r)
             \/ \E i \in Imports : ImportStep(i)
             \/ LeaseExpires \/ PageChanges \/ UNCHANGED vars
    BY <2>1, <2>3, OthersKeepOneAttempt, OthersKeepFound DEF AloneInv
  <2> QED
    BY <1>2, <2>2, <2>3, AttemptEffects DEF Next
<1>3. ReliableStart
  BY DEF AttemptsInTime, ReliableStart
<1> QED
  BY <1>1, <1>2, <1>3, SyncInvariant, RowsInvariant, LeaseInvariant, PTL DEF Spec

\* The hash by which the next run skips a page is that of the newest version of its document.
THEOREM ItemsMatchTheirVersions == ASSUME AttemptsInTime PROVE Spec => []ItemMatchesNewestVersion
<1>1. AloneInv => ItemMatchesNewestVersion
  BY DEF AloneInv
<1> QED
  BY <1>1, AloneInvariant, PTL

\* The authoritative snapshot never deletes the document of the page its own attempt found.
THEOREM SnapshotsSpareTheirPage == ASSUME AttemptsInTime PROVE Spec => SnapshotSparesSeenPage
<1>1. ASSUME AloneBefore, [Next]_vars, NEW r \in Runs, NEW k \in Attempts,
             At(r, k, "deletions"), prep'[r][k].pc = "ready"
      PROVE  items[prep[r][k].page.url].doc \notin deletedDocs' \ deletedDocs
  <2>1. PICK s \in Runs, j \in Attempts : AttemptStep(s, j)
    <3>1. prep' # prep
      BY <1>1 DEF At
    <3> QED
      BY <1>1, <3>1, AttemptEffects, OtherEffects DEF Next, AloneBefore
  <2>2. s = r /\ j = k
    BY <1>1, <2>1 DEF At, AttemptStep, OthersWait
  <2>3. Snapshots(r, k)
    BY <1>1, <2>1, <2>2 DEF At, AttemptStep, Ends, Returns, Loads, Skips, Discovers, Recovers,
       Decides, Marks, Begins, Writes, Moves, DeadPrep, IdlePrep
  <2>4. /\ prep[r][k].page.url \in Urls
        /\ items[prep[r][k].page.url].status # "absent"
        /\ items[prep[r][k].page.url].seen = r
    BY <1>1 DEF At, AloneBefore, AloneInv, FoundStays, SyncInv, FoundPages
  <2>5. \A u \in Unseen(r) : items[u].doc # items[prep[r][k].page.url].doc
    BY <1>1, <2>4 DEF Unseen, AloneBefore, RowsInv, OneItemPerDocument
  <2> QED
    BY <2>3, <2>5 DEF Snapshots
<1>2. AttemptsInTime /\ SyncInv /\ RowsInv /\ LeaseInv /\ AloneInv /\ [Next]_vars
        => [\A r \in Runs, k \in Attempts :
                At(r, k, "deletions") /\ prep'[r][k].pc = "ready"
                  => items[prep[r][k].page.url].doc \notin deletedDocs' \ deletedDocs]_vars
  BY <1>1 DEF AloneBefore
<1>3. ReliableStart
  BY DEF AttemptsInTime, ReliableStart
<1> QED
  BY <1>2, <1>3, SyncInvariant, RowsInvariant, LeaseInvariant, AloneInvariant, PTL
     DEF Spec, SnapshotSparesSeenPage

-----------------------------------------------------------------------------
(* Part 8: nothing is left behind *)

\* In addition no page changes under a run, no import moves the cursor, and the server answers
\* the same validator alike: otherwise a retried attempt may skip the page that its predecessor
\* stored.
NobodyInterferes ==
    AttemptsInTime /\ {"page_moves", "ignored_validator"} \cap Faults = {} /\ Imports = {}

Present == {v \in VersionIds : versions[v].status # "absent"}

\* A run that prepares has one version at most, bound to the item of the page, and has written
\* only if the page is not the one of the cursor.
OneVersion ==
    \A r \in Runs : workflow[r] = "prepare" =>
        /\ \A k \in Attempts :
              /\ prep[r][k].pc = "loaded" => prep[r][k].prior = syncCursor
              /\ prep[r][k].pc \in {"discovered", "unchanged", "changed", "insert", "deletions"}
                    => ~Unchanged(syncCursor, page.content)
              /\ prep[r][k].pc \in {"unchanged", "changed", "insert"}
                    => \A j \in Attempts : <<r, j>> \notin Present
              /\ <<r, k>> \in Present =>
                    /\ ~Unchanged(syncCursor, page.content)
                    /\ items[page.url].changed = r
                    /\ versions[<<r, k>>].doc = items[page.url].doc
                    /\ \A j \in Attempts : <<r, j>> \in Present => j = k
        /\ \A e \in outbox : e[1] = r => ~Unchanged(syncCursor, page.content)

OwnVersions(r) == {NoVersion} \cup {<<r, j>> : j \in Attempts}

\* The result an attempt reaches names all that its run left, and so does the result that the
\* workflow goes on with.
ResultIsComplete ==
    \A r \in Runs :
        /\ \A k \in Attempts :
              /\ prep[r][k].job \in OwnVersions(r)
              /\ prep[r][k].pc \in {"deletions", "ready"} =>
                    \A j \in Attempts : <<r, j>> \in Present => prep[r][k].job = <<r, j>>
              /\ prep[r][k].pc = "ready" => \A e \in outbox : e[1] = r => e \in prep[r][k].events
        /\ prepared[r].job \in OwnVersions(r)
        /\ workflow[r] \in {"ingest", "project", "finalize"} =>
              /\ \A j \in Attempts : <<r, j>> \in Present => prepared[r].job = <<r, j>>
              /\ \A e \in outbox : e[1] = r => e \in prepared[r].events

\* What is done of it, step by step.
WorkIsDone ==
    \A r \in Runs :
        /\ workflow[r] \in {"project", "finalize"} \/ runStatus[r] = "completed" =>
              \A j \in Attempts : versions[<<r, j>>].status \in {"absent", "completed"}
        /\ workflow[r] = "finalize" \/ runStatus[r] = "completed" =>
              \A e \in outbox : e[1] = r => e \in projected

LeftInv == OneVersion /\ ResultIsComplete /\ WorkIsDone

LeftBefore == NobodyInterferes /\ AloneBefore /\ CursorInv /\ LeftInv

\* What the other runs have is not for this attempt to change.
LEMMA OtherRunsKept ==
    ASSUME SyncInv, NEW r \in Runs, NEW k \in Attempts, AttemptStep(r, k), NEW s \in Runs, s # r
    PROVE  /\ workflow'[s] = workflow[s] /\ prepared'[s] = prepared[s]
           /\ \A j \in Attempts : prep'[s][j] = prep[s][j] /\ versions'[<<s, j>>] = versions[<<s, j>>]
           /\ \A e \in outbox' : e[1] = s => e \in outbox
<1>1. workflow'[s] = workflow[s] /\ prepared'[s] = prepared[s]
  BY DEF AttemptStep, Ends, Returns, Loads, Skips, Discovers, Recovers, Decides, Marks, Begins,
         Writes, Snapshots, Moves
<1>2. \A j \in Attempts : prep'[s][j] = prep[s][j]
  BY DEF AttemptStep, OthersWait
<1>3. \A j \in Attempts : versions'[<<s, j>>] = versions[<<s, j>>]
  <2>1. \A j \in Attempts : <<s, j>> \in VersionIds \ {<<r, k>>}
    BY DEF VersionIds
  <2>2. ASSUME NEW doc \in VersionIds, Writes(r, k, doc)
        PROVE  \A j \in Attempts : versions'[<<s, j>>] = versions[<<s, j>>]
    BY <2>1, <2>2 DEF Writes
  <2> QED
    BY <2>2 DEF AttemptStep, Ends, Returns, Loads, Skips, Discovers, Recovers, Decides, Marks, Begins,
                Snapshots, RowsKept
<1>4. \A e \in outbox' : e[1] = s => e \in outbox
  BY DEF AttemptStep, Ends, Returns, Loads, Skips, Discovers, Recovers, Decides, Marks, Begins,
         Writes, Snapshots, RowsKept
<1> QED
  BY <1>1, <1>2, <1>3, <1>4

\* The rows a run has while it prepares, before and after a step of its attempt.
LEMMA PresentAfter ==
    ASSUME SyncInv, NEW r \in Runs, NEW k \in Attempts, AttemptStep(r, k), NEW j \in Attempts
    PROVE  \/ \E doc \in VersionIds : Writes(r, k, doc)
           \/ /\ <<r, j>> \in Present' <=> <<r, j>> \in Present
              /\ versions'[<<r, j>>] = versions[<<r, j>>]
<1>1. CASE UNCHANGED versions
  BY <1>1 DEF Present
<1> QED
  BY <1>1 DEF AttemptStep, Ends, Returns, Loads, Skips, Discovers, Recovers, Decides, Marks, Begins,
              Snapshots, RowsKept

LEMMA AttemptKeepsDone ==
    ASSUME LeftBefore, NEW r \in Runs, NEW k \in Attempts, AttemptStep(r, k)
    PROVE  WorkIsDone'
<1>1. Waiting(r, k) /\ leaseToken = r
  BY SteppingAttempt DEF LeftBefore
<1>2. runStatus[r] = "running" /\ UNCHANGED <<runStatus, projected>>
  BY <1>1 DEF LeftBefore, AloneBefore, LeaseInv, LeaseExclusive, AttemptStep
<1>3. workflow'[r] \in {"prepare", "fail", "ingest"}
  BY <1>1 DEF Waiting, AttemptStep, Ends, Returns, Loads, Skips, Discovers, Recovers, Decides, Marks,
              Begins, Writes, Snapshots, Moves
<1>4. ASSUME NEW s \in Runs, s # r
      PROVE  /\ workflow'[s] \in {"project", "finalize"} \/ runStatus'[s] = "completed" =>
                   \A j \in Attempts : versions'[<<s, j>>].status \in {"absent", "completed"}
             /\ workflow'[s] = "finalize" \/ runStatus'[s] = "completed" =>
                   \A e \in outbox' : e[1] = s => e \in projected'
  <2>1. /\ workflow'[s] = workflow[s]
        /\ \A j \in Attempts : versions'[<<s, j>>] = versions[<<s, j>>]
        /\ \A e \in outbox' : e[1] = s => e \in outbox
    BY <1>4, OtherRunsKept DEF LeftBefore, AloneBefore
  <2> QED
    BY <1>2, <2>1 DEF LeftBefore, LeftInv, WorkIsDone
<1> QED
  BY <1>2, <1>3, <1>4 DEF WorkIsDone

\* What the invariants say of the run whose attempt takes a step.
LEMMA SteppingRun ==
    ASSUME LeftBefore, NEW r \in Runs, NEW k \in Attempts, AttemptStep(r, k)
    PROVE  /\ workflow[r] = "prepare" /\ Waiting(r, k)
           /\ \A s \in Runs : workflow'[s] = "prepare" => s = r
           /\ \A j \in Attempts : j # k => prep'[r][j] = prep[r][j] /\ prep[r][j].pc \in {"idle", "dead"}
           /\ page' = page /\ syncCursor' = syncCursor
<1>1. Waiting(r, k) /\ leaseToken = r /\ workflow[r] = "prepare"
  BY SteppingAttempt DEF LeftBefore, Waiting
<1>2. ASSUME NEW s \in Runs, workflow'[s] = "prepare"  PROVE s = r
  <2>1. workflow[s] = "prepare"
    BY <1>2, AttemptWorkflow DEF LeftBefore, AloneBefore
  <2>2. leaseToken = s
    BY <2>1 DEF LeftBefore, AloneBefore, AloneInv, OneAttempt
  <2> QED
    BY <1>1, <2>2
<1>3. ASSUME NEW j \in Attempts, j # k
      PROVE  prep'[r][j] = prep[r][j] /\ prep[r][j].pc \in {"idle", "dead"}
  <2>1. prep[r][j].pc \in {"idle", "dead"}
    BY <1>1, <1>3, OnlyOneAttempt DEF LeftBefore
  <2> QED
    BY <1>3, <2>1 DEF AttemptStep, OthersWait
<1>4. page' = page /\ syncCursor' = syncCursor
  BY DEF AttemptStep
<1> QED
  BY <1>1, <1>2, <1>3, <1>4

\* Nothing of the run is found for the item exactly when it has stored nothing.
LEMMA FoundVersion ==
    ASSUME LeftBefore, NEW r \in Runs, workflow[r] = "prepare", NEW k \in Attempts,
           prep[r][k].pc = "discovered"
    PROVE  /\ \A v \in Recoverable(r, items[prep[r][k].page.url]) : v \in Present /\ v[1] = r
           /\ \A j \in Attempts : <<r, j>> \in Present =>
                 <<r, j>> \in Recoverable(r, items[prep[r][k].page.url])
<1> DEFINE item == items[page.url]
<1>1. prep[r][k].page = page /\ page.url \in Urls
  BY DEF LeftBefore, CursorInv, OnePage, AloneBefore, SyncInv, FoundPages
<1>2. ASSUME NEW v \in VersionIds, versions[v].doc = item.doc, item.changed = r
      PROVE  v \in Present
  <2>1. item.doc \in VersionIds
    BY <1>1, <1>2, SyncConstants DEF LeftBefore, AloneBefore, SyncInv, RowsNameDocuments
  <2> QED
    BY <1>2, <2>1, SyncConstants DEF LeftBefore, AloneBefore, SyncInv, RowsNameDocuments, Present,
       VersionIds, Attempts
<1>3. \A v \in Recoverable(r, item) : v \in Present /\ v[1] = r
  BY <1>2 DEF Recoverable, VersionsOf
<1>4. ASSUME NEW j \in Attempts, <<r, j>> \in Present
      PROVE  <<r, j>> \in Recoverable(r, item)
  <2>1. /\ item.changed = r /\ versions[<<r, j>>].doc = item.doc
        /\ \A i \in Attempts : <<r, i>> \in Present => i = j
    BY <1>4 DEF LeftBefore, LeftInv, OneVersion
  <2>2. <<r, j>> \in VersionIds /\ versions[<<r, j>>].number \in Nat
    BY <1>4 DEF Present, LeftBefore, AloneBefore, SyncInv, TypeOK, VersionRows
  <2>3. ASSUME NEW w \in VersionIds, versions[w].doc = item.doc, w[1] = r
        PROVE  versions[w].number <= versions[<<r, j>>].number
    <3>1. w \in Present
      BY <1>2, <2>1, <2>3
    <3>2. PICK i \in Attempts : w = <<r, i>>
      BY <2>3 DEF VersionIds
    <3> QED
      BY <2>1, <2>2, <3>1, <3>2
  <2> QED
    BY <2>1, <2>2, <2>3 DEF Recoverable, VersionsOf
<1> QED
  BY <1>1, <1>3, <1>4

LEMMA AttemptKeepsOneVersion ==
    ASSUME LeftBefore, NEW r \in Runs, NEW k \in Attempts, AttemptStep(r, k)
    PROVE  OneVersion'
<1> DEFINE Found == {"discovered", "unchanged", "changed", "insert", "deletions"}
<1>1. /\ workflow[r] = "prepare"
      /\ \A s \in Runs : workflow'[s] = "prepare" => s = r
      /\ \A j \in Attempts : j # k => prep'[r][j] = prep[r][j] /\ prep[r][j].pc \in {"idle", "dead"}
      /\ page' = page /\ syncCursor' = syncCursor
  BY SteppingRun
<1>2. /\ prep[r][k].pc = "loaded" => prep[r][k].prior = syncCursor
      /\ prep[r][k].pc \in Found => ~Unchanged(syncCursor, page.content) /\ prep[r][k].page = page
      /\ prep[r][k].pc \in {"unchanged", "changed", "insert"}
            => \A j \in Attempts : <<r, j>> \notin Present
      /\ \A j \in Attempts : <<r, j>> \in Present =>
            /\ ~Unchanged(syncCursor, page.content)
            /\ items[page.url].changed = r
            /\ versions[<<r, j>>].doc = items[page.url].doc
            /\ \A i \in Attempts : <<r, i>> \in Present => i = j
      /\ \A e \in outbox : e[1] = r => ~Unchanged(syncCursor, page.content)
  BY <1>1 DEF LeftBefore, LeftInv, OneVersion, CursorInv, OnePage
<1>3. ~("late_attempt" \in Faults) /\ ~("ignored_validator" \in Faults)
  BY DEF LeftBefore, NobodyInterferes, AttemptsInTime
<1>4. page.url \in Urls
  BY DEF LeftBefore, AloneBefore, SyncInv, TypeOK
<1>5. prep'[r][k].pc = "loaded" => prep'[r][k].prior = syncCursor
  BY <1>3 DEF AttemptStep, Ends, Returns, Loads, Skips, Discovers, Recovers, Decides, Marks, Begins,
              Writes, Snapshots, Moves, DeadPrep, IdlePrep
<1>6. prep'[r][k].pc \in Found => ~Unchanged(syncCursor, page.content)
  <2>1. CASE Discovers(r, k)
    BY <1>2, <1>3, <2>1 DEF Discovers, Moves
  <2>2. CASE prep[r][k].pc \in Found
    BY <1>2, <2>2
  <2> QED
    BY <1>3, <2>1, <2>2 DEF AttemptStep, Ends, Returns, Loads, Skips, Recovers, Decides, Marks, Begins,
       Writes, Snapshots, Moves, DeadPrep, IdlePrep
<1>7. prep'[r][k].pc \in {"unchanged", "changed", "insert"} =>
          \A j \in Attempts : <<r, j>> \notin Present'
  <2> SUFFICES ASSUME prep'[r][k].pc \in {"unchanged", "changed", "insert"}, NEW j \in Attempts
               PROVE  <<r, j>> \notin Present'
    OBVIOUS
  <2>1. Decides(r, k) \/ Begins(r, k)
    BY <1>3 DEF AttemptStep, Ends, Returns, Loads, Skips, Discovers, Recovers, Marks, Writes,
                Snapshots, Moves, DeadPrep, IdlePrep
  <2>2. Present' = Present
    BY <2>1 DEF Decides, Begins, RowsKept, Present
  <2>3. CASE Decides(r, k)
    BY <1>1, <2>2, <2>3, FoundVersion DEF Decides, Moves
  <2>4. CASE Begins(r, k)
    BY <1>2, <2>2, <2>4 DEF Begins, Moves
  <2> QED
    BY <2>1, <2>3, <2>4
<1>8. ASSUME NEW j \in Attempts, <<r, j>> \in Present'
      PROVE  /\ ~Unchanged(syncCursor, page.content)
             /\ items'[page.url].changed = r
             /\ versions'[<<r, j>>].doc = items'[page.url].doc
             /\ \A i \in Attempts : <<r, i>> \in Present' => i = j
  <2>1. ASSUME NEW doc \in VersionIds, Writes(r, k, doc)
        PROVE  /\ ~Unchanged(syncCursor, page.content)
               /\ items'[page.url].changed = r
               /\ versions'[<<r, j>>].doc = items'[page.url].doc
               /\ \A i \in Attempts : <<r, i>> \in Present' => i = j
    <3>1. /\ prep[r][k].page = page /\ ~Unchanged(syncCursor, page.content)
          /\ \A i \in Attempts : <<r, i>> \notin Present
      BY <1>2, <2>1 DEF Writes
    <3>2. \A i \in Attempts : <<r, i>> \in Present' => i = k
      BY <2>1, <3>1 DEF Writes, Present
    <3>3. j = k
      BY <1>8, <3>2
    <3>4. /\ items'[page.url].changed = r /\ items'[page.url].doc = doc
          /\ versions'[<<r, k>>].doc = doc
      BY <2>1, <3>1 DEF Writes
    <3> QED
      BY <3>1, <3>2, <3>3, <3>4
  <2>2. CASE \A i \in Attempts : /\ <<r, i>> \in Present' <=> <<r, i>> \in Present
                                 /\ versions'[<<r, i>>] = versions[<<r, i>>]
    <3>1. /\ ~Unchanged(syncCursor, page.content)
          /\ items[page.url].changed = r
          /\ versions'[<<r, j>>].doc = items[page.url].doc
          /\ \A i \in Attempts : <<r, i>> \in Present' => i = j
      BY <1>2, <1>8, <2>2
    <3>2. CASE items'[page.url].changed = items[page.url].changed
               /\ items'[page.url].doc = items[page.url].doc
      BY <3>1, <3>2
    <3>3. CASE \E doc \in VersionIds : Writes(r, k, doc)
      BY <2>1, <3>3
    <3> QED
      BY <1>4, <3>2, <3>3 DEF AttemptStep, Ends, Returns, Loads, Skips, Discovers, Recovers, Decides,
         Marks, Begins, Snapshots, RowsKept
  <2> QED
    BY <2>1, <2>2, PresentAfter DEF LeftBefore, AloneBefore
<1>9. \A e \in outbox' : e[1] = r => ~Unchanged(syncCursor, page.content)
  <2>1. CASE Snapshots(r, k)
    BY <1>2, <2>1 DEF Snapshots, Moves
  <2>2. CASE outbox' = outbox
    BY <1>2, <2>2
  <2> QED
    BY <2>1, <2>2 DEF AttemptStep, Ends, Returns, Loads, Skips, Discovers, Recovers, Decides, Marks,
                      Begins, Writes, RowsKept
<1> QED
  BY <1>1, <1>5, <1>6, <1>7, <1>8, <1>9 DEF OneVersion

LEMMA AttemptKeepsResult ==
    ASSUME LeftBefore, NEW r \in Runs, NEW k \in Attempts, AttemptStep(r, k)
    PROVE  ResultIsComplete'
<1>1. /\ workflow[r] = "prepare"
      /\ \A j \in Attempts : j # k => prep'[r][j] = prep[r][j] /\ prep[r][j].pc \in {"idle", "dead"}
  BY SteppingRun
<1>2. /\ \A j \in Attempts : prep[r][j].job \in OwnVersions(r)
      /\ prepared[r].job \in OwnVersions(r)
      /\ prep[r][k].pc \in {"deletions", "ready"} =>
            \A j \in Attempts : <<r, j>> \in Present => prep[r][k].job = <<r, j>>
      /\ prep[r][k].pc = "ready" => \A e \in outbox : e[1] = r => e \in prep[r][k].events
  BY DEF LeftBefore, LeftInv, ResultIsComplete
<1>3. /\ prep[r][k].pc = "loaded" => prep[r][k].prior = syncCursor
      /\ prep[r][k].pc \in {"unchanged", "changed", "insert"}
            => \A j \in Attempts : <<r, j>> \notin Present
      /\ \A j \in Attempts : <<r, j>> \in Present =>
            /\ ~Unchanged(syncCursor, page.content)
            /\ \A i \in Attempts : <<r, i>> \in Present => i = j
      /\ \A e \in outbox : e[1] = r => ~Unchanged(syncCursor, page.content)
  BY <1>1 DEF LeftBefore, LeftInv, OneVersion
<1>4. ~("late_attempt" \in Faults)
  BY DEF LeftBefore, NobodyInterferes, AttemptsInTime
<1>5. ASSUME NEW s \in Runs, s # r
      PROVE  /\ \A j \in Attempts :
                   /\ prep'[s][j].job \in OwnVersions(s)
                   /\ prep'[s][j].pc \in {"deletions", "ready"} =>
                         \A i \in Attempts : <<s, i>> \in Present' => prep'[s][j].job = <<s, i>>
                   /\ prep'[s][j].pc = "ready" =>
                         \A e \in outbox' : e[1] = s => e \in prep'[s][j].events
             /\ prepared'[s].job \in OwnVersions(s)
             /\ workflow'[s] \in {"ingest", "project", "finalize"} =>
                   /\ \A j \in Attempts : <<s, j>> \in Present' => prepared'[s].job = <<s, j>>
                   /\ \A e \in outbox' : e[1] = s => e \in prepared'[s].events
  <2>1. /\ workflow'[s] = workflow[s] /\ prepared'[s] = prepared[s]
        /\ \A j \in Attempts : prep'[s][j] = prep[s][j] /\ versions'[<<s, j>>] = versions[<<s, j>>]
        /\ \A e \in outbox' : e[1] = s => e \in outbox
    BY <1>5, OtherRunsKept DEF LeftBefore, AloneBefore
  <2>2. \A j \in Attempts : <<s, j>> \in Present' => <<s, j>> \in Present
    BY <2>1 DEF Present
  <2>3. /\ \A j \in Attempts :
              /\ prep[s][j].job \in OwnVersions(s)
              /\ prep[s][j].pc \in {"deletions", "ready"} =>
                    \A i \in Attempts : <<s, i>> \in Present => prep[s][j].job = <<s, i>>
              /\ prep[s][j].pc = "ready" => \A e \in outbox : e[1] = s => e \in prep[s][j].events
        /\ prepared[s].job \in OwnVersions(s)
        /\ workflow[s] \in {"ingest", "project", "finalize"} =>
              /\ \A j \in Attempts : <<s, j>> \in Present => prepared[s].job = <<s, j>>
              /\ \A e \in outbox : e[1] = s => e \in prepared[s].events
    BY DEF LeftBefore, LeftInv, ResultIsComplete
  <2>4. ASSUME NEW j \in Attempts
        PROVE  /\ prep'[s][j].job \in OwnVersions(s)
               /\ prep'[s][j].pc \in {"deletions", "ready"} =>
                     \A i \in Attempts : <<s, i>> \in Present' => prep'[s][j].job = <<s, i>>
               /\ prep'[s][j].pc = "ready" =>
                     \A e \in outbox' : e[1] = s => e \in prep'[s][j].events
    BY <2>1, <2>2, <2>3
  <2>5. /\ prepared'[s].job \in OwnVersions(s)
        /\ workflow'[s] \in {"ingest", "project", "finalize"} =>
              /\ \A j \in Attempts : <<s, j>> \in Present' => prepared'[s].job = <<s, j>>
              /\ \A e \in outbox' : e[1] = s => e \in prepared'[s].events
    BY <2>1, <2>2, <2>3
  <2> QED
    BY <2>4, <2>5
<1>6. prep'[r][k].job \in OwnVersions(r)
  <2>1. CASE Ends(r, k) \/ Returns(r, k)
    <3>1. DeadPrep.job = NoVersion
      BY DEF DeadPrep, IdlePrep
    <3> QED
      BY <1>2, <2>1, <3>1 DEF Ends, Returns, OwnVersions
  <2>2. CASE Recovers(r, k)
    <3>1. prep'[r][k].job \in VersionIds /\ prep'[r][k].job[1] = r
      BY <2>2 DEF Recovers, Recoverable, VersionsOf
    <3> QED
      BY <3>1 DEF OwnVersions, VersionIds
  <2>3. CASE prep'[r][k].job \in {prep[r][k].job, <<r, k>>}
    BY <1>2, <2>3 DEF OwnVersions
  <2> QED
    BY <2>1, <2>2, <2>3 DEF AttemptStep, Loads, Skips, Discovers, Decides, Marks, Begins, Writes,
                            Snapshots, KeepsJob
<1>7. ASSUME prep'[r][k].pc \in {"deletions", "ready"}, NEW j \in Attempts, <<r, j>> \in Present'
      PROVE  prep'[r][k].job = <<r, j>>
  <2>1. ASSUME NEW doc \in VersionIds, Writes(r, k, doc)
        PROVE  prep'[r][k].job = <<r, j>>
    <3>1. j = k
      BY <1>3, <1>7, <2>1 DEF Writes, Present
    <3> QED
      BY <2>1, <3>1 DEF Writes
  <2>2. CASE <<r, j>> \in Present
    <3>1. CASE Skips(r, k)
      BY <1>3, <2>2, <3>1 DEF Skips, Moves
    <3>2. CASE Recovers(r, k)
      <4>1. prep'[r][k].job \in Present /\ prep'[r][k].job[1] = r
        BY <1>1, <3>2, FoundVersion DEF Recovers, Moves
      <4>2. PICK i \in Attempts : prep'[r][k].job = <<r, i>>
        BY <4>1 DEF Present, VersionIds
      <4> QED
        BY <1>3, <2>2, <4>1, <4>2
    <3>3. CASE Marks(r, k)
      BY <1>3, <2>2, <3>3 DEF Marks, Moves
    <3>4. CASE Snapshots(r, k)
      BY <1>2, <2>2, <3>4 DEF Snapshots, Moves
    <3> QED
      BY <1>4, <1>7, <2>1, <3>1, <3>2, <3>3, <3>4
         DEF AttemptStep, Ends, Returns, Loads, Discovers, Decides, Begins, Moves, DeadPrep, IdlePrep
  <2> QED
    BY <1>7, <2>1, <2>2, PresentAfter DEF LeftBefore, AloneBefore
<1>8. ASSUME prep'[r][k].pc = "ready", NEW e \in outbox', e[1] = r
      PROVE  e \in prep'[r][k].events
  <2>1. CASE Skips(r, k)
    BY <1>3, <1>8, <2>1 DEF Skips, Moves, RowsKept
  <2>2. CASE Snapshots(r, k)
    BY <1>8, <2>2 DEF Snapshots
  <2> QED
    BY <1>4, <1>8, <2>1, <2>2 DEF AttemptStep, Ends, Returns, Loads, Discovers, Recovers, Decides, Marks,
       Begins, Writes, Moves, DeadPrep, IdlePrep
<1>9. prepared'[r].job \in OwnVersions(r)
      /\ (workflow'[r] \in {"ingest", "project", "finalize"} =>
             /\ \A j \in Attempts : <<r, j>> \in Present' => prepared'[r].job = <<r, j>>
             /\ \A e \in outbox' : e[1] = r => e \in prepared'[r].events)
  <2>1. CASE Returns(r, k)
    <3>1. Present' = Present /\ outbox' = outbox
      BY <2>1 DEF Returns, RowsKept, Present
    <3> QED
      BY <1>2, <2>1, <3>1 DEF Returns
  <2>2. CASE ~Returns(r, k)
    <3>1. prepared'[r] = prepared[r] /\ workflow'[r] \in {"prepare", "fail"}
      BY <1>1, <2>2 DEF AttemptStep, Ends, Loads, Skips, Discovers, Recovers, Decides, Marks, Begins,
                        Writes, Snapshots, Moves
    <3> QED
      BY <1>2, <3>1
  <2> QED
    BY <2>1, <2>2
<1>10. ASSUME NEW j \in Attempts
       PROVE  /\ prep'[r][j].job \in OwnVersions(r)
              /\ prep'[r][j].pc \in {"deletions", "ready"} =>
                    \A i \in Attempts : <<r, i>> \in Present' => prep'[r][j].job = <<r, i>>
              /\ prep'[r][j].pc = "ready" =>
                    \A e \in outbox' : e[1] = r => e \in prep'[r][j].events
  BY <1>1, <1>2, <1>6, <1>7, <1>8
<1>11. \A s \in Runs : OwnVersions(s)' = OwnVersions(s)
  BY DEF OwnVersions
<1> QED
  BY <1>5, <1>9, <1>10, <1>11 DEF ResultIsComplete

LEMMA OthersKeepOneVersion ==
    ASSUME LeftBefore,
           \/ \E r \in Runs : ClaimSync(r) \/ RequestStep(r) \/ WorkflowStep(r)
           \/ \E i \in Imports : ImportStep(i)
           \/ LeaseExpires \/ PageChanges \/ UNCHANGED vars
    PROVE  OneVersion'
<1>1. /\ UNCHANGED <<prep, items, outbox>> /\ Present' = Present
      /\ \A v \in VersionIds : versions'[v].doc = versions[v].doc
  BY OtherEffects DEF LeftBefore, AloneBefore, Present
<1>2. ASSUME NEW r \in Runs, workflow'[r] = "prepare"
      PROVE  \/ workflow[r] = "none"
             \/ workflow[r] = "prepare" /\ page' = page /\ syncCursor' = syncCursor
  <2>1. workflow[r] = "none" \/ (workflow[r] = "prepare" /\ page' = page)
    BY <1>2, OthersWhilePreparing DEF LeftBefore, AloneBefore, NobodyInterferes
  <2>2. ASSUME NEW s \in Runs, Finalize(s), workflow[r] = "prepare"
        PROVE  FALSE
    BY <2>2 DEF Finalize, Fenced, LeftBefore, AloneBefore, AloneInv, OneAttempt
  <2>3. syncCursor' = syncCursor \/ \E s \in Runs : Finalize(s)
    BY DEF LeftBefore, NobodyInterferes, ClaimSync, RequestStep, StartWorkflow, StartWorkflowRaises,
           FailWorkflowStart, AbandonStart, WorkflowStep, IngestChild, ProjectDeletion, AllProjected,
           FinalizeRefused, FailRun, LeaseExpires, PageChanges, vars, sourceVars
  <2> QED
    BY <2>1, <2>2, <2>3
<1>3. ASSUME NEW r \in Runs, workflow'[r] = "prepare", workflow[r] = "none", NEW k \in Attempts
      PROVE  prep'[r][k].pc = "idle" /\ <<r, k>> \notin Present'
  BY <1>1, <1>3 DEF LeftBefore, AloneBefore, RowsInv, Untouched, FreshAttempts, Present
<1>4. \A r \in Runs, e \in outbox' : workflow[r] = "none" => e[1] # r
  BY <1>1 DEF LeftBefore, AloneBefore, RowsInv, Untouched
<1>5. ASSUME NEW r \in Runs, workflow'[r] = "prepare", workflow[r] = "prepare",
             page' = page, syncCursor' = syncCursor
      PROVE  /\ \A k \in Attempts :
                    /\ prep'[r][k].pc = "loaded" => prep'[r][k].prior = syncCursor'
                    /\ prep'[r][k].pc \in {"discovered", "unchanged", "changed", "insert", "deletions"}
                          => ~Unchanged(syncCursor', page'.content)
                    /\ prep'[r][k].pc \in {"unchanged", "changed", "insert"}
                          => \A j \in Attempts : <<r, j>> \notin Present'
                    /\ <<r, k>> \in Present' =>
                          /\ ~Unchanged(syncCursor', page'.content)
                          /\ items'[page'.url].changed = r
                          /\ versions'[<<r, k>>].doc = items'[page'.url].doc
                          /\ \A j \in Attempts : <<r, j>> \in Present' => j = k
             /\ \A e \in outbox' : e[1] = r => ~Unchanged(syncCursor', page'.content)
  BY <1>1, <1>5 DEF LeftBefore, LeftInv, OneVersion, VersionIds
<1>6. ASSUME NEW r \in Runs, workflow'[r] = "prepare", workflow[r] = "none"
      PROVE  /\ \A k \in Attempts :
                    /\ prep'[r][k].pc = "loaded" => prep'[r][k].prior = syncCursor'
                    /\ prep'[r][k].pc \in {"discovered", "unchanged", "changed", "insert", "deletions"}
                          => ~Unchanged(syncCursor', page'.content)
                    /\ prep'[r][k].pc \in {"unchanged", "changed", "insert"}
                          => \A j \in Attempts : <<r, j>> \notin Present'
                    /\ <<r, k>> \in Present' =>
                          /\ ~Unchanged(syncCursor', page'.content)
                          /\ items'[page'.url].changed = r
                          /\ versions'[<<r, k>>].doc = items'[page'.url].doc
                          /\ \A j \in Attempts : <<r, j>> \in Present' => j = k
             /\ \A e \in outbox' : e[1] = r => ~Unchanged(syncCursor', page'.content)
  BY <1>3, <1>4, <1>6
<1> QED
  BY <1>2, <1>5, <1>6 DEF OneVersion

LEMMA OthersKeepResult ==
    ASSUME LeftBefore,
           \/ \E r \in Runs : ClaimSync(r) \/ RequestStep(r) \/ WorkflowStep(r)
           \/ \E i \in Imports : ImportStep(i)
           \/ LeaseExpires \/ PageChanges \/ UNCHANGED vars
    PROVE  ResultIsComplete'
<1>1. UNCHANGED <<prep, prepared, outbox>> /\ Present' = Present
  BY OtherEffects DEF LeftBefore, AloneBefore, Present
<1>2. workflow \in [Runs -> WorkflowSteps]
  BY DEF LeftBefore, AloneBefore, SyncInv, TypeOK
<1>3. ASSUME NEW r \in Runs, workflow'[r] \in {"ingest", "project", "finalize"}
      PROVE  workflow[r] \in {"ingest", "project", "finalize"}
  <2>1. ASSUME NEW s \in Runs, RequestStep(s)
        PROVE  workflow[r] \in {"ingest", "project", "finalize"}
    BY <1>2, <1>3, <2>1 DEF RequestStep, StartWorkflow, StartWorkflowRaises, FailWorkflowStart,
       AbandonStart
  <2>2. ASSUME NEW s \in Runs, WorkflowStep(s)
        PROVE  workflow[r] \in {"ingest", "project", "finalize"}
    BY <1>2, <1>3, <2>2 DEF WorkflowStep, IngestChild, ProjectDeletion, AllProjected, Finalize,
       FinalizeRefused, FailRun
  <2> QED
    BY <1>3, <2>1, <2>2 DEF ClaimSync, ImportStep, ImportStart, ImportStore, ImportComplete,
       ImportFail, LeaseExpires, PageChanges, vars, runVars
<1>4. \A r \in Runs : OwnVersions(r)' = OwnVersions(r)
  BY DEF OwnVersions
<1> QED
  BY <1>1, <1>3, <1>4 DEF LeftBefore, LeftInv, ResultIsComplete

LEMMA IngestKeepsDone ==
    ASSUME LeftBefore, NEW s \in Runs, IngestChild(s)
    PROVE  WorkIsDone'
<1>1. /\ workflow[s] = "ingest" /\ leaseToken = s /\ runStatus[s] = "running"
      /\ UNCHANGED <<runStatus, outbox, projected>>
      /\ workflow'[s] \in {"project", "fail"} /\ \A r \in Runs : r # s => workflow'[r] = workflow[r]
      /\ prepared[s].job \in OwnVersions(s)
      /\ \A j \in Attempts : <<s, j>> \in Present => prepared[s].job = <<s, j>>
  BY DEF IngestChild, outboxVars, LeftBefore, AloneBefore, AloneInv, OneAttempt, LeaseInv,
         LeaseTypes, LeaseExclusive, LeftInv, ResultIsComplete
<1>2. ASSUME NEW r \in Runs, r # s, NEW j \in Attempts
      PROVE  versions'[<<r, j>>] = versions[<<r, j>>]
  <2>1. CASE UNCHANGED versions
    BY <2>1
  <2>2. ASSUME NEW status,
               prepared[s].job # NoVersion,
               versions' = [versions EXCEPT ![prepared[s].job].status = status]
        PROVE  versions'[<<r, j>>] = versions[<<r, j>>]
    <3>1. prepared[s].job # <<r, j>>
      BY <1>1, <1>2, <2>2 DEF OwnVersions
    <3>2. <<r, j>> \in VersionIds /\ versions \in [VersionIds -> VersionRows]
      BY DEF VersionIds, LeftBefore, AloneBefore, SyncInv, TypeOK
    <3> QED
      BY <2>2, <3>1, <3>2
  <2> QED
    BY <2>1, <2>2 DEF IngestChild
<1>3. ASSUME workflow'[s] = "project", NEW j \in Attempts
      PROVE  versions'[<<s, j>>].status \in {"absent", "completed"}
  <2>1. CASE <<s, j>> \in Present
    <3>1. /\ prepared[s].job = <<s, j>> /\ <<s, j>> \in VersionIds /\ <<s, j>> # NoVersion
          /\ versions \in [VersionIds -> VersionRows]
      BY <1>1, <2>1, SyncConstants DEF VersionIds, Attempts, LeftBefore, AloneBefore, SyncInv, TypeOK
    <3>2. versions' = [versions EXCEPT ![<<s, j>>].status = "completed"]
      BY <1>1, <1>3, <3>1 DEF IngestChild, LeftBefore, AloneBefore, LeaseInv, LeaseTypes
    <3> QED
      BY <3>1, <3>2 DEF VersionRows
  <2>2. CASE <<s, j>> \notin Present
    BY <2>2, OtherEffects DEF LeftBefore, AloneBefore, Present, VersionIds, WorkflowStep
  <2> QED
    BY <2>1, <2>2
<1>4. ASSUME NEW r \in Runs, r # s
      PROVE  /\ workflow'[r] \in {"project", "finalize"} \/ runStatus'[r] = "completed" =>
                   \A j \in Attempts : versions'[<<r, j>>].status \in {"absent", "completed"}
             /\ workflow'[r] = "finalize" \/ runStatus'[r] = "completed" =>
                   \A e \in outbox' : e[1] = r => e \in projected'
  BY <1>1, <1>2, <1>4 DEF LeftBefore, LeftInv, WorkIsDone
<1>5. /\ workflow'[s] # "finalize" /\ runStatus'[s] # "completed"
      /\ workflow'[s] = "project" =>
            \A j \in Attempts : versions'[<<s, j>>].status \in {"absent", "completed"}
  BY <1>1, <1>3
<1> QED
  BY <1>4, <1>5 DEF WorkIsDone

LEMMA OthersKeepDone ==
    ASSUME LeftBefore,
           \/ \E r \in Runs : ClaimSync(r) \/ RequestStep(r) \/ WorkflowStep(r)
           \/ \E i \in Imports : ImportStep(i)
           \/ LeaseExpires \/ PageChanges \/ UNCHANGED vars
    PROVE  WorkIsDone'
<1>1. /\ outbox' = outbox
      /\ workflow \in [Runs -> WorkflowSteps] /\ runStatus \in [Runs -> RunStatuses]
  BY OtherEffects DEF LeftBefore, AloneBefore, SyncInv, TypeOK
\* Enough: what is newly finalizing or completed was done before.
<1>2. ASSUME UNCHANGED versions, projected \subseteq projected',
             \A r \in Runs :
                /\ workflow'[r] \in {"project", "finalize"} \/ runStatus'[r] = "completed" =>
                      workflow[r] \in {"project", "finalize"} \/ runStatus[r] = "completed"
                /\ workflow'[r] = "finalize" \/ runStatus'[r] = "completed" =>
                      \/ workflow[r] = "finalize" \/ runStatus[r] = "completed"
                      \/ prepared[r].events \subseteq projected /\ workflow[r] = "project"
      PROVE  WorkIsDone'
  BY <1>1, <1>2 DEF LeftBefore, LeftInv, WorkIsDone, ResultIsComplete
<1>3. ASSUME NEW s \in Runs, ClaimSync(s)  PROVE WorkIsDone'
  BY <1>1, <1>2, <1>3 DEF ClaimSync, Superseded, contentVars, outboxVars
<1>4. ASSUME NEW s \in Runs, RequestStep(s)  PROVE WorkIsDone'
  <2>1. UNCHANGED <<versions, projected>>
    BY <1>4 DEF RequestStep, StartWorkflow, StartWorkflowRaises, FailWorkflowStart, AbandonStart,
                contentVars, outboxVars
  <2>2. \A r \in Runs : /\ workflow'[r] \in {workflow[r], "prepare"}
                        /\ runStatus'[r] \in {runStatus[r], "failed"}
    BY <1>1, <1>4 DEF RequestStep, StartWorkflow, StartWorkflowRaises, FailWorkflowStart, AbandonStart
  <2> QED
    BY <1>2, <2>1, <2>2
<1>5. ASSUME NEW s \in Runs, WorkflowStep(s)  PROVE WorkIsDone'
  <2>1. CASE IngestChild(s)
    BY <2>1, IngestKeepsDone
  <2>2. CASE ProjectDeletion(s)
    <3>1. \A r \in Runs : workflow'[r] \in {workflow[r], "fail"}
      BY <1>1, <2>2 DEF ProjectDeletion
    <3>2. UNCHANGED <<versions, runStatus>> /\ projected \subseteq projected'
      BY <2>2 DEF ProjectDeletion, contentVars
    <3> QED
      BY <1>2, <3>1, <3>2
  <2>3. CASE AllProjected(s)
    BY <1>1, <1>2, <2>3 DEF AllProjected, contentVars, outboxVars
  <2>4. CASE Finalize(s)
    <3>1. UNCHANGED <<versions, projected>>
      BY <2>4 DEF Finalize, contentVars, outboxVars
    <3>2. \A r \in Runs : /\ workflow'[r] \in {workflow[r], "closed"}
                          /\ r # s => runStatus'[r] = runStatus[r]
      BY <1>1, <2>4 DEF Finalize
    <3>3. workflow[s] = "finalize"
      BY <2>4 DEF Finalize
    <3> QED
      BY <1>2, <3>1, <3>2, <3>3
  <2>5. CASE FinalizeRefused(s) \/ FailRun(s)
    <3>1. \A r \in Runs : /\ workflow'[r] \in {workflow[r], "fail", "closed"}
                          /\ runStatus'[r] \in {runStatus[r], "failed"}
      BY <1>1, <2>5 DEF FinalizeRefused, FailRun, FailRunning
    <3>2. UNCHANGED <<versions, projected>>
      BY <2>5 DEF FinalizeRefused, FailRun, contentVars, outboxVars
    <3> QED
      BY <1>2, <3>1, <3>2
  <2> QED
    BY <1>5, <2>1, <2>2, <2>3, <2>4, <2>5 DEF WorkflowStep
<1>6. ASSUME UNCHANGED <<versions, projected, workflow, runStatus>>  PROVE WorkIsDone'
  BY <1>2, <1>6
<1> QED
  BY <1>3, <1>4, <1>5, <1>6 DEF LeftBefore, NobodyInterferes, LeaseExpires, PageChanges, vars,
     runVars, contentVars, outboxVars

\* A run's result names every version and every deletion of its attempts, also of those that
\* were lost after they committed.
THEOREM LeftInvariant == ASSUME NobodyInterferes PROVE Spec => []LeftInv
<1>1. ASSUME Init  PROVE LeftInv
  <2>1. /\ IdlePrep.pc = "idle" /\ IdlePrep.job = NoVersion /\ NoResult.job = NoVersion
        /\ NoDocVersion.status = "absent"
    BY DEF IdlePrep, NoResult, NoDocVersion
  <2>2. \A r \in Runs : NoVersion \in OwnVersions(r)
    BY DEF OwnVersions
  <2> QED
    BY <1>1, <2>1, <2>2 DEF Init, LeftInv, OneVersion, ResultIsComplete, WorkIsDone, VersionIds
<1>2. ASSUME SyncInv, RowsInv, LeaseInv, CursorInv, AloneInv, LeftInv, [Next]_vars  PROVE LeftInv'
  <2>1. LeftBefore
    BY <1>2 DEF LeftBefore, AloneBefore, NobodyInterferes
  <2>2. ASSUME NEW r \in Runs, NEW k \in Attempts, AttemptStep(r, k)  PROVE LeftInv'
    BY <2>1, <2>2, AttemptKeepsOneVersion, AttemptKeepsResult, AttemptKeepsDone DEF LeftInv
  <2>3. CASE \/ \E r \in Runs : ClaimSync(r) \/ RequestStep(r) \/ WorkflowStep(r)
             \/ \E i \in Imports : ImportStep(i)
             \/ LeaseExpires \/ PageChanges \/ UNCHANGED vars
    BY <2>1, <2>3, OthersKeepOneVersion, OthersKeepResult, OthersKeepDone DEF LeftInv
  <2> QED
    BY <1>2, <2>2, <2>3, AttemptEffects DEF Next
<1>3. ReliableStart /\ AttemptsInTime /\ "page_moves" \notin Faults
  BY DEF NobodyInterferes, AttemptsInTime, ReliableStart
<1> QED
  BY <1>1, <1>2, <1>3, SyncInvariant, RowsInvariant, LeaseInvariant, CursorInvariant,
     AloneInvariant, PTL DEF Spec

\* Whatever attempts crashed on the way, a completed run has ingested every version it created
\* and projected every deletion it announced.
THEOREM CompletedRunsAreWhole ==
    ASSUME NobodyInterferes PROVE Spec => []CompletedRunLeavesNothingBehind
<1>1. LeftInv => CompletedRunLeavesNothingBehind
  BY DEF LeftInv, WorkIsDone, CompletedRunLeavesNothingBehind
<1> QED
  BY <1>1, LeftInvariant, PTL

=============================================================================
