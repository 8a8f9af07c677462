--------------------------- MODULE AgentExecution ---------------------------
(***************************************************************************)
(* One durable Agent execution: the API calls that queue, decide and cancel  *)
(* it, the Temporal workflow that runs it, and the attempts of the worker's *)
(* activities.  Executions share no state, and a retry or a replay is a new *)
(* execution, so that one stands for all of them.                           *)
(*                                                                         *)
(* One action is one transaction, one request to Temporal or one step of     *)
(* the workflow.  Activities have Temporal's default retry policy: whatever *)
(* an attempt raises, and whenever it is timed out, another one follows,    *)
(* without limit, until one attempt reports.  The repository works on a     *)
(* loaded row, and SQLAlchemy writes a column only where it differs from    *)
(* what was loaded.  Two operators who decide the same request at the same  *)
(* moment, between one's check and its commit, are not modelled.            *)
(***************************************************************************)
EXTENDS Naturals, Sequences, FiniteSetsExt

CONSTANTS
    NumTools,      \* the snapshot's allowed tools are 1..NumTools, in order
    Governed,      \* those with requires_admin_approval, for an execution
                   \* launched by an actor who is not super_admin
    MaxAttempts,   \* bound: attempts of an activity
    MaxCancels,    \* bound: calls to cancel the execution
    Faults         \* see FaultKinds

(***************************************************************************)
(* crash        : a worker dies, Temporal times an attempt out and stops it *)
(*                (start_to_close is no longer than the time the engine     *)
(*                alone may take), or the attempt raises outside the engine *)
(* broken_tool  : a tool the snapshot allows raises, because its            *)
(*                registration was deleted                                  *)
(* late_attempt : an attempt goes on although Temporal has timed it out     *)
(*                and started the next one                                  *)
(* lost_launch  : the API dies while it launches the execution              *)
(* lost_signal  : a decision is recorded, its signal is not delivered       *)
(* lost_cancel  : the API dies while it cancels the execution, or Temporal  *)
(*                does not answer it                                        *)
(***************************************************************************)
FaultKinds == {"crash", "broken_tool", "late_attempt", "lost_launch", "lost_signal",
               "lost_cancel"}

ASSUME ExecutionConstants ==
    /\ NumTools \in Nat /\ Governed \subseteq 1..NumTools
    /\ MaxAttempts \in Nat \ {0} /\ MaxCancels \in Nat
    /\ Faults \subseteq FaultKinds

Tools == 1..NumTools

Statuses == {"none", "queued", "running", "awaiting_approval", "completed", "failed",
             "cancelled"}

Final == {"completed", "failed", "cancelled"}

Decisions == {"approved", "rejected", "expired"}

Activities == {"first", "resumed", "finalize"}

VARIABLES
    launch,     \* queue_agent_execution: "none", "created", "started", "ended"
    status,     \* the row's execution_status
    attached,   \* whether its temporal_workflow_id is set
    approvals,  \* its agent_approval_requests in the order of their creation
    wf,         \* the Temporal workflow: pc, decision, the request its first
                \* activity reported, and the current attempt's number
    attempts,   \* attempts of activities that workers are carrying out
    signals,    \* decisions on their way to the workflow
    cancel,     \* cancel_agent_execution: where it is and how often it was called
    invoked,    \* tools that were invoked
    undone      \* history: a cancellation that terminated the workflow did not
                \* leave the execution cancelled

vars == <<launch, status, attached, approvals, wf, attempts, signals, cancel, invoked, undone>>

\* request 0: none.
Workflows == [pc : {"none", "first", "waiting", "resumed", "finalize", "closed"},
              decision : {"none"} \cup Decisions, request : Nat, attempt : 0..MaxAttempts]

Attempts == [activity : Activities, n : 1..MaxAttempts,
             pc : {"loaded", "blocked", "asked", "clear", "engine", "commit", "report"},
             seen : Statuses, request : Nat]

Requests == [tool : Tools, status : {"pending", "cancelled"} \cup Decisions]

\* seen, named: the status and whether a workflow was named when the row was
\* refreshed.
Cancels == [pc : {"none", "requested", "closing", "terminated"}, calls : 0..MaxCancels,
            seen : Statuses, named : BOOLEAN]

\* Every field within its set; a workflow that waits or resumed has a request to
\* wait for, and an attempt is identified by its activity and number.
TypeOK ==
    /\ launch \in {"none", "created", "started", "ended"}
    /\ status \in Statuses
    /\ attached \in BOOLEAN
    /\ approvals \in Seq(Requests)
    /\ wf \in Workflows
    /\ wf.pc \in {"waiting", "resumed"} => wf.request \in DOMAIN approvals
    /\ attempts \subseteq Attempts
    /\ \A a, b \in attempts : a.activity = b.activity /\ a.n = b.n => a = b
    /\ signals \subseteq {"approved", "rejected"}
    /\ cancel \in Cancels
    /\ invoked \subseteq Tools
    /\ undone \in BOOLEAN

Init ==
    /\ launch = "none" /\ status = "none" /\ attached = FALSE
    /\ approvals = <<>> /\ attempts = {} /\ signals = {} /\ invoked = {}
    /\ wf = [pc |-> "none", decision |-> "none", request |-> 0, attempt |-> 0]
    /\ cancel = [pc |-> "none", calls |-> 0, seen |-> "none", named |-> FALSE]
    /\ undone = FALSE

-----------------------------------------------------------------------------
(* queue_agent_execution, for a launch, a retry or a replay *)

Queue ==
    /\ launch = "none"
    /\ launch' = "created" /\ status' = "queued"
    /\ UNCHANGED <<attached, approvals, wf, attempts, signals, cancel, invoked, undone>>

StartWorkflow ==
    /\ launch = "created"
    /\ launch' = "started"
    /\ wf' = [wf EXCEPT !.pc = "first"]
    /\ UNCHANGED <<status, attached, approvals, attempts, signals, cancel, invoked, undone>>

AttachWorkflow ==
    /\ launch = "started"
    /\ launch' = "ended" /\ attached' = TRUE
    /\ UNCHANGED <<status, approvals, wf, attempts, signals, cancel, invoked, undone>>

LaunchLost ==
    /\ "lost_launch" \in Faults
    /\ launch \in {"created", "started"}
    /\ launch' = "ended"
    /\ UNCHANGED <<status, attached, approvals, wf, attempts, signals, cancel, invoked, undone>>

-----------------------------------------------------------------------------
(* Attempts of the activities *)

Running == wf.pc \in Activities

Current(a) == Running /\ a.activity = wf.pc /\ a.n = wf.attempt

NoAttemptIsCurrent == \A a \in attempts : ~Current(a)

Replace(a, b) == attempts' = (attempts \ {a}) \cup {b}

\* Mutant: the activity does not look for a cancellation before it starts.
NeverCancelled(s) == FALSE

IsCancelled(s) == s = "cancelled"

\* The row is loaded. A cancelled execution is not executed; finalize closes the
\* workflow's own request where it expired.
StartAttempt ==
    /\ Running /\ wf.attempt < MaxAttempts
    /\ NoAttemptIsCurrent \/ "late_attempt" \in Faults
    /\ wf' = [wf EXCEPT !.attempt = @ + 1]
    /\ LET stop == IF wf.pc = "finalize" THEN "engine"
                   ELSE IF IsCancelled(status) THEN "report" ELSE "loaded"
       IN  attempts' = attempts \cup
             {[activity |-> wf.pc, n |-> wf.attempt + 1, pc |-> stop, seen |-> status,
               request |-> 0]}
    /\ approvals' = IF /\ wf.pc = "finalize" /\ wf.decision = "expired"
                       /\ wf.request \in DOMAIN approvals
                       /\ approvals[wf.request].status = "pending"
                    THEN [approvals EXCEPT ![wf.request].status = "expired"]
                    ELSE approvals
    /\ UNCHANGED <<launch, status, attached, signals, cancel, invoked, undone>>

\* approved_tool_registration_ids: what the workflow passes to its second run.
Granted(a) == IF a.activity = "resumed" THEN {approvals[wf.request].tool} ELSE {}

Blocked(a) == Governed \ Granted(a)

\* execute_bound_tools: every allowed tool that is not blocked, at every attempt.
InvokeTools(a) ==
    /\ a.pc = "loaded"
    /\ invoked' = invoked \cup (Tools \ Blocked(a))
    /\ Replace(a, [a EXCEPT !.pc = IF Blocked(a) = {} THEN "clear" ELSE "blocked"])
    /\ UNCHANGED <<launch, status, attached, approvals, wf, signals, cancel, undone>>

\* A tool raises. The ones before it were invoked; nothing catches the error, and the
\* next attempt does the same.
ToolsRaise(a) ==
    /\ "broken_tool" \in Faults
    /\ a.pc = "loaded"
    /\ \E t \in Tools : invoked' = invoked \cup {u \in Tools \ Blocked(a) : u < t}
    /\ attempts' = attempts \ {a}
    /\ UNCHANGED <<launch, status, attached, approvals, wf, signals, cancel, undone>>

\* create_request for the first tool that is blocked
RequestApproval(a) ==
    /\ a.pc = "blocked"
    /\ approvals' = Append(approvals, [tool |-> Min(Blocked(a)), status |-> "pending"])
    /\ Replace(a, [a EXCEPT !.pc = "asked", !.request = Len(approvals) + 1])
    /\ UNCHANGED <<launch, status, attached, wf, signals, cancel, invoked, undone>>

\* A row loaded with a status is written only if the new status differs.
Written(a, s) == IF a.seen = s THEN status ELSE s

\* A commit that leaves a cancelled row of a workflow that has ended in another status.
CancellationUndone ==
    undone' = (undone \/ (status = "cancelled" /\ status' # "cancelled" /\ wf.pc = "closed"))

\* mark_agent_execution_awaiting_approval
MarkAwaiting(a) ==
    /\ a.pc = "asked"
    /\ status' = Written(a, "awaiting_approval")
    /\ Replace(a, [a EXCEPT !.pc = "report", !.seen = status'])
    /\ CancellationUndone
    /\ UNCHANGED <<launch, attached, approvals, wf, signals, cancel, invoked>>

\* mark_agent_execution_running
MarkRunning(a) ==
    /\ a.pc = "clear"
    /\ status' = Written(a, "running")
    /\ Replace(a, [a EXCEPT !.pc = "engine", !.seen = status'])
    /\ CancellationUndone
    /\ UNCHANGED <<launch, attached, approvals, wf, signals, cancel, invoked>>

\* The engine returns, runs out of its own time or raises; complete_agent_execution
\* or fail_agent_execution refreshes the row. An attempt that Temporal times out
\* before that is lost.
RefreshRow(a) ==
    /\ a.pc = "engine"
    /\ Replace(a, [a EXCEPT !.pc = IF status = "cancelled" THEN "report" ELSE "commit",
                            !.seen = status])
    /\ UNCHANGED <<launch, status, attached, approvals, wf, signals, cancel, invoked, undone>>

\* and commit what they make of it.
CommitOutcome(a) ==
    /\ a.pc = "commit"
    /\ \E outcome \in {"completed", "failed"} :
          /\ a.activity = "finalize" => outcome = "failed"
          /\ status' = Written(a, outcome)
    /\ Replace(a, [a EXCEPT !.pc = "report", !.seen = status'])
    /\ CancellationUndone
    /\ UNCHANGED <<launch, attached, approvals, wf, signals, cancel, invoked>>

\* Mutant: the result does not name the approval request.
UnnamedRequest(a) == 0

ReportedRequest(a) == a.request

\* Mutant: the workflow ends where it should wait for a decision.
NeverWaits(a) == FALSE

AsksForApproval(a) == a.activity = "first" /\ a.seen = "awaiting_approval"

\* The attempt returns. Temporal takes the result of the current one only.
Report(a) ==
    /\ a.pc = "report"
    /\ attempts' = attempts \ {a}
    /\ wf' = IF ~Current(a) THEN wf
             ELSE IF AsksForApproval(a)
             THEN [wf EXCEPT !.pc = "waiting", !.request = ReportedRequest(a)]
             ELSE [wf EXCEPT !.pc = "closed"]
    /\ UNCHANGED <<launch, status, attached, approvals, signals, cancel, invoked, undone>>

\* The attempt ends without a result and without having recorded one.
AttemptLost(a) ==
    /\ "crash" \in Faults
    /\ attempts' = attempts \ {a}
    /\ UNCHANGED <<launch, status, attached, approvals, wf, signals, cancel, invoked, undone>>

-----------------------------------------------------------------------------
(* Waiting for a decision *)

Open == wf.pc \notin {"none", "closed"}

\* decide_agent_approval: the checks and the decision's commit. The workflow is
\* signalled where the row names it.
Decide(r, decision) ==
    /\ approvals[r].status = "pending" /\ status = "awaiting_approval"
    /\ approvals' = [approvals EXCEPT ![r].status = decision]
    /\ signals' = IF attached THEN signals \cup {decision} ELSE signals
    /\ UNCHANGED <<launch, status, attached, wf, attempts, cancel, invoked, undone>>

\* A decision that comes after expires_at is refused.
DecideLate(r) ==
    /\ approvals[r].status = "pending"
    /\ approvals' = [approvals EXCEPT ![r].status = "expired"]
    /\ UNCHANGED <<launch, status, attached, wf, attempts, signals, cancel, invoked, undone>>

\* signal_agent_approval and the handler decide_approval: the first one counts.
\* A workflow that is closed cannot be signalled.
Signal(decision) ==
    /\ signals' = signals \ {decision}
    /\ wf' = IF Open /\ wf.decision = "none" THEN [wf EXCEPT !.decision = decision] ELSE wf
    /\ UNCHANGED <<launch, status, attached, approvals, attempts, cancel, invoked, undone>>

SignalLost(decision) ==
    /\ "lost_signal" \in Faults
    /\ signals' = signals \ {decision}
    /\ UNCHANGED <<launch, status, attached, approvals, wf, attempts, cancel, invoked, undone>>

WaitTimesOut ==
    /\ wf.pc = "waiting" /\ wf.decision = "none"
    /\ wf' = [wf EXCEPT !.decision = "expired"]
    /\ UNCHANGED <<launch, status, attached, approvals, attempts, signals, cancel, invoked, undone>>

\* Mutant: whatever is not a rejection resumes the execution.
NotRejected(decision) == decision # "rejected"

Resumes(decision) == decision = "approved"

WaitEnds ==
    /\ wf.pc = "waiting" /\ wf.decision # "none"
    /\ wf' = [wf EXCEPT !.pc = IF Resumes(wf.decision) THEN "resumed" ELSE "finalize",
                        !.attempt = 0]
    /\ UNCHANGED <<launch, status, attached, approvals, attempts, signals, cancel, invoked, undone>>

-----------------------------------------------------------------------------
(* cancel_agent_execution *)

Cancellable == {"queued", "running", "awaiting_approval"}

\* The row's check and request_agent_execution_cancellation, which refreshes it.
RequestCancel ==
    /\ cancel.pc = "none" /\ cancel.calls < MaxCancels
    /\ status \in Cancellable
    /\ cancel' = [pc |-> "requested", calls |-> cancel.calls + 1,
                  seen |-> status, named |-> attached]
    /\ UNCHANGED <<launch, status, attached, approvals, wf, attempts, signals, invoked, undone>>

\* Of an execution that awaits approval the pending requests are closed.
CloseRequests ==
    /\ cancel.pc = "requested"
    /\ approvals' =
         [r \in DOMAIN approvals |->
             IF cancel.seen = "awaiting_approval" /\ approvals[r].status = "pending"
             THEN [approvals[r] EXCEPT !.status = "cancelled"] ELSE approvals[r]]
    /\ cancel' = [cancel EXCEPT !.pc = "closing"]
    /\ UNCHANGED <<launch, status, attached, wf, attempts, signals, invoked, undone>>

\* cancel_workflow, for a workflow the row names: it is terminated; where it is closed
\* already that is refused, and the cancellation with it. Attempts in progress are not
\* stopped.
Terminate ==
    /\ cancel.pc = "closing"
    /\ IF ~cancel.named THEN wf' = wf /\ cancel' = [cancel EXCEPT !.pc = "terminated"]
       ELSE IF Open THEN /\ wf' = [wf EXCEPT !.pc = "closed"]
                         /\ cancel' = [cancel EXCEPT !.pc = "terminated"]
       ELSE wf' = wf /\ cancel' = [cancel EXCEPT !.pc = "none"]
    /\ UNCHANGED <<launch, status, attached, approvals, attempts, signals, invoked, undone>>

CommitCancel ==
    /\ cancel.pc = "terminated"
    /\ status' = "cancelled"
    /\ cancel' = [cancel EXCEPT !.pc = "none"]
    /\ UNCHANGED <<launch, attached, approvals, wf, attempts, signals, invoked, undone>>

\* The API dies, or the request to Temporal fails: without effect, or after the
\* workflow was terminated where only the reply is lost. Nobody takes the
\* cancellation up again; a second call finds the workflow closed.
CancelLost ==
    /\ "lost_cancel" \in Faults
    /\ cancel.pc # "none"
    /\ cancel' = [cancel EXCEPT !.pc = "none"]
    /\ undone' = (undone \/ (cancel.pc = "terminated" /\ cancel.named))
    /\ UNCHANGED <<launch, status, attached, approvals, wf, attempts, signals, invoked>>

-----------------------------------------------------------------------------
LaunchStep == Queue \/ StartWorkflow \/ AttachWorkflow \/ LaunchLost

AttemptStep(a) ==
    \/ InvokeTools(a) \/ RequestApproval(a) \/ MarkAwaiting(a) \/ MarkRunning(a)
    \/ RefreshRow(a) \/ CommitOutcome(a) \/ Report(a)

DecisionStep ==
    \/ \E r \in DOMAIN approvals :
          DecideLate(r) \/ \E d \in {"approved", "rejected"} : Decide(r, d)
    \/ \E d \in signals : Signal(d) \/ SignalLost(d)

CancelStep == RequestCancel \/ CloseRequests \/ Terminate \/ CommitCancel \/ CancelLost

Next ==
    \/ LaunchStep
    \/ StartAttempt \/ WaitTimesOut \/ WaitEnds
    \/ \E a \in attempts : AttemptStep(a) \/ ToolsRaise(a) \/ AttemptLost(a)
    \/ DecisionStep
    \/ CancelStep

Spec == Init /\ [][Next]_vars

\* Temporal starts attempts and fires timers, workers carry attempts out that are not
\* lost, and a cancellation that is not lost is finished. Nobody has to launch, decide or cancel.
Fairness ==
    /\ WF_vars(StartAttempt) /\ WF_vars(WaitTimesOut) /\ WF_vars(WaitEnds)
    /\ WF_vars(\E a \in attempts : AttemptStep(a))
    /\ WF_vars(CloseRequests \/ Terminate \/ CommitCancel)

FairSpec == Spec /\ Fairness

-----------------------------------------------------------------------------
(* Properties *)

ApprovedFor(t) ==
    \E r \in DOMAIN approvals : approvals[r].tool = t /\ approvals[r].status = "approved"

\* A tool that requires approval is invoked, at whatever attempt, only after a
\* request for it was approved; expiry, rejection and cancellation never let it run.
GovernedToolsWereApproved == \A t \in invoked \cap Governed : ApprovedFor(t)

\* The attempts that read the row before it was cancelled have written to it, or are
\* in the engine and read it again.
NobodyOverwrites == \A a \in attempts : a.pc \in {"engine", "report"}

\* Once a cancellation is recorded and no attempt is left to write what it makes of a
\* row it read before, the execution is cancelled for good: neither the attempts in
\* the engine, nor those that Temporal still starts, nor a late decision revive it.
CancelledStaysCancelled ==
    [][(status = "cancelled" /\ NobodyOverwrites)
          => (status = "cancelled" /\ NobodyOverwrites)']_vars

\* An execution that awaits approval has a workflow that can be told the decision, or
\* a cancellation is about to close it, unless a cancellation was undone.
AwaitingHasSomeoneWaiting ==
    status = "awaiting_approval" => Open \/ cancel.pc = "terminated" \/ undone

\* All attempts of an activity that the bound allows are lost. Temporal goes on: a run
\* with a deleted tool, or whose engine takes all of its time, never ends.
AttemptsExhausted == Running /\ wf.attempt = MaxAttempts /\ NoAttemptIsCurrent

\* A workflow that started ends, and leaves the execution in a final state, whether or
\* not anybody decides and whichever signals and replies are lost, unless an activity
\* loses all of its attempts or a cancellation is undone.
EveryRunEnds ==
    wf.pc = "first" ~> \/ wf.pc = "closed" /\ status \in Final
                       \/ AttemptsExhausted \/ undone
=============================================================================
