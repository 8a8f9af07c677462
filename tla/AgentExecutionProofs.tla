------------------------ MODULE AgentExecutionProofs ------------------------
(***************************************************************************)
(* Type correctness of AgentExecution, and that no tool that requires       *)
(* approval is invoked without one: for any tools, any number of attempts   *)
(* and cancellations, and under every fault.                                *)
(*                                                                         *)
(* The grant that resumes an execution names the tool of the request the    *)
(* first activity reported, while the decision may have been another        *)
(* request's.  They are about the same tool, because every attempt of the   *)
(* first activity asks for the first governed tool, and requests for other  *)
(* tools come only after the decision.                                      *)
(*                                                                         *)
(* The last two parts prove the two promises about what an operator sees: a *)
(* cancelled execution stays cancelled once no attempt is left that read    *)
(* the row before, under every fault; an execution shown as awaiting        *)
(* approval has somebody who waits for it, if attempts do not overlap each  *)
(* other, at most one tool is governed and no cancellation was undone.      *)
(***************************************************************************)
EXTENDS AgentExecution, BoundedMaximum, SequenceTheorems, TLAPS

\* The tool that the first activity asks for.
FirstTool == Min(Governed)

LEMMA FirstOf ==
    ASSUME NEW S \in SUBSET Governed, S # {}
    PROVE  Min(S) \in S /\ Min(S) \in Tools
<1>1. S \subseteq Nat /\ Governed \subseteq Tools
  BY ExecutionConstants DEF Tools
<1> QED
  BY <1>1, MinOfNaturals

-----------------------------------------------------------------------------
(* The inductive invariant *)

\* Attempts belong to the activity the workflow is at or has passed.
Numbered ==
    /\ launch \in {"none", "created"} => wf.pc = "none"
    /\ \A a \in attempts :
          /\ wf.pc # "none"
          /\ wf.pc \in {"first", "waiting"} => a.activity = "first"
          /\ a.activity = wf.pc => a.n <= wf.attempt

\* Without governed tools nobody waits; with one, an attempt of the first activity
\* asks for it before it reports.
Asking ==
    /\ Governed = {} => /\ status # "awaiting_approval"
                        /\ \A a \in attempts : /\ a.seen # "awaiting_approval"
                                               /\ a.pc \notin {"blocked", "asked"}
    /\ \A a \in attempts :
          /\ a.pc = "blocked" => Blocked(a) # {}
          /\ a.pc = "asked" => a.request # 0
          /\ a.activity = "first" /\ a.request # 0 =>
                a.request \in DOMAIN approvals /\ approvals[a.request].tool = FirstTool
          /\ a.activity = "first" /\ Governed # {} =>
                /\ a.pc \in {"loaded", "blocked", "asked", "report"}
                /\ a.pc = "report" /\ a.request = 0 => a.seen = "cancelled"

\* A grant names the first governed tool, and that tool was approved.
Granting ==
    /\ wf.pc = "resumed" => wf.decision = "approved"
    /\ \A a \in attempts : a.activity = "resumed" => wf.decision = "approved" /\ wf.request # 0
    /\ wf.request # 0 =>
          wf.request \in DOMAIN approvals /\ approvals[wf.request].tool = FirstTool
    /\ wf.pc \in {"waiting", "resumed"} => wf.request # 0
    /\ wf.decision = "none" => \A r \in DOMAIN approvals : approvals[r].tool = FirstTool
    /\ wf.decision = "approved" => ApprovedFor(FirstTool)
    /\ "approved" \in signals => ApprovedFor(FirstTool) \/ wf.decision # "none"

ExecutionInv == TypeOK /\ Numbered /\ Asking /\ Granting /\ GovernedToolsWereApproved

-----------------------------------------------------------------------------
(* What steps do to requests, attempts and the workflow *)

\* Requests are added and decided; an approval is never taken back.
Grows ==
    /\ approvals' \in Seq(Requests)
    /\ \A r \in DOMAIN approvals :
          /\ r \in DOMAIN approvals' /\ approvals'[r].tool = approvals[r].tool
          /\ approvals[r].status = "approved" => approvals'[r].status = "approved"

LEMMA DecidingGrows ==
    ASSUME TypeOK, NEW r \in DOMAIN approvals, approvals[r].status = "pending",
           NEW s \in {"cancelled"} \cup Decisions,
           approvals' = [approvals EXCEPT ![r].status = s]
    PROVE  Grows /\ DOMAIN approvals' = DOMAIN approvals /\ approvals'[r].status = s
<1> DEFINE new == [approvals[r] EXCEPT !.status = s]
<1>1. approvals \in Seq(Requests) /\ r \in 1..Len(approvals)
  BY DEF TypeOK
<1>2. approvals[r] \in Requests
  BY <1>1
<1>3. new \in Requests /\ new.tool = approvals[r].tool /\ new.status = s
  BY <1>2 DEF Requests
<1>4. approvals' = [approvals EXCEPT ![r] = new]
  OBVIOUS
<1> HIDE DEF new
<1>5. /\ approvals' \in Seq(Requests) /\ Len(approvals') = Len(approvals)
      /\ \A j \in 1..Len(approvals) : approvals'[j] = IF j = r THEN new ELSE approvals[j]
  BY <1>1, <1>3, <1>4, ExceptSeq
<1> QED
  BY <1>1, <1>3, <1>5 DEF Grows

LEMMA KeepingApproved ==
    ASSUME Grows, NEW t, ApprovedFor(t)
    PROVE  ApprovedFor(t)'
BY DEF Grows, ApprovedFor

LEMMA Replaced ==
    ASSUME TypeOK, NEW a \in attempts, NEW b \in Attempts,
           b.activity = a.activity, b.n = a.n, Replace(a, b)
    PROVE  /\ attempts' = (attempts \ {a}) \cup {b}
           /\ attempts' \subseteq Attempts
           /\ \A c, d \in attempts' : c.activity = d.activity /\ c.n = d.n => c = d
BY DEF TypeOK, Replace

-----------------------------------------------------------------------------
(* Every step keeps the invariant *)

LEMMA LaunchKeepsInv ==
    ASSUME ExecutionInv, LaunchStep
    PROVE  ExecutionInv'
<1> USE DEF ExecutionInv
<1>1. CASE Queue
  BY <1>1 DEF Queue, TypeOK, Statuses, Numbered, Asking, Granting, Blocked, Granted,
     GovernedToolsWereApproved, ApprovedFor
<1>2. CASE StartWorkflow
  <2>1. wf.pc = "none" /\ attempts = {}
    BY <1>2 DEF StartWorkflow, Numbered
  <2>2. wf \in Workflows
    BY DEF TypeOK
  <2>3. /\ wf' \in Workflows /\ wf'.pc = "first" /\ wf'.decision = wf.decision
        /\ wf'.request = wf.request
    BY <1>2, <2>2 DEF StartWorkflow, Workflows
  <2> QED
    BY <1>2, <2>1, <2>3 DEF StartWorkflow, TypeOK, Numbered, Asking, Granting,
       GovernedToolsWereApproved, ApprovedFor
<1>3. CASE AttachWorkflow \/ LaunchLost
  <2>1. UNCHANGED <<status, approvals, wf, attempts, signals, cancel, invoked, undone>>
    BY <1>3 DEF AttachWorkflow, LaunchLost
  <2>2. attached' \in BOOLEAN /\ launch' = "ended"
    BY <1>3 DEF AttachWorkflow, LaunchLost, TypeOK
  <2>3. TypeOK'
    BY <2>1, <2>2 DEF TypeOK
  <2>4. Numbered' /\ Asking'
    BY <2>1, <2>2 DEF Numbered, Asking, Blocked, Granted
  <2>5. Granting' /\ GovernedToolsWereApproved'
    BY <2>1 DEF Granting, GovernedToolsWereApproved, ApprovedFor
  <2> QED
    BY <2>3, <2>4, <2>5
<1> QED
  BY <1>1, <1>2, <1>3 DEF LaunchStep

LEMMA StartAttemptKeepsInv ==
    ASSUME ExecutionInv, StartAttempt
    PROVE  ExecutionInv'
<1> DEFINE stop == IF wf.pc = "finalize" THEN "engine"
                   ELSE IF IsCancelled(status) THEN "report" ELSE "loaded"
           new  == [activity |-> wf.pc, n |-> wf.attempt + 1, pc |-> stop,
                    seen |-> status, request |-> 0]
<1>1. wf \in Workflows /\ wf.pc \in Activities /\ wf.attempt < MaxAttempts
  BY DEF StartAttempt, Running, ExecutionInv, TypeOK
<1>2. wf.attempt \in Nat /\ MaxAttempts \in Nat /\ wf.attempt + 1 \in 1..MaxAttempts
  BY <1>1, ExecutionConstants DEF Workflows
<1>3. /\ wf' \in Workflows /\ wf'.pc = wf.pc /\ wf'.decision = wf.decision
      /\ wf'.request = wf.request /\ wf'.attempt = wf.attempt + 1
  BY <1>1, <1>2 DEF StartAttempt, Workflows
<1>4. /\ new \in Attempts
      /\ new.activity = wf.pc /\ new.n = wf.attempt + 1 /\ new.seen = status
      /\ new.request = 0 /\ new.pc = stop
  BY <1>1, <1>2 DEF Attempts, ExecutionInv, TypeOK
<1>5. attempts' = attempts \cup {new}
  BY DEF StartAttempt
<1>6. /\ stop \in {"engine", "report", "loaded"}
      /\ wf.pc = "first" /\ stop = "report" => status = "cancelled"
      /\ wf.pc = "first" => stop # "engine"
  BY DEF IsCancelled
<1> HIDE DEF stop, new
<1>7. Grows /\ DOMAIN approvals' = DOMAIN approvals
  <2>1. CASE approvals' = approvals
    BY <2>1 DEF Grows, ExecutionInv, TypeOK
  <2>2. CASE /\ wf.request \in DOMAIN approvals /\ approvals[wf.request].status = "pending"
             /\ approvals' = [approvals EXCEPT ![wf.request].status = "expired"]
    BY <2>2, DecidingGrows DEF ExecutionInv, Decisions
  <2> QED
    BY <2>1, <2>2 DEF StartAttempt
<1>8. UNCHANGED <<launch, status, attached, signals, cancel, invoked, undone>>
  BY DEF StartAttempt
<1>9. \A a \in attempts : a.activity = wf.pc => a.n < wf.attempt + 1
  <2> SUFFICES ASSUME NEW a \in attempts, a.activity = wf.pc
               PROVE  a.n < wf.attempt + 1
    OBVIOUS
  <2>1. a.n <= wf.attempt /\ a.n \in Nat
    BY DEF ExecutionInv, Numbered, TypeOK, Attempts
  <2> QED
    BY <1>2, <2>1
<1>10. TypeOK'
  <2>1. \A a, b \in attempts' : a.activity = b.activity /\ a.n = b.n => a = b
    <3>1. \A a \in attempts : a.activity = new.activity => a.n # new.n
      <4> SUFFICES ASSUME NEW a \in attempts, a.activity = new.activity
                   PROVE  a.n # new.n
        OBVIOUS
      <4>1. a.n < wf.attempt + 1 /\ a.n \in Nat
        BY <1>4, <1>9 DEF ExecutionInv, TypeOK, Attempts
      <4> QED
        BY <1>2, <1>4, <4>1
    <3> QED
      BY <1>5, <3>1 DEF ExecutionInv, TypeOK
  <2> QED
    BY <1>3, <1>4, <1>5, <1>7, <1>8, <2>1 DEF ExecutionInv, TypeOK, Grows
<1>11. Numbered'
  <2> SUFFICES ASSUME NEW a \in attempts'
               PROVE  /\ wf.pc # "none"
                      /\ wf.pc \in {"first", "waiting"} => a.activity = "first"
                      /\ a.activity = wf.pc => a.n <= wf.attempt + 1
    BY <1>1, <1>3, <1>8 DEF Numbered, ExecutionInv, Activities
  <2>1. CASE a = new
    BY <1>1, <1>2, <1>4, <2>1 DEF Activities
  <2>2. CASE a \in attempts
    <3>1. a.activity = wf.pc => a.n <= wf.attempt + 1
      BY <1>2, <1>9, <2>2 DEF ExecutionInv, TypeOK, Attempts
    <3> QED
      BY <2>2, <3>1 DEF ExecutionInv, Numbered
  <2> QED
    BY <1>5, <2>1, <2>2
<1>12. Asking'
  <2>1. \A a \in attempts : a.pc = "blocked" => Blocked(a)' # {}
    <3> SUFFICES ASSUME NEW a \in attempts, a.pc = "blocked"
                 PROVE  Blocked(a)' # {}
      OBVIOUS
    <3>1. Granted(a)' = Granted(a)
      BY <1>3, <1>7 DEF Granted, Grows, ExecutionInv, Granting
    <3> QED
      BY <3>1 DEF ExecutionInv, Asking, Blocked
  <2> QED
    BY <1>4, <1>5, <1>6, <1>7, <1>8, <2>1 DEF ExecutionInv, Asking, Grows
<1>13. Granting'
  <2>1. ApprovedFor(FirstTool) => ApprovedFor(FirstTool)'
    BY <1>7, KeepingApproved
  <2> QED
    BY <1>3, <1>4, <1>5, <1>7, <1>8, <2>1 DEF ExecutionInv, Granting, Grows
<1>14. GovernedToolsWereApproved'
  BY <1>7, <1>8, KeepingApproved DEF ExecutionInv, GovernedToolsWereApproved
<1> QED
  BY <1>10, <1>11, <1>12, <1>13, <1>14 DEF ExecutionInv

LEMMA BlockedIsStable ==
    ASSUME ExecutionInv, Grows, wf'.request = wf.request, NEW a \in attempts
    PROVE  Blocked(a)' = Blocked(a)
<1>1. a.activity = "resumed" => wf.request \in DOMAIN approvals
  BY DEF ExecutionInv, Granting
<1> QED
  BY <1>1 DEF Blocked, Granted, Grows

\* An attempt that moves on as b and leaves the workflow alone.
LEMMA MovingOn ==
    ASSUME ExecutionInv, NEW a \in attempts, NEW b \in Attempts,
           b.activity = a.activity, b.n = a.n, Replace(a, b), Grows,
           UNCHANGED <<launch, attached, wf, signals, cancel>>,
           status' \in Statuses, invoked' \subseteq Tools, undone' \in BOOLEAN
    PROVE  /\ TypeOK' /\ Numbered'
           /\ (wf.decision = "none" => \A r \in DOMAIN approvals' : approvals'[r].tool = FirstTool)
                  => Granting'
<1>1. /\ attempts' = (attempts \ {a}) \cup {b}
      /\ attempts' \subseteq Attempts
      /\ \A c, d \in attempts' : c.activity = d.activity /\ c.n = d.n => c = d
  BY Replaced DEF ExecutionInv
<1>2. TypeOK'
  BY <1>1 DEF ExecutionInv, TypeOK, Grows
<1>3. Numbered'
  BY <1>1 DEF ExecutionInv, Numbered
<1>4. ASSUME wf.decision = "none" => \A r \in DOMAIN approvals' : approvals'[r].tool = FirstTool
      PROVE  Granting'
  <2>1. ApprovedFor(FirstTool) => ApprovedFor(FirstTool)'
    BY KeepingApproved
  <2> QED
    BY <1>1, <1>4, <2>1 DEF ExecutionInv, Granting, Grows
<1> QED
  BY <1>2, <1>3, <1>4

\* Asking, where an attempt moves on as b.
LEMMA AskingOn ==
    ASSUME ExecutionInv, NEW a \in attempts, NEW b, Replace(a, b), Grows,
           wf' = wf,
           Governed = {} => /\ status' # "awaiting_approval" /\ b.seen # "awaiting_approval"
                            /\ b.pc \notin {"blocked", "asked"},
           b.pc = "blocked" => Blocked(b)' # {},
           b.pc = "asked" => b.request # 0,
           b.activity = "first" /\ b.request # 0 =>
              b.request \in DOMAIN approvals' /\ approvals'[b.request].tool = FirstTool,
           b.activity = "first" /\ Governed # {} =>
              /\ b.pc \in {"loaded", "blocked", "asked", "report"}
              /\ b.pc = "report" /\ b.request = 0 => b.seen = "cancelled"
    PROVE  Asking'
<1>1. \A c \in attempts : Blocked(c)' = Blocked(c)
  BY BlockedIsStable
<1>2. \A c \in attempts' : c \in attempts \/ c = b
  BY DEF Replace
<1> QED
  BY <1>1, <1>2 DEF ExecutionInv, Asking, Grows

\* What an attempt does not find blocked it may invoke.
LEMMA UnblockedIsApproved ==
    ASSUME ExecutionInv, NEW a \in attempts, NEW t \in Governed, t \notin Blocked(a)
    PROVE  ApprovedFor(t)
<1>1. a.activity = "resumed" /\ t = approvals[wf.request].tool
  BY DEF Blocked, Granted
<1>2. t = FirstTool /\ ApprovedFor(FirstTool)
  BY <1>1 DEF ExecutionInv, Granting
<1> QED
  BY <1>2

LEMMA AttemptKeepsInv ==
    ASSUME ExecutionInv, NEW a \in attempts, AttemptStep(a), ~Report(a)
    PROVE  ExecutionInv'
<1>0. a \in Attempts /\ status \in Statuses /\ invoked \subseteq Tools /\ undone \in BOOLEAN
  BY DEF ExecutionInv, TypeOK
<1>1. CASE InvokeTools(a)
  <2>0. PICK b : b = [a EXCEPT !.pc = IF Blocked(a) = {} THEN "clear" ELSE "blocked"]
    OBVIOUS
  <2>1. /\ b \in Attempts /\ b.activity = a.activity /\ b.n = a.n /\ b.seen = a.seen
        /\ b.request = a.request /\ b.pc = IF Blocked(a) = {} THEN "clear" ELSE "blocked"
    BY <1>0, <2>0 DEF Attempts
  <2>2. /\ Replace(a, b) /\ invoked' = invoked \cup (Tools \ Blocked(a))
        /\ UNCHANGED <<launch, status, attached, approvals, wf, signals, cancel, undone>>
    BY <1>1, <2>0 DEF InvokeTools
  <2>3. Grows
    BY <2>2 DEF ExecutionInv, TypeOK, Grows
  <2>4. TypeOK' /\ Numbered' /\ Granting'
    BY <1>0, <2>1, <2>2, <2>3, MovingOn DEF ExecutionInv, Granting
  <2>5. Blocked(b)' = Blocked(a)
    BY <2>1, <2>2 DEF Blocked, Granted
  <2>6. a.activity = "first" => Blocked(a) = Governed
    BY DEF Blocked, Granted
  <2>7. Asking'
    <3>1. /\ Governed = {} => Blocked(a) = {}
          /\ Governed = {} => status # "awaiting_approval" /\ a.seen # "awaiting_approval"
          /\ a.activity = "first" /\ a.request # 0 =>
                a.request \in DOMAIN approvals /\ approvals[a.request].tool = FirstTool
      BY DEF Blocked, ExecutionInv, Asking
    <3> QED
      BY <2>1, <2>2, <2>3, <2>5, <2>6, <3>1, AskingOn
  <2>8. GovernedToolsWereApproved'
    BY <2>2, UnblockedIsApproved DEF ExecutionInv, GovernedToolsWereApproved, ApprovedFor
  <2> QED
    BY <2>4, <2>7, <2>8 DEF ExecutionInv
<1>2. CASE RequestApproval(a)
  <2>0. PICK b, new : /\ b = [a EXCEPT !.pc = "asked", !.request = Len(approvals) + 1]
                      /\ new = [tool |-> Min(Blocked(a)), status |-> "pending"]
    OBVIOUS
  <2>1. approvals \in Seq(Requests) /\ Len(approvals) \in Nat
    BY DEF ExecutionInv, TypeOK
  <2>2. /\ b \in Attempts /\ b.activity = a.activity /\ b.n = a.n /\ b.seen = a.seen
        /\ b.request = Len(approvals) + 1 /\ b.pc = "asked"
    <3>1. Len(approvals) + 1 \in Nat
      BY <2>1
    <3> QED
      BY <1>0, <2>0, <3>1 DEF Attempts
  <2>3. /\ a.pc = "blocked" /\ Replace(a, b) /\ approvals' = Append(approvals, new)
        /\ UNCHANGED <<launch, status, attached, wf, signals, cancel, invoked, undone>>
    BY <1>2, <2>0 DEF RequestApproval
  <2>4. Blocked(a) # {} /\ Blocked(a) \in SUBSET Governed
    BY <2>3 DEF ExecutionInv, Asking, Blocked
  <2>5. new \in Requests /\ new.tool = Min(Blocked(a))
    BY <2>0, <2>4, FirstOf DEF Requests
  <2>6. /\ approvals' \in Seq(Requests) /\ Len(approvals') = Len(approvals) + 1
        /\ \A i \in 1..Len(approvals) : approvals'[i] = approvals[i]
        /\ approvals'[Len(approvals) + 1] = new
    BY <2>1, <2>3, <2>5, AppendProperties
  <2>7. Grows
    BY <2>1, <2>6 DEF Grows
  <2>8. a.activity # "resumed" => new.tool = FirstTool
    BY <2>5 DEF Blocked, Granted, FirstTool
  <2>9. wf.decision = "none" => \A r \in DOMAIN approvals' : approvals'[r].tool = FirstTool
    BY <2>1, <2>6, <2>8 DEF ExecutionInv, Granting
  <2>10. TypeOK' /\ Numbered' /\ Granting'
    BY <1>0, <2>2, <2>3, <2>7, <2>9, MovingOn
  <2>11. Asking'
    <3>1. Len(approvals) + 1 \in DOMAIN approvals'
      BY <2>1, <2>6
    <3>2. Governed # {}
      BY <2>4
    <3> QED
      BY <2>1, <2>2, <2>3, <2>6, <2>7, <2>8, <3>1, <3>2, AskingOn
  <2>12. GovernedToolsWereApproved'
    BY <2>3, <2>7, KeepingApproved DEF ExecutionInv, GovernedToolsWereApproved
  <2> QED
    BY <2>10, <2>11, <2>12 DEF ExecutionInv
<1>3. ASSUME NEW s \in Statuses, NEW pc \in {"report", "engine", "commit"},
             status' = Written(a, s) \/ status' = status,
             Replace(a, [a EXCEPT !.pc = pc, !.seen = status']),
             UNCHANGED <<launch, attached, approvals, wf, signals, cancel, invoked>>,
             undone' \in BOOLEAN,
             Governed = {} => s # "awaiting_approval",
             a.activity = "first" /\ Governed # {} => pc = "report" /\ a.request # 0
      PROVE  ExecutionInv'
  <2>0. PICK b : b = [a EXCEPT !.pc = pc, !.seen = status']
    OBVIOUS
  <2>1. status' \in Statuses
    BY <1>0, <1>3 DEF Written
  <2>2. /\ b \in Attempts /\ b.activity = a.activity /\ b.n = a.n /\ b.seen = status'
        /\ b.request = a.request /\ b.pc = pc
    BY <1>0, <2>0, <2>1 DEF Attempts
  <2>3. Replace(a, b)
    BY <1>3, <2>0
  <2>4. Grows
    BY <1>3 DEF ExecutionInv, TypeOK, Grows
  <2>5. TypeOK' /\ Numbered' /\ Granting'
    BY <1>0, <1>3, <2>1, <2>2, <2>3, <2>4, MovingOn DEF ExecutionInv, Granting
  <2>6. Governed = {} => status' # "awaiting_approval"
    BY <1>3 DEF ExecutionInv, Asking, Written
  <2>7. Asking'
    <3>1. a.activity = "first" /\ a.request # 0 =>
                a.request \in DOMAIN approvals /\ approvals[a.request].tool = FirstTool
      BY DEF ExecutionInv, Asking
    <3> QED
      BY <1>3, <2>2, <2>3, <2>4, <2>6, <3>1, AskingOn
  <2>8. GovernedToolsWereApproved'
    BY <1>3 DEF ExecutionInv, GovernedToolsWereApproved, ApprovedFor
  <2> QED
    BY <2>5, <2>7, <2>8 DEF ExecutionInv
<1>4. CASE MarkAwaiting(a)
  <2>1. a.pc = "asked" /\ a.request # 0 /\ Governed # {}
    BY <1>4 DEF MarkAwaiting, ExecutionInv, Asking
  <2> QED
    BY <1>0, <1>3, <1>4, <2>1 DEF MarkAwaiting, CancellationUndone, Statuses
<1>5. CASE MarkRunning(a)
  <2>1. ~(a.activity = "first" /\ Governed # {})
    BY <1>5 DEF MarkRunning, ExecutionInv, Asking
  <2> QED
    BY <1>0, <1>3, <1>5, <2>1 DEF MarkRunning, CancellationUndone, Statuses
<1>6. CASE RefreshRow(a)
  <2>1. ~(a.activity = "first" /\ Governed # {})
    BY <1>6 DEF RefreshRow, ExecutionInv, Asking
  <2>2. PICK pc \in {"report", "commit"} : Replace(a, [a EXCEPT !.pc = pc, !.seen = status'])
    BY <1>6 DEF RefreshRow
  <2> QED
    BY <1>0, <1>3, <1>6, <2>1, <2>2 DEF RefreshRow, ExecutionInv, Asking
<1>7. CASE CommitOutcome(a)
  <2>1. ~(a.activity = "first" /\ Governed # {})
    BY <1>7 DEF CommitOutcome, ExecutionInv, Asking
  <2>2. PICK s \in {"completed", "failed"} : status' = Written(a, s)
    BY <1>7 DEF CommitOutcome
  <2> QED
    BY <1>0, <1>3, <1>7, <2>1, <2>2 DEF CommitOutcome, CancellationUndone, Statuses
<1> QED
  BY <1>1, <1>2, <1>4, <1>5, <1>6, <1>7 DEF AttemptStep

\* Steps that start no attempt and name no request.
LEMMA StandingBy ==
    ASSUME ExecutionInv, attempts' \subseteq attempts, Grows,
           wf' \in Workflows, wf'.request = wf.request,
           wf'.pc \in {"waiting", "resumed"} => wf.pc \in {"waiting", "resumed"},
           UNCHANGED <<launch, attached, invoked>>,
           status' \in {status, "cancelled"},
           signals' \subseteq {"approved", "rejected"}, cancel' \in Cancels,
           undone' \in BOOLEAN
    PROVE  TypeOK' /\ Asking' /\ GovernedToolsWereApproved'
<1>1. TypeOK'
  <2>1. attempts' \subseteq Attempts
        /\ \A a, b \in attempts' : a.activity = b.activity /\ a.n = b.n => a = b
    BY DEF ExecutionInv, TypeOK
  <2>2. wf'.pc \in {"waiting", "resumed"} => wf'.request \in DOMAIN approvals'
    BY DEF ExecutionInv, TypeOK, Grows
  <2>3. launch' \in {"none", "created", "started", "ended"} /\ attached' \in BOOLEAN
    BY DEF ExecutionInv, TypeOK
  <2>4. status' \in Statuses /\ invoked' \subseteq Tools
    BY DEF ExecutionInv, TypeOK, Statuses
  <2> QED
    BY <2>1, <2>2, <2>3, <2>4 DEF TypeOK, Grows
<1>2. Asking'
  <2>1. \A c \in attempts : Blocked(c)' = Blocked(c)
    BY BlockedIsStable
  <2> QED
    BY <2>1 DEF ExecutionInv, Asking, Grows
<1>3. GovernedToolsWereApproved'
  BY KeepingApproved DEF ExecutionInv, GovernedToolsWereApproved
<1> QED
  BY <1>1, <1>2, <1>3

LEMMA ReportKeepsInv ==
    ASSUME ExecutionInv, NEW a \in attempts, Report(a) \/ AttemptLost(a)
    PROVE  ExecutionInv'
<1>1. /\ attempts' = attempts \ {a}
      /\ UNCHANGED <<launch, status, attached, approvals, signals, cancel, invoked, undone>>
  BY DEF Report, AttemptLost
<1>2. Grows /\ (ApprovedFor(FirstTool) => ApprovedFor(FirstTool)')
  BY <1>1 DEF ExecutionInv, TypeOK, Grows, ApprovedFor
<1>3. /\ wf \in Workflows /\ signals \subseteq {"approved", "rejected"} /\ cancel \in Cancels
      /\ undone \in BOOLEAN
  BY DEF ExecutionInv, TypeOK
<1>4. wf.pc # "none" /\ launch \notin {"none", "created"}
  BY DEF ExecutionInv, Numbered
<1>5. CASE wf' = wf \/ wf' = [wf EXCEPT !.pc = "closed"]
  <2>1. /\ wf' \in Workflows /\ wf'.request = wf.request /\ wf'.decision = wf.decision
        /\ wf'.attempt = wf.attempt
        /\ wf'.pc = wf.pc \/ wf'.pc = "closed"
    BY <1>3, <1>5 DEF Workflows
  <2>2. TypeOK' /\ Asking' /\ GovernedToolsWereApproved'
    BY <1>1, <1>2, <1>3, <2>1, StandingBy
  <2>3. Numbered'
    <3>1. \A c \in attempts : c.activity # "closed"
      BY DEF ExecutionInv, TypeOK, Attempts, Activities
    <3> QED
      BY <1>1, <1>4, <2>1, <3>1 DEF ExecutionInv, Numbered
  <2>4. Granting'
    BY <1>1, <1>2, <2>1 DEF ExecutionInv, Granting
  <2> QED
    BY <2>2, <2>3, <2>4 DEF ExecutionInv
<1>6. CASE /\ Report(a) /\ Current(a) /\ AsksForApproval(a)
           /\ wf' = [wf EXCEPT !.pc = "waiting", !.request = ReportedRequest(a)]
  <2>1. wf.pc = "first" /\ a.activity = "first" /\ a.seen = "awaiting_approval" /\ a.pc = "report"
    BY <1>6 DEF Report, Current, AsksForApproval
  <2>2. a.request # 0 /\ a.request \in DOMAIN approvals /\ approvals[a.request].tool = FirstTool
    BY <2>1 DEF ExecutionInv, Asking
  <2>3. a.request \in Nat
    BY DEF ExecutionInv, TypeOK, Attempts
  <2>4. /\ wf' \in Workflows /\ wf'.pc = "waiting" /\ wf'.decision = wf.decision
        /\ wf'.request = a.request
    BY <1>3, <1>6, <2>3 DEF Workflows, ReportedRequest
  <2>5. \A c \in attempts : c.activity = "first"
    BY <2>1 DEF ExecutionInv, Numbered
  <2>6. TypeOK'
    BY <1>1, <2>2, <2>4 DEF ExecutionInv, TypeOK
  <2>7. Numbered'
    BY <1>1, <1>4, <2>4, <2>5 DEF Numbered
  <2>8. Asking'
    BY <1>1, <2>5 DEF ExecutionInv, Asking, Blocked, Granted
  <2>9. Granting'
    BY <1>1, <1>2, <2>2, <2>4, <2>5 DEF ExecutionInv, Granting
  <2>10. GovernedToolsWereApproved'
    BY <1>1 DEF ExecutionInv, GovernedToolsWereApproved, ApprovedFor
  <2> QED
    BY <2>6, <2>7, <2>8, <2>9, <2>10 DEF ExecutionInv
<1> QED
  BY <1>5, <1>6 DEF Report, AttemptLost

LEMMA RaiseKeepsInv ==
    ASSUME ExecutionInv, NEW a \in attempts, ToolsRaise(a)
    PROVE  ExecutionInv'
<1>1. /\ attempts' = attempts \ {a}
      /\ UNCHANGED <<launch, status, attached, approvals, wf, signals, cancel, undone>>
  BY DEF ToolsRaise
<1>2. PICK ran : ran \subseteq Tools \ Blocked(a) /\ invoked' = invoked \cup ran
  BY DEF ToolsRaise
<1>3. TypeOK'
  BY <1>1, <1>2 DEF ExecutionInv, TypeOK
<1>4. Numbered' /\ Granting'
  BY <1>1 DEF ExecutionInv, Numbered, Granting, ApprovedFor
<1>5. Asking'
  BY <1>1 DEF ExecutionInv, Asking, Blocked, Granted
<1>6. GovernedToolsWereApproved'
  BY <1>1, <1>2, UnblockedIsApproved DEF ExecutionInv, GovernedToolsWereApproved, ApprovedFor
<1> QED
  BY <1>3, <1>4, <1>5, <1>6 DEF ExecutionInv

LEMMA DecisionKeepsInv ==
    ASSUME ExecutionInv, DecisionStep
    PROVE  ExecutionInv'
<1>1. /\ approvals \in Seq(Requests) /\ wf \in Workflows /\ undone \in BOOLEAN
      /\ signals \subseteq {"approved", "rejected"} /\ cancel \in Cancels
  BY DEF ExecutionInv, TypeOK
<1>2. UNCHANGED <<launch, status, attached, attempts, cancel, invoked, undone>>
  BY DEF DecisionStep, DecideLate, Decide, Signal, SignalLost
<1>3. ASSUME NEW r \in DOMAIN approvals, NEW s \in Decisions, approvals[r].status = "pending",
             approvals' = [approvals EXCEPT ![r].status = s], wf' = wf,
             signals' \in {signals, signals \cup {s}}, s = "expired" => signals' = signals
      PROVE  ExecutionInv'
  <2>1. Grows /\ DOMAIN approvals' = DOMAIN approvals /\ approvals'[r].status = s
    BY <1>3, DecidingGrows DEF ExecutionInv
  <2>2. ApprovedFor(FirstTool) => ApprovedFor(FirstTool)'
    BY <2>1, KeepingApproved
  <2>3. signals' \subseteq {"approved", "rejected"}
    BY <1>1, <1>3 DEF Decisions
  <2>4. TypeOK' /\ Asking' /\ GovernedToolsWereApproved'
    BY <1>1, <1>2, <1>3, <2>1, <2>3, StandingBy
  <2>5. Numbered'
    BY <1>2, <1>3 DEF ExecutionInv, Numbered
  <2>6. s = "approved" /\ wf.decision = "none" => ApprovedFor(FirstTool)'
    BY <2>1 DEF ExecutionInv, Granting, Grows, ApprovedFor
  <2>7. Granting'
    BY <1>2, <1>3, <2>1, <2>2, <2>6 DEF ExecutionInv, Granting, Grows
  <2> QED
    BY <2>4, <2>5, <2>7 DEF ExecutionInv
<1>4. ASSUME NEW d \in signals, Signal(d) \/ SignalLost(d)
      PROVE  ExecutionInv'
  <2>1. approvals' = approvals /\ signals' = signals \ {d} /\ d \in {"approved", "rejected"}
    BY <1>1, <1>4 DEF Signal, SignalLost
  <2>2. /\ wf' \in Workflows /\ wf'.pc = wf.pc /\ wf'.request = wf.request
        /\ wf'.attempt = wf.attempt
        /\ wf'.decision = wf.decision \/ (wf.decision = "none" /\ wf'.decision = d)
    <3>1. CASE wf' = wf
      <4>1. wf' \in Workflows
        BY <1>1, <3>1
      <4> QED
        BY <3>1, <4>1
    <3>2. CASE wf.decision = "none" /\ wf' = [wf EXCEPT !.decision = d]
      BY <1>1, <2>1, <3>2 DEF Workflows, Decisions
    <3> QED
      BY <1>4, <3>1, <3>2 DEF Signal, SignalLost
  <2>3. Grows /\ (ApprovedFor(FirstTool) => ApprovedFor(FirstTool)')
    BY <1>1, <2>1 DEF Grows, ApprovedFor
  <2>4. TypeOK' /\ Asking' /\ GovernedToolsWereApproved'
    BY <1>1, <1>2, <2>1, <2>2, <2>3, StandingBy
  <2>5. Numbered'
    BY <1>2, <2>2 DEF ExecutionInv, Numbered
  <2>6. Granting'
    BY <1>2, <1>4, <2>1, <2>2, <2>3 DEF ExecutionInv, Granting
  <2> QED
    BY <2>4, <2>5, <2>6 DEF ExecutionInv
<1> QED
  <2>1. ASSUME NEW r \in DOMAIN approvals, DecideLate(r)
        PROVE  ExecutionInv'
    BY <1>3, <2>1 DEF DecideLate, Decisions
  <2>2. ASSUME NEW r \in DOMAIN approvals, NEW d \in {"approved", "rejected"}, Decide(r, d)
        PROVE  ExecutionInv'
    BY <1>3, <2>2 DEF Decide, Decisions
  <2> QED
    BY <1>4, <2>1, <2>2 DEF DecisionStep

LEMMA WaitKeepsInv ==
    ASSUME ExecutionInv, WaitTimesOut \/ WaitEnds
    PROVE  ExecutionInv'
<1>1. /\ approvals \in Seq(Requests) /\ wf \in Workflows /\ MaxAttempts \in Nat
      /\ signals \subseteq {"approved", "rejected"} /\ cancel \in Cancels /\ undone \in BOOLEAN
  BY ExecutionConstants DEF ExecutionInv, TypeOK
<1>2. /\ UNCHANGED <<launch, status, attached, approvals, attempts, signals, cancel, invoked,
                     undone>>
      /\ wf.pc = "waiting"
  BY DEF WaitTimesOut, WaitEnds
<1>3. Grows /\ (ApprovedFor(FirstTool) => ApprovedFor(FirstTool)')
  BY <1>1, <1>2 DEF Grows, ApprovedFor
<1>4. /\ wf.request # 0
      /\ \A a \in attempts : a.activity = "first"
      /\ launch \notin {"none", "created"}
  BY <1>2 DEF ExecutionInv, Numbered, Granting
<1>5. /\ wf' \in Workflows /\ wf'.request = wf.request
      /\ \/ wf'.pc = "waiting" /\ wf'.decision = "expired" /\ wf.decision = "none"
         \/ wf'.pc = "resumed" /\ wf'.decision = "approved" /\ wf.decision = "approved"
         \/ wf'.pc = "finalize" /\ wf'.decision = wf.decision
  <2>1. CASE WaitTimesOut
    BY <1>1, <2>1 DEF WaitTimesOut, Workflows, Decisions
  <2>2. CASE WaitEnds
    <3> DEFINE pc == IF Resumes(wf.decision) THEN "resumed" ELSE "finalize"
    <3>1. 0 \in 0..MaxAttempts
      BY <1>1
    <3>2. wf' = [wf EXCEPT !.pc = pc, !.attempt = 0]
      BY <2>2 DEF WaitEnds
    <3>3. (pc = "resumed" /\ wf.decision = "approved") \/ pc = "finalize"
      BY DEF Resumes
    <3> HIDE DEF pc
    <3> QED
      BY <1>1, <3>1, <3>2, <3>3 DEF Workflows
  <2> QED
    BY <2>1, <2>2
<1>6. TypeOK' /\ Asking' /\ GovernedToolsWereApproved'
  BY <1>1, <1>2, <1>3, <1>5, StandingBy
<1>7. Numbered'
  BY <1>2, <1>4, <1>5 DEF Numbered
<1>8. Granting'
  BY <1>2, <1>3, <1>4, <1>5 DEF ExecutionInv, Granting
<1> QED
  BY <1>6, <1>7, <1>8 DEF ExecutionInv

LEMMA CancelKeepsInv ==
    ASSUME ExecutionInv, CancelStep
    PROVE  ExecutionInv'
<1>1. /\ approvals \in Seq(Requests) /\ wf \in Workflows
      /\ signals \subseteq {"approved", "rejected"} /\ cancel \in Cancels
      /\ status \in Statuses /\ attached \in BOOLEAN /\ undone \in BOOLEAN
  BY DEF ExecutionInv, TypeOK
<1>2. /\ UNCHANGED <<launch, attached, attempts, signals, invoked>>
      /\ status' \in {status, "cancelled"} /\ undone' \in BOOLEAN
  BY <1>1 DEF CancelStep, RequestCancel, CloseRequests, Terminate, CommitCancel, CancelLost
<1>3. /\ wf' \in Workflows /\ wf'.request = wf.request /\ wf'.decision = wf.decision
      /\ wf'.attempt = wf.attempt
      /\ wf' = wf \/ (wf.pc # "none" /\ wf'.pc = "closed")
  <2>1. wf' = wf \/ (wf.pc # "none" /\ wf' = [wf EXCEPT !.pc = "closed"])
    <3>1. CASE Terminate
      BY <3>1 DEF Terminate, Open
    <3>2. CASE RequestCancel \/ CloseRequests \/ CommitCancel \/ CancelLost
      BY <3>2 DEF RequestCancel, CloseRequests, CommitCancel, CancelLost
    <3> QED
      BY <3>1, <3>2 DEF CancelStep
  <2>2. [wf EXCEPT !.pc = "closed"] \in Workflows
    BY <1>1 DEF Workflows
  <2> QED
    BY <1>1, <2>1, <2>2 DEF Workflows
<1>4. cancel' \in Cancels
  <2>1. CASE RequestCancel
    <3>1. cancel.calls + 1 \in 0..MaxCancels
      BY <1>1, <2>1, ExecutionConstants DEF RequestCancel, Cancels
    <3> QED
      BY <1>1, <2>1, <3>1 DEF RequestCancel, Cancels
  <2>2. CASE CloseRequests \/ Terminate \/ CommitCancel \/ CancelLost
    BY <1>1, <2>2 DEF CloseRequests, Terminate, CommitCancel, CancelLost, Cancels
  <2> QED
    BY <2>1, <2>2 DEF CancelStep
<1>5. /\ Grows /\ DOMAIN approvals' = DOMAIN approvals
  <2>1. CASE CloseRequests
    <3> DEFINE closed(r) == IF cancel.seen = "awaiting_approval" /\ approvals[r].status = "pending"
                            THEN [approvals[r] EXCEPT !.status = "cancelled"] ELSE approvals[r]
    <3>1. DOMAIN approvals = 1..Len(approvals) /\ Len(approvals) \in Nat
      BY <1>1
    <3>2. approvals' = [r \in 1..Len(approvals) |-> closed(r)]
      BY <2>1, <3>1 DEF CloseRequests
    <3>3. \A r \in 1..Len(approvals) :
             /\ closed(r) \in Requests /\ closed(r).tool = approvals[r].tool
             /\ approvals[r].status = "approved" => closed(r).status = "approved"
      <4> SUFFICES ASSUME NEW r \in 1..Len(approvals)
                   PROVE  /\ closed(r) \in Requests /\ closed(r).tool = approvals[r].tool
                          /\ approvals[r].status = "approved" => closed(r).status = "approved"
        OBVIOUS
      <4>1. approvals[r] \in Requests
        BY <1>1
      <4>2. [approvals[r] EXCEPT !.status = "cancelled"] \in Requests
        BY <4>1 DEF Requests
      <4> QED
        BY <4>1, <4>2 DEF Requests
    <3> HIDE DEF closed
    <3>4. approvals' \in Seq(Requests) /\ DOMAIN approvals' = 1..Len(approvals)
      BY <3>1, <3>2, <3>3
    <3> QED
      BY <3>1, <3>2, <3>3, <3>4 DEF Grows
  <2>2. CASE approvals' = approvals
    BY <1>1, <2>2 DEF Grows
  <2> QED
    BY <2>1, <2>2 DEF CancelStep, RequestCancel, Terminate, CommitCancel, CancelLost
<1>6. ApprovedFor(FirstTool) => ApprovedFor(FirstTool)'
  BY <1>5, KeepingApproved
<1>7. TypeOK' /\ Asking' /\ GovernedToolsWereApproved'
  BY <1>1, <1>2, <1>3, <1>4, <1>5, StandingBy
<1>8. Numbered'
  <2>1. \A a \in attempts : a.activity # "closed"
    BY DEF ExecutionInv, TypeOK, Attempts, Activities
  <2> QED
    BY <1>2, <1>3, <2>1 DEF ExecutionInv, Numbered
<1>9. Granting'
  BY <1>2, <1>3, <1>5, <1>6 DEF ExecutionInv, Granting, Grows
<1> QED
  BY <1>7, <1>8, <1>9 DEF ExecutionInv

-----------------------------------------------------------------------------
(* A cancellation is final *)

\* Nobody cancels what was not launched.
Launched == launch = "none" => status = "none" /\ cancel.pc = "none"

LEMMA LaunchedIsKept ==
    ASSUME ExecutionInv, Launched, [Next]_vars
    PROVE  Launched'
<1>1. CASE LaunchStep \/ CancelStep
  <2>1. CASE LaunchStep
    BY <2>1 DEF Launched, LaunchStep, Queue, StartWorkflow, AttachWorkflow, LaunchLost
  <2>2. CASE CancelStep
    <3>1. launch # "none" /\ launch' = launch
      BY <2>2 DEF Launched, CancelStep, RequestCancel, CloseRequests, Terminate,
         CommitCancel, CancelLost, Cancellable
    <3> QED
      BY <3>1 DEF Launched
  <2> QED
    BY <1>1, <2>1, <2>2
<1>2. CASE StartAttempt \/ WaitTimesOut \/ WaitEnds \/ DecisionStep \/ UNCHANGED vars
  BY <1>2 DEF Launched, StartAttempt, WaitTimesOut, WaitEnds, DecisionStep, DecideLate,
     Decide, Signal, SignalLost, vars
<1>3. ASSUME NEW a \in attempts, AttemptStep(a) \/ ToolsRaise(a) \/ AttemptLost(a)
      PROVE  Launched'
  <2>1. launch # "none"
    BY DEF ExecutionInv, Numbered
  <2>2. launch' = launch /\ cancel' = cancel
    BY <1>3 DEF AttemptStep, InvokeTools, RequestApproval, MarkAwaiting, MarkRunning,
       RefreshRow, CommitOutcome, Report, ToolsRaise, AttemptLost
  <2> QED
    BY <2>1, <2>2 DEF Launched
<1> QED
  BY <1>1, <1>2, <1>3 DEF Next

\* Attempts: those in the engine see the cancellation, those that report are done.
LEMMA AttemptKeepsCancelled ==
    ASSUME ExecutionInv, status = "cancelled", NobodyOverwrites, NEW a \in attempts,
           AttemptStep(a) \/ ToolsRaise(a) \/ AttemptLost(a)
    PROVE  status' = "cancelled" /\ NobodyOverwrites'
<1>1. a \in Attempts /\ a.pc \in {"engine", "report"}
  BY DEF NobodyOverwrites, ExecutionInv, TypeOK
<1>2. CASE Report(a) \/ ToolsRaise(a) \/ AttemptLost(a)
  BY <1>2 DEF Report, ToolsRaise, AttemptLost, NobodyOverwrites
<1>3. CASE RefreshRow(a)
  <2>1. PICK b : b = [a EXCEPT !.pc = "report", !.seen = status]
    OBVIOUS
  <2>2. b.pc = "report"
    BY <1>1, <2>1 DEF Attempts
  <2>3. attempts' = (attempts \ {a}) \cup {b} /\ status' = status
    BY <1>3, <2>1 DEF RefreshRow, Replace
  <2> QED
    BY <2>2, <2>3 DEF NobodyOverwrites
<1> QED
  BY <1>1, <1>2, <1>3 DEF AttemptStep, InvokeTools, RequestApproval, MarkAwaiting,
     MarkRunning, CommitOutcome

LEMMA StartAttemptKeepsCancelled ==
    ASSUME status = "cancelled", NobodyOverwrites, StartAttempt
    PROVE  status' = "cancelled" /\ NobodyOverwrites'
<1>1. PICK stop \in {"engine", "report"} :
         attempts' = attempts \cup
            {[activity |-> wf.pc, n |-> wf.attempt + 1, pc |-> stop, seen |-> status,
              request |-> 0]}
  BY DEF StartAttempt, IsCancelled
<1>2. status' = status
  BY DEF StartAttempt
<1> QED
  BY <1>1, <1>2 DEF NobodyOverwrites

LEMMA NextKeepsCancelled ==
    ASSUME ExecutionInv, Launched, [Next]_vars, status = "cancelled", NobodyOverwrites
    PROVE  status' = "cancelled" /\ NobodyOverwrites'
<1>1. CASE LaunchStep
  <2>1. launch # "none"
    BY DEF Launched
  <2> QED
    BY <1>1, <2>1 DEF LaunchStep, Queue, StartWorkflow, AttachWorkflow, LaunchLost,
       NobodyOverwrites
<1>2. CASE CancelStep
  BY <1>2 DEF CancelStep, RequestCancel, CloseRequests, Terminate, CommitCancel, CancelLost,
     NobodyOverwrites
<1>3. CASE WaitTimesOut \/ WaitEnds \/ DecisionStep \/ UNCHANGED vars
  BY <1>3 DEF WaitTimesOut, WaitEnds, DecisionStep, DecideLate, Decide, Signal, SignalLost,
     vars, NobodyOverwrites
<1> QED
  BY <1>1, <1>2, <1>3, StartAttemptKeepsCancelled, AttemptKeepsCancelled DEF Next

-----------------------------------------------------------------------------
(* An execution that awaits approval *)

\* A cancellation closed the workflow, and what has become of it.
Recalled == \/ cancel.pc = "terminated" /\ cancel.named
            \/ status = "cancelled"
            \/ undone

\* Where attempts do not overlap each other and one tool at most is governed, the only
\* attempt is the current one or was left over by a cancellation; it knows the row's
\* status unless that was cancelled, and only an attempt of the first activity
\* leaves the row awaiting approval.
Attended ==
    /\ \A a, b \in attempts : a = b
    /\ \A a \in attempts :
          /\ a.seen = status \/ status = "cancelled"
          /\ Current(a) \/ (wf.pc = "closed" /\ Recalled)
          /\ a.activity # "first" => /\ a.pc \notin {"blocked", "asked"}
                                     /\ a.pc = "report" => a.seen # "awaiting_approval"
          /\ a.activity = "finalize" => a.pc \in {"engine", "commit", "report"}
    /\ status = "awaiting_approval" => Open \/ Recalled

OneAtATime == "late_attempt" \notin Faults

OneGovernedTool == \A s, t \in Governed : s = t

LEMMA ResumedIsNotBlocked ==
    ASSUME ExecutionInv, OneGovernedTool, NEW a \in attempts, a.activity = "resumed"
    PROVE  Blocked(a) = {}
<1>1. Granted(a) = {FirstTool}
  BY DEF Granted, ExecutionInv, Granting
<1>2. Governed # {} => FirstTool \in Governed
  BY FirstOf DEF FirstTool
<1> QED
  BY <1>1, <1>2 DEF Blocked, OneGovernedTool

\* An attempt only writes over a cancellation that closed the workflow by undoing it.
LEMMA RecalledIsKept ==
    ASSUME Recalled, cancel' = cancel, wf.pc = "closed", CancellationUndone \/ UNCHANGED <<status, undone>>
    PROVE  Recalled'
BY DEF Recalled, CancellationUndone

\* The only attempt moves on as b.
LEMMA AttendedOn ==
    ASSUME ExecutionInv, Attended, NEW a \in attempts, NEW b, Replace(a, b),
           wf' = wf, cancel' = cancel,
           CancellationUndone \/ UNCHANGED <<status, undone>>,
           b.activity = a.activity, b.n = a.n,
           b.seen = status' \/ (b.seen = a.seen /\ status' = status),
           b.activity # "first" => /\ b.pc \notin {"blocked", "asked"}
                                   /\ b.pc = "report" => b.seen # "awaiting_approval",
           b.activity = "finalize" => b.pc \in {"engine", "commit", "report"}
    PROVE  Attended'
<1>1. attempts' = {b} /\ (b.seen = status' \/ status' = "cancelled")
  BY DEF Replace, Attended
<1>2. CASE wf.pc = "closed" /\ Recalled
  <2>1. Recalled' /\ ~Current(b)'
    BY <1>2, RecalledIsKept DEF Current, Running, Activities
  <2> QED
    BY <1>1, <1>2, <2>1 DEF Attended
<1>3. CASE Current(a)
  <2>1. Current(b)' /\ Open'
    BY <1>3 DEF Current, Running, Activities, Open
  <2> QED
    BY <1>1, <2>1 DEF Attended
<1> QED
  BY <1>2, <1>3 DEF Attended

LEMMA AttemptKeepsAttended ==
    ASSUME ExecutionInv, Attended, OneGovernedTool, NEW a \in attempts, AttemptStep(a),
           ~Report(a)
    PROVE  Attended'
<1>1. /\ a \in Attempts
      /\ a.activity # "first" => a.pc \notin {"blocked", "asked"}
      /\ a.activity = "finalize" => a.pc \in {"engine", "commit", "report"}
      /\ a.activity \in {"first", "resumed", "finalize"}
  BY DEF Attended, ExecutionInv, TypeOK, Attempts, Activities
<1>2. wf' = wf /\ cancel' = cancel
  BY DEF AttemptStep, InvokeTools, RequestApproval, MarkAwaiting, MarkRunning, RefreshRow,
     CommitOutcome
<1>3. CASE InvokeTools(a)
  <2>1. PICK b : b = [a EXCEPT !.pc = IF Blocked(a) = {} THEN "clear" ELSE "blocked"]
    OBVIOUS
  <2>2. /\ b.activity = a.activity /\ b.n = a.n /\ b.seen = a.seen
        /\ b.pc = IF Blocked(a) = {} THEN "clear" ELSE "blocked"
    BY <1>1, <2>1 DEF Attempts
  <2>3. a.activity # "first" => a.activity = "resumed"
    BY <1>1, <1>3 DEF InvokeTools
  <2>4. Replace(a, b) /\ UNCHANGED <<status, undone>>
    BY <1>3, <2>1 DEF InvokeTools
  <2> QED
    BY <1>1, <1>2, <2>2, <2>3, <2>4, AttendedOn, ResumedIsNotBlocked
<1>4. CASE RequestApproval(a)
  <2>1. PICK b : b = [a EXCEPT !.pc = "asked", !.request = Len(approvals) + 1]
    OBVIOUS
  <2>2. b.activity = a.activity /\ b.n = a.n /\ b.seen = a.seen
    BY <1>1, <2>1 DEF Attempts
  <2>3. Replace(a, b) /\ UNCHANGED <<status, undone>> /\ a.activity = "first"
    BY <1>1, <1>4, <2>1 DEF RequestApproval
  <2> QED
    BY <1>1, <1>2, <2>2, <2>3, AttendedOn
<1>5. ASSUME NEW pc \in {"report", "engine", "commit"},
             Replace(a, [a EXCEPT !.pc = pc, !.seen = status']),
             CancellationUndone \/ UNCHANGED <<status, undone>>,
             a.activity # "first" /\ pc = "report" => status' # "awaiting_approval"
      PROVE  Attended'
  <2>1. PICK b : b = [a EXCEPT !.pc = pc, !.seen = status']
    OBVIOUS
  <2>2. b.activity = a.activity /\ b.n = a.n /\ b.seen = status' /\ b.pc = pc
    BY <1>1, <2>1 DEF Attempts
  <2>3. Replace(a, b)
    BY <1>5, <2>1
  <2> QED
    BY <1>2, <1>5, <2>2, <2>3, AttendedOn
<1>6. CASE MarkAwaiting(a)
  BY <1>1, <1>5, <1>6 DEF MarkAwaiting
<1>7. CASE MarkRunning(a)
  BY <1>5, <1>7 DEF MarkRunning
<1>8. CASE RefreshRow(a)
  <2>1. PICK pc \in {"report", "commit"} :
           /\ Replace(a, [a EXCEPT !.pc = pc, !.seen = status'])
           /\ pc = "report" => status' = "cancelled"
    BY <1>8 DEF RefreshRow
  <2> QED
    BY <1>5, <1>8, <2>1 DEF RefreshRow
<1>9. CASE CommitOutcome(a)
  <2>1. status' # "awaiting_approval"
    BY <1>9 DEF Attended, CommitOutcome, Written
  <2> QED
    BY <1>5, <1>9, <2>1 DEF CommitOutcome
<1> QED
  BY <1>3, <1>4, <1>6, <1>7, <1>8, <1>9 DEF AttemptStep

LEMMA AttemptEndsKeepsAttended ==
    ASSUME ExecutionInv, Attended, NEW a \in attempts,
           Report(a) \/ ToolsRaise(a) \/ AttemptLost(a)
    PROVE  Attended'
<1>1. attempts' = {} /\ UNCHANGED <<status, cancel, undone>>
  BY DEF Attended, Report, ToolsRaise, AttemptLost
<1>2. CASE wf.pc = "closed" /\ Recalled
  BY <1>1, <1>2 DEF Attended, Recalled
<1>3. CASE Current(a)
  <2>1. Open /\ wf \in Workflows
    BY <1>3 DEF Current, Running, Open, Activities, ExecutionInv, TypeOK
  <2>2. CASE ToolsRaise(a) \/ AttemptLost(a)
    BY <1>1, <2>1, <2>2 DEF ToolsRaise, AttemptLost, Attended, Open
  <2>3. CASE Report(a)
    <3> SUFFICES ASSUME status = "awaiting_approval" PROVE Open'
      BY <1>1 DEF Attended
    <3>1. AsksForApproval(a)
      BY <2>3 DEF Report, Attended, AsksForApproval, ExecutionInv, TypeOK, Attempts, Activities
    <3>2. wf' = [wf EXCEPT !.pc = "waiting", !.request = ReportedRequest(a)]
      BY <1>3, <2>3, <3>1 DEF Report
    <3> QED
      BY <2>1, <3>2 DEF Workflows, Open
  <2> QED
    BY <2>2, <2>3
<1> QED
  BY <1>2, <1>3 DEF Attended

LEMMA StartAttemptKeepsAttended ==
    ASSUME ExecutionInv, Attended, OneAtATime, StartAttempt
    PROVE  Attended'
<1>1. attempts = {}
  BY DEF StartAttempt, OneAtATime, NoAttemptIsCurrent, Attended, Running, Activities
<1>2. /\ wf' = [wf EXCEPT !.attempt = @ + 1] /\ wf \in Workflows /\ wf.pc \in Activities
      /\ status' = status
  BY DEF StartAttempt, Running, ExecutionInv, TypeOK
<1>3. wf'.pc = wf.pc /\ wf'.attempt = wf.attempt + 1
  BY <1>2 DEF Workflows
<1>4. PICK stop : stop = IF wf.pc = "finalize" THEN "engine"
                         ELSE IF status = "cancelled" THEN "report" ELSE "loaded"
  OBVIOUS
<1>5. PICK b : b = [activity |-> wf.pc, n |-> wf.attempt + 1, pc |-> stop,
                    seen |-> status, request |-> 0]
  OBVIOUS
<1>6. b.activity = wf.pc /\ b.n = wf.attempt + 1 /\ b.pc = stop /\ b.seen = status
  BY <1>5
<1>7. attempts' = {b}
  BY <1>1, <1>4, <1>5 DEF StartAttempt, IsCancelled
<1>8. Current(b)' /\ Open'
  BY <1>2, <1>3, <1>6 DEF Current, Running, Open, Activities
<1> QED
  BY <1>2, <1>4, <1>6, <1>7, <1>8 DEF Attended

LEMMA WaitKeepsAttended ==
    ASSUME ExecutionInv, Attended, WaitTimesOut \/ WaitEnds \/ DecisionStep
    PROVE  Attended'
<1>1. UNCHANGED <<status, attempts, cancel, undone>>
  BY DEF WaitTimesOut, WaitEnds, DecisionStep, DecideLate, Decide, Signal, SignalLost
<1>2. wf \in Workflows
  BY DEF ExecutionInv, TypeOK
<1>3. CASE DecisionStep
  <2>1. wf'.pc = wf.pc /\ wf'.attempt = wf.attempt
    <3>1. PICK d : wf' = wf \/ wf' = [wf EXCEPT !.decision = d]
      BY <1>3 DEF DecisionStep, DecideLate, Decide, Signal, SignalLost
    <3> QED
      BY <1>2, <3>1 DEF Workflows
  <2> QED
    BY <1>1, <2>1 DEF Attended, Current, Running, Open, Recalled
<1>4. CASE WaitTimesOut \/ WaitEnds
  <2>1. attempts = {}
    BY <1>4 DEF Attended, Current, Running, Activities, WaitTimesOut, WaitEnds
  <2>2. wf'.pc \in {"waiting", "resumed", "finalize"}
    BY <1>2, <1>4 DEF WaitTimesOut, WaitEnds, Workflows
  <2> QED
    BY <1>1, <2>1, <2>2 DEF Attended, Open
<1> QED
  BY <1>3, <1>4

LEMMA LaunchKeepsAttended ==
    ASSUME ExecutionInv, Attended, LaunchStep
    PROVE  Attended'
<1>1. UNCHANGED <<attempts, cancel, undone>>
  BY DEF LaunchStep, Queue, StartWorkflow, AttachWorkflow, LaunchLost
<1>2. launch \in {"none", "created"} => wf.pc = "none" /\ attempts = {}
  BY DEF ExecutionInv, Numbered
<1>3. CASE Queue
  BY <1>1, <1>2, <1>3 DEF Queue, Attended
<1>4. CASE StartWorkflow
  <2>1. wf'.pc = "first" /\ status' = status
    BY <1>4 DEF StartWorkflow, ExecutionInv, TypeOK, Workflows
  <2> QED
    BY <1>1, <1>2, <1>4, <2>1 DEF StartWorkflow, Attended, Open
<1>5. CASE AttachWorkflow \/ LaunchLost
  BY <1>1, <1>5 DEF AttachWorkflow, LaunchLost, Attended, Current, Running, Open, Recalled
<1> QED
  BY <1>3, <1>4, <1>5 DEF LaunchStep

\* A cancellation that has closed the workflow is recalled until it has committed, or
\* was undone; then the row says cancelled.
LEMMA CancelKeepsRecalled ==
    ASSUME ExecutionInv, Recalled, CancelStep
    PROVE  Recalled'
<1>1. cancel \in Cancels
  BY DEF ExecutionInv, TypeOK
<1>2. CASE RequestCancel \/ CloseRequests \/ Terminate
  BY <1>2 DEF RequestCancel, CloseRequests, Terminate, Recalled
<1>3. CASE CommitCancel \/ CancelLost
  BY <1>3 DEF CommitCancel, CancelLost, Recalled
<1> QED
  BY <1>2, <1>3 DEF CancelStep

LEMMA CancelKeepsAttended ==
    ASSUME ExecutionInv, Attended, CancelStep
    PROVE  Attended'
<1>1. attempts' = attempts /\ status' \in {status, "cancelled"}
  BY DEF CancelStep, RequestCancel, CloseRequests, Terminate, CommitCancel, CancelLost
<1>2. cancel \in Cancels /\ wf \in Workflows
  BY DEF ExecutionInv, TypeOK
<1>3. CASE wf' = wf
  BY <1>1, <1>3, CancelKeepsRecalled DEF Attended, Current, Running, Open
<1>4. CASE wf' # wf
  <2>1. /\ wf' = [wf EXCEPT !.pc = "closed"]
        /\ cancel' = [cancel EXCEPT !.pc = "terminated"] /\ cancel.named
    BY <1>4 DEF CancelStep, RequestCancel, CloseRequests, Terminate, CommitCancel, CancelLost
  <2>2. wf'.pc = "closed" /\ Recalled'
    BY <1>2, <2>1 DEF Workflows, Cancels, Recalled
  <2> QED
    BY <1>1, <2>2 DEF Attended, Current, Running, Activities
<1> QED
  BY <1>3, <1>4

LEMMA NextKeepsAttended ==
    ASSUME ExecutionInv, Attended, [Next]_vars, OneAtATime, OneGovernedTool
    PROVE  Attended'
<1>1. CASE UNCHANGED vars
  BY <1>1 DEF vars, Attended, Current, Running, Open, Recalled
<1>2. ASSUME NEW a \in attempts, AttemptStep(a) \/ ToolsRaise(a) \/ AttemptLost(a)
      PROVE  Attended'
  BY <1>2, AttemptKeepsAttended, AttemptEndsKeepsAttended
<1> QED
  BY <1>1, <1>2, StartAttemptKeepsAttended, WaitKeepsAttended, LaunchKeepsAttended,
     CancelKeepsAttended DEF Next

-----------------------------------------------------------------------------
(* The theorems *)

\* What is known of attempts, requests and the grant holds throughout, for any
\* tools, any bounds and any faults.
THEOREM ExecutionInvariant == Spec => []ExecutionInv
<1>1. Init => ExecutionInv
  <2> SUFFICES ASSUME Init PROVE ExecutionInv
    OBVIOUS
  <2>1. TypeOK
    <3>1. 0 \in 0..MaxAttempts /\ 0 \in 0..MaxCancels
      BY ExecutionConstants
    <3>2. wf \in Workflows /\ cancel \in Cancels /\ wf.pc = "none"
      BY <3>1 DEF Init, Workflows, Cancels, Statuses
    <3>3. approvals = <<>> /\ approvals \in Seq(Requests)
      BY DEF Init
    <3> QED
      BY <3>2, <3>3 DEF Init, TypeOK, Statuses
  <2> QED
    BY <2>1 DEF Init, ExecutionInv, Numbered, Asking, Granting, GovernedToolsWereApproved
<1>2. ExecutionInv /\ [Next]_vars => ExecutionInv'
  <2> SUFFICES ASSUME ExecutionInv, [Next]_vars PROVE ExecutionInv'
    OBVIOUS
  <2>1. CASE UNCHANGED vars
    BY <2>1 DEF vars, ExecutionInv, TypeOK, Numbered, Asking, Granting, Blocked, Granted,
       GovernedToolsWereApproved, ApprovedFor
  <2>2. ASSUME NEW a \in attempts, AttemptStep(a) \/ ToolsRaise(a) \/ AttemptLost(a)
        PROVE  ExecutionInv'
    BY <2>2, AttemptKeepsInv, RaiseKeepsInv, ReportKeepsInv
  <2> QED
    BY <2>1, <2>2, LaunchKeepsInv, StartAttemptKeepsInv, WaitKeepsInv, DecisionKeepsInv,
       CancelKeepsInv DEF Next
<1> QED
  BY <1>1, <1>2, PTL DEF Spec

\* Every field stays within its set, a workflow that waits or resumed has a request,
\* and no two attempts of an activity have the same number.
THEOREM TypeCorrect == Spec => []TypeOK
<1>1. ExecutionInv => TypeOK
  BY DEF ExecutionInv
<1> QED
  BY <1>1, ExecutionInvariant, PTL

\* No tool that requires approval is invoked, by any attempt of the first or the
\* resumed activity, unless a request for that tool was approved: for any tools and
\* whatever is lost, late or cancelled.
THEOREM GovernedToolsNeedApproval == Spec => []GovernedToolsWereApproved
<1>1. ExecutionInv => GovernedToolsWereApproved
  BY DEF ExecutionInv
<1> QED
  BY <1>1, ExecutionInvariant, PTL

\* Once an execution is cancelled and no attempt is left that read the row before and
\* has not reached the engine, it is cancelled for good: for any tools and bounds and
\* under every fault, attempts that Temporal timed out and that go on included.
THEOREM CancellationIsFinal == Spec => CancelledStaysCancelled
<1>1. Init => Launched
  BY DEF Init, Launched
<1>2. ExecutionInv /\ Launched /\ [Next]_vars => Launched'
  BY LaunchedIsKept
<1>3. ExecutionInv /\ Launched /\ [Next]_vars =>
        [(status = "cancelled" /\ NobodyOverwrites)
            => (status = "cancelled" /\ NobodyOverwrites)']_vars
  BY NextKeepsCancelled
<1> QED
  BY <1>1, <1>2, <1>3, ExecutionInvariant, PTL DEF Spec, CancelledStaysCancelled

\* An execution that awaits approval has an open workflow, or a cancellation is about
\* to record that it terminated it, unless a cancellation was undone: for any tools of
\* which at most one is governed, with any number of cancellations, whichever attempts
\* they overlap, under all faults but attempts that overlap each other.  With a second
\* governed tool the resumed activity asks again, and nobody waits.
THEOREM AwaitingIsAttended ==
    ASSUME OneAtATime, OneGovernedTool
    PROVE  Spec => []AwaitingHasSomeoneWaiting
<1>1. Init => Attended
  BY DEF Init, Attended
<1>2. ExecutionInv /\ Attended /\ [Next]_vars => Attended'
  BY NextKeepsAttended
<1>3. Attended => AwaitingHasSomeoneWaiting
  BY DEF Attended, Recalled, AwaitingHasSomeoneWaiting
<1> QED
  BY <1>1, <1>2, <1>3, ExecutionInvariant, PTL DEF Spec
=============================================================================
