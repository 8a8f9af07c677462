------------------------- MODULE AgentsConsoleProofs -------------------------
(***************************************************************************)
(* What the readiness rules of the console and of the platform have to do  *)
(* with each other, and that the console activates only Agents that the    *)
(* platform reports ready.                                                 *)
(***************************************************************************)
EXTENDS AgentsConsole, TLAPS

(***************************************************************************)
(* The two readiness rules                                                 *)
(***************************************************************************)

LEMMA SameModelIssues ==
    ASSUME NEW a, NEW c, NEW installed, SameView(a, c, installed)
    PROVE  ConsoleModelIssues(a, c) = PlatformModelIssues(a, c)
BY DEF SameView, ConsoleModelIssues, PlatformModelIssues, ConsoleUnconfigured, PlatformUnconfigured

LEMMA SameScopeIssues ==
    ASSUME NEW a, NEW c, NEW installed, SameView(a, c, installed)
    PROVE  ConsoleScopeIssues(a, c) = PlatformScopeIssues(a, c, installed)
BY DEF SameView, ConsoleScopeIssues, PlatformScopeIssues

LEMMA SameToolIssues ==
    ASSUME NEW a, NEW c, NEW installed, SameView(a, c, installed)
    PROVE  ConsoleToolIssues(a, c) = PlatformToolIssues(a, c)
<1>1. {r \in Known(a, c) : ~c.registrations[r].enabled}
        = {r \in a.registrations : r \in DOMAIN c.registrations => ~c.registrations[r].enabled}
  BY DEF SameView, Known
<1> QED
  BY <1>1 DEF ConsoleToolIssues, PlatformToolIssues

\* Where nothing is out of the console's sight, the two computations of readiness agree.
THEOREM ReadinessAgrees ==
    ASSUME NEW a, NEW c, NEW installed, SameView(a, c, installed)
    PROVE  ConsoleReady(a, c) <=> PlatformReady(a, c, installed)
<1>1. PlatformEngineIssues(a, installed) = {}
  BY DEF SameView, PlatformEngineIssues
<1> QED
  BY <1>1, SameModelIssues, SameScopeIssues, SameToolIssues
  DEF ConsoleReady, PlatformReady, ConsoleIssues, PlatformIssues

\* An Agent that the platform reports ready is never blocked by a console that reads the same
\* registries, whatever it does not look at.
THEOREM PlatformReadyIsConsoleReady ==
    ASSUME NEW a, NEW c, NEW installed, PlatformReady(a, c, installed)
    PROVE  ConsoleReady(a, c)
<1>1. /\ PlatformModelIssues(a, c) = {}
      /\ PlatformScopeIssues(a, c, installed) = {}
      /\ PlatformToolIssues(a, c) = {}
  BY DEF PlatformReady, PlatformIssues
<1>2. ConsoleModelIssues(a, c) = {}
  BY <1>1 DEF ConsoleModelIssues, PlatformModelIssues, ConsoleUnconfigured, PlatformUnconfigured
<1>3. ConsoleScopeIssues(a, c) = {}
  BY <1>1 DEF ConsoleScopeIssues, PlatformScopeIssues
<1>4. ConsoleToolIssues(a, c) = {}
  BY <1>1 DEF PlatformToolIssues, ConsoleToolIssues, Known
<1> QED
  BY <1>2, <1>3, <1>4 DEF ConsoleReady, ConsoleIssues

(***************************************************************************)
(* Readiness against copies that are not all read yet                      *)
(***************************************************************************)

RegistriesUnread(c) == c.endpoints = <<>> /\ c.profiles = <<>> /\ c.registrations = <<>>

SameRegistries(c, d) ==
    c.endpoints = d.endpoints /\ c.profiles = d.profiles /\ c.registrations = d.registrations

\* What is ready against c is ready against d, if d differs from c only in parts that are
\* unread in c: with unread registries there is no model.
LEMMA ReadinessGrows ==
    ASSUME NEW a, NEW c, NEW d,
           RegistriesUnread(c) \/ SameRegistries(c, d),
           c.knowledgeBases \in {<<>>, d.knowledgeBases},
           ConsoleReady(a, c)
    PROVE  ConsoleReady(a, d) /\ SameRegistries(c, d)
<1>1. ~RegistriesUnread(c)
  <2> SUFFICES ASSUME RegistriesUnread(c) PROVE FALSE
    OBVIOUS
  <2>1. c.endpoints = <<>> /\ DOMAIN c.endpoints = {}
    BY DEF RegistriesUnread
  <2>2. DefaultOf(c.endpoints) = None
    BY <2>1 DEF DefaultOf
  <2>3. \A id : ById(c.endpoints, id) = None
    BY <2>1 DEF ById
  <2>4. ModelOf(a, c) = None
    BY <2>2, <2>3 DEF ModelOf
  <2>5. ConsoleModelIssues(a, c) = {"model_missing"}
    BY <2>4 DEF ConsoleModelIssues
  <2> QED
    BY <2>5 DEF ConsoleReady, ConsoleIssues
<1>2. SameRegistries(c, d)
  BY <1>1
<1>3. ConsoleModelIssues(a, d) = ConsoleModelIssues(a, c)
  BY <1>2 DEF SameRegistries, ConsoleModelIssues, ModelOf
<1>4. ConsoleToolIssues(a, d) = ConsoleToolIssues(a, c)
  BY <1>2 DEF SameRegistries, ConsoleToolIssues, Known
<1>5. ConsoleScopeIssues(a, d) = {}
  <2>1. ConsoleScopeIssues(a, c) = {}
    BY DEF ConsoleReady, ConsoleIssues
  <2>2. CASE c.knowledgeBases = d.knowledgeBases
    BY <1>2, <2>1, <2>2 DEF SameRegistries, ConsoleScopeIssues, ProfileOf
  <2>3. CASE c.knowledgeBases = <<>>
    <3>1. DOMAIN c.knowledgeBases = {}
      BY <2>3
    <3>2. ~NeedsScope(a)
      BY <2>1, <3>1 DEF ConsoleScopeIssues
    <3> QED
      BY <3>2 DEF ConsoleScopeIssues
  <2> QED
    BY <2>2, <2>3
<1> QED
  BY <1>2, <1>3, <1>4, <1>5 DEF ConsoleReady, ConsoleIssues

(***************************************************************************)
(* Type correctness                                                        *)
(***************************************************************************)

LEMMA LoadTyped == \A f \in Filters : StartLoad(f) \in Load
BY DEF StartLoad, Load

LEMMA PollTyped == \A a \in Agents \cup {None} : \A asked \in BOOLEAN : StartPoll(a, asked) \in Poll
BY DEF StartPoll, Poll

\* The answers of the API.
LEMMA AnswersTyped ==
    ASSUME TypeOK
    PROVE  /\ \A f : DefinitionsFor(f) \in Listing
           /\ \A f : ItemsFor(f) \in [Agents -> Readiness]
           /\ \A a : RowsFor(a) \in Rows
<1>1. \A f : DefinitionsFor(f) \in Listing
  BY DEF TypeOK, DefinitionsFor, Listing
<1>2. \A f : ItemsFor(f) \in [Agents -> Readiness]
  BY DEF TypeOK, ItemsFor, Reported, Readiness
<1>3. \A a : RowsFor(a) \in Rows
  BY DEF TypeOK, RowsFor, Rows, Execution
<1> QED
  BY <1>1, <1>2, <1>3

LEMMA WithAnswerTyped ==
    ASSUME TypeOK, NEW call \in Load, NEW part \in Parts
    PROVE  WithAnswer(call, part) \in Load
BY AnswersTyped DEF WithAnswer, Load, Parts

LEMMA ShowTyped ==
    ASSUME TypeOK, NEW ags \in Listing, NEW its \in [Agents -> Readiness], NEW f \in Filters,
           NEW preferred, NEW marked, marked \subseteq Agents,
           Show(ags, its, f, preferred, marked)
    PROVE  /\ shown' \in Listing /\ items' \in [Agents -> Readiness] /\ filter' \in Filters
           /\ selected' \in Agents \cup {None} /\ checked' \subseteq Agents
           /\ panel' \in Poll \cup {None} /\ strayed' \in BOOLEAN
           /\ selected' # None => shown'[selected'] # None
BY PollTyped DEF TypeOK, Show, SelectAs, Scoped

LEMMA InitTyped == Init => TypeOK
<1> SUFFICES ASSUME Init PROVE TypeOK
  OBVIOUS
<1>1. agents \in Listing /\ registry \in Catalogs
  BY ConsoleConstants DEF Init, Listing
<1>2. executions \in [Executions -> Execution \cup {None}]
  BY DEF Init
<1>3. shown \in Listing /\ items \in [Agents -> Readiness] /\ listed \in Rows
  BY DEF Init, Nobody, NoItems, Listing, Readiness, Rows
<1>4. filter \in Filters /\ load \in Load \cup {None} /\ panel \in Poll \cup {None}
  BY LoadTyped, PollTyped DEF Init
<1>5. BagToSet(polls) \subseteq Poll
  BY DEF Init, BagToSet, EmptyBag, SetToBag
<1>6. commands \in 0 .. MaxCommands
  BY ConsoleConstants DEF Init
<1> QED
  BY <1>1, <1>2, <1>3, <1>4, <1>5, <1>6 DEF Init, TypeOK

\* What a page's poll leaves behind in the bag of polls.
LEMMA BagTyped ==
    ASSUME BagToSet(polls) \subseteq Poll, NEW call, NEW next \in Poll
    PROVE  /\ BagToSet(polls (+) SetToBag({next})) \subseteq Poll
           /\ BagToSet(polls (-) SetToBag({call})) \subseteq Poll
           /\ BagToSet((polls (-) SetToBag({call})) (+) SetToBag({next})) \subseteq Poll
           /\ BagToSet(SetToBag({next})) \subseteq Poll
<1>1. BagToSet(SetToBag({next})) \subseteq Poll
  BY DEF BagToSet, SetToBag
<1>2. BagToSet(polls (-) SetToBag({call})) \subseteq Poll
  BY DEF BagToSet, SetToBag, (-)
<1>3. BagToSet(polls (+) SetToBag({next})) \subseteq Poll
  BY DEF BagToSet, SetToBag, (+)
<1>4. BagToSet((polls (-) SetToBag({call})) (+) SetToBag({next})) \subseteq Poll
  <2> DEFINE rest == polls (-) SetToBag({call})
  <2>1. BagToSet(rest) \subseteq Poll
    BY <1>2
  <2> HIDE DEF rest
  <2>2. BagToSet(rest (+) SetToBag({next})) \subseteq Poll
    BY <2>1 DEF BagToSet, SetToBag, (+)
  <2> QED
    BY <2>2 DEF rest
<1> QED
  BY <1>1, <1>2, <1>3, <1>4

LEMMA StartChangeTyped ==
    ASSUME TypeOK, NEW kind \in {"create", "update", "delete", "bulk"},
           NEW targets \in SUBSET Agents, NEW sent \in Draft \cup {None},
           StartChange(kind, targets, sent)
    PROVE  change' \in Change
BY DEF TypeOK, StartChange, Change

LEMMA ApplyTyped ==
    ASSUME TypeOK, change # None, NEW as \in SUBSET Agents, Apply(as)
    PROVE  agents' \in Listing
BY ZenonT(30) DEF TypeOK, Apply, Listing, Change, Accepts

(***************************************************************************)
(* What type correctness rests on: the selected Agent is listed, and the   *)
(* executions of a list that was loaded exist                              *)
(***************************************************************************)

SelectedShown == selected # None => shown[selected] # None

RowsExist(rows) == \A e \in Executions : rows[e] # "none" => executions[e] # None

RowsKnown ==
    /\ RowsExist(listed)
    /\ panel # None => (panel.answer # None => RowsExist(panel.answer))
    /\ \A call \in BagToSet(polls) : call.answer # None => RowsExist(call.answer)

CancelledKnown ==
    asking # None => (asking.kind = "cancel" =>
        /\ asking.execution \in Executions
        /\ executions[asking.execution] # None)

TypeInv == TypeOK /\ SelectedShown /\ RowsKnown /\ CancelledKnown

LEMMA InitTypeInv == Init => TypeInv
BY InitTyped
DEF Init, TypeInv, SelectedShown, RowsKnown, RowsExist, CancelledKnown, StartPoll, EmptyBag,
    SetToBag, BagToSet

\* The executions of the API, and what the page knows of them, stay; a new selection starts a
\* load of its own.
RunsKept ==
    /\ UNCHANGED <<executions, listed, polls, asking>>
    /\ panel' = panel \/ \E a \in Agents \cup {None} : panel' = StartPoll(a, FALSE)

LEMMA RunsKeptKnown ==
    ASSUME TypeInv, RunsKept
    PROVE  RowsKnown' /\ CancelledKnown'
BY DEF TypeInv, RunsKept, RowsKnown, RowsExist, CancelledKnown, StartPoll, BagToSet

LEMMA ShowKeeps ==
    ASSUME TypeInv, NEW ags \in Listing, NEW its \in [Agents -> Readiness], NEW f \in Filters,
           NEW preferred, NEW marked, marked \subseteq Agents,
           Show(ags, its, f, preferred, marked), UNCHANGED <<executions, listed, polls, asking>>
    PROVE  SelectedShown' /\ RowsKnown' /\ CancelledKnown'
<1>1. SelectedShown'
  BY ShowTyped DEF TypeInv, SelectedShown
<1>2. RunsKept
  BY DEF RunsKept, Show, SelectAs, Scoped
<1> QED
  BY <1>1, <1>2, RunsKeptKnown

LEMMA ObeyTyped ==
    ASSUME TypeInv, asking # None, NEW e \in Executions, Obey(e)
    PROVE  /\ executions' \in [Executions -> Execution \cup {None}]
           /\ \A x \in Executions : executions[x] # None => executions'[x] # None
<1>1. CASE asking.kind = "start"
  <2>1. executions' = [executions EXCEPT ![e] = [of |-> asking.of, status |-> "active"]]
    BY <1>1 DEF Obey
  <2>2. [of |-> asking.of, status |-> "active"] \in Execution
    BY DEF TypeInv, TypeOK, RunStatus, Execution
  <2>3. executions[e] = None
    BY <1>1 DEF Obey
  <2> QED
    BY <2>1, <2>2, <2>3 DEF TypeInv, TypeOK
<1>2. CASE asking.kind = "cancel"
  <2>1. executions' = [executions EXCEPT ![e].status = "ended"] /\ e = asking.execution
    BY <1>2 DEF Obey
  <2>2. executions[e] \in Execution
    BY <1>2, <2>1 DEF TypeInv, TypeOK, CancelledKnown
  <2>3. [executions[e] EXCEPT !.status = "ended"] \in Execution
    BY <2>2 DEF RunStatus, Execution
  <2>4. [executions[e] EXCEPT !.status = "ended"] # None
    BY <2>3, ConsoleConstants
  <2> QED
    BY <2>1, <2>3, <2>4 DEF TypeInv, TypeOK
<1> QED
  BY <1>1, <1>2 DEF Obey

(***************************************************************************)
(* Every step keeps it                                                     *)
(***************************************************************************)

\* Loads and the list.
LEMMA ListStep ==
    ASSUME TypeInv, commands' \in 0 .. MaxCommands,
           \/ \E part \in starting : CatalogLoaded(part) \/ CatalogFails(part)
           \/ \E part \in Parts : ListAnswered(part) \/ RefreshAnswered(part)
           \/ ListLoaded \/ ListFails \/ ListRefreshed \/ RefreshFails
    PROVE  TypeInv'
<1> USE DEF runs, list, api
<1>1. ASSUME NEW part \in starting, CatalogLoaded(part) \/ CatalogFails(part)
      PROVE  TypeInv'
  <2>1. TypeOK'
    BY <1>1 DEF TypeInv, TypeOK, CatalogLoaded, CatalogFails
  <2>2. RunsKept /\ SelectedShown'
    BY <1>1 DEF TypeInv, SelectedShown, CatalogLoaded, CatalogFails, RunsKept
  <2> QED
    BY <2>1, <2>2, RunsKeptKnown DEF TypeInv
<1>2. ASSUME NEW part \in Parts, ListAnswered(part)
      PROVE  TypeInv'
  <2>1. load' \in Load
    BY <1>2, WithAnswerTyped DEF TypeInv, TypeOK, ListAnswered
  <2>2. TypeOK'
    BY <1>2, <2>1 DEF TypeInv, TypeOK, ListAnswered
  <2>3. RunsKept /\ SelectedShown'
    BY <1>2 DEF TypeInv, SelectedShown, ListAnswered, RunsKept
  <2> QED
    BY <2>2, <2>3, RunsKeptKnown DEF TypeInv
<1>3. ASSUME NEW part \in Parts, RefreshAnswered(part)
      PROVE  TypeInv'
  <2>1. change \in Change /\ change.refresh \in Load
    BY <1>3 DEF TypeInv, TypeOK, RefreshAnswered, Change
  <2>2. change' \in Change
    BY <1>3, <2>1, WithAnswerTyped DEF TypeInv, RefreshAnswered, Change
  <2>3. TypeOK'
    BY <1>3, <2>2 DEF TypeInv, TypeOK, RefreshAnswered
  <2>4. RunsKept /\ SelectedShown'
    BY <1>3 DEF TypeInv, SelectedShown, RefreshAnswered, RunsKept
  <2> QED
    BY <2>3, <2>4, RunsKeptKnown DEF TypeInv
<1>4. ASSUME ListLoaded
      PROVE  TypeInv'
  <2>1. load.agents \in Listing /\ load.items \in [Agents -> Readiness]
    BY <1>4 DEF TypeInv, TypeOK, ListLoaded, Load
  <2>2. filter \in Filters /\ checked \subseteq Agents /\ TypeOK
    BY DEF TypeInv, TypeOK
  <2>3. /\ Show(load.agents, load.items, filter, selected, checked)
        /\ UNCHANGED <<executions, listed, polls, asking>>
    BY <1>4 DEF ListLoaded
  <2>4. TypeOK'
    BY <1>4, <2>1, <2>2, <2>3, ShowTyped DEF TypeOK, ListLoaded
  <2> QED
    BY <2>1, <2>2, <2>3, <2>4, ShowKeeps DEF TypeInv
<1>5. ASSUME ListFails
      PROVE  TypeInv'
  <2>1. Nobody \in Listing /\ NoItems \in [Agents -> Readiness]
    BY DEF Nobody, NoItems, Listing, Readiness
  <2>2. filter \in Filters /\ checked \subseteq Agents /\ TypeOK
    BY DEF TypeInv, TypeOK
  <2>3. /\ Show(Nobody, NoItems, filter, None, checked)
        /\ UNCHANGED <<executions, listed, polls, asking>>
    BY <1>5 DEF ListFails
  <2>4. TypeOK'
    BY <1>5, <2>1, <2>2, <2>3, ShowTyped DEF TypeOK, ListFails
  <2> QED
    BY <2>1, <2>2, <2>3, <2>4, ShowKeeps DEF TypeInv
<1>6. ASSUME NEW ags \in Listing, NEW its \in [Agents -> Readiness], EndChange(ags, its),
             edited' \in {edited, {}}, crossed' \in BOOLEAN
      PROVE  TypeInv'
  <2>1. \E preferred : \E marked \in SUBSET Agents : Show(ags, its, filter, preferred, marked)
    BY <1>6 DEF EndChange, TypeInv, TypeOK
  <2>2. filter \in Filters /\ TypeOK
    BY DEF TypeInv, TypeOK
  <2>3. TypeOK'
    BY <1>6, <2>1, <2>2, ShowTyped DEF TypeOK, EndChange
  <2>4. UNCHANGED <<executions, listed, polls, asking>>
    BY <1>6 DEF EndChange
  <2> QED
    BY <2>1, <2>2, <2>3, <2>4, ShowKeeps DEF TypeInv
<1>7. ASSUME ListRefreshed
      PROVE  TypeInv'
  <2>1. change.refresh.agents \in Listing /\ change.refresh.items \in [Agents -> Readiness]
    BY <1>7 DEF TypeInv, TypeOK, ListRefreshed, Change, Load
  <2> QED
    BY <1>6, <1>7, <2>1 DEF ListRefreshed, TypeInv, TypeOK
<1>8. ASSUME RefreshFails
      PROVE  TypeInv'
  <2>1. shown \in Listing /\ NoItems \in [Agents -> Readiness]
    BY DEF TypeInv, TypeOK, NoItems, Readiness
  <2> QED
    BY <1>6, <1>8, <2>1 DEF RefreshFails
<1> QED
  BY <1>1, <1>2, <1>3, <1>4, <1>5, <1>7, <1>8

\* Commands on the list, and changes.
LEMMA ChangeStep ==
    ASSUME TypeInv, commands' \in 0 .. MaxCommands,
           \/ \E f \in Filters : ChangeFilter(f)
           \/ \E a \in Agents : SelectAgent(a)
           \/ \E as \in SUBSET Agents : Check(as)
           \/ \E c \in Contents : Edit(c)
           \/ CreateAgent \/ SaveAgent \/ DeleteAgent \/ BulkDeleteAgents
           \/ \E status \in Statuses : TransitionAgentStatus(status)
           \/ \E as \in SUBSET Agents : ChangeApplied(as) \/ ChangeFails(as)
           \/ \E c \in Catalogs : RegistryChanges(c)
    PROVE  TypeInv'
<1> USE DEF runs, list, api, page
<1>1. ASSUME NEW f \in Filters, ChangeFilter(f)
      PROVE  TypeInv'
  <2>1. /\ TypeOK /\ shown \in Listing /\ items \in [Agents -> Readiness]
        /\ checked \subseteq Agents /\ StartLoad(f) \in Load
    BY LoadTyped DEF TypeInv, TypeOK
  <2>2. /\ Show(shown, items, f, selected, checked)
        /\ UNCHANGED <<executions, listed, polls, asking>>
    BY <1>1 DEF ChangeFilter
  <2>3. TypeOK'
    BY <1>1, <2>1, <2>2, ShowTyped DEF TypeOK, ChangeFilter
  <2> QED
    BY <2>1, <2>2, <2>3, ShowKeeps DEF TypeInv
<1>2. ASSUME NEW a \in Agents, SelectAgent(a)
      PROVE  TypeInv'
  <2>1. TypeOK' /\ RunsKept
    BY <1>2, PollTyped, ZenonT(30) DEF TypeInv, TypeOK, SelectAgent, SelectAs, RunsKept
  <2>2. SelectedShown'
    BY <1>2 DEF SelectedShown, SelectAgent, SelectAs, Scoped
  <2> QED
    BY <2>1, <2>2, RunsKeptKnown DEF TypeInv
<1>3. ASSUME NEW as \in SUBSET Agents, Check(as)
      PROVE  TypeInv'
  <2>1. TypeOK'
    BY <1>3, ZenonT(30) DEF TypeInv, TypeOK, Check
  <2>2. RunsKept /\ SelectedShown'
    BY <1>3 DEF TypeInv, Check, RunsKept, SelectedShown
  <2> QED
    BY <2>1, <2>2, RunsKeptKnown DEF TypeInv
<1>4. ASSUME NEW c \in Contents, Edit(c)
      PROVE  TypeInv'
  <2>1. selected \in Agents /\ shown[selected] \in Draft /\ c \in Content
    BY <1>4, ConsoleConstants DEF TypeInv, TypeOK, SelectedShown, Edit, Listing
  <2>2. [shown[selected] EXCEPT !.content = c] \in Draft
    BY <2>1 DEF Draft
  <2>3. shown' \in Listing /\ SelectedShown'
    BY <1>4, <2>1, <2>2, ConsoleConstants DEF TypeInv, TypeOK, Edit, Listing, SelectedShown
  <2>4. TypeOK' /\ RunsKept
    BY <1>4, <2>1, <2>3 DEF TypeInv, TypeOK, Edit, RunsKept
  <2> QED
    BY <2>3, <2>4, RunsKeptKnown DEF TypeInv
<1>5. ASSUME NEW kind \in {"create", "update", "delete", "bulk"}, NEW targets \in SUBSET Agents,
             NEW sent \in Draft \cup {None}, StartChange(kind, targets, sent)
      PROVE  TypeInv'
  <2>1. change' \in Change
    BY <1>5, StartChangeTyped DEF TypeInv
  <2>2. TypeOK' /\ RunsKept /\ SelectedShown'
    BY <1>5, <2>1 DEF TypeInv, TypeOK, StartChange, RunsKept, SelectedShown
  <2> QED
    BY <2>2, RunsKeptKnown DEF TypeInv
<1>6. CASE CreateAgent
  <2>1. [status |-> "draft", content |-> NewContent] \in Draft
    BY ConsoleConstants DEF Draft, Statuses
  <2> QED
    BY <1>5, <1>6, <2>1 DEF CreateAgent
<1>7. selected # None => selected \in Agents /\ shown[selected] \in Draft
  BY DEF TypeInv, TypeOK, SelectedShown, Listing
<1>8. CASE SaveAgent
  BY <1>5, <1>7, <1>8 DEF SaveAgent
<1>9. CASE DeleteAgent
  BY <1>5, <1>7, <1>9 DEF DeleteAgent
<1>10. CASE BulkDeleteAgents
  BY <1>5, <1>10 DEF BulkDeleteAgents, TypeInv, TypeOK
<1>11. ASSUME NEW status \in Statuses, TransitionAgentStatus(status)
       PROVE  TypeInv'
  <2>1. [shown[selected] EXCEPT !.status = status] \in Draft
    BY <1>7, <1>11 DEF TransitionAgentStatus, Draft
  <2> QED
    BY <1>5, <1>7, <1>11, <2>1 DEF TransitionAgentStatus
<1>12. ASSUME NEW as \in SUBSET Agents, ChangeApplied(as)
       PROVE  TypeInv'
  <2>1. change \in Change /\ change # None
    BY <1>12 DEF TypeInv, TypeOK, ChangeApplied, Requested
  <2>2. change' \in Change
    BY <1>12, <2>1, LoadTyped DEF ChangeApplied, Change
  <2>3. agents' \in Listing
    BY <1>12, <2>1, ApplyTyped DEF ChangeApplied, TypeInv
  <2>4. TypeOK' /\ RunsKept /\ SelectedShown'
    BY <1>12, <2>2, <2>3 DEF TypeInv, TypeOK, ChangeApplied, RunsKept, SelectedShown
  <2> QED
    BY <2>4, RunsKeptKnown DEF TypeInv
<1>13. ASSUME NEW as \in SUBSET Agents, ChangeFails(as)
       PROVE  TypeInv'
  <2>1. change # None
    BY <1>13 DEF ChangeFails, Requested
  <2>2. agents' \in Listing
    BY <1>13, <2>1, ApplyTyped DEF ChangeFails, TypeInv, TypeOK
  <2>3. TypeOK' /\ RunsKept /\ SelectedShown'
    BY <1>13, <2>2 DEF TypeInv, TypeOK, ChangeFails, RunsKept, SelectedShown
  <2> QED
    BY <2>3, RunsKeptKnown DEF TypeInv
<1>14. ASSUME NEW c \in Catalogs, RegistryChanges(c)
       PROVE  TypeInv'
  <2>1. TypeOK' /\ RunsKept /\ SelectedShown'
    BY <1>14 DEF TypeInv, TypeOK, RegistryChanges, RunsKept, SelectedShown
  <2> QED
    BY <2>1, RunsKeptKnown DEF TypeInv
<1> QED
  BY <1>1, <1>2, <1>3, <1>4, <1>6, <1>8, <1>9, <1>10, <1>11, <1>12, <1>13, <1>14

\* Executions and their refreshes.
LEMMA RunsStep ==
    ASSUME TypeInv, commands' \in 0 .. MaxCommands,
           \/ Panel \/ PanelFailures \/ AskingFails
           \/ \E e \in Executions : Obeyed(e) \/ ExecutionStep(e)
           \/ RefreshExecutions \/ ExecuteAgent
           \/ \E e \in Executions : RerunExecution(e) \/ CancelExecution(e)
    PROVE  TypeInv'
<1> USE DEF runs, list, api, page
<1> DEFINE Framed == UNCHANGED <<agents, registry, page>>
<1>1. TypeOK /\ SelectedShown /\ RowsKnown /\ CancelledKnown
  BY DEF TypeInv
<1>2. ASSUME Framed, executions' \in [Executions -> Execution \cup {None}],
             \A e \in Executions : executions[e] # None => executions'[e] # None,
             listed' \in Rows, panel' \in Poll \cup {None}, BagToSet(polls)' \subseteq Poll,
             RowsKnown', CancelledKnown', strayed' \in BOOLEAN,
             asking' \in {None} \cup [kind: {"start", "cancel"}, of: Agents,
                                      execution: Executions \cup {None},
                                      from: Agents \cup {None}, refreshing: BOOLEAN]
      PROVE  TypeInv'
  BY <1>1, <1>2 DEF TypeInv, TypeOK, SelectedShown
<1> HIDE DEF Framed
<1>3. \A a : RowsFor(a) \in Rows /\ RowsExist(RowsFor(a))
  BY <1>1, AnswersTyped DEF RowsFor, RowsExist
<1>4. ASSUME PanelAnswered PROVE TypeInv'
  <2>1. panel' \in Poll /\ panel'.answer = RowsFor(panel.of)
    BY <1>1, <1>3, <1>4 DEF PanelAnswered, TypeOK, Poll
  <2>2. RowsKnown' /\ CancelledKnown'
    BY <1>1, <1>3, <1>4, <2>1 DEF PanelAnswered, RowsKnown, RowsExist, CancelledKnown, BagToSet
  <2> QED
    BY <1>1, <1>2, <1>4, <2>1, <2>2 DEF PanelAnswered, TypeOK, Framed
<1>5. ASSUME PanelLoaded PROVE TypeInv'
  <2>1. listed' \in Rows
    BY <1>1, <1>5 DEF PanelLoaded, TypeOK, Poll
  <2>2. RowsKnown' /\ CancelledKnown'
    BY <1>1, <1>5 DEF PanelLoaded, RowsKnown, RowsExist, CancelledKnown, BagToSet
  <2> QED
    BY <1>1, <1>2, <1>5, <2>1, <2>2 DEF PanelLoaded, TypeOK, Framed
<1>6. ASSUME PanelFails PROVE TypeInv'
  <2>1. RowsKnown' /\ CancelledKnown'
    BY <1>1, <1>6 DEF PanelFails, RowsKnown, RowsExist, CancelledKnown, BagToSet
  <2> QED
    BY <1>1, <1>2, <1>6, <2>1 DEF PanelFails, TypeOK, Framed
<1>7. ASSUME NEW call \in Poll, call.answer # None => RowsExist(call.answer),
             NEW out,
             polls' \in {polls (+) SetToBag({call}), SetToBag({call}),
                         (polls (-) SetToBag({out})) (+) SetToBag({call})},
             UNCHANGED executions
      PROVE  /\ BagToSet(polls)' \subseteq Poll
             /\ \A x \in BagToSet(polls)' : x.answer # None => RowsExist(x.answer)'
  <2>1. BagToSet(polls)' \subseteq Poll
    BY <1>1, <1>7, BagTyped DEF TypeOK, BagToSet
  <2>2. BagToSet(polls)' \subseteq BagToSet(polls) \cup {call}
    BY <1>7, ZenonT(30) DEF BagToSet, SetToBag, (+), (-)
  <2> QED
    BY <1>1, <1>7, <2>1, <2>2 DEF RowsKnown, RowsExist
<1>8. \A a \in Agents \cup {None} : \A asked \in BOOLEAN :
        StartPoll(a, asked) \in Poll /\ StartPoll(a, asked).answer = None
  BY PollTyped DEF StartPoll
<1>9. ASSUME PollTick PROVE TypeInv'
  <2>1. /\ BagToSet(polls)' \subseteq Poll
        /\ \A x \in BagToSet(polls)' : x.answer # None => RowsExist(x.answer)'
    BY <1>1, <1>7, <1>8, <1>9 DEF PollTick, TypeOK
  <2>2. RowsKnown' /\ CancelledKnown'
    BY <1>1, <1>9, <2>1 DEF PollTick, RowsKnown, RowsExist, CancelledKnown, BagToSet
  <2> QED
    BY <1>1, <1>2, <1>9, <2>1, <2>2 DEF PollTick, TypeOK, Framed
<1>10. ASSUME RefreshExecutions PROVE TypeInv'
  <2>1. /\ BagToSet(polls)' \subseteq Poll
        /\ \A x \in BagToSet(polls)' : x.answer # None => RowsExist(x.answer)'
    BY <1>1, <1>7, <1>8, <1>10 DEF RefreshExecutions, TypeOK
  <2>2. RowsKnown' /\ CancelledKnown'
    BY <1>1, <1>10, <2>1 DEF RefreshExecutions, RowsKnown, RowsExist, CancelledKnown, BagToSet
  <2> QED
    BY <1>1, <1>2, <1>10, <2>1, <2>2 DEF RefreshExecutions, TypeOK, Framed
<1>11. ASSUME NEW call \in BagToSet(polls), PollAnswered(call) PROVE TypeInv'
  <2> DEFINE next == [call EXCEPT !.answer = RowsFor(call.of)]
  <2>1. next \in Poll /\ next.answer = RowsFor(call.of)
    BY <1>1, <1>3, <1>11 DEF TypeOK, Poll
  <2>2. polls' = (polls (-) SetToBag({call})) (+) SetToBag({next}) /\ UNCHANGED executions
    BY <1>11 DEF PollAnswered
  <2> HIDE DEF next
  <2>3. next.answer # None => RowsExist(next.answer)
    BY <1>3, <2>1
  <2>4. BagToSet(polls)' \subseteq Poll
    BY <1>1, <2>1, <2>2, BagTyped DEF TypeOK, BagToSet
  <2>5. BagToSet(polls)' \subseteq BagToSet(polls) \cup {next}
    BY <2>2 DEF BagToSet, SetToBag, (+), (-)
  <2>6. RowsKnown' /\ CancelledKnown'
    BY <1>1, <1>11, <2>2, <2>3, <2>5 DEF PollAnswered, RowsKnown, RowsExist, CancelledKnown
  <2> QED
    BY <1>1, <1>2, <1>11, <2>4, <2>6 DEF PollAnswered, TypeOK, Framed
<1>12. ASSUME NEW call \in BagToSet(polls), PollShown(call) \/ PollFails(call) PROVE TypeInv'
  <2>1. BagToSet(polls)' \subseteq BagToSet(polls)
    BY <1>12 DEF PollShown, PollFails, BagToSet, SetToBag, (-)
  <2>2. BagToSet(polls)' \subseteq Poll
    BY <1>1, <2>1 DEF TypeOK
  <2>3. /\ listed' \in Rows /\ asking' \in {None, asking}
        /\ UNCHANGED <<executions, panel, strayed>>
    BY <1>1, <1>12 DEF PollShown, PollFails, TypeOK, Poll
  <2>4. RowsKnown' /\ CancelledKnown'
    BY <1>1, <1>12, <2>1, <2>3
    DEF PollShown, PollFails, RowsKnown, RowsExist, CancelledKnown
  <2>5. Framed
    BY <1>12 DEF PollShown, PollFails, Framed
  <2> QED
    BY <1>1, <1>2, <2>2, <2>3, <2>4, <2>5 DEF TypeOK
<1>13. ASSUME NEW kind \in {"start", "cancel"}, NEW of \in Agents, NEW e \in Executions \cup {None},
              kind = "cancel" => e \in Executions /\ executions[e] # None, Ask(kind, of, e)
       PROVE  TypeInv'
  <2>1. RowsKnown' /\ CancelledKnown'
    BY <1>1, <1>13 DEF Ask, RowsKnown, RowsExist, CancelledKnown, BagToSet
  <2> QED
    BY <1>1, <1>2, <1>13, <2>1 DEF Ask, TypeOK, Framed
<1>14. CASE ExecuteAgent
  BY <1>1, <1>13, <1>14 DEF ExecuteAgent, TypeOK
<1>15. ASSUME NEW e \in Executions, RerunExecution(e) \/ CancelExecution(e) PROVE TypeInv'
  <2>1. executions[e] # None
    BY <1>1, <1>15 DEF RerunExecution, CancelExecution, RowsKnown, RowsExist
  <2>2. executions[e].of \in Agents
    BY <1>1, <2>1 DEF TypeOK, Execution
  <2> QED
    BY <1>13, <1>15, <2>1, <2>2 DEF RerunExecution, CancelExecution
<1>16. ASSUME NEW e \in Executions, Obeyed(e) PROVE TypeInv'
  <2>1. /\ executions' \in [Executions -> Execution \cup {None}]
        /\ \A x \in Executions : executions[x] # None => executions'[x] # None
    BY <1>16, ObeyTyped DEF Obeyed
  <2>2. asking.from \in Agents \cup {None}
    BY <1>1, <1>16 DEF Obeyed, TypeOK
  <2>3. BagToSet(polls)' \subseteq Poll
    BY <1>1, <1>8, <1>16, <2>2, BagTyped DEF Obeyed, TypeOK, BagToSet
  <2>4. BagToSet(polls)' \subseteq BagToSet(polls) \cup {StartPoll(asking.from, TRUE)}
    <3>1. polls' = polls (+) SetToBag({StartPoll(asking.from, TRUE)})
      BY <1>16 DEF Obeyed
    <3> QED
      BY <3>1 DEF BagToSet, SetToBag, (+)
  <2>5. RowsKnown'
    BY <1>1, <1>8, <1>16, <2>1, <2>2, <2>4, ZenonT(30) DEF Obeyed, TypeOK, RowsKnown, RowsExist
  <2>6. CancelledKnown'
    BY <1>1, <1>8, <1>16, <2>1 DEF Obeyed, TypeOK, CancelledKnown
  <2> QED
    BY <1>1, <1>2, <1>16, <2>1, <2>3, <2>5, <2>6 DEF Obeyed, TypeOK, Framed
<1>17. ASSUME AskingFails PROVE TypeInv'
  <2>1. /\ executions' \in [Executions -> Execution \cup {None}]
        /\ \A x \in Executions : executions[x] # None => executions'[x] # None
    BY <1>1, <1>17, ObeyTyped DEF AskingFails, TypeOK
  <2>2. RowsKnown' /\ CancelledKnown'
    BY <1>1, <1>17, <2>1 DEF AskingFails, RowsKnown, RowsExist, CancelledKnown, BagToSet
  <2> QED
    BY <1>1, <1>2, <1>17, <2>1, <2>2 DEF AskingFails, TypeOK, Framed
<1>18. ASSUME NEW e \in Executions, ExecutionStep(e) PROVE TypeInv'
  <2>1. PICK status \in RunStatus : executions' = [executions EXCEPT ![e].status = status]
    BY <1>18 DEF ExecutionStep
  <2>2. executions[e] \in Execution
    BY <1>1, <1>18 DEF ExecutionStep, TypeOK
  <2>3. [executions[e] EXCEPT !.status = status] \in Execution
    BY <2>2 DEF Execution
  <2>4. [executions[e] EXCEPT !.status = status] # None
    BY <2>3, ConsoleConstants
  <2>5. /\ executions' \in [Executions -> Execution \cup {None}]
        /\ \A x \in Executions : executions[x] # None => executions'[x] # None
    BY <1>1, <2>1, <2>3, <2>4 DEF TypeOK
  <2>6. RowsKnown' /\ CancelledKnown'
    BY <1>1, <1>18, <2>5 DEF ExecutionStep, RowsKnown, RowsExist, CancelledKnown, BagToSet
  <2> QED
    BY <1>1, <1>2, <1>18, <2>5, <2>6 DEF ExecutionStep, TypeOK, Framed
<1> QED
  BY <1>4, <1>5, <1>6, <1>9, <1>10, <1>11, <1>12, <1>14, <1>15, <1>16, <1>17, <1>18
  DEF Panel, PanelFailures

LEMMA StutterTypeInv == TypeInv /\ UNCHANGED vars => TypeInv'
BY DEF TypeInv, TypeOK, SelectedShown, RowsKnown, RowsExist, CancelledKnown, BagToSet, vars

LEMMA NextTypeInv == TypeInv /\ [Next]_vars => TypeInv'
<1> SUFFICES ASSUME TypeInv, Next PROVE TypeInv'
  BY StutterTypeInv
<1>1. commands' \in 0 .. MaxCommands
  BY ConsoleConstants DEF TypeInv, TypeOK, Next
<1> QED
  BY <1>1, ListStep, ChangeStep, RunsStep DEF Next, Rest, Commands

\* Every variable keeps its type.
THEOREM ConsoleTypeCorrect == Spec => []TypeOK
<1>1. TypeInv => TypeOK
  BY DEF TypeInv
<1> QED
  BY <1>1, InitTypeInv, NextTypeInv, PTL DEF Spec

(***************************************************************************)
(* Only ready Agents are sent                                              *)
(***************************************************************************)

CatalogShape ==
    catalog = [endpoints |-> catalog.endpoints, profiles |-> catalog.profiles,
               registrations |-> catalog.registrations,
               knowledgeBases |-> catalog.knowledgeBases]

\* A part of the catalog whose load is in flight is unread.
UnreadParts ==
    /\ "registries" \in starting => RegistriesUnread(catalog)
    /\ "directory" \in starting => catalog.knowledgeBases = <<>>

\* What is sent as active stays ready while the rest of the catalog is read.
SentReady ==
    change # None => (change.sent # None =>
        (change.sent.status = "active" => ConsoleReady(change.sent.content, catalog)))

SendInv == CatalogShape /\ UnreadParts /\ SentReady

LEMMA InitSendInv == Init => SendInv
BY DEF Init, SendInv, CatalogShape, UnreadParts, SentReady, RegistriesUnread, Unread

LEMMA CatalogKept ==
    ASSUME SendInv, UNCHANGED <<catalog, starting>>,
           change' # None /\ change'.sent # None /\ change'.sent.status = "active"
               => ConsoleReady(change'.sent.content, catalog)
    PROVE  SendInv'
<1>1. CatalogShape' /\ UnreadParts'
  BY DEF SendInv, CatalogShape, UnreadParts, RegistriesUnread
<1>2. SentReady'
  <2> SUFFICES ASSUME change' # None, change'.sent # None, change'.sent.status = "active"
               PROVE  ConsoleReady(change'.sent.content, catalog')
    BY DEF SentReady
  <2> QED
    OBVIOUS
<1> QED
  BY <1>1, <1>2 DEF SendInv

LEMMA CatalogLoadedStep ==
    ASSUME SendInv, NEW part \in starting, CatalogLoaded(part) \/ CatalogFails(part),
           part \in {"registries", "directory"}
    PROVE  SendInv'
<1>1. CASE CatalogFails(part)
  BY <1>1, CatalogKept DEF CatalogFails, SendInv, CatalogShape, UnreadParts, SentReady, RegistriesUnread
<1>2. CASE CatalogLoaded(part)
  <2>1. /\ CatalogShape'
        /\ RegistriesUnread(catalog) \/ SameRegistries(catalog, catalog')
        /\ catalog.knowledgeBases \in {<<>>, catalog'.knowledgeBases}
    BY <1>2 DEF CatalogLoaded, SendInv, CatalogShape, UnreadParts, RegistriesUnread, SameRegistries
  <2>2. UnreadParts'
    BY <1>2 DEF CatalogLoaded, SendInv, CatalogShape, UnreadParts, RegistriesUnread
  <2>3. UNCHANGED change
    BY <1>2 DEF CatalogLoaded
  <2>4. SentReady'
    <3> SUFFICES ASSUME change # None, change.sent # None, change.sent.status = "active"
                 PROVE  ConsoleReady(change.sent.content, catalog')
      BY <2>3 DEF SentReady
    <3>1. ConsoleReady(change.sent.content, catalog)
      BY DEF SendInv, SentReady
    <3> QED
      BY <2>1, <3>1, ReadinessGrows
  <2> QED
    BY <2>1, <2>2, <2>4 DEF SendInv
<1> QED
  BY <1>1, <1>2

LEMMA SendStep ==
    ASSUME TypeInv, SendInv, Next
    PROVE  SendInv'
<1> USE DEF runs, list, api, page
<1>1. starting \subseteq {"registries", "directory"}
  BY DEF TypeInv, TypeOK
<1>2. ASSUME NEW part \in starting, CatalogLoaded(part) \/ CatalogFails(part)
      PROVE  SendInv'
  BY <1>1, <1>2, CatalogLoadedStep
<1>3. ASSUME UNCHANGED <<catalog, starting>>, change' \in {change, None} PROVE SendInv'
  BY <1>3, CatalogKept DEF SendInv, SentReady
<1>4. ASSUME UNCHANGED <<catalog, starting>>, change # None, change' # None,
             change'.sent = change.sent
      PROVE  SendInv'
  BY <1>4, CatalogKept DEF SendInv, SentReady
<1>5. ASSUME NEW part \in Parts, RefreshAnswered(part) PROVE SendInv'
  <2>1. change \in Change /\ change' = [change EXCEPT !.refresh = WithAnswer(change.refresh, part)]
    BY <1>5 DEF RefreshAnswered, TypeInv, TypeOK
  <2>2. change'.sent = change.sent
    BY <2>1 DEF Change
  <2> QED
    BY <1>3, <1>4, <1>5, <2>2 DEF RefreshAnswered
<1>6. ASSUME NEW as \in SUBSET Agents, ChangeApplied(as) PROVE SendInv'
  <2>1. change \in Change /\ change # None
    BY <1>6 DEF ChangeApplied, Requested, TypeInv, TypeOK
  <2>2. change'.sent = change.sent
    BY <1>6, <2>1 DEF ChangeApplied, Change
  <2> QED
    BY <1>3, <1>4, <1>6, <2>1, <2>2 DEF ChangeApplied
<1>7. ASSUME NEW kind, NEW targets, NEW sent, StartChange(kind, targets, sent),
             sent # None /\ sent.status = "active" => ConsoleReady(sent.content, catalog)
      PROVE  SendInv'
  <2>1. change'.sent = sent
    BY <1>7 DEF StartChange
  <2> QED
    BY <1>7, <2>1, CatalogKept DEF StartChange
<1>8. CASE CreateAgent
  BY <1>7, <1>8 DEF CreateAgent
<1>9. CASE SaveAgent
  BY <1>7, <1>9 DEF SaveAgent, MayBeSent
<1>10. ASSUME NEW status \in Statuses, TransitionAgentStatus(status) PROVE SendInv'
  BY <1>7, <1>10 DEF TransitionAgentStatus, MayBeSent
<1>11. CASE DeleteAgent
  BY <1>7, <1>11 DEF DeleteAgent
<1>12. CASE BulkDeleteAgents
  BY <1>7, <1>12 DEF BulkDeleteAgents
<1>13. CASE \/ Panel \/ PanelFailures \/ AskingFails
            \/ \E e \in Executions : Obeyed(e) \/ ExecutionStep(e)
            \/ RefreshExecutions \/ ExecuteAgent
            \/ \E e \in Executions : RerunExecution(e) \/ CancelExecution(e)
            \/ \E c \in Catalogs : RegistryChanges(c)
  BY <1>3, <1>13
  DEF Panel, PanelFailures, PanelAnswered, PanelLoaded, PanelFails, PollTick, PollAnswered,
      PollShown, PollFails, AskingFails, Obeyed, ExecutionStep, RefreshExecutions, ExecuteAgent,
      RerunExecution, CancelExecution, Ask, RegistryChanges
<1>14. CASE \/ \E part \in Parts : ListAnswered(part)
            \/ ListLoaded \/ ListFails \/ ListRefreshed \/ RefreshFails
            \/ \E as \in SUBSET Agents : ChangeFails(as)
  BY <1>3, <1>14
  DEF ListAnswered, ListLoaded, ListFails, ListRefreshed, RefreshFails, EndChange, ChangeFails
<1>15. CASE \/ \E f \in Filters : ChangeFilter(f)
            \/ \E a \in Agents : SelectAgent(a)
            \/ \E as \in SUBSET Agents : Check(as)
            \/ \E c \in Contents : Edit(c)
  BY <1>3, <1>15 DEF ChangeFilter, SelectAgent, Check, Edit
<1> QED
  BY <1>2, <1>5, <1>6, <1>8, <1>9, <1>10, <1>11, <1>12, <1>13, <1>14, <1>15
  DEF Next, Rest, Commands

LEMMA NextSendInv == TypeInv /\ SendInv /\ [Next]_vars => SendInv'
<1>1. SendInv /\ UNCHANGED vars => SendInv'
  BY CatalogKept DEF SendInv, SentReady, vars
<1> QED
  BY <1>1, SendStep

\* The definition that an update makes of an Agent is the one that was assessed.
LEMMA AppliedReady ==
    ASSUME TypeInv, SendInv, change # None, NEW as \in SUBSET Agents, Apply(as), NEW a \in Agents,
           agents'[a] # agents[a], agents'[a] # None, agents'[a].status = "active",
           CatalogCurrent, ~Overlooked(agents'[a].content)
    PROVE  PlatformReady(agents'[a].content, registry, Installed)
<1> DEFINE now == agents'[a]
<1>1. change \in Change /\ agents \in Listing
  BY DEF TypeInv, TypeOK
<1>2. now = change.sent /\ Accepts(change.sent)
  BY <1>1 DEF Apply, Listing
<1>3. change.sent \in Draft
  BY <1>1, <1>2 DEF Change
<1>4. ConsoleReady(now.content, catalog)
  BY <1>2 DEF SendInv, SentReady
<1>5. RegistriesUnread(catalog) \/ SameRegistries(catalog, registry)
  BY DEF CatalogCurrent, RegistriesUnread, SameRegistries
<1>6. ConsoleReady(now.content, registry)
  BY <1>4, <1>5, ReadinessGrows DEF CatalogCurrent
<1>7. SameView(now.content, registry, Installed)
  <2>1. now.content.engine \in Installed \cup {"native"}
    BY <1>2, <1>3 DEF Accepts, Draft, Content
  <2> QED
    BY <1>2, <2>1 DEF SameView, Overlooked, Accepts
<1> QED
  BY <1>6, <1>7, ReadinessAgrees

\* No Agent becomes active, or is changed while active, without being ready for the platform,
\* if the page's copies of the registries are current: see ActivatedAgentsAreReady.
THEOREM ActivationIsReady == Spec => ActivatedAgentsAreReady
<1> DEFINE Ready(a) ==
       (agents'[a] # agents[a] /\ agents'[a] # None /\ CatalogCurrent
          /\ ~Overlooked(agents'[a].content))
       => (agents'[a].status = "active" => PlatformReady(agents'[a].content, registry, Installed))
<1>1. ASSUME TypeInv, SendInv, Next, NEW a \in Agents PROVE Ready(a)
  <2>1. CASE \E as \in SUBSET Agents : ChangeApplied(as) \/ ChangeFails(as)
    BY <1>1, <2>1, AppliedReady DEF ChangeApplied, ChangeFails, Requested
  <2>2. CASE UNCHANGED agents
    BY <2>2
  <2>3. \/ UNCHANGED agents
        \/ \E as \in SUBSET Agents : ChangeApplied(as) \/ ChangeFails(as)
    BY <1>1
    DEF Next, Rest, Commands, runs, list, api, page, Panel, PanelFailures, PanelAnswered,
        PanelLoaded, PanelFails, PollTick, PollAnswered, PollShown, PollFails, AskingFails, Obeyed,
        ExecutionStep, RefreshExecutions, ExecuteAgent, RerunExecution, CancelExecution, Ask,
        RegistryChanges, CatalogLoaded, CatalogFails, ListAnswered, RefreshAnswered, ListLoaded,
        ListFails, ListRefreshed, RefreshFails, EndChange, ChangeFilter, SelectAgent, Check, Edit,
        CreateAgent, SaveAgent, DeleteAgent, BulkDeleteAgents, TransitionAgentStatus, StartChange
  <2> QED
    BY <2>1, <2>2, <2>3
<1>2. TypeInv /\ SendInv /\ [Next]_vars
        => [\A a \in Agents : Ready(a)]_vars
  BY <1>1
<1> HIDE DEF Ready
<1>3. Spec => [][\A a \in Agents : Ready(a)]_vars
  BY <1>2, InitTypeInv, InitSendInv, NextTypeInv, NextSendInv, PTL DEF Spec
<1> QED
  BY <1>3 DEF ActivatedAgentsAreReady, Ready

(***************************************************************************)
(* The list                                                                *)
(***************************************************************************)

\* An answer about the definitions is up to date.
Fresh(call) == call.filter = filter /\ call.agents \in {None, DefinitionsFor(filter)}

ListIsServer ==
    \A a \in Agents :
      /\ shown[a] # None <=> Matches(filter, a)
      /\ shown[a] # None /\ a \notin edited => shown[a] = agents[a]

\* As long as loads and changes do not overlap, whatever is in flight is up to date: the
\* definitions change only at the request of a change, after which the list waits for the
\* change's refresh.
ListInv ==
    ~crossed =>
      /\ load = None \/ change = None
      /\ load # None => Fresh(load)
      /\ change # None => change.filter = filter /\ (change.refresh # None => Fresh(change.refresh))
      /\ load = None /\ (change = None \/ change.refresh = None) => ListIsServer

LEMMA InitListInv == Init => ListInv
BY LoadTyped, ConsoleConstants DEF Init, ListInv, Fresh, StartLoad

LEMMA ServerListed ==
    ASSUME shown' = DefinitionsFor(filter), edited' = {}, filter' = filter, agents' = agents
    PROVE  ListIsServer'
BY DEF ListIsServer, DefinitionsFor, Matches

LEMMA ListKept ==
    ASSUME ListInv, UNCHANGED <<agents, filter, shown, edited, load, crossed>>,
           \/ change' = change
           \/ change' = None /\ (change = None \/ change.refresh = None)
    PROVE  ListInv'
BY DEF ListInv, Fresh, ListIsServer, DefinitionsFor, Matches

LEMMA ListInvStep ==
    ASSUME TypeInv, ListInv, Next
    PROVE  ListInv'
<1> USE DEF runs, list, api, page
<1>1. load \in Load \cup {None} /\ change \in Change \cup {None} /\ crossed \in BOOLEAN
  BY DEF TypeInv, TypeOK
<1>2. ASSUME NEW call \in Load, NEW part \in Parts, Fresh(call)
      PROVE  WithAnswer(call, part).filter = filter
             /\ WithAnswer(call, part).agents \in {None, DefinitionsFor(filter)}
  BY <1>2 DEF Fresh, WithAnswer, Load, Parts
<1>3. ASSUME NEW part \in Parts, ListAnswered(part) PROVE ListInv'
  <2>1. ~crossed => load'.filter = filter /\ load'.agents \in {None, DefinitionsFor(filter)}
    BY <1>1, <1>2, <1>3 DEF ListAnswered, ListInv
  <2>2. ~crossed => Fresh(load)'
    BY <1>3, <2>1 DEF ListAnswered, Fresh, DefinitionsFor, Matches
  <2>3. ~crossed => change = None /\ change' = None /\ load # None
    BY <1>3 DEF ListAnswered, ListInv
  <2>4. load' # None /\ crossed' = crossed
    BY <1>1, <1>3, WithAnswerTyped, ConsoleConstants DEF ListAnswered, TypeInv
  <2> QED
    BY <2>2, <2>3, <2>4 DEF ListInv
<1>4. ASSUME NEW part \in Parts, RefreshAnswered(part) PROVE ListInv'
  <2>1. change \in Change /\ change.refresh \in Load
    BY <1>1, <1>4 DEF RefreshAnswered, Change
  <2>2. /\ change'.filter = change.filter
        /\ change'.refresh = WithAnswer(change.refresh, part)
        /\ change' \in Change /\ change'.refresh \in Load
    BY <1>4, <2>1, WithAnswerTyped DEF RefreshAnswered, Change, TypeInv
  <2>3. change' # None /\ change'.refresh # None /\ crossed' = crossed
    BY <1>4, <2>2, ConsoleConstants DEF RefreshAnswered
  <2>4. ~crossed => /\ change.filter = filter
                    /\ change'.refresh.filter = filter
                    /\ change'.refresh.agents \in {None, DefinitionsFor(filter)}
    BY <1>2, <1>4, <2>1, <2>2 DEF RefreshAnswered, ListInv
  <2>5. ~crossed => Fresh(change.refresh)'
    BY <1>4, <2>4 DEF RefreshAnswered, Fresh, DefinitionsFor, Matches
  <2>6. ~crossed => load = None /\ load' = None /\ filter' = filter
    BY <1>4 DEF RefreshAnswered, ListInv
  <2> QED
    BY <2>2, <2>3, <2>4, <2>5, <2>6 DEF ListInv
<1>5. ASSUME ListLoaded PROVE ListInv'
  <2>1. /\ load' = None /\ change' = change /\ crossed' = crossed /\ agents' = agents
        /\ filter' = filter /\ shown' = load.agents /\ edited' = {}
    BY <1>5 DEF ListLoaded, Show
  <2>2. ~crossed => change = None /\ load.agents = DefinitionsFor(filter)
    BY <1>5 DEF ListLoaded, ListInv, Fresh
  <2>3. ~crossed => ListIsServer'
    BY <2>1, <2>2, ServerListed
  <2> QED
    BY <2>1, <2>2, <2>3 DEF ListInv
<1>6. ASSUME ListFails \/ RefreshFails PROVE ListInv'
  BY <1>6 DEF ListFails, RefreshFails, ListInv
<1>7. ASSUME ListRefreshed PROVE ListInv'
  <2>1. /\ load' = load /\ change' = None /\ crossed' = crossed /\ agents' = agents
        /\ filter' = filter /\ shown' = change.refresh.agents /\ edited' = {}
    BY <1>7 DEF ListRefreshed, EndChange, Show
  <2>2. ~crossed => load = None /\ change.refresh.agents = DefinitionsFor(filter)
    BY <1>7 DEF ListRefreshed, ListInv, Fresh
  <2>3. ~crossed => ListIsServer'
    BY <2>1, <2>2, ServerListed
  <2> QED
    BY <2>1, <2>2, <2>3 DEF ListInv
<1>8. ASSUME NEW f \in Filters, ChangeFilter(f) PROVE ListInv'
  <2>1. /\ load' = StartLoad(f) /\ filter' = f /\ change' = change
        /\ crossed' = (crossed \/ change # None)
    BY <1>8 DEF ChangeFilter, Show
  <2>2. load' # None
    BY <2>1, LoadTyped, ConsoleConstants
  <2>3. Fresh(load)'
    BY <2>1 DEF Fresh, StartLoad
  <2> QED
    BY <2>1, <2>2, <2>3 DEF ListInv
<1>9. ASSUME NEW c \in Contents, Edit(c) PROVE ListInv'
  <2>1. /\ UNCHANGED <<agents, filter, load, change, crossed>>
        /\ \A a \in Agents : shown'[a] # shown[a] => a \in edited'
        /\ edited \subseteq edited'
    BY <1>9 DEF Edit, TypeInv, TypeOK, Listing
  <2>2. SelectedShown'
    BY NextTypeInv DEF TypeInv
  <2>3. \A a \in Agents : shown'[a] # None <=> shown[a] # None
    BY <1>9, <2>2 DEF Edit, TypeInv, TypeOK, SelectedShown, Listing
  <2>4. ListIsServer => ListIsServer'
    BY <2>1, <2>3 DEF ListIsServer, Matches
  <2> QED
    BY <2>1, <2>4 DEF ListInv, Fresh, DefinitionsFor, Matches
<1>10. ASSUME NEW kind \in {"create", "update", "delete", "bulk"}, NEW targets \in SUBSET Agents,
              NEW sent \in Draft \cup {None}, StartChange(kind, targets, sent)
       PROVE  ListInv'
  <2>1. change' \in Change /\ change'.filter = filter /\ change'.refresh = None
    BY <1>10, StartChangeTyped DEF TypeInv, StartChange
  <2>2. /\ UNCHANGED <<agents, filter, shown, edited, load>>
        /\ crossed' = (crossed \/ load # None) /\ change = None
    BY <1>10 DEF StartChange
  <2>3. ~crossed' => load = None /\ ListIsServer
    BY <1>1, <2>2 DEF ListInv
  <2>4. ListIsServer => ListIsServer'
    BY <2>2 DEF ListIsServer, Matches
  <2> QED
    BY <2>1, <2>2, <2>3, <2>4 DEF ListInv
<1>11. selected # None => selected \in Agents /\ shown[selected] \in Draft
  BY DEF TypeInv, TypeOK, SelectedShown, Listing
<1>12. ASSUME CreateAgent \/ SaveAgent \/ DeleteAgent \/ BulkDeleteAgents
              \/ \E status \in Statuses : TransitionAgentStatus(status)
       PROVE  ListInv'
  <2>1. CASE CreateAgent
    <3>1. [status |-> "draft", content |-> NewContent] \in Draft
      BY ConsoleConstants DEF Draft, Statuses
    <3> QED
      BY <1>10, <2>1, <3>1 DEF CreateAgent
  <2>2. CASE SaveAgent
    BY <1>10, <1>11, <2>2 DEF SaveAgent
  <2>3. CASE DeleteAgent
    BY <1>10, <1>11, <2>3 DEF DeleteAgent
  <2>4. CASE BulkDeleteAgents
    BY <1>10, <2>4 DEF BulkDeleteAgents, TypeInv, TypeOK
  <2>5. ASSUME NEW status \in Statuses, TransitionAgentStatus(status) PROVE ListInv'
    <3>1. [shown[selected] EXCEPT !.status = status] \in Draft
      BY <1>11, <2>5 DEF TransitionAgentStatus, Draft
    <3> QED
      BY <1>10, <1>11, <2>5, <3>1 DEF TransitionAgentStatus
  <2> QED
    BY <1>12, <2>1, <2>2, <2>3, <2>4, <2>5
<1>13. ASSUME NEW as \in SUBSET Agents, ChangeApplied(as) PROVE ListInv'
  <2>1. change \in Change /\ change # None
    BY <1>1, <1>13 DEF ChangeApplied, Requested
  <2>2. /\ change' \in Change /\ change'.filter = change.filter
        /\ change'.refresh = StartLoad(change.filter) /\ change'.refresh \in Load
    BY <1>13, <2>1, LoadTyped DEF ChangeApplied, Change
  <2>3. change' # None /\ change'.refresh # None
    BY <2>2, ConsoleConstants
  <2>4. UNCHANGED <<filter, load, crossed>>
    BY <1>13 DEF ChangeApplied
  <2>5. ~crossed => load = None /\ change.filter = filter
    BY <2>1 DEF ListInv
  <2>6. ~crossed => Fresh(change.refresh)'
    BY <2>2, <2>4, <2>5 DEF Fresh, StartLoad
  <2> QED
    BY <2>2, <2>3, <2>4, <2>5, <2>6 DEF ListInv
<1>14. ASSUME NEW as \in SUBSET Agents, ChangeFails(as) PROVE ListInv'
  BY <1>1, <1>14, ListKept DEF ChangeFails, Requested, ListInv
<1>15. ASSUME UNCHANGED <<agents, filter, shown, edited, load, change, crossed>> PROVE ListInv'
  BY <1>15, ListKept
<1>16. CASE \/ Panel \/ PanelFailures \/ AskingFails
            \/ \E e \in Executions : Obeyed(e) \/ ExecutionStep(e)
            \/ RefreshExecutions \/ ExecuteAgent
            \/ \E e \in Executions : RerunExecution(e) \/ CancelExecution(e)
            \/ \E c \in Catalogs : RegistryChanges(c)
            \/ \E part \in starting : CatalogLoaded(part) \/ CatalogFails(part)
            \/ \E a \in Agents : SelectAgent(a)
            \/ \E as \in SUBSET Agents : Check(as)
  BY <1>15, <1>16
  DEF Panel, PanelFailures, PanelAnswered, PanelLoaded, PanelFails, PollTick, PollAnswered,
      PollShown, PollFails, AskingFails, Obeyed, ExecutionStep, RefreshExecutions, ExecuteAgent,
      RerunExecution, CancelExecution, Ask, RegistryChanges, CatalogLoaded, CatalogFails,
      SelectAgent, Check
<1> QED
  BY <1>3, <1>4, <1>5, <1>6, <1>7, <1>8, <1>9, <1>12, <1>13, <1>14, <1>16
  DEF Next, Rest, Commands

LEMMA NextListInv == TypeInv /\ ListInv /\ [Next]_vars => ListInv'
<1>1. ListInv /\ UNCHANGED vars => ListInv'
  BY ListKept DEF vars
<1> QED
  BY <1>1, ListInvStep

\* The list is the API's whenever nothing is in flight: see ListMatchesServer.
THEOREM ListIsTheServers == Spec => []ListMatchesServer
<1>1. ListInv => ListMatchesServer
  BY DEF ListInv, ListIsServer, ListMatchesServer
<1> QED
  BY <1>1, InitTypeInv, InitListInv, NextTypeInv, NextListInv, PTL DEF Spec

(***************************************************************************)
(* The executions of the selection                                         *)
(***************************************************************************)

RowsOf(rows, a) == \A e \in Executions : rows[e] # "none" => executions[e].of = a

AnswerOf(call) ==
    call.of = selected /\ (call.answer # None /\ selected # None => RowsOf(call.answer, selected))

\* As long as the selection does not change under a refresh, whatever is in flight is about
\* the selected Agent.
PanelInv ==
    ~strayed =>
      /\ panel = None /\ selected # None => RowsOf(listed, selected)
      /\ panel # None => AnswerOf(panel)
      /\ \A call \in BagToSet(polls) : AnswerOf(call)
      /\ asking # None => asking.from = selected

LEMMA InitPanelInv == Init => PanelInv
BY PollTyped, ConsoleConstants
DEF Init, PanelInv, AnswerOf, StartPoll, EmptyBag, SetToBag, BagToSet

LEMMA RowsForOf ==
    ASSUME selected # None
    PROVE  RowsOf(RowsFor(selected), selected)
BY DEF RowsOf, RowsFor

LEMMA PanelKept ==
    ASSUME TypeInv, PanelInv, UNCHANGED <<selected, listed, panel, strayed>>,
           \A e \in Executions : executions[e] # None => executions'[e].of = executions[e].of,
           \A call \in BagToSet(polls)' : call \in BagToSet(polls) \/
               (call.answer = None /\ (~strayed => call.of = selected)),
           asking' # None => (~strayed => asking'.from = selected)
    PROVE  PanelInv'
<1> SUFFICES ASSUME ~strayed PROVE PanelInv'
  BY DEF PanelInv
<1>1. \A rows : RowsExist(rows) /\ RowsOf(rows, selected) => RowsOf(rows, selected)'
  BY DEF RowsOf, RowsExist
<1>2. RowsKnown
  BY DEF TypeInv
<1>3. panel' = None /\ selected' # None => RowsOf(listed, selected)'
  BY <1>1, <1>2 DEF PanelInv, RowsKnown, RowsOf
<1>4. panel' # None => AnswerOf(panel)'
  BY <1>1, <1>2 DEF PanelInv, RowsKnown, AnswerOf, RowsOf
<1>5. \A call \in BagToSet(polls)' : AnswerOf(call)'
  <2> TAKE call \in BagToSet(polls)'
  <2>1. CASE call \in BagToSet(polls)
    BY <1>1, <1>2, <2>1 DEF PanelInv, RowsKnown, AnswerOf, RowsOf
  <2>2. CASE call.answer = None /\ call.of = selected
    BY <2>2 DEF AnswerOf
  <2> QED
    BY <2>1, <2>2
<1> QED
  BY <1>3, <1>4, <1>5 DEF PanelInv

\* A step of the list: only SelectAs may disturb the panel.
LEMMA SelectAsStep ==
    ASSUME TypeInv, PanelInv, NEW a \in Agents \cup {None}, SelectAs(a),
           UNCHANGED <<executions, listed, polls, asking>>
    PROVE  PanelInv'
<1>1. CASE a = selected
  BY <1>1, PanelKept DEF SelectAs, PanelInv
<1>2. CASE a # selected
  <2>1. panel' = StartPoll(a, FALSE) /\ selected' = a /\ panel' # None
    BY <1>2, PollTyped, ConsoleConstants DEF SelectAs
  <2>2. ~strayed' => BagToSet(polls)' = {} /\ asking' = None
    BY <1>2 DEF SelectAs, EmptyBag, SetToBag, BagToSet
  <2>3. AnswerOf(panel)'
    BY <2>1 DEF AnswerOf, StartPoll
  <2> QED
    BY <2>1, <2>2, <2>3 DEF PanelInv
<1> QED
  BY <1>1, <1>2

LEMMA PanelInvStep ==
    ASSUME TypeInv, PanelInv, Next
    PROVE  PanelInv'
<1> USE DEF runs, list, api, page
<1>1. TypeOK /\ RowsKnown /\ CancelledKnown
  BY DEF TypeInv
<1>2. CASE \/ ListLoaded \/ ListFails \/ ListRefreshed \/ RefreshFails
           \/ \E f \in Filters : ChangeFilter(f)
           \/ \E a \in Agents : SelectAgent(a)
  <2>1. \E a \in Agents \cup {None} : SelectAs(a)
    BY <1>2 DEF ListLoaded, ListFails, ListRefreshed, RefreshFails, EndChange, ChangeFilter, Show,
                SelectAgent, Scoped
  <2>2. UNCHANGED <<executions, listed, polls, asking>>
    BY <1>2 DEF ListLoaded, ListFails, ListRefreshed, RefreshFails, EndChange, ChangeFilter, SelectAgent
  <2> QED
    BY <2>1, <2>2, SelectAsStep
<1>3. ASSUME UNCHANGED <<executions, selected, runs>> PROVE PanelInv'
  BY <1>3, PanelKept DEF PanelInv
<1>4. CASE \/ \E part \in starting : CatalogLoaded(part) \/ CatalogFails(part)
           \/ \E part \in Parts : ListAnswered(part) \/ RefreshAnswered(part)
           \/ \E as \in SUBSET Agents : Check(as) \/ ChangeApplied(as) \/ ChangeFails(as)
           \/ \E c \in Contents : Edit(c)
           \/ CreateAgent \/ SaveAgent \/ DeleteAgent \/ BulkDeleteAgents
           \/ \E status \in Statuses : TransitionAgentStatus(status)
           \/ \E c \in Catalogs : RegistryChanges(c)
  BY <1>3, <1>4
  DEF CatalogLoaded, CatalogFails, ListAnswered, RefreshAnswered, Check, ChangeApplied, ChangeFails,
      Edit, CreateAgent, SaveAgent, DeleteAgent, BulkDeleteAgents, TransitionAgentStatus,
      StartChange, RegistryChanges
<1>5. CASE PanelAnswered
  <2>1. panel' \in Poll /\ panel'.of = panel.of /\ panel'.answer = RowsFor(panel.of)
    BY <1>1, <1>5, AnswersTyped DEF PanelAnswered, TypeOK, Poll
  <2>2. panel' # None
    BY <2>1, ConsoleConstants
  <2>3. ~strayed => AnswerOf(panel)'
    BY <1>5, <2>1, RowsForOf DEF PanelAnswered, PanelInv, AnswerOf, RowsOf
  <2> QED
    BY <1>5, <2>2, <2>3 DEF PanelAnswered, PanelInv, AnswerOf, RowsOf, BagToSet
<1>6. CASE PanelLoaded
  BY <1>6 DEF PanelLoaded, PanelInv, AnswerOf, RowsOf, BagToSet
<1>7. CASE PanelFails
  BY <1>7 DEF PanelFails, PanelInv
<1>8. \A a \in Agents \cup {None} : \A asked \in BOOLEAN :
        StartPoll(a, asked).answer = None /\ StartPoll(a, asked).of = a
  BY DEF StartPoll
<1>9. CASE PollTick \/ RefreshExecutions
  <2>1. \A call \in BagToSet(polls)' : call \in BagToSet(polls) \cup {StartPoll(selected, FALSE)}
    <3>1. polls' \in {polls (+) SetToBag({StartPoll(selected, FALSE)}),
                      SetToBag({StartPoll(selected, FALSE)})}
      BY <1>9 DEF PollTick, RefreshExecutions
    <3> QED
      BY <3>1 DEF BagToSet, SetToBag, (+)
  <2>2. UNCHANGED <<executions, selected, listed, panel, asking, strayed>>
    BY <1>9 DEF PollTick, RefreshExecutions
  <2> QED
    BY <1>1, <1>8, <2>1, <2>2, PanelKept, ZenonT(30) DEF PanelInv, TypeOK
<1>10. ASSUME NEW call \in BagToSet(polls), PollAnswered(call) PROVE PanelInv'
  <2>0. PICK next : next = [call EXCEPT !.answer = RowsFor(call.of)]
    OBVIOUS
  <2>1. next.of = call.of /\ next.answer = RowsFor(call.of)
    BY <1>1, <1>10, <2>0 DEF TypeOK, Poll
  <2>2. /\ polls' = (polls (-) SetToBag({call})) (+) SetToBag({next})
        /\ UNCHANGED <<executions, selected, listed, panel, asking, strayed>>
    BY <1>10, <2>0 DEF PollAnswered
  <2>3. \A x \in BagToSet(polls)' : x \in BagToSet(polls) \cup {next}
    BY <2>2 DEF BagToSet, SetToBag, (+), (-)
  <2>4. ~strayed => AnswerOf(next)'
    BY <1>10, <2>1, <2>2, RowsForOf DEF PanelInv, AnswerOf, RowsOf
  <2>5. ~strayed => \A x \in BagToSet(polls)' : AnswerOf(x)'
    BY <2>2, <2>3, <2>4 DEF PanelInv, AnswerOf, RowsOf
  <2> QED
    BY <2>2, <2>5 DEF PanelInv, AnswerOf, RowsOf
<1>11. ASSUME NEW call \in BagToSet(polls), PollShown(call) \/ PollFails(call) PROVE PanelInv'
  <2>1. /\ BagToSet(polls)' \subseteq BagToSet(polls)
        /\ UNCHANGED <<executions, selected, panel, strayed>>
        /\ asking' \in {None, asking}
        /\ listed' = listed \/ (listed' = call.answer /\ call.answer # None)
    BY <1>11 DEF PollShown, PollFails, BagToSet, SetToBag, (-)
  <2>2. ~strayed => \A x \in BagToSet(polls)' : AnswerOf(x)'
    BY <2>1 DEF PanelInv, AnswerOf, RowsOf
  <2>3. ~strayed /\ panel' = None /\ selected' # None => RowsOf(listed, selected)'
    BY <2>1 DEF PanelInv, AnswerOf, RowsOf
  <2> QED
    BY <2>1, <2>2, <2>3 DEF PanelInv, AnswerOf, RowsOf
<1>12. CASE ExecuteAgent \/ \E e \in Executions : RerunExecution(e) \/ CancelExecution(e)
  <2>1. UNCHANGED <<executions, selected, listed, panel, polls, strayed>> /\ asking'.from = selected
    BY <1>12 DEF ExecuteAgent, RerunExecution, CancelExecution, Ask
  <2> QED
    BY <2>1, PanelKept DEF PanelInv, BagToSet
<1>13. ASSUME NEW e \in Executions, Obey(e), asking # None
       PROVE  \A x \in Executions : executions[x] # None => executions'[x].of = executions[x].of
  BY <1>1, <1>13, ConsoleConstants DEF Obey, TypeOK, CancelledKnown, Execution
<1>14. ASSUME NEW e \in Executions, Obeyed(e) PROVE PanelInv'
  <2>1. \A x \in Executions : executions[x] # None => executions'[x].of = executions[x].of
    BY <1>13, <1>14 DEF Obeyed
  <2>2. asking'.from = asking.from /\ asking.from \in Agents \cup {None}
    BY <1>1, <1>14 DEF Obeyed, TypeOK
  <2>3. \A x \in BagToSet(polls)' : x \in BagToSet(polls) \cup {StartPoll(asking.from, TRUE)}
    BY <1>14 DEF Obeyed, BagToSet, SetToBag, (+)
  <2>4. ~strayed => asking.from = selected
    BY <1>14 DEF Obeyed, PanelInv
  <2>5. UNCHANGED <<selected, listed, panel, strayed>>
    BY <1>14 DEF Obeyed
  <2> QED
    BY <1>8, <2>1, <2>2, <2>3, <2>4, <2>5, PanelKept
<1>15. CASE AskingFails
  <2>1. \A x \in Executions : executions[x] # None => executions'[x].of = executions[x].of
    BY <1>13, <1>15 DEF AskingFails
  <2>2. UNCHANGED <<selected, listed, panel, polls, strayed>> /\ asking' = None
    BY <1>15 DEF AskingFails
  <2> QED
    BY <2>1, <2>2, PanelKept DEF BagToSet
<1>16. ASSUME NEW e \in Executions, ExecutionStep(e) PROVE PanelInv'
  <2>1. \A x \in Executions : executions[x] # None => executions'[x].of = executions[x].of
    BY <1>1, <1>16 DEF ExecutionStep, TypeOK, Execution
  <2>2. UNCHANGED <<selected, listed, panel, polls, strayed, asking>>
    BY <1>16 DEF ExecutionStep
  <2> QED
    BY <2>1, <2>2, PanelKept DEF BagToSet, PanelInv
<1> QED
  BY <1>2, <1>4, <1>5, <1>6, <1>7, <1>9, <1>10, <1>11, <1>12, <1>14, <1>15, <1>16
  DEF Next, Rest, Commands, Panel, PanelFailures

LEMMA NextPanelInv == TypeInv /\ PanelInv /\ [Next]_vars => PanelInv'
<1>1. TypeInv /\ PanelInv /\ UNCHANGED vars => PanelInv'
  BY PanelKept DEF vars, PanelInv, BagToSet
<1> QED
  BY <1>1, PanelInvStep

\* The executions shown are the selected Agent's: see PanelMatchesSelection.
THEOREM PanelShowsSelection == Spec => []PanelMatchesSelection
<1>1. PanelInv => PanelMatchesSelection
  BY DEF PanelInv, RowsOf, PanelMatchesSelection
<1> QED
  BY <1>1, InitTypeInv, InitPanelInv, NextTypeInv, NextPanelInv, PTL DEF Spec
=============================================================================
