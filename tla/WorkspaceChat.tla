---------------------------- MODULE WorkspaceChat ----------------------------
(***************************************************************************)
(* The chat page of the web console: the knowledge scope that is shown,    *)
(* its conversations, the transcript of the selected one and the question  *)
(* that is being answered.  Every list is loaded by requests that may be   *)
(* answered late.  Loads started by an effect are dropped when the effect  *)
(* is cleaned up; refreshConversations, refreshOperations and the handlers *)
(* are not, and go on with the scope they were started for.                *)
(* The effect that sets the selection and the search text when a link into *)
(* the page is followed (lines 2427-2456) is left out.                     *)
(*                                                                         *)
(* Code: apps/web/components/workspace/WorkspaceConsolePage.tsx; the calls *)
(* of the server are apps/api/ragpilot_api/application/chat/chat_service.py*)
(***************************************************************************)
EXTENDS Integers, Sequences, FiniteSets, Bags

CONSTANTS
    Workspaces, Scopes,     \* a scope is a knowledge base with its workspace
    WorkspaceOf,            \* of a scope
    Conversations,          \* identifiers, those still to be used included
    HomeOf,                 \* the workspace of a conversation
    Matching,               \* the conversations whose titles match the search text
    Existing,               \* the conversations there are when the page is opened
    MaxTurns,               \* bound: questions stored in one conversation
    MaxCalls,               \* bound: refreshes in flight
    MaxCommands,            \* bound: what the operator does after the page is opened
    None                    \* null

ASSUME ChatConstants ==
    /\ WorkspaceOf \in [Scopes -> Workspaces]
    /\ HomeOf \in [Conversations -> Workspaces]
    /\ Matching \subseteq Conversations /\ Existing \subseteq Conversations
    /\ MaxTurns \in Nat \ {0} /\ MaxCalls \in Nat /\ MaxCommands \in Nat

VARIABLES
    exists, questions,  \* server: the conversations, the user messages stored in each
    scope,              \* bootstrap
    hydrating,          \* hydrateWorkspace waiting for the conversations, or None
    conversations, selected, search,
    transcript,         \* messages
    loading,            \* the load of the transcript in flight, or None
    documentsOf,        \* the scope whose documents and workflow runs are shown
    operations,         \* the effect's load of them is in flight
    sending,            \* the question being answered, or None
    changing,           \* the title being saved or the deletion under way, or None
    refreshes,          \* refreshConversations and refreshOperations in flight
    commands,           \* how many commands the operator gave
    crossed,            \* history: see ScopeIsShown
    disturbed           \* history: see TranscriptMatches

server == <<exists, questions>>
lists  == <<conversations, selected, search>>
texts  == <<transcript, loading, disturbed>>
vars == <<exists, questions, scope, hydrating, conversations, selected, search, transcript,
          loading, documentsOf, operations, sending, changing, refreshes, commands, crossed, disturbed>>

\* A turn is a question and its answer; Asked is the optimistic pair that is still streaming.
Turn  == [conversation: Conversations, number: 1 .. MaxTurns]
Asked == [conversation |-> None, number |-> 0]
Unanswered == [known |-> FALSE]
Listed == {Unanswered} \cup [known: {TRUE}, items: SUBSET Conversations]

Call == [kind: {"conversations"}, scope: Scopes, search: BOOLEAN, answer: Listed,
         preferred: Conversations \cup {None}, change: BOOLEAN]
        \cup [kind: {"operations"}, scope: Scopes]

Hydration == [preferred: Conversations \cup {None}, answer: Listed]
Load      == [conversation: Conversations, answer: -1 .. MaxTurns]
Question  == [scope: Scopes, conversation: Conversations \cup {None}, search: BOOLEAN,
              into: Conversations \cup {None}, number: 0 .. MaxTurns]
Change    == [kind: {"rename", "delete"}, conversation: Conversations, own: BOOLEAN,
              scope: Scopes, search: BOOLEAN, refreshing: BOOLEAN]

ASSUME NoneIsNothing ==
    /\ None \notin Scopes \cup Conversations
    /\ None \notin Hydration \cup Load \cup Question \cup Change

TypeOK ==
    /\ exists \subseteq Conversations /\ questions \in [Conversations -> 0 .. MaxTurns]
    /\ scope \in Scopes \cup {None}
    /\ hydrating \in {None} \cup Hydration
    /\ conversations \subseteq Conversations /\ selected \in Conversations \cup {None}
    /\ search \in BOOLEAN
    /\ transcript \in Seq(Turn \cup {Asked})
    /\ loading \in {None} \cup Load
    /\ documentsOf \in Scopes \cup {None} /\ operations \in BOOLEAN
    /\ sending \in {None} \cup Question /\ changing \in {None} \cup Change
    /\ BagToSet(refreshes) \subseteq Call
    /\ commands \in 0 .. MaxCommands
    /\ crossed \in BOOLEAN /\ disturbed \in BOOLEAN

Init ==
    /\ exists = Existing /\ questions = [c \in Conversations |-> IF c \in Existing THEN 1 ELSE 0]
    /\ scope = None /\ hydrating = None
    /\ conversations = {} /\ selected = None /\ search = FALSE
    /\ transcript = <<>> /\ loading = None
    /\ documentsOf = None /\ operations = FALSE
    /\ sending = None /\ changing = None /\ refreshes = EmptyBag
    /\ commands = 0 /\ crossed = FALSE /\ disturbed = FALSE

(***************************************************************************)
(* Helpers                                                                 *)
(***************************************************************************)

\* GET /chat/conversations: the conversations of a workspace whose titles match.
Found(s, searching) ==
    {c \in exists : HomeOf[c] = WorkspaceOf[s] /\ (searching => c \in Matching)}

\* Mutant: the numbers of the turns start at zero.
TurnsFromZero(c, n) == [i \in 1 .. n |-> [conversation |-> c, number |-> i - 1]]

\* GET /chat/messages, when n user messages were stored.
Turns(c, n) == [i \in 1 .. n |-> [conversation |-> c, number |-> i]]

\* isWorkspaceBusy
Busy == scope = None \/ hydrating # None \/ changing # None

Room(n) == BagCardinality(refreshes) + n <= MaxCalls

ConversationsCall(s, searching, preferred, change) ==
    [kind |-> "conversations", scope |-> s, search |-> searching, answer |-> Unanswered,
     preferred |-> preferred, change |-> change]

OperationsCall(s) == [kind |-> "operations", scope |-> s]

\* The effect of loadMessages, after the selection became c.  Without a conversation the
\* transcript is emptied, else it stays until the answer.
Select(c) ==
    /\ selected' = c
    /\ \/ c = selected /\ UNCHANGED texts
       \/ /\ c # selected
          /\ loading' = IF c = None THEN None ELSE [conversation |-> c, answer |-> -1]
          /\ transcript' = IF c = None THEN <<>> ELSE transcript
          /\ disturbed' = (sending # None)

(***************************************************************************)
(* The scope                                                               *)
(***************************************************************************)

\* Mutant: the documents and runs of the former scope are not cleared.
HydrateKeepsDocuments(s) ==
    /\ scope' = s
    /\ hydrating' = [preferred |-> selected, answer |-> Unanswered]
    /\ selected' = None
    /\ transcript' = <<>> /\ loading' = None
    /\ disturbed' = (sending # None)
    /\ operations' = TRUE
    /\ Room(1)
    /\ refreshes' = refreshes (+) SetToBag({ConversationsCall(s, search, None, FALSE)})
    /\ UNCHANGED <<server, conversations, search, documentsOf, sending, changing>>

\* hydrateWorkspace up to its first await, and the effects of the new bootstrap.
Hydrate(s) ==
    /\ scope' = s
    /\ hydrating' = [preferred |-> selected, answer |-> Unanswered]
    /\ selected' = None
    /\ transcript' = <<>> /\ loading' = None
    /\ disturbed' = (sending # None)
    /\ documentsOf' = None /\ operations' = TRUE
    /\ Room(1)
    /\ refreshes' = refreshes (+) SetToBag({ConversationsCall(s, search, None, FALSE)})
    /\ UNCHANGED <<server, conversations, search, sending, changing>>

\* bootstrapWorkspace, once the tenant, the workspace and the knowledge base are known.
Bootstrap(s) ==
    /\ scope = None
    /\ Hydrate(s)
    /\ UNCHANGED crossed

\* switchWorkspaceContext: the dialog of the knowledge scope.
SwitchScope(s) ==
    /\ ~Busy /\ s # scope
    /\ Hydrate(s)
    /\ crossed' = (crossed \/ sending # None \/ refreshes # EmptyBag)

HydrationAnswered ==
    /\ hydrating # None /\ hydrating.answer = Unanswered
    /\ hydrating' = [hydrating EXCEPT !.answer = [known |-> TRUE, items |-> Found(scope, search)]]
    /\ UNCHANGED <<server, scope, lists, texts, documentsOf, operations, sending, changing,
                   refreshes, crossed>>

\* The rest of hydrateWorkspace.
Hydrated ==
    /\ hydrating # None /\ hydrating.answer # Unanswered
    /\ conversations' = hydrating.answer.items
    /\ Select(IF hydrating.preferred \in hydrating.answer.items THEN hydrating.preferred ELSE None)
    /\ hydrating' = None
    /\ UNCHANGED <<server, scope, search, documentsOf, operations, sending, changing, refreshes,
                   crossed>>

\* The list of the former scope stays, until a refresh.
HydrationFails ==
    /\ hydrating # None
    /\ hydrating' = None
    /\ crossed' = TRUE
    /\ UNCHANGED <<server, scope, lists, texts, documentsOf, operations, sending, changing,
                   refreshes>>

(***************************************************************************)
(* Loads and refreshes                                                     *)
(***************************************************************************)

MessagesAnswered ==
    /\ loading # None /\ loading.answer = -1
    /\ loading.conversation \in exists
    /\ loading' = [loading EXCEPT !.answer = questions[loading.conversation]]
    /\ UNCHANGED <<server, scope, hydrating, lists, transcript, disturbed, documentsOf,
                   operations, sending, changing, refreshes, crossed>>

MessagesLoaded ==
    /\ loading # None /\ loading.answer >= 0
    /\ transcript' = Turns(loading.conversation, loading.answer)
    /\ loading' = None
    /\ disturbed' = (disturbed \/ sending # None)
    /\ UNCHANGED <<server, scope, hydrating, lists, documentsOf, operations, sending, changing,
                   refreshes, crossed>>

\* The former transcript stays under the newly selected conversation.
MessagesFail ==
    /\ loading # None
    /\ loading' = None
    /\ disturbed' = TRUE
    /\ UNCHANGED <<server, scope, hydrating, lists, transcript, documentsOf, operations, sending,
                   changing, refreshes, crossed>>

OperationsLoaded ==
    /\ operations
    /\ operations' = FALSE
    /\ documentsOf' = scope
    /\ UNCHANGED <<server, scope, hydrating, lists, texts, sending, changing, refreshes, crossed>>

OperationsFail ==
    /\ operations
    /\ operations' = FALSE
    /\ UNCHANGED <<server, scope, hydrating, lists, texts, documentsOf, sending, changing,
                   refreshes, crossed>>

ConversationsAnswered(call) ==
    /\ call.kind = "conversations" /\ call.answer = Unanswered
    /\ refreshes' = (refreshes (-) SetToBag({call})) (+) SetToBag({[call EXCEPT !.answer =
                         [known |-> TRUE, items |-> Found(call.scope, call.search)]]})
    /\ UNCHANGED <<server, scope, hydrating, lists, texts, documentsOf, operations, sending,
                   changing, crossed>>

\* The rest of refreshConversations, whatever the scope is now.
ConversationsRefreshed(call) ==
    /\ call.kind = "conversations" /\ call.answer # Unanswered
    /\ refreshes' = refreshes (-) SetToBag({call})
    /\ conversations' = call.answer.items
    /\ Select(IF call.preferred \in call.answer.items THEN call.preferred
              ELSE IF selected \in call.answer.items THEN selected ELSE None)
    /\ changing' = IF call.change THEN None ELSE changing
    /\ UNCHANGED <<server, scope, hydrating, search, documentsOf, operations, sending, crossed>>

OperationsRefreshed(call) ==
    /\ call.kind = "operations"
    /\ refreshes' = refreshes (-) SetToBag({call})
    /\ documentsOf' = call.scope
    /\ UNCHANGED <<server, scope, hydrating, lists, texts, operations, sending, changing, crossed>>

RefreshFails(call) ==
    /\ refreshes' = refreshes (-) SetToBag({call})
    /\ changing' = IF call.kind = "conversations" /\ call.change THEN None ELSE changing
    /\ UNCHANGED <<server, scope, hydrating, lists, texts, documentsOf, operations, sending,
                   crossed>>

\* handleRefreshWorkspace; its feedback summary is left out.
RefreshWorkspace ==
    /\ scope # None /\ hydrating = None
    /\ Room(2)
    /\ refreshes' = refreshes (+) SetToBag({ConversationsCall(scope, search, None, FALSE),
                                            OperationsCall(scope)})
    /\ UNCHANGED <<server, scope, hydrating, lists, texts, documentsOf, operations, sending,
                   changing, crossed>>

\* The effect of the search text, once it is debounced.
SearchConversations ==
    /\ scope # None
    /\ search' = ~search
    /\ Room(1)
    /\ refreshes' = refreshes (+) SetToBag({ConversationsCall(scope, search', None, FALSE)})
    /\ UNCHANGED <<server, scope, hydrating, conversations, selected, texts, documentsOf,
                   operations, sending, changing, crossed>>

(***************************************************************************)
(* A question                                                              *)
(***************************************************************************)

\* handleSendQuestion up to the request, with what its closure holds.
SendQuestion ==
    /\ ~Busy /\ sending = None
    /\ sending' = [scope |-> scope, conversation |-> selected, search |-> search,
                   into |-> None, number |-> 0]
    /\ transcript' = (IF selected = None THEN <<>> ELSE transcript) \o <<Asked>>
    /\ disturbed' = (disturbed \/ loading # None)
    /\ UNCHANGED <<server, scope, hydrating, lists, loading, documentsOf, operations, changing,
                   refreshes, crossed>>

\* POST /chat/messages/stream: the conversation is resolved, or created when there is none or
\* it is gone, and the question is committed before it is answered.
QuestionStored(c) ==
    /\ sending # None /\ sending.into = None
    /\ \/ sending.conversation \in exists /\ c = sending.conversation
       \/ /\ sending.conversation \notin exists
          /\ c \notin exists /\ questions[c] = 0
          /\ HomeOf[c] = WorkspaceOf[sending.scope]
    /\ questions[c] < MaxTurns
    /\ exists' = exists \cup {c}
    /\ questions' = [questions EXCEPT ![c] = @ + 1]
    /\ sending' = [sending EXCEPT !.into = c, !.number = questions'[c]]
    /\ UNCHANGED <<scope, hydrating, lists, texts, documentsOf, operations, changing, refreshes,
                   crossed>>

\* Mutant: the optimistic turn is not taken out again.
ShownWithAsked == transcript

\* The transcript without the optimistic turn: the messages that are kept, in their order.
Kept == {i \in DOMAIN transcript : transcript[i] # Asked}
NthKept(n) == CHOOSE i \in Kept : Cardinality({j \in Kept : j <= i}) = n
Shown == [n \in 1 .. Cardinality(Kept) |-> transcript[NthKept(n)]]

\* The stream completed: the rest of handleSendQuestion.  The comparison is with the
\* conversation that was selected when the question was sent.
QuestionAnswered ==
    /\ sending # None /\ sending.into # None
    /\ LET turn == [conversation |-> sending.into, number |-> sending.number]
       IN  transcript' = (IF sending.into = sending.conversation THEN Shown ELSE <<>>) \o <<turn>>
    /\ sending' = None
    /\ Room(2)
    /\ refreshes' = refreshes (+) SetToBag({
                       ConversationsCall(sending.scope, sending.search, sending.into, FALSE),
                       OperationsCall(sending.scope)})
    /\ disturbed' = (disturbed \/ loading # None \/ sending.into # selected)
    /\ UNCHANGED <<server, scope, hydrating, lists, loading, documentsOf, operations, changing,
                   crossed>>

\* The stream failed or broke off, before or after the question was stored.
QuestionFails ==
    /\ sending # None
    /\ transcript' = Shown
    /\ sending' = None
    /\ disturbed' = TRUE
    /\ UNCHANGED <<server, scope, hydrating, lists, loading, documentsOf, operations, changing,
                   refreshes, crossed>>

(***************************************************************************)
(* The list of conversations                                               *)
(***************************************************************************)

\* handleSelectConversation: possible at any time, but behind an open dialog.
SelectConversation(c) ==
    /\ changing = None
    /\ c \in conversations /\ c # selected
    /\ Select(c)
    /\ UNCHANGED <<server, scope, hydrating, conversations, search, documentsOf, operations,
                   sending, changing, refreshes, crossed>>

\* handleCreateConversation
CreateConversation ==
    /\ ~Busy
    /\ selected' = None /\ transcript' = <<>> /\ loading' = None
    /\ disturbed' = (sending # None)
    /\ UNCHANGED <<server, scope, hydrating, conversations, search, documentsOf, operations,
                   sending, changing, refreshes, crossed>>

\* handleSaveConversationTitle and handleDeleteConversation up to their requests.  Both are
\* dialogs, so only one of them is open.
ChangeConversation(kind, c) ==
    /\ ~Busy /\ c \in conversations
    /\ kind = "rename" => c = selected
    /\ changing' = [kind |-> kind, conversation |-> c, own |-> c = selected, scope |-> scope,
                    search |-> search, refreshing |-> FALSE]
    /\ UNCHANGED <<server, scope, hydrating, lists, texts, documentsOf, operations, sending,
                   refreshes, crossed>>

\* PATCH is answered; refreshConversations follows.
TitleSaved ==
    /\ changing # None /\ changing.kind = "rename" /\ ~changing.refreshing
    /\ changing.conversation \in exists
    /\ changing' = [changing EXCEPT !.refreshing = TRUE]
    /\ Room(1)
    /\ refreshes' = refreshes (+) SetToBag({
           ConversationsCall(changing.scope, changing.search, changing.conversation, TRUE)})
    /\ UNCHANGED <<server, scope, hydrating, lists, texts, documentsOf, operations, sending,
                   crossed>>

\* DELETE is answered; the selection is dropped if it was this conversation's, and
\* refreshConversations follows.
ConversationDeleted ==
    /\ changing # None /\ changing.kind = "delete" /\ ~changing.refreshing
    /\ changing.conversation \in exists
    /\ exists' = exists \ {changing.conversation}
    /\ changing' = [changing EXCEPT !.refreshing = TRUE]
    /\ \/ ~changing.own /\ UNCHANGED <<selected, texts>>
       \/ /\ changing.own
          /\ selected' = None /\ transcript' = <<>> /\ loading' = None
          /\ disturbed' = (sending # None)
    /\ Room(1)
    /\ refreshes' = refreshes (+) SetToBag({
           ConversationsCall(changing.scope, changing.search, None, TRUE)})
    /\ UNCHANGED <<questions, scope, hydrating, conversations, search, documentsOf, operations,
                   sending, crossed>>

ChangeFails ==
    /\ changing # None /\ ~changing.refreshing
    /\ changing' = None
    /\ UNCHANGED <<server, scope, hydrating, lists, texts, documentsOf, operations, sending,
                   refreshes, crossed>>

(***************************************************************************)
(* Specification                                                           *)
(***************************************************************************)

Answers ==
    \/ HydrationAnswered \/ Hydrated
    \/ MessagesAnswered \/ MessagesLoaded \/ OperationsLoaded
    \/ \E call \in BagToSet(refreshes) :
         ConversationsAnswered(call) \/ ConversationsRefreshed(call) \/ OperationsRefreshed(call)
    \/ \E c \in Conversations : QuestionStored(c)
    \/ QuestionAnswered \/ TitleSaved \/ ConversationDeleted

Failures ==
    \/ HydrationFails \/ MessagesFail \/ OperationsFail \/ QuestionFails \/ ChangeFails
    \/ \E call \in BagToSet(refreshes) : RefreshFails(call)

Operator ==
    \/ \E s \in Scopes : SwitchScope(s)
    \/ RefreshWorkspace \/ SearchConversations \/ SendQuestion \/ CreateConversation
    \/ \E c \in Conversations :
         \/ SelectConversation(c)
         \/ \E kind \in {"rename", "delete"} : ChangeConversation(kind, c)

Next ==
    \/ (Answers \/ Failures \/ \E s \in Scopes : Bootstrap(s)) /\ UNCHANGED commands
    \/ Operator /\ commands < MaxCommands /\ commands' = commands + 1

Spec == Init /\ [][Next]_vars

(***************************************************************************)
(* Properties                                                              *)
(***************************************************************************)

Quiet == hydrating = None /\ loading = None /\ sending = None /\ changing = None
         /\ refreshes = EmptyBag /\ ~operations

\* Once nothing is in flight the transcript is the stored text of the selected conversation,
\* although it is put together from loads, optimistic messages and appended answers.
\* "disturbed" is the exception, from which every later selection recovers: a load or a
\* question failed, a load overlapped a question, a selection was made while a question was
\* in flight, or the answer's conversation is not the selected one, because it is new and
\* refreshConversations has not selected it (loadMessages 3564-3598, handleSendQuestion
\* 4000-4081).
TranscriptMatches ==
    Quiet /\ ~disturbed =>
        /\ selected = None => transcript = <<>>
        /\ selected \in exists => transcript = Turns(selected, questions[selected])

\* What is listed, selected and shown belongs to the scope in the header, unless the scope
\* was switched while a question was being answered or a refresh was in flight: those go on
\* with the former scope; or unless the list of a new scope could not be loaded
\* (hydrateWorkspace 2764-2829, refreshConversations 3790-3820, refreshOperations 3962-3982).
ScopeIsShown ==
    scope # None /\ hydrating = None /\ ~crossed =>
        /\ \A c \in conversations : HomeOf[c] = WorkspaceOf[scope]
        /\ selected # None => HomeOf[selected] = WorkspaceOf[scope]
        /\ documentsOf \in {None, scope}

=============================================================================
