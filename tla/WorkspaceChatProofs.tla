------------------------- MODULE WorkspaceChatProofs -------------------------
(***************************************************************************)
(* Type correctness of WorkspaceChat, that the transcript of a quiet page   *)
(* is the stored text of the selected conversation, and that what is shown  *)
(* belongs to the scope in the header: for any scopes and conversations,    *)
(* any number of turns, calls and commands, in whatever order answers and   *)
(* failures arrive.                                                         *)
(***************************************************************************)
EXTENDS WorkspaceChat, SequenceTheorems, FiniteSetTheorems, TLAPS

-----------------------------------------------------------------------------
(* The inductive invariants *)

\* The optimistic turn is the last one, while a question is in flight; a question
\* that is stored has a number.
Pending ==
    /\ \A i \in DOMAIN transcript :
          transcript[i] = Asked => i = Len(transcript) /\ sending # None
    /\ sending # None /\ sending.into # None => sending.number > 0

TypeInv == TypeOK /\ Pending

\* Whoever was listed or selected has a question stored, so that its identifier
\* is not used again once it is deleted.
Met == {c \in Conversations : questions[c] > 0}

OnlyMet ==
    /\ exists \subseteq Met /\ conversations \subseteq Met
    /\ selected # None => selected \in Met
    /\ hydrating # None /\ hydrating.answer # Unanswered => hydrating.answer.items \subseteq Met
    /\ \A call \in BagToSet(refreshes) :
          call.kind = "conversations" /\ call.answer # Unanswered => call.answer.items \subseteq Met

\* The text of the selected conversation as long as no question changes it.
Settled == /\ selected = None => transcript = <<>>
           /\ selected \in exists => transcript = Turns(selected, questions[selected])

\* A load is the selected conversation's; undisturbed, it meets no question.
LoadInv ==
    loading # None =>
        /\ selected = loading.conversation
        /\ ~disturbed => /\ sending = None
                         /\ loading.answer >= 0 /\ selected \in exists =>
                               loading.answer = questions[selected]

\* Undisturbed, the optimistic turn follows the text the question was asked in.
SendInv ==
    ~disturbed /\ sending # None =>
        /\ selected = sending.conversation
        /\ selected \in exists /\ sending.into = None =>
              transcript = Turns(selected, questions[selected]) \o <<Asked>>
        /\ selected \in exists /\ sending.into = selected =>
              /\ sending.number = questions[selected]
              /\ transcript = Turns(selected, sending.number - 1) \o <<Asked>>

SettledInv == ~disturbed /\ sending = None /\ loading = None => Settled

TextInv == LoadInv /\ SendInv /\ SettledInv

\* Conversations of the workspace of the scope that is shown.
AtHome(S) == \A c \in S : HomeOf[c] = WorkspaceOf[scope]

\* What is in flight was started for the scope that is shown.
CallsOfScope ==
    \A call \in BagToSet(refreshes) :
        /\ call.scope = scope
        /\ call.kind = "conversations" /\ call.answer # Unanswered =>
              \A c \in call.answer.items : HomeOf[c] = WorkspaceOf[scope]

\* Before the first scope there is nothing.
ScopeInv ==
    ~crossed =>
        /\ scope = None =>
              /\ conversations = {} /\ selected = None /\ hydrating = None /\ sending = None
              /\ changing = None /\ refreshes = EmptyBag /\ ~operations
        /\ CallsOfScope
        /\ sending # None => sending.scope = scope
        /\ changing # None => changing.scope = scope
        /\ hydrating # None /\ hydrating.answer # Unanswered =>
              AtHome(hydrating.answer.items)
        /\ hydrating = None => /\ AtHome(conversations)
                               /\ selected # None => AtHome({selected})
        /\ documentsOf \in {None, scope}


-----------------------------------------------------------------------------
(* Bags of calls, answers and turns *)

LEMMA CallsAdded ==
    ASSUME NEW B, NEW S
    PROVE  BagToSet(B (+) SetToBag(S)) = BagToSet(B) \cup S
BY DEF BagToSet, SetToBag, (+)

LEMMA CallsTaken ==
    ASSUME NEW B, NEW S
    PROVE  BagToSet(B (-) SetToBag(S)) \subseteq BagToSet(B)
BY DEF BagToSet, SetToBag, (-)

LEMMA NoCalls == BagToSet(EmptyBag) = {}
BY DEF BagToSet, EmptyBag, SetToBag

LEMMA CallsTyped ==
    /\ \A s \in Scopes, searching \in BOOLEAN, c \in Conversations \cup {None}, b \in BOOLEAN :
          ConversationsCall(s, searching, c, b) \in Call
    /\ \A s \in Scopes : OperationsCall(s) \in Call
BY DEF ConversationsCall, OperationsCall, Call, Listed

LEMMA CallFields ==
    ASSUME NEW s, NEW searching, NEW c, NEW b
    PROVE  /\ ConversationsCall(s, searching, c, b).kind = "conversations"
           /\ ConversationsCall(s, searching, c, b).scope = s
           /\ ConversationsCall(s, searching, c, b).answer = Unanswered
           /\ OperationsCall(s).kind = "operations" /\ OperationsCall(s).scope = s
BY DEF ConversationsCall, OperationsCall

LEMMA ListedItems ==
    /\ Unanswered \in Listed
    /\ \A a \in Listed : a # Unanswered => a.items \subseteq Conversations
    /\ \A S \in SUBSET Conversations :
          /\ [known |-> TRUE, items |-> S] \in Listed
          /\ [known |-> TRUE, items |-> S] # Unanswered
          /\ [known |-> TRUE, items |-> S].items = S
BY DEF Listed, Unanswered

LEMMA ConversationsCalls ==
    ASSUME NEW call \in Call, call.kind = "conversations"
    PROVE  /\ call.scope \in Scopes /\ call.search \in BOOLEAN /\ call.answer \in Listed
           /\ call.preferred \in Conversations \cup {None} /\ call.change \in BOOLEAN
           /\ \A a \in Listed : /\ [call EXCEPT !.answer = a] \in Call
                                /\ [call EXCEPT !.answer = a].kind = "conversations"
                                /\ [call EXCEPT !.answer = a].scope = call.scope
                                /\ [call EXCEPT !.answer = a].answer = a
BY DEF Call

LEMMA AskedIsNoTurn == Asked \notin Turn
BY NoneIsNothing DEF Asked, Turn

LEMMA TurnsTyped ==
    ASSUME NEW c \in Conversations, NEW n \in 0 .. MaxTurns
    PROVE  /\ Turns(c, n) \in Seq(Turn) /\ Len(Turns(c, n)) = n
           /\ Turns(c, n) \in Seq(Turn \cup {Asked})
<1>1. n \in Nat /\ MaxTurns \in Nat /\ 1 .. n \subseteq 1 .. MaxTurns
  BY ChatConstants
<1>2. Turns(c, n) \in [1 .. n -> Turn]
  BY <1>1 DEF Turns, Turn
<1> QED
  BY <1>1, <1>2

\* Where the optimistic turn is the last one if anything, what is shown without it is
\* the transcript up to there.
LEMMA ShownIs ==
    ASSUME TypeInv
    PROVE  \E m \in Nat : /\ m <= Len(transcript)
                          /\ Shown = [i \in 1 .. m |-> transcript[i]]
                          /\ \A i \in 1 .. m : transcript[i] # Asked
                          /\ \A i \in (m + 1) .. Len(transcript) : transcript[i] = Asked
<1>1. transcript \in Seq(Turn \cup {Asked}) /\ Len(transcript) \in Nat
      /\ DOMAIN transcript = 1 .. Len(transcript)
  BY DEF TypeInv, TypeOK
<1>2. PICK m \in Nat : m <= Len(transcript) /\ Kept = 1 .. m
  <2>1. CASE \E i \in DOMAIN transcript : transcript[i] = Asked
    <3>1. \A i \in DOMAIN transcript : transcript[i] = Asked <=> i = Len(transcript)
      BY <2>1 DEF TypeInv, Pending
    <3>2. Kept = 1 .. (Len(transcript) - 1) /\ Len(transcript) >= 1
      BY <1>1, <2>1, <3>1 DEF Kept
    <3>3. Len(transcript) - 1 \in Nat
      BY <1>1, <3>2
    <3>4. Len(transcript) - 1 <= Len(transcript)
      BY <1>1
    <3> QED
      BY <3>2, <3>3, <3>4, Zenon
  <2>2. CASE ~ \E i \in DOMAIN transcript : transcript[i] = Asked
    <3>1. Kept = 1 .. Len(transcript)
      BY <1>1, <2>2 DEF Kept
    <3>2. Len(transcript) <= Len(transcript)
      BY <1>1
    <3> QED
      BY <1>1, <3>1, <3>2, Zenon
  <2> QED
    BY <2>1, <2>2
<1>3. Cardinality(Kept) = m
  BY <1>2, FS_Interval
<1>4. \A i \in Kept : Cardinality({j \in Kept : j <= i}) = i
  <2> SUFFICES ASSUME NEW i \in Kept PROVE Cardinality({j \in Kept : j <= i}) = i
    OBVIOUS
  <2>1. {j \in Kept : j <= i} = 1 .. i
    BY <1>2
  <2>2. i \in Int /\ 1 \in Int /\ ~(1 > i) /\ i - 1 + 1 = i
    BY <1>2
  <2>3. Cardinality(1 .. i) = IF 1 > i THEN 0 ELSE i - 1 + 1
    BY <2>2, FS_Interval
  <2> QED
    BY <2>1, <2>2, <2>3
<1>5. Shown = [i \in 1 .. m |-> transcript[i]]
  <2>1. \A n \in 1 .. m : NthKept(n) = n
    BY <1>2, <1>4 DEF NthKept
  <2> QED
    BY <1>3, <2>1 DEF Shown
<1>6. /\ \A i \in 1 .. m : transcript[i] # Asked
      /\ \A i \in (m + 1) .. Len(transcript) : transcript[i] = Asked
  BY <1>1, <1>2 DEF Kept
<1> QED
  BY <1>2, <1>5, <1>6

LEMMA ShownTyped ==
    ASSUME TypeInv
    PROVE  Shown \in Seq(Turn)
<1>1. PICK m \in Nat : /\ m <= Len(transcript)
                       /\ Shown = [i \in 1 .. m |-> transcript[i]]
                       /\ \A i \in 1 .. m : transcript[i] # Asked
  BY ShownIs
<1>2. transcript \in Seq(Turn \cup {Asked})
  BY DEF TypeInv, TypeOK
<1>3. \A i \in 1 .. m : transcript[i] \in Turn
  BY <1>1, <1>2
<1> QED
  BY <1>1, <1>3

\* The optimistic turn behind the turns of a conversation is taken out again.
LEMMA ShownTurns ==
    ASSUME TypeInv, NEW c \in Conversations, NEW n \in 0 .. MaxTurns,
           transcript = Turns(c, n) \o <<Asked>>
    PROVE  Shown = Turns(c, n)
<1>1. PICK m \in Nat : /\ m <= Len(transcript)
                       /\ Shown = [i \in 1 .. m |-> transcript[i]]
                       /\ \A i \in 1 .. m : transcript[i] # Asked
                       /\ \A i \in (m + 1) .. Len(transcript) : transcript[i] = Asked
  BY ShownIs
<1>2. Turns(c, n) \in Seq(Turn) /\ Len(Turns(c, n)) = n /\ n \in Nat
  BY TurnsTyped
<1>3. /\ Len(transcript) = n + 1 /\ transcript[n + 1] = Asked
      /\ \A i \in 1 .. n : transcript[i] = Turns(c, n)[i]
  BY <1>2
<1>4. \A i \in 1 .. n : transcript[i] # Asked
  BY <1>2, <1>3, AskedIsNoTurn
<1>5. m = n
  <2>1. ~(m > n)
    BY <1>1, <1>2, <1>3
  <2>2. ~(m < n)
    <3>1. m < n => n \in (m + 1) .. Len(transcript) /\ n \in 1 .. n
      BY <1>2, <1>3
    <3> QED
      BY <1>1, <1>4, <3>1
  <2> QED
    BY <1>2, <2>1, <2>2
<1>6. Turns(c, n) = [i \in 1 .. n |-> Turns(c, n)[i]]
  BY DEF Turns
<1>7. \A i \in 1 .. n : [j \in 1 .. n |-> transcript[j]][i] = Turns(c, n)[i]
  BY <1>3
<1> QED
  BY <1>1, <1>3, <1>5, <1>6

LEMMA TurnAfterTurns ==
    ASSUME NEW c \in Conversations, NEW n \in 1 .. MaxTurns
    PROVE  Turns(c, n - 1) \o <<[conversation |-> c, number |-> n]>> = Turns(c, n)
<1> DEFINE turn == [conversation |-> c, number |-> n]
           s    == Turns(c, n - 1) \o <<turn>>
<1>1. n - 1 \in 0 .. MaxTurns /\ n \in 0 .. MaxTurns /\ n \in Nat /\ MaxTurns \in Nat
  BY ChatConstants
<1>2. /\ Turns(c, n - 1) \in Seq(Turn) /\ Len(Turns(c, n - 1)) = n - 1
      /\ Turns(c, n) \in Seq(Turn) /\ Len(Turns(c, n)) = n
  BY <1>1, TurnsTyped
<1>3. turn \in Turn
  BY <1>1 DEF Turn
<1>4. \A i \in 1 .. (n - 1) : Turns(c, n - 1)[i] = Turns(c, n)[i]
  BY <1>1 DEF Turns
<1>5. Turns(c, n)[n] = turn
  BY <1>1 DEF Turns
<1> HIDE DEF turn
<1>6. /\ s \in Seq(Turn) /\ Len(s) = n
      /\ \A i \in 1 .. (n - 1) : s[i] = Turns(c, n - 1)[i]
      /\ s[n] = turn
  BY <1>1, <1>2, <1>3
<1> HIDE DEF s
<1>7. \A i \in 1 .. n : s[i] = Turns(c, n)[i]
  BY <1>1, <1>4, <1>5, <1>6
<1>8. s = Turns(c, n)
  BY <1>1, <1>2, <1>6, <1>7, SeqEqual
<1> QED
  BY <1>8 DEF s, turn

-----------------------------------------------------------------------------
(* Type correctness *)

LEMMA SelectTyped ==
    ASSUME TypeInv, NEW c \in Conversations \cup {None}, Select(c), sending' = sending
    PROVE  /\ selected' \in Conversations \cup {None}
           /\ transcript' \in Seq(Turn \cup {Asked}) /\ Pending'
           /\ loading' \in {None} \cup Load /\ disturbed' \in BOOLEAN
<1>1. /\ transcript \in Seq(Turn \cup {Asked}) /\ loading \in {None} \cup Load
      /\ disturbed \in BOOLEAN
  BY DEF TypeInv, TypeOK
<1>2. <<>> \in Seq(Turn \cup {Asked}) /\ DOMAIN <<>> = {}
  OBVIOUS
<1>3. CASE c = selected
  BY <1>1, <1>3 DEF Select, texts, TypeInv, Pending
<1>4. CASE c # selected
  <2>1. c # None => [conversation |-> c, answer |-> -1] \in Load
    BY ChatConstants DEF Load
  <2>2. transcript' = <<>> \/ transcript' = transcript
    BY <1>4 DEF Select
  <2>3. transcript' \in Seq(Turn \cup {Asked}) /\ Pending'
    BY <1>1, <1>2, <2>2 DEF TypeInv, Pending
  <2> QED
    BY <1>4, <2>1, <2>3 DEF Select
<1> QED
  BY <1>3, <1>4

LEMMA FoundTyped ==
    ASSUME TypeInv, NEW s, NEW searching
    PROVE  Found(s, searching) \in SUBSET Conversations
BY DEF Found, TypeInv, TypeOK

LEMMA AddedCallsTyped ==
    ASSUME TypeInv, NEW S \in SUBSET Call, refreshes' = refreshes (+) SetToBag(S)
    PROVE  BagToSet(refreshes') \subseteq Call
BY CallsAdded DEF TypeInv, TypeOK

\* Calls, a change and the panel of the documents leave lists and texts alone.
LEMMA CallsMoved ==
    ASSUME TypeInv, commands' \in 0 .. MaxCommands, BagToSet(refreshes') \subseteq Call,
           changing' \in {None} \cup Change, documentsOf' \in Scopes \cup {None},
           operations' \in BOOLEAN, search' \in BOOLEAN, hydrating' = hydrating,
           UNCHANGED <<server, scope, conversations, selected, texts, sending, crossed>>
    PROVE  TypeInv'
<1>1. Pending'
  BY DEF texts, TypeInv, Pending
<1>2. TypeOK'
  BY DEF server, texts, TypeInv, TypeOK
<1> QED
  BY <1>1, <1>2 DEF TypeInv

\* What a call or a command leaves alone keeps its type.
LEMMA KeepsType ==
    ASSUME TypeInv
    PROVE  /\ BagToSet(refreshes) \subseteq Call /\ changing \in {None} \cup Change
           /\ documentsOf \in Scopes \cup {None} /\ scope \in Scopes \cup {None}
           /\ operations \in BOOLEAN /\ search \in BOOLEAN
BY DEF TypeInv, TypeOK

LEMMA HydrateTyped ==
    ASSUME TypeInv, NEW s \in Scopes, Hydrate(s), commands' \in 0 .. MaxCommands,
           crossed' \in BOOLEAN
    PROVE  TypeInv'
<1>1. [preferred |-> selected, answer |-> Unanswered] \in Hydration
  BY ListedItems DEF Hydration, TypeInv, TypeOK
<1>2. BagToSet(refreshes') \subseteq Call
  <2>1. ConversationsCall(s, search, None, FALSE) \in Call
    BY CallsTyped DEF TypeInv, TypeOK
  <2> QED
    BY <2>1, AddedCallsTyped DEF Hydrate
<1>3. <<>> \in Seq(Turn \cup {Asked}) /\ DOMAIN <<>> = {}
  OBVIOUS
<1>4. TypeOK'
  BY <1>1, <1>2, <1>3 DEF Hydrate, TypeInv, TypeOK, server
<1> QED
  BY <1>3, <1>4 DEF Hydrate, TypeInv, Pending

LEMMA HydrationTyped ==
    ASSUME TypeInv, commands' \in 0 .. MaxCommands,
           HydrationAnswered \/ Hydrated \/ HydrationFails
    PROVE  TypeInv'
<1>1. hydrating # None =>
        /\ hydrating \in Hydration /\ hydrating.answer \in Listed
        /\ hydrating.preferred \in Conversations \cup {None}
        /\ \A a \in Listed : [hydrating EXCEPT !.answer = a] \in Hydration
  BY DEF TypeInv, TypeOK, Hydration
<1>2. CASE HydrationAnswered
  <2>1. [known |-> TRUE, items |-> Found(scope, search)] \in Listed
    BY FoundTyped, ListedItems
  <2>2. hydrating' \in Hydration
    BY <1>1, <1>2, <2>1 DEF HydrationAnswered
  <2> QED
    BY <1>2, <2>2 DEF HydrationAnswered, TypeInv, TypeOK, Pending, server, lists, texts
<1>3. CASE Hydrated
  <2>1. hydrating.answer.items \subseteq Conversations
    BY <1>1, <1>3, ListedItems DEF Hydrated
  <2>2. PICK c \in Conversations \cup {None} : Select(c)
    BY <1>1, <1>3, <2>1 DEF Hydrated
  <2>3. /\ selected' \in Conversations \cup {None}
        /\ transcript' \in Seq(Turn \cup {Asked}) /\ Pending'
        /\ loading' \in {None} \cup Load /\ disturbed' \in BOOLEAN
    BY <1>3, <2>2, SelectTyped DEF Hydrated
  <2> QED
    BY <1>3, <2>1, <2>3 DEF Hydrated, TypeInv, TypeOK, server
<1>4. CASE HydrationFails
  BY <1>4 DEF HydrationFails, TypeInv, TypeOK, Pending, server, lists, texts
<1> QED
  BY <1>2, <1>3, <1>4

LEMMA LoadsTyped ==
    ASSUME TypeInv, commands' \in 0 .. MaxCommands,
           \/ MessagesAnswered \/ MessagesLoaded \/ MessagesFail
           \/ OperationsLoaded \/ OperationsFail
    PROVE  TypeInv'
<1>1. /\ loading # None => /\ loading \in Load /\ loading.conversation \in Conversations
                           /\ loading.answer \in -1 .. MaxTurns
      /\ MaxTurns \in Nat
  BY ChatConstants DEF TypeInv, TypeOK, Load
<1>2. CASE MessagesAnswered
  <2>1. questions[loading.conversation] \in -1 .. MaxTurns
    BY <1>1, <1>2 DEF MessagesAnswered, TypeInv, TypeOK
  <2>2. loading' \in Load
    BY <1>1, <1>2, <2>1 DEF MessagesAnswered, Load
  <2> QED
    BY <1>2, <2>2 DEF MessagesAnswered, TypeInv, TypeOK, Pending, server, lists
<1>3. CASE MessagesLoaded
  <2>1. loading.conversation \in Conversations /\ loading.answer \in 0 .. MaxTurns
    BY <1>1, <1>3 DEF MessagesLoaded
  <2>2. transcript' \in Seq(Turn) /\ transcript' \in Seq(Turn \cup {Asked})
    BY <1>3, <2>1, TurnsTyped DEF MessagesLoaded
  <2>3. Pending'
    BY <1>3, <2>2, AskedIsNoTurn DEF MessagesLoaded, TypeInv, Pending
  <2> QED
    BY <1>3, <2>2, <2>3 DEF MessagesLoaded, TypeInv, TypeOK, server, lists
<1>4. CASE MessagesFail
  BY <1>4 DEF MessagesFail, TypeInv, TypeOK, Pending, server, lists
<1>5. CASE OperationsLoaded
  BY <1>5, KeepsType, CallsMoved DEF OperationsLoaded, lists
<1>6. CASE OperationsFail
  BY <1>6, KeepsType, CallsMoved DEF OperationsFail, lists
<1> QED
  BY <1>2, <1>3, <1>4, <1>5, <1>6

LEMMA RefreshesTyped ==
    ASSUME TypeInv, commands' \in 0 .. MaxCommands, NEW call \in BagToSet(refreshes),
           \/ ConversationsAnswered(call) \/ ConversationsRefreshed(call)
           \/ OperationsRefreshed(call) \/ RefreshFails(call)
    PROVE  TypeInv'
<1>1. call \in Call /\ BagToSet(refreshes) \subseteq Call
  BY DEF TypeInv, TypeOK
<1>2. BagToSet(refreshes (-) SetToBag({call})) \subseteq Call
  BY <1>1, CallsTaken
<1>3. CASE ConversationsAnswered(call)
  <2>1. [known |-> TRUE, items |-> Found(call.scope, call.search)] \in Listed
    BY FoundTyped, ListedItems
  <2>2. PICK new \in Call :
            refreshes' = (refreshes (-) SetToBag({call})) (+) SetToBag({new})
    BY <1>1, <1>3, <2>1, ConversationsCalls DEF ConversationsAnswered
  <2>3. BagToSet(refreshes') \subseteq Call
    BY <1>2, <2>2, CallsAdded
  <2> QED
    BY <1>3, <2>3, KeepsType, CallsMoved DEF ConversationsAnswered, lists
<1>4. CASE ConversationsRefreshed(call)
  <2>1. call.answer.items \subseteq Conversations /\ call.preferred \in Conversations \cup {None}
    BY <1>1, <1>4, ConversationsCalls, ListedItems DEF ConversationsRefreshed
  <2>2. PICK c \in Conversations \cup {None} : Select(c)
    BY <1>4, <2>1 DEF ConversationsRefreshed
  <2>3. /\ selected' \in Conversations \cup {None}
        /\ transcript' \in Seq(Turn \cup {Asked}) /\ Pending'
        /\ loading' \in {None} \cup Load /\ disturbed' \in BOOLEAN
    BY <1>4, <2>2, SelectTyped DEF ConversationsRefreshed
  <2>4. BagToSet(refreshes') \subseteq Call /\ changing' \in {None} \cup Change
    BY <1>2, <1>4 DEF ConversationsRefreshed, TypeInv, TypeOK
  <2> QED
    BY <1>4, <2>1, <2>3, <2>4 DEF ConversationsRefreshed, TypeInv, TypeOK, server
<1>5. CASE OperationsRefreshed(call)
  <2>1. call.scope \in Scopes
    BY <1>1 DEF Call
  <2> QED
    BY <1>2, <1>5, <2>1, KeepsType, CallsMoved DEF OperationsRefreshed, lists
<1>6. CASE RefreshFails(call)
  BY <1>2, <1>6, KeepsType, CallsMoved DEF RefreshFails, lists
<1> QED
  BY <1>3, <1>4, <1>5, <1>6

LEMMA CommandsTyped ==
    ASSUME TypeInv, commands' \in 0 .. MaxCommands, RefreshWorkspace \/ SearchConversations
    PROVE  TypeInv'
<1>1. CASE RefreshWorkspace
  <2>1. ConversationsCall(scope, search, None, FALSE) \in Call /\ OperationsCall(scope) \in Call
    BY <1>1, CallsTyped DEF RefreshWorkspace, TypeInv, TypeOK
  <2>2. BagToSet(refreshes') \subseteq Call
    BY <1>1, <2>1, AddedCallsTyped DEF RefreshWorkspace
  <2> QED
    BY <1>1, <2>2, KeepsType, CallsMoved DEF RefreshWorkspace, lists
<1>2. CASE SearchConversations
  <2>1. search' \in BOOLEAN
    BY <1>2 DEF SearchConversations
  <2>2. ConversationsCall(scope, search', None, FALSE) \in Call
    BY <1>2, <2>1, CallsTyped DEF SearchConversations, TypeInv, TypeOK
  <2>3. BagToSet(refreshes') \subseteq Call
    BY <1>2, <2>2, AddedCallsTyped DEF SearchConversations
  <2> QED
    BY <1>2, <2>1, <2>3, KeepsType, CallsMoved DEF SearchConversations
<1> QED
  BY <1>1, <1>2

\* A question's fields, and what storing it makes of them.
LEMMA QuestionFields ==
    ASSUME TypeInv, sending # None
    PROVE  /\ sending \in Question /\ sending.scope \in Scopes /\ sending.search \in BOOLEAN
           /\ sending.conversation \in Conversations \cup {None}
           /\ sending.into \in Conversations \cup {None} /\ sending.number \in 0 .. MaxTurns
           /\ \A c \in Conversations, n \in 0 .. MaxTurns :
                 LET stored == [sending EXCEPT !.into = c, !.number = n]
                 IN  /\ stored \in Question /\ stored.into = c /\ stored.number = n
                     /\ stored.conversation = sending.conversation
                     /\ stored.scope = sending.scope
BY DEF TypeInv, TypeOK, Question

LEMMA Storing ==
    ASSUME TypeInv, NEW c \in Conversations, QuestionStored(c)
    PROVE  /\ questions[c] \in Nat /\ questions[c] + 1 \in 0 .. MaxTurns
           /\ questions' \in [Conversations -> 0 .. MaxTurns]
           /\ questions' = [questions EXCEPT ![c] = questions[c] + 1]
           /\ sending' \in Question /\ sending'.into = c /\ sending'.number = questions[c] + 1
           /\ sending'.conversation = sending.conversation /\ sending'.scope = sending.scope
<1>1. questions[c] \in 0 .. MaxTurns /\ MaxTurns \in Nat
  BY ChatConstants DEF TypeInv, TypeOK
<1>2. questions[c] \in Nat /\ questions[c] + 1 \in 0 .. MaxTurns
  BY <1>1 DEF QuestionStored
<1>3. questions' = [questions EXCEPT ![c] = questions[c] + 1]
  BY DEF QuestionStored
<1>4. questions' \in [Conversations -> 0 .. MaxTurns] /\ questions'[c] = questions[c] + 1
  BY <1>2, <1>3 DEF TypeInv, TypeOK
<1>5. sending # None /\ sending' = [sending EXCEPT !.into = c, !.number = questions[c] + 1]
  BY <1>4 DEF QuestionStored
<1> QED
  BY <1>2, <1>3, <1>4, <1>5, QuestionFields

LEMMA QuestionsTyped ==
    ASSUME TypeInv, commands' \in 0 .. MaxCommands,
           \/ SendQuestion \/ (\E c \in Conversations : QuestionStored(c))
           \/ QuestionAnswered \/ QuestionFails
    PROVE  TypeInv'
<1>1. CASE SendQuestion
  <2> DEFINE before == IF selected = None THEN <<>> ELSE transcript
  <2>1. scope \in Scopes /\ sending = None
    BY <1>1 DEF SendQuestion, Busy, TypeInv, TypeOK
  <2>2. sending' \in Question
    BY <1>1, <2>1, ChatConstants DEF SendQuestion, Question, TypeInv, TypeOK
  <2>3. before \in Seq(Turn \cup {Asked}) /\ \A i \in DOMAIN before : before[i] # Asked
    BY <2>1 DEF TypeInv, TypeOK, Pending
  <2>4. transcript' = before \o <<Asked>>
    BY <1>1 DEF SendQuestion
  <2> HIDE DEF before
  <2>5. /\ transcript' \in Seq(Turn \cup {Asked}) /\ Len(transcript') = Len(before) + 1
        /\ \A i \in 1 .. Len(before) : transcript'[i] = before[i]
    BY <2>3, <2>4
  <2>6. Pending'
    <3>1. \A i \in DOMAIN transcript' : i = Len(transcript') \/ i \in 1 .. Len(before)
      BY <2>3, <2>5
    <3>2. sending' # None /\ sending'.into = None
      BY <1>1, <2>2, NoneIsNothing DEF SendQuestion
    <3> QED
      BY <2>3, <2>5, <3>1, <3>2 DEF Pending
  <2> QED
    BY <1>1, <2>2, <2>5, <2>6 DEF SendQuestion, TypeInv, TypeOK, server, lists
<1>2. ASSUME NEW c \in Conversations, QuestionStored(c)
      PROVE  TypeInv'
  <2>1. questions' \in [Conversations -> 0 .. MaxTurns] /\ sending' \in Question
    BY <1>2, Storing
  <2>2. exists' \subseteq Conversations
    BY <1>2 DEF QuestionStored, TypeInv, TypeOK
  <2>3. sending' # None /\ sending'.number > 0
    BY <1>2, <2>1, Storing, NoneIsNothing
  <2> QED
    BY <1>2, <2>1, <2>2, <2>3 DEF QuestionStored, TypeInv, TypeOK, Pending, lists, texts
<1>3. CASE QuestionAnswered
  <2>1. sending # None /\ sending.into \in Conversations /\ sending.into # None
    BY <1>3, QuestionFields DEF QuestionAnswered
  <2>2. sending.number \in 1 .. MaxTurns
    <3>1. sending.number \in 0 .. MaxTurns
      BY <2>1, QuestionFields
    <3>2. sending.number > 0
      BY <2>1 DEF TypeInv, Pending
    <3> QED
      BY <3>1, <3>2, ChatConstants
  <2>3. [conversation |-> sending.into, number |-> sending.number] \in Turn
    BY <2>1, <2>2 DEF Turn
  <2>4. PICK before \in Seq(Turn), turn \in Turn : transcript' = before \o <<turn>>
    <3>1. Shown \in Seq(Turn) /\ <<>> \in Seq(Turn)
      BY ShownTyped
    <3> QED
      BY <1>3, <2>3, <3>1 DEF QuestionAnswered
  <2>5. transcript' \in Seq(Turn) /\ transcript' \in Seq(Turn \cup {Asked})
    BY <2>4
  <2>6. sending' = None /\ Pending'
    BY <1>3, <2>5, AskedIsNoTurn DEF QuestionAnswered, Pending
  <2>7. /\ ConversationsCall(sending.scope, sending.search, sending.into, FALSE) \in Call
        /\ OperationsCall(sending.scope) \in Call
    BY <2>1, QuestionFields, CallsTyped
  <2>8. BagToSet(refreshes') \subseteq Call
    BY <1>3, <2>7, AddedCallsTyped DEF QuestionAnswered
  <2> QED
    BY <1>3, <2>1, <2>5, <2>6, <2>8 DEF QuestionAnswered, TypeInv, TypeOK, server, lists
<1>4. CASE QuestionFails
  <2>1. Shown \in Seq(Turn) /\ Shown \in Seq(Turn \cup {Asked})
    BY ShownTyped
  <2>2. Pending'
    BY <1>4, <2>1, AskedIsNoTurn DEF QuestionFails, Pending
  <2> QED
    BY <1>4, <2>1, <2>2 DEF QuestionFails, TypeInv, TypeOK, server, lists
<1> QED
  BY <1>1, <1>2, <1>3, <1>4

LEMMA ListTyped ==
    ASSUME TypeInv, commands' \in 0 .. MaxCommands,
           \/ CreateConversation \/ ConversationDeleted \/ TitleSaved \/ ChangeFails
           \/ \E c \in Conversations :
                 SelectConversation(c) \/ \E kind \in {"rename", "delete"} : ChangeConversation(kind, c)
    PROVE  TypeInv'
<1>1. <<>> \in Seq(Turn \cup {Asked}) /\ DOMAIN <<>> = {}
  OBVIOUS
<1>2. changing # None =>
        /\ changing \in Change /\ changing.scope \in Scopes /\ changing.search \in BOOLEAN
        /\ changing.conversation \in Conversations
        /\ [changing EXCEPT !.refreshing = TRUE] \in Change
  BY DEF TypeInv, TypeOK, Change
<1>3. CASE CreateConversation
  BY <1>1, <1>3 DEF CreateConversation, TypeInv, TypeOK, Pending, server
<1>4. ASSUME NEW c \in Conversations, SelectConversation(c)
      PROVE  TypeInv'
  <2>1. /\ selected' \in Conversations \cup {None}
        /\ transcript' \in Seq(Turn \cup {Asked}) /\ Pending'
        /\ loading' \in {None} \cup Load /\ disturbed' \in BOOLEAN
    BY <1>4, SelectTyped DEF SelectConversation
  <2> QED
    BY <1>4, <2>1 DEF SelectConversation, TypeInv, TypeOK, server
<1>5. ASSUME NEW c \in Conversations, NEW kind \in {"rename", "delete"}, ChangeConversation(kind, c)
      PROVE  TypeInv'
  <2>1. scope \in Scopes
    BY <1>5 DEF ChangeConversation, Busy, TypeInv, TypeOK
  <2>2. changing' \in Change
    BY <1>5, <2>1 DEF ChangeConversation, Change, TypeInv, TypeOK
  <2> QED
    BY <1>5, <2>2, KeepsType, CallsMoved DEF ChangeConversation, lists
<1>6. CASE TitleSaved
  <2>1. ConversationsCall(changing.scope, changing.search, changing.conversation, TRUE) \in Call
    BY <1>2, <1>6, CallsTyped DEF TitleSaved
  <2>2. BagToSet(refreshes') \subseteq Call /\ changing' \in Change
    BY <1>2, <1>6, <2>1, AddedCallsTyped DEF TitleSaved
  <2> QED
    BY <1>6, <2>2, KeepsType, CallsMoved DEF TitleSaved, lists
<1>7. CASE ConversationDeleted
  <2>1. ConversationsCall(changing.scope, changing.search, None, TRUE) \in Call
    BY <1>2, <1>7, CallsTyped DEF ConversationDeleted
  <2>2. BagToSet(refreshes') \subseteq Call /\ changing' \in Change
    BY <1>2, <1>7, <2>1, AddedCallsTyped DEF ConversationDeleted
  <2>3. /\ selected' \in Conversations \cup {None}
        /\ transcript' \in Seq(Turn \cup {Asked}) /\ Pending'
        /\ loading' \in {None} \cup Load /\ disturbed' \in BOOLEAN
    BY <1>1, <1>7 DEF ConversationDeleted, TypeInv, TypeOK, Pending, texts
  <2> QED
    BY <1>7, <2>2, <2>3 DEF ConversationDeleted, TypeInv, TypeOK
<1>8. CASE ChangeFails
  BY <1>8, KeepsType, CallsMoved DEF ChangeFails, lists
<1> QED
  BY <1>3, <1>4, <1>5, <1>6, <1>7, <1>8

\* Every field stays within its set; the optimistic turn is the last one and a stored
\* question has a number.
THEOREM TypeInvariant == Spec => []TypeInv
<1>1. Init => TypeInv
  <2> SUFFICES ASSUME Init PROVE TypeInv
    OBVIOUS
  <2>1. <<>> \in Seq(Turn \cup {Asked}) /\ DOMAIN <<>> = {}
    OBVIOUS
  <2>2. questions \in [Conversations -> 0 .. MaxTurns]
    <3>1. 0 \in 0 .. MaxTurns /\ 1 \in 0 .. MaxTurns
      BY ChatConstants
    <3> QED
      BY <3>1 DEF Init
  <2>3. transcript = <<>> /\ transcript \in Seq(Turn \cup {Asked}) /\ DOMAIN transcript = {}
    BY <2>1 DEF Init
  <2>4. 0 \in 0 .. MaxCommands /\ Existing \subseteq Conversations
    BY ChatConstants
  <2>5. TypeOK
    BY <2>2, <2>3, <2>4, NoCalls DEF Init, TypeOK
  <2> QED
    BY <2>3, <2>5 DEF Init, TypeInv, Pending
<1>2. TypeInv /\ [Next]_vars => TypeInv'
  <2> SUFFICES ASSUME TypeInv, [Next]_vars PROVE TypeInv'
    OBVIOUS
  <2>1. CASE UNCHANGED vars
    BY <2>1 DEF vars, TypeInv, TypeOK, Pending
  <2>2. CASE Next
    <3>1. commands' \in 0 .. MaxCommands
      BY <2>2, ChatConstants DEF Next, TypeInv, TypeOK
    <3>2. ASSUME NEW s \in Scopes, Bootstrap(s) \/ SwitchScope(s)
          PROVE  TypeInv'
      <4>1. Hydrate(s) /\ crossed' \in BOOLEAN
        BY <3>2 DEF Bootstrap, SwitchScope, TypeInv, TypeOK
      <4> QED
        BY <3>1, <4>1, HydrateTyped
    <3>3. CASE Answers
      BY <3>1, <3>3, HydrationTyped, LoadsTyped, RefreshesTyped, QuestionsTyped, ListTyped
         DEF Answers
    <3>4. CASE Failures
      BY <3>1, <3>4, HydrationTyped, LoadsTyped, RefreshesTyped, QuestionsTyped, ListTyped
         DEF Failures
    <3>5. CASE Operator
      BY <3>1, <3>2, <3>5, CommandsTyped, QuestionsTyped, ListTyped DEF Operator
    <3> QED
      BY <2>2, <3>2, <3>3, <3>4, <3>5 DEF Next
  <2> QED
    BY <2>1, <2>2
<1> QED
  BY <1>1, <1>2, PTL DEF Spec

\* Every field of the page and of its requests stays within its set.
THEOREM TypeCorrect == Spec => []TypeOK
<1>1. TypeInv => TypeOK
  BY DEF TypeInv
<1> QED
  BY <1>1, TypeInvariant, PTL

-----------------------------------------------------------------------------
(* What is shown belongs to the scope *)

LEMMA FoundAtHome == \A searching : AtHome(Found(scope, searching))
BY DEF Found, AtHome

LEMMA HydrateScope ==
    ASSUME TypeInv, ScopeInv, NEW s \in Scopes, Bootstrap(s) \/ SwitchScope(s)
    PROVE  ScopeInv'
<1> SUFFICES ASSUME ~crossed' PROVE ScopeInv'
  BY DEF ScopeInv
<1>1. ~crossed /\ sending = None /\ changing = None /\ refreshes = EmptyBag
  <2>1. CASE Bootstrap(s)
    BY <2>1 DEF Bootstrap, ScopeInv
  <2>2. CASE SwitchScope(s)
    <3>1. ~(crossed \/ sending # None \/ refreshes # EmptyBag)
      BY <2>2, Zenon DEF SwitchScope
    <3> QED
      BY <2>2, <3>1 DEF SwitchScope, Busy
  <2> QED
    BY <2>1, <2>2
<1>2. Hydrate(s) /\ scope' = s /\ s # None
  BY NoneIsNothing DEF Bootstrap, SwitchScope, Hydrate
<1>3. BagToSet(refreshes') = {ConversationsCall(s, search, None, FALSE)}
  <2>1. refreshes' = EmptyBag (+) SetToBag({ConversationsCall(s, search, None, FALSE)})
    BY <1>1, <1>2 DEF Hydrate
  <2> QED
    BY <2>1, CallsAdded, NoCalls
<1>4. hydrating' # None /\ hydrating'.answer = Unanswered
  <2>1. [preferred |-> selected, answer |-> Unanswered] \in Hydration
    BY ListedItems DEF Hydration, TypeInv, TypeOK
  <2> QED
    BY <1>2, <2>1, NoneIsNothing DEF Hydrate
<1>5. documentsOf' = None /\ sending' = None /\ changing' = None
  BY <1>1, <1>2 DEF Hydrate
<1>6. CallsOfScope'
  BY <1>2, <1>3 DEF CallsOfScope, ConversationsCall
<1> QED
  BY <1>2, <1>4, <1>5, <1>6 DEF ScopeInv

\* A selection from conversations of the scope leaves nothing else selected.
LEMMA SelectAtHome ==
    ASSUME NEW c, Select(c), scope' = scope, c # None => AtHome({c})
    PROVE  selected' # None => AtHome({selected})'
BY DEF Select, AtHome

LEMMA HydrationScope ==
    ASSUME TypeInv, ScopeInv, HydrationAnswered \/ Hydrated \/ HydrationFails
    PROVE  ScopeInv'
<1> SUFFICES ASSUME ~crossed' PROVE ScopeInv'
  BY DEF ScopeInv
<1>1. ~crossed /\ scope # None /\ hydrating # None /\ scope' = scope /\ refreshes' = refreshes
      /\ sending' = sending /\ changing' = changing /\ documentsOf' = documentsOf
      /\ hydrating.answer \in Listed
      /\ \A a \in Listed : /\ [hydrating EXCEPT !.answer = a] \in Hydration
                           /\ [hydrating EXCEPT !.answer = a].answer = a
  BY DEF HydrationAnswered, Hydrated, HydrationFails, ScopeInv, TypeInv, TypeOK, Hydration
<1>2. CASE HydrationAnswered
  <2>1. [known |-> TRUE, items |-> Found(scope, search)] \in Listed
    BY FoundTyped, ListedItems
  <2>2. hydrating' # None /\ hydrating'.answer.items = Found(scope, search)
    <3>1. PICK answer \in Listed : /\ hydrating' = [hydrating EXCEPT !.answer = answer]
                                  /\ answer.items = Found(scope, search)
      BY <1>2, <2>1, FoundTyped, ListedItems DEF HydrationAnswered
    <3> QED
      BY <1>1, <3>1, NoneIsNothing
  <2>3. AtHome(hydrating.answer.items)'
    BY <1>1, <2>2, FoundAtHome DEF AtHome
  <2> QED
    BY <1>1, <2>2, <2>3 DEF ScopeInv, CallsOfScope, AtHome
<1>3. CASE Hydrated
  <2>1. AtHome(hydrating.answer.items)
    BY <1>1, <1>3 DEF Hydrated, ScopeInv
  <2>2. PICK c \in hydrating.answer.items \cup {None} : Select(c)
    BY <1>3 DEF Hydrated
  <2>3. selected' # None => AtHome({selected})'
    BY <1>1, <2>1, <2>2, SelectAtHome DEF AtHome
  <2>4. AtHome(conversations)'
    BY <1>1, <1>3, <2>1 DEF Hydrated, AtHome
  <2> QED
    BY <1>1, <1>3, <2>3, <2>4 DEF Hydrated, ScopeInv, CallsOfScope, AtHome
<1>4. CASE HydrationFails
  BY <1>4 DEF HydrationFails
<1> QED
  BY <1>2, <1>3, <1>4

LEMMA RefreshScope ==
    ASSUME TypeInv, ScopeInv, NEW call \in BagToSet(refreshes),
           \/ ConversationsAnswered(call) \/ ConversationsRefreshed(call)
           \/ OperationsRefreshed(call) \/ RefreshFails(call)
    PROVE  ScopeInv'
<1> SUFFICES ASSUME ~crossed' PROVE ScopeInv'
  BY DEF ScopeInv
<1>1. /\ ~crossed /\ scope' = scope /\ hydrating' = hydrating /\ sending' = sending
      /\ changing' \in {None, changing} /\ call \in Call
  BY DEF ConversationsAnswered, ConversationsRefreshed, OperationsRefreshed, RefreshFails,
         TypeInv, TypeOK
<1>2. /\ call.scope = scope /\ scope # None
      /\ call.kind = "conversations" /\ call.answer # Unanswered => AtHome(call.answer.items)
  <2>1. CallsOfScope /\ (scope = None => refreshes = EmptyBag)
    BY <1>1 DEF ScopeInv
  <2> QED
    BY <2>1, NoCalls DEF CallsOfScope, AtHome
<1>3. BagToSet(refreshes (-) SetToBag({call})) \subseteq BagToSet(refreshes)
  BY CallsTaken
<1>4. CASE ConversationsAnswered(call)
  <2> DEFINE answer == [known |-> TRUE, items |-> Found(call.scope, call.search)]
  <2>1. answer \in Listed /\ answer.items = Found(scope, call.search)
    BY <1>1, <1>2, FoundTyped, ListedItems
  <2>2. PICK new : /\ refreshes' = (refreshes (-) SetToBag({call})) (+) SetToBag({new})
                   /\ new = [call EXCEPT !.answer = answer]
    BY <1>4 DEF ConversationsAnswered
  <2> HIDE DEF answer
  <2>3. new.scope = scope /\ new.answer = answer
    BY <1>1, <1>2, <1>4, <2>1, <2>2, ConversationsCalls DEF ConversationsAnswered
  <2>4. AtHome(new.answer.items)
    BY <2>1, <2>3, FoundAtHome
  <2>5. BagToSet(refreshes') \subseteq BagToSet(refreshes) \cup {new}
    BY <1>3, <2>2, CallsAdded
  <2> QED
    BY <1>1, <1>2, <1>4, <2>3, <2>4, <2>5 DEF ConversationsAnswered, ScopeInv, CallsOfScope, AtHome, lists
<1>5. CASE ConversationsRefreshed(call)
  <2>1. AtHome(call.answer.items)
    BY <1>1, <1>2, <1>5 DEF ConversationsRefreshed
  <2>2. PICK c \in call.answer.items \cup {None} : Select(c)
    BY <1>5 DEF ConversationsRefreshed
  <2>3. selected' # None => AtHome({selected})'
    BY <1>1, <1>2, <2>1, <2>2, SelectAtHome DEF AtHome
  <2>4. AtHome(conversations)'
    BY <1>1, <1>2, <1>5, <2>1 DEF ConversationsRefreshed, AtHome
  <2>5. CallsOfScope'
    BY <1>1, <1>3, <1>5 DEF ConversationsRefreshed, ScopeInv, CallsOfScope
  <2>6. hydrating # None /\ hydrating.answer # Unanswered => AtHome(hydrating.answer.items)'
    BY <1>1 DEF ScopeInv, AtHome
  <2> QED
    BY <1>1, <1>2, <1>5, <2>3, <2>4, <2>5, <2>6 DEF ConversationsRefreshed, ScopeInv
<1>6. CASE OperationsRefreshed(call)
  BY <1>1, <1>2, <1>3, <1>6 DEF OperationsRefreshed, ScopeInv, CallsOfScope, AtHome, lists
<1>7. CASE RefreshFails(call)
  BY <1>1, <1>2, <1>3, <1>7 DEF RefreshFails, ScopeInv, CallsOfScope, AtHome, lists
<1> QED
  BY <1>4, <1>5, <1>6, <1>7

\* Calls that are started for the scope that is shown keep what was so.
LEMMA CallsStarted ==
    ASSUME ScopeInv, ~crossed, NEW S, refreshes' = refreshes (+) SetToBag(S), scope' = scope,
           \A call \in S : call.scope = scope /\ (call.kind = "conversations" => call.answer = Unanswered)
    PROVE  CallsOfScope'
BY CallsAdded DEF ScopeInv, CallsOfScope

LEMMA CommandsScope ==
    ASSUME TypeInv, ScopeInv, RefreshWorkspace \/ SearchConversations
    PROVE  ScopeInv'
<1> SUFFICES ASSUME ~crossed' PROVE ScopeInv'
  BY DEF ScopeInv
<1>1. ~crossed /\ scope # None /\ scope' = scope
  BY DEF RefreshWorkspace, SearchConversations
<1>2. CASE RefreshWorkspace
  <2>1. CallsOfScope'
    <3>1. PICK S : /\ S = {ConversationsCall(scope, search, None, FALSE), OperationsCall(scope)}
                   /\ refreshes' = refreshes (+) SetToBag(S)
      BY <1>2 DEF RefreshWorkspace
    <3>2. \A call \in S : call.scope = scope /\ (call.kind = "conversations" => call.answer = Unanswered)
      BY <3>1 DEF ConversationsCall, OperationsCall
    <3> QED
      BY <1>1, <3>1, <3>2, CallsStarted
  <2> QED
    BY <1>1, <1>2, <2>1 DEF RefreshWorkspace, ScopeInv, CallsOfScope, AtHome, lists
<1>3. CASE SearchConversations
  <2>1. CallsOfScope'
    <3>1. PICK S : /\ S = {ConversationsCall(scope, search', None, FALSE)}
                   /\ refreshes' = refreshes (+) SetToBag(S)
      BY <1>3 DEF SearchConversations
    <3>2. \A call \in S : call.scope = scope /\ (call.kind = "conversations" => call.answer = Unanswered)
      BY <3>1 DEF ConversationsCall, OperationsCall
    <3> QED
      BY <1>1, <3>1, <3>2, CallsStarted
  <2> QED
    BY <1>1, <1>3, <2>1 DEF SearchConversations, ScopeInv, CallsOfScope, AtHome
<1> QED
  BY <1>2, <1>3

LEMMA LoadsScope ==
    ASSUME TypeInv, ScopeInv,
           \/ MessagesAnswered \/ MessagesLoaded \/ MessagesFail
           \/ OperationsLoaded \/ OperationsFail
    PROVE  ScopeInv'
BY DEF MessagesAnswered, MessagesLoaded, MessagesFail, OperationsLoaded, OperationsFail,
       ScopeInv, CallsOfScope, AtHome, lists

LEMMA QuestionsScope ==
    ASSUME TypeInv, ScopeInv,
           \/ SendQuestion \/ (\E c \in Conversations : QuestionStored(c))
           \/ QuestionAnswered \/ QuestionFails
    PROVE  ScopeInv'
<1> SUFFICES ASSUME ~crossed' PROVE ScopeInv'
  BY DEF ScopeInv
<1>1. ~crossed /\ scope' = scope /\ scope # None
  <2>1. crossed' = crossed /\ scope' = scope
    BY DEF SendQuestion, QuestionStored, QuestionAnswered, QuestionFails
  <2>2. scope # None \/ sending # None
    BY DEF SendQuestion, QuestionStored, QuestionAnswered, QuestionFails, Busy
  <2> QED
    BY <2>1, <2>2 DEF ScopeInv
<1>2. CASE SendQuestion
  BY <1>1, <1>2 DEF SendQuestion, ScopeInv, CallsOfScope, AtHome, lists
<1>3. ASSUME NEW c \in Conversations, QuestionStored(c)
      PROVE  ScopeInv'
  <2>1. sending # None /\ sending'.scope = sending.scope
    BY <1>3, Storing DEF QuestionStored
  <2> QED
    BY <1>1, <1>3, <2>1 DEF QuestionStored, ScopeInv, CallsOfScope, AtHome, lists
<1>4. CASE QuestionAnswered
  <2>1. sending.scope = scope
    BY <1>1, <1>4 DEF QuestionAnswered, ScopeInv
  <2>2. CallsOfScope'
    <3>1. PICK S : /\ S = {ConversationsCall(sending.scope, sending.search, sending.into, FALSE),
                           OperationsCall(sending.scope)}
                   /\ refreshes' = refreshes (+) SetToBag(S)
      BY <1>4 DEF QuestionAnswered
    <3>2. \A call \in S : call.scope = scope /\ (call.kind = "conversations" => call.answer = Unanswered)
      BY <2>1, <3>1 DEF ConversationsCall, OperationsCall
    <3> QED
      BY <1>1, <3>1, <3>2, CallsStarted
  <2> QED
    BY <1>1, <1>4, <2>2 DEF QuestionAnswered, ScopeInv, CallsOfScope, AtHome, lists
<1>5. CASE QuestionFails
  BY <1>1, <1>5 DEF QuestionFails, ScopeInv, CallsOfScope, AtHome, lists
<1> QED
  BY <1>2, <1>3, <1>4, <1>5

LEMMA ListScope ==
    ASSUME TypeInv, ScopeInv,
           \/ CreateConversation \/ ConversationDeleted \/ TitleSaved \/ ChangeFails
           \/ \E c \in Conversations :
                 SelectConversation(c) \/ \E kind \in {"rename", "delete"} : ChangeConversation(kind, c)
    PROVE  ScopeInv'
<1> SUFFICES ASSUME ~crossed' PROVE ScopeInv'
  BY DEF ScopeInv
<1>1. ~crossed /\ scope' = scope
  BY DEF CreateConversation, ConversationDeleted, TitleSaved, ChangeFails, SelectConversation,
         ChangeConversation
<1>2. CASE CreateConversation
  BY <1>1, <1>2 DEF CreateConversation, ScopeInv, CallsOfScope, AtHome
<1>3. ASSUME NEW c \in Conversations, SelectConversation(c)
      PROVE  ScopeInv'
  <2>1. c \in conversations /\ scope # None
    BY <1>1, <1>3 DEF SelectConversation, ScopeInv
  <2>2. selected' = c
    BY <1>3 DEF SelectConversation, Select
  <2> QED
    BY <1>1, <1>3, <2>1, <2>2 DEF SelectConversation, ScopeInv, CallsOfScope, AtHome
<1>4. ASSUME NEW c \in Conversations, NEW kind \in {"rename", "delete"}, ChangeConversation(kind, c)
      PROVE  ScopeInv'
  BY <1>1, <1>4 DEF ChangeConversation, Busy, ScopeInv, CallsOfScope, AtHome, lists
<1>5. ASSUME TitleSaved \/ ConversationDeleted
      PROVE  ScopeInv'
  <2>1. changing # None /\ changing.scope = scope /\ scope # None
    BY <1>1, <1>5 DEF TitleSaved, ConversationDeleted, ScopeInv
  <2>2. changing'.scope = changing.scope
    BY <1>5, <2>1 DEF TitleSaved, ConversationDeleted, TypeInv, TypeOK, Change
  <2>3. CallsOfScope'
    <3>1. PICK c, S : /\ S = {ConversationsCall(changing.scope, changing.search, c, TRUE)}
                      /\ refreshes' = refreshes (+) SetToBag(S)
      BY <1>5 DEF TitleSaved, ConversationDeleted
    <3>2. \A call \in S : call.scope = scope /\ (call.kind = "conversations" => call.answer = Unanswered)
      BY <2>1, <3>1 DEF ConversationsCall, OperationsCall
    <3> QED
      BY <1>1, <3>1, <3>2, CallsStarted
  <2>4. selected' \in {None, selected}
    BY <1>5 DEF TitleSaved, ConversationDeleted, lists
  <2> QED
    BY <1>1, <1>5, <2>1, <2>2, <2>3, <2>4
       DEF TitleSaved, ConversationDeleted, ScopeInv, CallsOfScope, AtHome, lists
<1>6. CASE ChangeFails
  BY <1>1, <1>6 DEF ChangeFails, ScopeInv, CallsOfScope, AtHome, lists
<1> QED
  BY <1>2, <1>3, <1>4, <1>5, <1>6

\* What is listed, selected and shown belongs to the scope in the header, as long as the
\* scope is not switched over a question or a refresh, and no list of a new scope fails to load.
THEOREM ShownIsOfTheScope == Spec => []ScopeIsShown
<1>1. Init => ScopeInv
  BY NoCalls DEF Init, ScopeInv, CallsOfScope, AtHome
<1>2. TypeInv /\ ScopeInv /\ [Next]_vars => ScopeInv'
  <2> SUFFICES ASSUME TypeInv, ScopeInv, [Next]_vars PROVE ScopeInv'
    OBVIOUS
  <2>1. CASE UNCHANGED vars
    BY <2>1 DEF vars, ScopeInv, CallsOfScope, AtHome
  <2>2. CASE Next
    BY <2>2, HydrateScope, HydrationScope, RefreshScope, CommandsScope, LoadsScope,
       QuestionsScope, ListScope DEF Next, Answers, Failures, Operator
  <2> QED
    BY <2>1, <2>2
<1>3. ScopeInv => ScopeIsShown
  BY DEF ScopeInv, ScopeIsShown, AtHome
<1> QED
  BY <1>1, <1>2, <1>3, TypeInvariant, PTL DEF Spec

-----------------------------------------------------------------------------
(* The transcript of a quiet page *)

LEMMA MetStays ==
    ASSUME TypeInv, OnlyMet, questions' = questions
    PROVE  /\ Met' = Met /\ \A s, searching : Found(s, searching) \subseteq Met
BY DEF Met, OnlyMet, Found

LEMMA SelectText ==
    ASSUME TypeInv, TextInv, NEW c \in Conversations \cup {None}, Select(c),
           exists' = exists, questions' = questions, sending' = sending
    PROVE  TextInv'
<1>1. CASE c = selected
  BY <1>1 DEF Select, texts, TextInv, LoadInv, SendInv, SettledInv, Settled, Turns
<1>2. CASE c # selected
  <2>1. /\ selected' = c /\ (~disturbed' => sending = None)
        /\ c = None => loading' = None /\ transcript' = <<>>
        /\ c # None => /\ loading' = [conversation |-> c, answer |-> -1]
                       /\ loading'.conversation = c /\ loading'.answer = -1
    <3>1. disturbed' = (sending # None)
      BY <1>2 DEF Select
    <3>2. ~disturbed' => sending = None
      BY <3>1, Zenon
    <3> QED
      BY <1>2, <3>2 DEF Select
  <2>2. None \notin exists
    BY NoneIsNothing DEF TypeInv, TypeOK
  <2>3. SendInv'
    BY <2>1 DEF SendInv
  <2>4. LoadInv'
    BY <2>1 DEF LoadInv
  <2>5. SettledInv'
    <3> SUFFICES ASSUME loading' = None PROVE Settled'
      BY DEF SettledInv
    <3>1. c # None => loading' \in Load
      BY <2>1, ChatConstants DEF Load
    <3> QED
      BY <2>1, <2>2, <3>1, NoneIsNothing DEF Settled
  <2> QED
    BY <2>3, <2>4, <2>5 DEF TextInv
<1> QED
  BY <1>1, <1>2

\* The page lets go of the selected conversation.
LEMMA ClearedText ==
    ASSUME TypeInv, selected' = None, transcript' = <<>>, loading' = None,
           disturbed' = (sending # None), sending' = sending, exists' \subseteq exists
    PROVE  TextInv'
<1>1. None \notin exists' /\ (~disturbed' => sending' = None)
  BY NoneIsNothing DEF TypeInv, TypeOK
<1> QED
  BY <1>1 DEF TextInv, LoadInv, SendInv, SettledInv, Settled

LEMMA HydrationText ==
    ASSUME TypeInv, OnlyMet, TextInv,
           \/ HydrationAnswered \/ Hydrated \/ HydrationFails
           \/ \E s \in Scopes : Bootstrap(s) \/ SwitchScope(s)
    PROVE  OnlyMet' /\ TextInv'
<1>1. /\ exists' = exists /\ questions' = questions /\ sending' = sending
      /\ hydrating # None =>
            /\ hydrating.answer \in Listed
            /\ \A a \in Listed : [hydrating EXCEPT !.answer = a].answer = a
  BY DEF HydrationAnswered, Hydrated, HydrationFails, Bootstrap, SwitchScope, Hydrate, server,
         TypeInv, TypeOK, Hydration
<1>2. Met' = Met /\ \A s, searching : Found(s, searching) \subseteq Met
  BY <1>1, MetStays
<1>3. CASE HydrationAnswered
  <2>1. [known |-> TRUE, items |-> Found(scope, search)] \in Listed
    BY FoundTyped, ListedItems
  <2>2. hydrating'.answer.items = Found(scope, search)
    <3>1. PICK answer \in Listed : /\ hydrating' = [hydrating EXCEPT !.answer = answer]
                                  /\ answer.items = Found(scope, search)
      BY <1>3, <2>1, FoundTyped, ListedItems DEF HydrationAnswered
    <3> QED
      BY <1>1, <1>3, <3>1 DEF HydrationAnswered
  <2>3. OnlyMet'
    BY <1>2, <1>3, <2>2 DEF HydrationAnswered, OnlyMet, server, lists
  <2>4. TextInv'
    BY <1>3 DEF HydrationAnswered, TextInv, LoadInv, SendInv, SettledInv, Settled, Turns,
                server, lists, texts
  <2> QED
    BY <2>3, <2>4
<1>4. CASE Hydrated
  <2>1. hydrating.answer.items \subseteq Met
    BY <1>4 DEF Hydrated, OnlyMet
  <2>2. PICK c \in hydrating.answer.items \cup {None} : Select(c)
    BY <1>4 DEF Hydrated
  <2>3. c \in Conversations \cup {None} /\ selected' = c
    BY <2>1, <2>2 DEF Met, Select
  <2>4. OnlyMet'
    BY <1>1, <1>2, <1>4, <2>1, <2>2, <2>3 DEF Hydrated, OnlyMet
  <2> QED
    BY <1>1, <2>2, <2>3, <2>4, SelectText
<1>5. CASE HydrationFails
  BY <1>2, <1>5 DEF HydrationFails, OnlyMet, TextInv, LoadInv, SendInv, SettledInv, Settled, Turns,
                    server, lists, texts
<1>6. ASSUME NEW s \in Scopes, Hydrate(s)
      PROVE  OnlyMet' /\ TextInv'
  <2>1. TextInv'
    BY <1>1, <1>6, ClearedText DEF Hydrate
  <2>2. hydrating'.answer = Unanswered
    BY <1>6 DEF Hydrate
  <2>3. BagToSet(refreshes') = BagToSet(refreshes) \cup {ConversationsCall(s, search, None, FALSE)}
    BY <1>6, CallsAdded DEF Hydrate
  <2>4. \A call \in BagToSet(refreshes') :
           call.kind = "conversations" /\ call.answer # Unanswered => call \in BagToSet(refreshes)
    BY <2>3 DEF ConversationsCall
  <2>5. OnlyMet'
    BY <1>1, <1>2, <1>6, <2>2, <2>4 DEF Hydrate, OnlyMet
  <2> QED
    BY <2>1, <2>5
<1> QED
  BY <1>3, <1>4, <1>5, <1>6 DEF Bootstrap, SwitchScope

\* Calls that are started are not answered yet.
LEMMA CallsMet ==
    ASSUME OnlyMet, NEW S, refreshes' = refreshes (+) SetToBag(S), Met \subseteq Met',
           \A call \in S : call.kind = "conversations" => call.answer = Unanswered
    PROVE  \A call \in BagToSet(refreshes') :
              call.kind = "conversations" /\ call.answer # Unanswered => call.answer.items \subseteq Met'
BY CallsAdded DEF OnlyMet

LEMMA RefreshText ==
    ASSUME TypeInv, OnlyMet, TextInv, NEW call \in BagToSet(refreshes),
           \/ ConversationsAnswered(call) \/ ConversationsRefreshed(call)
           \/ OperationsRefreshed(call) \/ RefreshFails(call)
    PROVE  OnlyMet' /\ TextInv'
<1>1. /\ exists' = exists /\ questions' = questions /\ sending' = sending
      /\ hydrating' = hydrating /\ call \in Call
      /\ call.kind = "conversations" /\ call.answer # Unanswered => call.answer.items \subseteq Met
  BY DEF ConversationsAnswered, ConversationsRefreshed, OperationsRefreshed, RefreshFails,
         server, OnlyMet, TypeInv, TypeOK
<1>2. Met' = Met /\ \A s, searching : Found(s, searching) \subseteq Met
  BY <1>1, MetStays
<1>3. BagToSet(refreshes (-) SetToBag({call})) \subseteq BagToSet(refreshes)
  BY CallsTaken
<1>4. CASE ConversationsAnswered(call)
  <2> DEFINE answer == [known |-> TRUE, items |-> Found(call.scope, call.search)]
  <2>1. answer \in Listed /\ answer.items \subseteq Met
    BY <1>2, FoundTyped, ListedItems
  <2>2. PICK new : /\ refreshes' = (refreshes (-) SetToBag({call})) (+) SetToBag({new})
                   /\ new = [call EXCEPT !.answer = answer]
    BY <1>4 DEF ConversationsAnswered
  <2> HIDE DEF answer
  <2>3. new.answer = answer
    BY <1>1, <1>4, <2>1, <2>2, ConversationsCalls DEF ConversationsAnswered
  <2>4. BagToSet(refreshes') \subseteq BagToSet(refreshes) \cup {new}
    BY <1>3, <2>2, CallsAdded
  <2>5. OnlyMet'
    BY <1>1, <1>2, <1>4, <2>1, <2>3, <2>4 DEF ConversationsAnswered, OnlyMet, lists
  <2>6. TextInv'
    BY <1>4 DEF ConversationsAnswered, TextInv, LoadInv, SendInv, SettledInv, Settled, Turns,
                server, lists, texts
  <2> QED
    BY <2>5, <2>6
<1>5. CASE ConversationsRefreshed(call)
  <2>1. call.answer.items \subseteq Met
    BY <1>1, <1>5 DEF ConversationsRefreshed
  <2>2. PICK c \in call.answer.items \cup {None} : Select(c)
    BY <1>5 DEF ConversationsRefreshed
  <2>3. c \in Conversations \cup {None} /\ selected' = c
    BY <2>1, <2>2 DEF Met, Select
  <2>4. OnlyMet'
    BY <1>1, <1>2, <1>3, <1>5, <2>1, <2>2, <2>3 DEF ConversationsRefreshed, OnlyMet
  <2> QED
    BY <1>1, <2>2, <2>3, <2>4, SelectText
<1>6. CASE OperationsRefreshed(call)
  BY <1>2, <1>3, <1>6 DEF OperationsRefreshed, OnlyMet, TextInv, LoadInv, SendInv, SettledInv,
                          Settled, Turns, server, lists, texts
<1>7. CASE RefreshFails(call)
  BY <1>2, <1>3, <1>7 DEF RefreshFails, OnlyMet, TextInv, LoadInv, SendInv, SettledInv, Settled,
                          Turns, server, lists, texts
<1> QED
  BY <1>4, <1>5, <1>6, <1>7

LEMMA CommandsText ==
    ASSUME TypeInv, OnlyMet, TextInv, RefreshWorkspace \/ SearchConversations
    PROVE  OnlyMet' /\ TextInv'
<1>1. TextInv' /\ Met' = Met
  BY MetStays DEF RefreshWorkspace, SearchConversations, TextInv, LoadInv, SendInv, SettledInv,
         Settled, Turns, server, lists, texts
<1>2. PICK S : /\ refreshes' = refreshes (+) SetToBag(S)
               /\ \/ \E searching : S = {ConversationsCall(scope, searching, None, FALSE)}
                  \/ S = {ConversationsCall(scope, search, None, FALSE), OperationsCall(scope)}
  BY DEF RefreshWorkspace, SearchConversations
<1>3. \A call \in S : call.kind = "conversations" => call.answer = Unanswered
  BY <1>2 DEF ConversationsCall, OperationsCall
<1>4. \A call \in BagToSet(refreshes') :
          call.kind = "conversations" /\ call.answer # Unanswered => call.answer.items \subseteq Met'
  BY <1>1, <1>2, <1>3, CallsMet
<1>5. OnlyMet'
  BY <1>1, <1>4 DEF RefreshWorkspace, SearchConversations, OnlyMet, server, lists
<1> QED
  BY <1>1, <1>5

LEMMA LoadsText ==
    ASSUME TypeInv, OnlyMet, TextInv,
           \/ MessagesAnswered \/ MessagesLoaded \/ MessagesFail
           \/ OperationsLoaded \/ OperationsFail
    PROVE  OnlyMet' /\ TextInv'
<1>1. /\ exists' = exists /\ questions' = questions /\ sending' = sending /\ selected' = selected
      /\ loading # None => /\ loading \in Load /\ loading.conversation \in Conversations
                           /\ loading.conversation # None
  BY NoneIsNothing DEF MessagesAnswered, MessagesLoaded, MessagesFail, OperationsLoaded,
         OperationsFail, server, lists, TypeInv, TypeOK, Load
<1>2. OnlyMet'
  BY MetStays DEF MessagesAnswered, MessagesLoaded, MessagesFail, OperationsLoaded,
         OperationsFail, OnlyMet, server, lists
<1>3. CASE MessagesAnswered
  <2>1. questions[loading.conversation] \in -1 .. MaxTurns
    <3>1. questions[loading.conversation] \in 0 .. MaxTurns
      BY <1>1, <1>3 DEF MessagesAnswered, TypeInv, TypeOK
    <3> QED
      BY <3>1, ChatConstants
  <2>2. loading' # None /\ loading'.conversation = loading.conversation
        /\ loading'.answer = questions[loading.conversation]
    BY <1>1, <1>3, <2>1, NoneIsNothing DEF MessagesAnswered, Load
  <2>3. LoadInv'
    BY <1>1, <1>3, <2>2 DEF MessagesAnswered, TextInv, LoadInv
  <2> QED
    BY <1>1, <1>2, <1>3, <2>2, <2>3 DEF MessagesAnswered, TextInv, SendInv, SettledInv, Settled,
                                        Turns
<1>4. CASE MessagesLoaded
  <2>1. loading' = None /\ (~disturbed' => ~disturbed /\ sending = None)
    <3>1. disturbed' = (disturbed \/ sending # None)
      BY <1>4 DEF MessagesLoaded
    <3>2. ~disturbed' => ~disturbed /\ sending = None
      BY <3>1, Zenon
    <3> QED
      BY <1>4, <3>2 DEF MessagesLoaded
  <2>2. selected = loading.conversation /\ selected # None
    BY <1>1, <1>4 DEF MessagesLoaded, TextInv, LoadInv
  <2>3. ~disturbed' /\ selected \in exists => transcript' = Turns(selected, questions[selected])
    BY <1>4, <2>1, <2>2 DEF MessagesLoaded, TextInv, LoadInv
  <2>4. SettledInv'
    BY <1>1, <2>2, <2>3 DEF SettledInv, Settled, Turns
  <2> QED
    BY <1>1, <1>2, <2>1, <2>4 DEF TextInv, LoadInv, SendInv
<1>5. CASE MessagesFail
  BY <1>2, <1>5 DEF MessagesFail, TextInv, LoadInv, SendInv, SettledInv
<1>6. CASE OperationsLoaded \/ OperationsFail
  BY <1>2, <1>6 DEF OperationsLoaded, OperationsFail, TextInv, LoadInv, SendInv, SettledInv,
                    Settled, Turns, server, lists, texts
<1> QED
  BY <1>3, <1>4, <1>5, <1>6

LEMMA SendText ==
    ASSUME TypeInv, OnlyMet, TextInv, SendQuestion
    PROVE  OnlyMet' /\ TextInv'
<1>1. /\ exists' = exists /\ questions' = questions /\ selected' = selected
      /\ loading' = loading /\ sending = None /\ selected \in Conversations \cup {None}
  BY DEF SendQuestion, server, lists, TypeInv, TypeOK
<1>2. /\ sending'.conversation = selected /\ sending'.into = None
      /\ None \notin exists
  BY NoneIsNothing DEF SendQuestion, TypeInv, TypeOK
<1>3. ~disturbed' => ~disturbed /\ loading = None
  <2>1. disturbed' = (disturbed \/ loading # None)
    BY DEF SendQuestion
  <2> QED
    BY <2>1, Zenon
<1>4. OnlyMet'
  BY MetStays DEF SendQuestion, OnlyMet, server, lists
<1>5. ~disturbed' /\ selected \in exists => transcript' = Turns(selected, questions[selected]) \o <<Asked>>
  BY <1>1, <1>2, <1>3 DEF SendQuestion, TextInv, SettledInv, Settled
<1>6. SendInv'
  BY <1>1, <1>2, <1>5 DEF SendInv, Turns
<1>7. LoadInv'
  BY <1>1, <1>3 DEF TextInv, LoadInv
<1>8. SettledInv'
  <2>1. sending' # None
    <3>1. sending' \in Question
      BY ChatConstants DEF SendQuestion, Question, Busy, TypeInv, TypeOK
    <3> QED
      BY <3>1, NoneIsNothing
  <2> QED
    BY <2>1 DEF SettledInv
<1> QED
  BY <1>4, <1>6, <1>7, <1>8 DEF TextInv

LEMMA StoredText ==
    ASSUME TypeInv, OnlyMet, TextInv, NEW c \in Conversations, QuestionStored(c)
    PROVE  OnlyMet' /\ TextInv'
<1>1. /\ questions[c] \in Nat /\ questions' \in [Conversations -> 0 .. MaxTurns]
      /\ questions' = [questions EXCEPT ![c] = questions[c] + 1]
      /\ questions \in [Conversations -> 0 .. MaxTurns]
      /\ sending' \in Question /\ sending'.into = c /\ sending'.number = questions[c] + 1
      /\ sending'.conversation = sending.conversation
  BY Storing DEF TypeInv, TypeOK
<1>2. sending # None /\ sending' # None /\ sending.into = None /\ exists' = exists \cup {c}
      /\ selected' = selected /\ loading' = loading /\ disturbed' = disturbed
      /\ transcript' = transcript
  BY <1>1, NoneIsNothing DEF QuestionStored, lists, texts
<1>3. Met \cup {c} \subseteq Met'
  <2>1. questions'[c] > 0 /\ \A d \in Conversations \ {c} : questions'[d] = questions[d]
    BY <1>1
  <2> QED
    BY <2>1 DEF Met
<1>4. OnlyMet'
  BY <1>2, <1>3 DEF QuestionStored, OnlyMet, lists
<1>5. SendInv'
  <2> SUFFICES ASSUME ~disturbed PROVE SendInv'
    BY <1>2 DEF SendInv
  <2>1. selected = sending.conversation
        /\ (selected \in exists => transcript = Turns(selected, questions[selected]) \o <<Asked>>)
    BY <1>2 DEF TextInv, SendInv
  <2>2. CASE c = sending.conversation /\ c \in exists
    <3>1. sending'.number - 1 = questions[c] /\ questions'[c] = sending'.number
      BY <1>1
    <3>2. transcript' = Turns(selected, sending'.number - 1) \o <<Asked>>
      BY <1>2, <2>1, <2>2, <3>1
    <3> QED
      BY <1>1, <1>2, <2>1, <2>2, <3>1, <3>2, NoneIsNothing DEF SendInv, Turns
  <2>3. CASE sending.conversation \notin exists /\ questions[c] = 0
    <3>1. selected # c
      BY <2>3, NoneIsNothing DEF OnlyMet, Met
    <3> QED
      BY <1>1, <1>2, <2>1, <2>3, <3>1 DEF SendInv
  <2> QED
    BY <2>2, <2>3 DEF QuestionStored
<1>6. LoadInv' /\ SettledInv'
  BY <1>2 DEF TextInv, LoadInv, SettledInv
<1> QED
  BY <1>4, <1>5, <1>6 DEF TextInv

LEMMA AnsweredText ==
    ASSUME TypeInv, OnlyMet, TextInv, QuestionAnswered
    PROVE  OnlyMet' /\ TextInv'
<1>1. /\ exists' = exists /\ questions' = questions /\ selected' = selected
      /\ loading' = loading /\ sending # None /\ sending' = None /\ sending.into # None
      /\ sending.into \in Conversations
      /\ hydrating' = hydrating /\ conversations' = conversations
  BY QuestionFields DEF QuestionAnswered, server, lists
<1>2. ~disturbed' => ~disturbed /\ loading = None /\ sending.into = selected
  <2>1. disturbed' = (disturbed \/ loading # None \/ sending.into # selected)
    BY DEF QuestionAnswered
  <2> QED
    BY <2>1, Zenon
<1>3. sending.number \in 1 .. MaxTurns
  <2>1. sending.number \in 0 .. MaxTurns
    BY <1>1, QuestionFields
  <2>2. sending.number > 0
    BY <1>1 DEF TypeInv, Pending
  <2> QED
    BY <2>1, <2>2, ChatConstants
<1>4. SettledInv'
  <2> SUFFICES ASSUME ~disturbed' PROVE Settled'
    BY DEF SettledInv
  <2> DEFINE n == sending.number
  <2>1. ~disturbed /\ selected \in Conversations /\ selected # None
        /\ selected = sending.into /\ selected = sending.conversation
    BY <1>1, <1>2 DEF TextInv, SendInv
  <2>2. ASSUME selected \in exists
        PROVE  transcript' = Turns(selected, questions[selected])
    <3>1. n = questions[selected] /\ transcript = Turns(selected, n - 1) \o <<Asked>>
      BY <1>1, <2>1, <2>2 DEF TextInv, SendInv
    <3>2. n - 1 \in 0 .. MaxTurns
      BY <1>3, ChatConstants
    <3>3. Shown = Turns(selected, n - 1)
      BY <2>1, <3>1, <3>2, ShownTurns
    <3>4. transcript' = Shown \o <<[conversation |-> selected, number |-> n]>>
      BY <2>1 DEF QuestionAnswered
    <3> QED
      BY <1>3, <2>1, <3>1, <3>3, <3>4, TurnAfterTurns
  <2> QED
    BY <1>1, <2>1, <2>2 DEF Settled, Turns
<1>5. LoadInv' /\ SendInv'
  BY <1>1, <1>2 DEF TextInv, LoadInv, SendInv
<1>6. OnlyMet'
  <2>1. PICK S : /\ refreshes' = refreshes (+) SetToBag(S)
                 /\ S = {ConversationsCall(sending.scope, sending.search, sending.into, FALSE),
                         OperationsCall(sending.scope)}
    BY DEF QuestionAnswered
  <2>2. \A call \in S : call.kind = "conversations" => call.answer = Unanswered
    BY <2>1 DEF ConversationsCall, OperationsCall
  <2>3. Met' = Met
    BY <1>1, MetStays
  <2>4. \A call \in BagToSet(refreshes') :
           call.kind = "conversations" /\ call.answer # Unanswered => call.answer.items \subseteq Met'
    BY <2>1, <2>2, <2>3, CallsMet
  <2> QED
    BY <1>1, <2>3, <2>4 DEF OnlyMet
<1> QED
  BY <1>4, <1>5, <1>6 DEF TextInv

LEMMA QuestionFailsText ==
    ASSUME TypeInv, OnlyMet, TextInv, QuestionFails
    PROVE  OnlyMet' /\ TextInv'
<1>1. OnlyMet'
  BY MetStays DEF QuestionFails, OnlyMet, server, lists
<1>2. TextInv'
  BY DEF QuestionFails, TextInv, LoadInv, SendInv, SettledInv, lists
<1> QED
  BY <1>1, <1>2

LEMMA ListText ==
    ASSUME TypeInv, OnlyMet, TextInv,
           \/ CreateConversation \/ ConversationDeleted \/ TitleSaved \/ ChangeFails
           \/ \E c \in Conversations :
                 SelectConversation(c) \/ \E kind \in {"rename", "delete"} : ChangeConversation(kind, c)
    PROVE  OnlyMet' /\ TextInv'
<1>1. CASE CreateConversation
  <2>1. TextInv'
    BY <1>1, ClearedText DEF CreateConversation, server
  <2>2. OnlyMet'
    BY <1>1, MetStays DEF CreateConversation, OnlyMet, server
  <2> QED
    BY <2>1, <2>2
<1>2. ASSUME NEW c \in Conversations, SelectConversation(c)
      PROVE  OnlyMet' /\ TextInv'
  <2>1. Select(c) /\ exists' = exists /\ questions' = questions /\ sending' = sending
        /\ c \in conversations
    BY <1>2 DEF SelectConversation, server
  <2>2. TextInv'
    BY <2>1, SelectText
  <2>3. selected' = c /\ Met' = Met
    BY <2>1, MetStays DEF Select
  <2>4. OnlyMet'
    BY <1>2, <2>1, <2>3 DEF SelectConversation, OnlyMet
  <2> QED
    BY <2>2, <2>4
<1>3. ASSUME NEW c \in Conversations, NEW kind \in {"rename", "delete"}, ChangeConversation(kind, c)
      PROVE  OnlyMet' /\ TextInv'
  BY <1>3, MetStays DEF ChangeConversation, OnlyMet, TextInv, LoadInv, SendInv, SettledInv, Settled,
                        Turns, server, lists, texts
<1>4. ASSUME TitleSaved \/ ConversationDeleted
      PROVE  OnlyMet' /\ TextInv'
  <2>1. /\ questions' = questions /\ exists' \subseteq exists /\ sending' = sending
        /\ hydrating' = hydrating /\ conversations' = conversations
        /\ selected' \in {None, selected}
    BY <1>4 DEF TitleSaved, ConversationDeleted, server, lists
  <2>2. PICK c, S : /\ refreshes' = refreshes (+) SetToBag(S)
                    /\ S = {ConversationsCall(changing.scope, changing.search, c, TRUE)}
    BY <1>4 DEF TitleSaved, ConversationDeleted
  <2>3. \A call \in S : call.kind = "conversations" => call.answer = Unanswered
    BY <2>2 DEF ConversationsCall
  <2>4. Met' = Met
    BY <2>1, MetStays
  <2>5. \A call \in BagToSet(refreshes') :
           call.kind = "conversations" /\ call.answer # Unanswered => call.answer.items \subseteq Met'
    BY <2>2, <2>3, <2>4, CallsMet
  <2>6. OnlyMet'
    BY <2>1, <2>4, <2>5 DEF OnlyMet
  <2>7. CASE UNCHANGED <<selected, texts>>
    <3>1. /\ selected' = selected /\ transcript' = transcript /\ loading' = loading
          /\ disturbed' = disturbed /\ (selected \in exists' => selected \in exists)
      BY <2>1, <2>7 DEF texts
    <3>2. LoadInv'
      BY <2>1, <3>1 DEF TextInv, LoadInv
    <3>3. SendInv'
      BY <2>1, <3>1 DEF TextInv, SendInv, Turns
    <3>4. SettledInv'
      BY <2>1, <3>1 DEF TextInv, SettledInv, Settled, Turns
    <3> QED
      BY <2>6, <3>2, <3>3, <3>4 DEF TextInv
  <2>8. CASE selected' = None /\ transcript' = <<>> /\ loading' = None /\ disturbed' = (sending # None)
    BY <2>1, <2>6, <2>8, ClearedText
  <2> QED
    BY <1>4, <2>7, <2>8 DEF TitleSaved, ConversationDeleted, lists
<1>5. CASE ChangeFails
  BY <1>5, MetStays DEF ChangeFails, OnlyMet, TextInv, LoadInv, SendInv, SettledInv, Settled, Turns,
                        server, lists, texts
<1> QED
  BY <1>1, <1>2, <1>3, <1>4, <1>5

\* Once nothing is in flight the transcript is the stored text of the selected conversation,
\* although it is put together from loads, the optimistic turn and appended answers, unless
\* one of the events "disturbed" names happened since it was selected.
THEOREM TranscriptIsStored == Spec => []TranscriptMatches
<1>1. Init => OnlyMet /\ TextInv
  <2> SUFFICES ASSUME Init PROVE OnlyMet /\ TextInv
    OBVIOUS
  <2>1. OnlyMet
    BY NoCalls, ChatConstants DEF Init, OnlyMet, Met
  <2>2. None \notin exists
    BY NoneIsNothing, ChatConstants DEF Init
  <2> QED
    BY <2>1, <2>2 DEF Init, TextInv, LoadInv, SendInv, SettledInv, Settled
<1>2. TypeInv /\ OnlyMet /\ TextInv /\ [Next]_vars => OnlyMet' /\ TextInv'
  <2> SUFFICES ASSUME TypeInv, OnlyMet, TextInv, [Next]_vars PROVE OnlyMet' /\ TextInv'
    OBVIOUS
  <2>1. CASE UNCHANGED vars
    BY <2>1, MetStays DEF vars, OnlyMet, TextInv, LoadInv, SendInv, SettledInv, Settled, Turns
  <2>2. CASE Next
    BY <2>2, HydrationText, RefreshText, CommandsText, LoadsText, SendText, StoredText,
       AnsweredText, QuestionFailsText, ListText DEF Next, Answers, Failures, Operator
  <2> QED
    BY <2>1, <2>2
<1>3. OnlyMet /\ TextInv => TranscriptMatches
  BY DEF TextInv, SettledInv, Settled, TranscriptMatches, Quiet
<1> QED
  BY <1>1, <1>2, <1>3, TypeInvariant, PTL DEF Spec

=============================================================================
