--------------------------- MODULE BrowserSession ---------------------------
(***************************************************************************)
(* The session of the web console: one browser, its tabs, the storage they *)
(* share and the cookie that every request carries.  A tab restores, shows *)
(* and drops its session on its own, from answers that may be older than   *)
(* what another tab (or the same tab) has stored since.                    *)
(*                                                                         *)
(* Code: apps/web/lib/auth/provider.tsx, lib/local-session.ts,             *)
(* lib/authenticated-api.ts, lib/auth/access.ts and the callers of signIn, *)
(* signOut and refreshSession.                                             *)
(***************************************************************************)
EXTENDS Integers, FiniteSets

CONSTANTS
    Tabs,           \* tabs of one browser
    Users,          \* members of the directory
    AccountsOf,     \* the accounts each of them may have in this instance
    Usable,         \* the account every member starts with
    MaxSignIns,     \* bound: sessions the server issues
    SignsIn,        \* bound: who may sign in for each of them
    Ends,           \* bound: how each of them may end
    Late,           \* bound: tabs whose effects may run long after their page was rendered
    MaxRefreshes,   \* bound: refreshSession calls the tabs have in flight
    None            \* null

Roles == {"super_admin", "operator", "reviewer"}
MembershipStatus == {"active", "invited", "suspended"}
Account == [active: BOOLEAN, role: Roles, memberships: SUBSET MembershipStatus]
SessionIds == 1 .. MaxSignIns
Slots == 1 .. MaxRefreshes

ASSUME SessionConstants ==
    /\ MaxSignIns \in Nat
    /\ MaxRefreshes \in Nat \ {0}
    /\ AccountsOf \in [Users -> SUBSET Account]
    /\ \A u \in Users : Usable \in AccountsOf[u]
    /\ SignsIn \in [SessionIds -> SUBSET Users]
    /\ Ends \in [SessionIds -> SUBSET {"expires", "is_revoked"}]
    /\ Late \subseteq Tabs
    /\ None \notin Users

VARIABLES
    account,     \* the directory: the account of every user
    cookie,      \* the server session the HttpOnly cookie names, 0 for none
    owner,       \* whose session it is
    revoked,     \* whether it was revoked
    expired,     \* server sessions whose expires_at is in the past
    stored,      \* localStorage[AUTH_STORAGE_KEY]
    open, ready, \* tabs that exist; isReady of AuthProvider
    listening,   \* AuthProvider's listeners were registered (in a late tab; others: Listens)
    session,     \* session of AuthProvider, one per tab
    refreshes,   \* calls of refreshSession, of all tabs, that wait for an answer
    pending,     \* a storage event is on its way to the tab
    refused,     \* history: a request of the tab was refused since it last set its session
    missed,      \* history: a storage event came to the tab, ready but not yet listening,
                 \* since it last set its session
    overlapped   \* history: a tab signed in while it was refreshing a former session

server  == <<account, cookie, owner, revoked, expired>>
storage == <<stored, pending>>
shown   == <<session, refused, missed>>
vars == <<account, cookie, owner, revoked, expired, stored, open, ready, listening,
          session, refreshes, pending, refused, missed, overlapped>>

\* AuthSession.  The sid stands for sessionExpiresAt; nothing but null is ever assigned to
\* sessionToken.
Session == [sid: SessionIds, user: Users, token: {None}]
Refresh == [tab: Tabs, initial: BOOLEAN, step: {"user", "permissions"}, parsed: Session,
            user: Users \cup {None}]
Idle == [step |-> "idle"]

TypeOK ==
    /\ account \in [Users -> Account] /\ \A u \in Users : account[u] \in AccountsOf[u]
    /\ cookie \in 0 .. MaxSignIns
    /\ owner \in Users \cup {None}
    /\ revoked \in BOOLEAN /\ expired \subseteq SessionIds
    /\ stored \in Session \cup {None}
    /\ open \in [Tabs -> BOOLEAN] /\ ready \in [Tabs -> BOOLEAN]
    /\ listening \in [Tabs -> BOOLEAN]
    /\ session \in [Tabs -> Session \cup {None}]
    /\ refreshes \in [Slots -> Refresh \cup {Idle}]
    /\ pending \in [Tabs -> BOOLEAN]
    /\ refused \in [Tabs -> BOOLEAN] /\ missed \in [Tabs -> BOOLEAN]
    /\ overlapped \in BOOLEAN

Init ==
    /\ account = [u \in Users |-> Usable]
    /\ cookie = 0 /\ owner = None /\ revoked = FALSE /\ expired = {}
    /\ stored = None
    /\ open = [t \in Tabs |-> FALSE] /\ ready = [t \in Tabs |-> FALSE]
    /\ listening = [t \in Tabs |-> FALSE]
    /\ session = [t \in Tabs |-> None]
    /\ refreshes = [i \in Slots |-> Idle]
    /\ pending = [t \in Tabs |-> FALSE]
    /\ refused = [t \in Tabs |-> FALSE] /\ missed = [t \in Tabs |-> FALSE]
    /\ overlapped = FALSE

(***************************************************************************)
(* Pure parts                                                              *)
(***************************************************************************)

MembershipAccessState(memberships) ==
    IF memberships = {} THEN "bootstrap"
    ELSE IF "active" \in memberships THEN "ready" ELSE "blocked"

CanUseDirectorySession(a) ==
    LET state == MembershipAccessState(a.memberships) IN
    \/ state = "ready"
    \/ state = "bootstrap" /\ a.role = "super_admin"

\* The tab's listeners for focus and storage events are registered.
Listens(t) == ready[t] /\ (t \in Late => listening[t])

StoredSessionExpired == stored # None /\ stored.sid \in expired

\* The server accepts the cookie.
Authenticated == cookie # 0 /\ ~revoked /\ cookie \notin expired

(***************************************************************************)
(* Storage                                                                 *)
(***************************************************************************)

\* Mutant: the session is kept where other tabs do not learn of it (sessionStorage).
StoreQuietly(t, s, waiting) ==
    /\ stored' = s
    /\ pending' = waiting

\* A change of the stored session is announced to every other tab.  "waiting" is "pending"
\* before the change.  The exit reason, which is stored beside it for the login page to show
\* and remove, makes no difference but further events, that is, what Focus does.
Store(t, s, waiting) ==
    /\ stored' = s
    /\ pending' = [u \in Tabs |-> \/ waiting[u]
                                  \/ u # t /\ open[u] /\ s # stored]

ShowSession(t, s) ==
    /\ session' = [session EXCEPT ![t] = s]
    /\ refused' = [refused EXCEPT ![t] = FALSE]
    /\ missed' = [missed EXCEPT ![t] = FALSE]

(***************************************************************************)
(* refreshSession                                                          *)
(***************************************************************************)

Belongs(call, t) == call # Idle /\ call.tab = t

\* The calls "calls" and a new one, in the first free slot, that read s from the storage.
Added(calls, t, initial, s) ==
    LET free == {i \in Slots : calls[i] = Idle}
        i == CHOOSE i \in free : \A j \in free : i <= j
    IN  [calls EXCEPT ![i] = [tab |-> t, initial |-> initial, step |-> "user", parsed |-> s,
                              user |-> None]]

Room(calls) == \E i \in Slots : calls[i] = Idle

\* The first, synchronous part: it ends at once, or asks who the user is.  "calls" are the
\* calls in flight, "waiting" the storage events.
BeginRefresh(t, initial, calls, waiting) ==
    \/ /\ stored = None
       /\ Store(t, None, waiting)
       /\ ShowSession(t, None)
       /\ refreshes' = calls
       /\ ready' = [ready EXCEPT ![t] = @ \/ initial]
    \/ /\ StoredSessionExpired
       /\ Store(t, None, waiting)
       /\ ShowSession(t, None)
       /\ refreshes' = calls
       /\ ready' = [ready EXCEPT ![t] = @ \/ initial]
    \/ /\ stored # None /\ ~StoredSessionExpired
       /\ Room(calls)
       /\ Store(t, stored, waiting)
       /\ IF initial THEN ShowSession(t, None) ELSE UNCHANGED shown
       /\ refreshes' = Added(calls, t, initial, stored)
       /\ ready' = [ready EXCEPT ![t] = @ /\ ~initial]

\* Mutant: a restored tab becomes ready only if there is a session.
EndRefreshUnready(i, s) ==
    LET t == refreshes[i].tab IN
    /\ Store(t, s, pending)
    /\ ShowSession(t, s)
    /\ refreshes' = [refreshes EXCEPT ![i] = Idle]
    /\ ready' = [ready EXCEPT ![t] = @ \/ (refreshes[i].initial /\ s # None)]
    /\ UNCHANGED <<open, listening, overlapped>>

\* The end of a call that waited: the session and the storage are set together.
EndRefresh(i, s) ==
    LET t == refreshes[i].tab IN
    /\ Store(t, s, pending)
    /\ ShowSession(t, s)
    /\ refreshes' = [refreshes EXCEPT ![i] = Idle]
    /\ ready' = [ready EXCEPT ![t] = @ \/ refreshes[i].initial]
    /\ UNCHANGED <<open, listening, overlapped>>

InFlight(i, step) == refreshes[i] # Idle /\ refreshes[i].step = step

\* GET /users/me names a member whose account may have a session.
DirectoryUserKnown(i) ==
    /\ InFlight(i, "user")
    /\ Authenticated
    /\ LET u == owner IN
         /\ account[u].active /\ CanUseDirectorySession(account[u])
         /\ refreshes' = [refreshes EXCEPT ![i].step = "permissions", ![i].user = u]
    /\ UNCHANGED <<server, storage, open, ready, listening, shown, overlapped>>

\* The member's account does not allow a session any more.
DirectoryUserUnusable(i) ==
    /\ InFlight(i, "user")
    /\ Authenticated
    /\ LET a == account[owner] IN ~(a.active /\ CanUseDirectorySession(a))
    /\ EndRefresh(i, None)
    /\ UNCHANGED server

\* 401.
DirectoryUserRefused(i) ==
    /\ InFlight(i, "user")
    /\ ~Authenticated
    /\ EndRefresh(i, None)
    /\ UNCHANGED server

\* Any other failure of the request drops the session as well.
DirectoryUserFails(i) ==
    /\ InFlight(i, "user")
    /\ EndRefresh(i, None)
    /\ UNCHANGED server

\* Mutant: only the permissions are refreshed, the member stays as parsed.
RefreshedPermissions(call) == [call.parsed EXCEPT !.token = None]

\* What refreshSession makes of the stored session it read and the answers it got since.
RefreshedSession(call) == [call.parsed EXCEPT !.user = call.user, !.token = None]

\* GET /users/me/permissions answers, or fails with a message that is no exit reason: then
\* the stored permissions are kept.
PermissionsKnown(i) ==
    /\ InFlight(i, "permissions")
    /\ EndRefresh(i, RefreshedSession(refreshes[i]))
    /\ UNCHANGED server

PermissionsRefused(i) ==
    /\ InFlight(i, "permissions")
    /\ ~Authenticated
    /\ EndRefresh(i, None)
    /\ UNCHANGED server

(***************************************************************************)
(* The callers of refreshSession, signIn and signOut                       *)
(***************************************************************************)

\* A tab is opened or reloaded: restoreSession.  What the page had in flight is gone.
OpenTab(t) ==
    /\ open' = [open EXCEPT ![t] = TRUE]
    /\ listening' = [listening EXCEPT ![t] = FALSE]
    /\ BeginRefresh(t, TRUE, [i \in Slots |-> IF Belongs(refreshes[i], t) THEN Idle ELSE refreshes[i]],
                    [pending EXCEPT ![t] = FALSE])
    /\ UNCHANGED <<server, overlapped>>

\* The two effects that depend on isReady run, some time after it was set.
Listen(t) ==
    /\ ready[t] /\ ~Listens(t)
    /\ listening' = [listening EXCEPT ![t] = TRUE]
    /\ UNCHANGED <<server, storage, open, ready, shown, refreshes, overlapped>>

\* "focus" and "visibilitychange".
Focus(t) ==
    /\ open[t] /\ Listens(t)
    /\ BeginRefresh(t, FALSE, refreshes, pending)
    /\ UNCHANGED <<server, open, listening, overlapped>>

\* "storage": another tab changed one of the two keys.  An event that comes before the tab
\* listens is lost; the refresh of a tab that is not ready makes up for it.
StorageEvent(t) ==
    /\ pending[t]
    /\ \/ Listens(t) /\ BeginRefresh(t, FALSE, refreshes, [pending EXCEPT ![t] = FALSE])
       \/ /\ ~Listens(t)
          /\ pending' = [pending EXCEPT ![t] = FALSE]
          /\ missed' = [missed EXCEPT ![t] = @ \/ ready[t]]
          /\ UNCHANGED <<stored, session, refused, refreshes, ready>>
    /\ UNCHANGED <<server, open, listening, overlapped>>

\* Mutant: the stored session carries a token.
SignedInWithToken(id, u) == [sid |-> id, user |-> u, token |-> u]

SignedIn(id, u) == [sid |-> id, user |-> u, token |-> None]

\* The login form: the server issues a session and its cookie, signIn stores the member,
\* refreshSession is called at once.
SignIn(t, u) ==
    LET id == cookie + 1
    IN  /\ open[t] /\ session[t] = None
        /\ id \in SessionIds /\ u \in SignsIn[id]
        /\ account[u].active /\ CanUseDirectorySession(account[u])
        /\ cookie' = id
        /\ owner' = u
        /\ revoked' = FALSE
        /\ Store(t, SignedIn(id, u), pending)
        /\ ShowSession(t, SignedIn(id, u))
        /\ Room(refreshes)
        /\ refreshes' = Added(refreshes, t, FALSE, SignedIn(id, u))
        /\ overlapped' = (overlapped \/ \E i \in Slots : Belongs(refreshes[i], t))
    /\ UNCHANGED <<account, expired, open, ready, listening>>

\* signOut.
EndSession(t) ==
    /\ Store(t, None, pending)
    /\ ShowSession(t, None)

\* The user menu.  The server is told only if the session carries a token.
SignOut(t) ==
    /\ open[t] /\ session[t] # None
    /\ EndSession(t)
    /\ revoked' = (revoked \/ session[t].token # None)
    /\ UNCHANGED <<account, cookie, owner, expired, open, ready, listening, refreshes, overlapped>>

\* Settings, after the session marked as current was revoked (SessionRevoked) and the page
\* reloaded its lists.
SignOutRevoked(t) ==
    /\ open[t] /\ session[t] # None /\ revoked
    /\ EndSession(t)
    /\ UNCHANGED <<server, open, ready, listening, refreshes, overlapped>>

\* Any request of a page while the stored session is out of date or the server refuses the
\* cookie: the storage is cleared, the tab's session is not.
RequestRefused(t) ==
    /\ open[t] /\ session[t] # None
    /\ StoredSessionExpired \/ ~Authenticated
    /\ Store(t, None, pending)
    /\ refused' = [refused EXCEPT ![t] = TRUE]
    /\ UNCHANGED <<server, open, ready, listening, session, missed, refreshes, overlapped>>

\* The administration page changes a member.  If it is the tab's own, the session follows.
UpdateMember(t, u, a) ==
    /\ open[t] /\ session[t] # None /\ Authenticated
    /\ account[u] # a
    /\ account' = [account EXCEPT ![u] = a]
    /\ \/ /\ session[t].user # u
          /\ UNCHANGED <<storage, shown, refreshes, ready>>
       \/ /\ session[t].user = u
          /\ ~(a.active /\ CanUseDirectorySession(a))
          /\ EndSession(t)
          /\ UNCHANGED <<refreshes, ready>>
       \/ /\ session[t].user = u
          /\ a.active /\ CanUseDirectorySession(a)
          /\ BeginRefresh(t, FALSE, refreshes, pending)
    /\ UNCHANGED <<cookie, owner, revoked, expired, open, listening, overlapped>>

\* expires_at passes.
SessionExpires ==
    /\ Authenticated /\ "expires" \in Ends[cookie]
    /\ expired' = expired \cup {cookie}
    /\ UNCHANGED <<account, cookie, owner, revoked, storage, open, ready, listening, shown,
                   refreshes, overlapped>>

\* The session is revoked: in the settings of this browser, or by somebody else.
SessionRevoked ==
    /\ Authenticated /\ "is_revoked" \in Ends[cookie]
    /\ revoked' = TRUE
    /\ UNCHANGED <<account, cookie, owner, expired, storage, open, ready, listening, shown,
                   refreshes, overlapped>>

(***************************************************************************)
(* Specification                                                           *)
(***************************************************************************)

Answer(i) ==
    \/ DirectoryUserKnown(i) \/ DirectoryUserUnusable(i) \/ DirectoryUserRefused(i)
    \/ PermissionsKnown(i) \/ PermissionsRefused(i)

\* What a tab does on its own, once something made it.
TabStep ==
    \/ \E t \in Tabs : StorageEvent(t) \/ Listen(t)
    \/ \E i \in Slots : Answer(i)

RequestFails == \E i \in Slots : DirectoryUserFails(i)

UserStep ==
    \/ \E t \in Tabs :
         \/ OpenTab(t) \/ Focus(t) \/ SignOut(t)
         \/ SignOutRevoked(t) \/ RequestRefused(t)
         \/ \E u \in Users : SignIn(t, u) \/ \E a \in AccountsOf[u] : UpdateMember(t, u, a)
    \/ SessionExpires \/ SessionRevoked

Next == TabStep \/ RequestFails \/ UserStep

\* Every request is answered or fails, the browser delivers its storage events, and React
\* runs the effects of a page it has rendered.
Fairness ==
    /\ \A t \in Tabs : WF_vars(StorageEvent(t)) /\ WF_vars(Listen(t))
    /\ \A i \in Slots : WF_vars(Answer(i))

Spec == Init /\ [][Next]_vars
FairSpec == Spec /\ Fairness

(***************************************************************************)
(* Properties                                                              *)
(***************************************************************************)

Quiet == (\A t \in Tabs : ~pending[t]) /\ (\A i \in Slots : refreshes[i] = Idle)

\* Whatever the tabs did at the same time, once no answer and no event is on its way every
\* open tab shows the session that is stored.  Two may lag behind until they are focused: a
\* tab whose own request was refused, and one that an event reached between the end of its
\* first refresh and the registration of its listeners.  (setSession is always paired with a
\* write or a removal, and other tabs learn of it by the storage event: provider.tsx 53-226.)
QuietTabsAgree ==
    Quiet => \A t \in Tabs : open[t] /\ ~refused[t] /\ ~missed[t] => session[t] = stored

\* The member who is shown and the permissions that are shown belong to the cookie, once
\* all is quiet, although refreshSession combines what it read before two requests with two
\* answers given at different times.  The exceptions are a tab that signs in while it still
\* refreshes a former session, whose own late answer is announced to nobody who corrects it,
\* and an event that the tab which would correct the storage missed.
SettledIdentity ==
    Quiet /\ ~overlapped /\ (\A t \in Tabs : ~missed[t]) /\ stored # None /\ Authenticated
        => stored.user = owner

\* The tabs' calls and the storage hold one session.
OneSession ==
    \A i \in Slots : refreshes[i] # Idle =>
        /\ stored # None => refreshes[i].parsed.sid = stored.sid
        /\ \A j \in Slots : refreshes[j] # Idle => refreshes[i].parsed.sid = refreshes[j].parsed.sid

\* Refreshing does not echo between tabs for ever: once users do nothing and requests stop
\* failing, answers and events come to an end, and no tab is left with the restoring screen
\* or deaf to the others.
\* (Two tabs whose calls hold different sessions can write them over each other and wake each
\* other without end: OneSession excludes them.)
TabsSettle ==
    <>[][TabStep]_vars /\ <>[]OneSession
        => <>[](Quiet /\ \A t \in Tabs : open[t] => Listens(t))

\* "Let local sign-out finish even if the backend session is already gone"
\* (ConsoleShell.tsx 224): signing out ends the session of the server as well.
SignOutEndsBackendSession ==
    [][\A t \in Tabs : SignOut(t) => ~Authenticated']_vars

=============================================================================
