------------------------ MODULE BrowserSessionProofs ------------------------
(***************************************************************************)
(* Tabs that are at rest show the session that is stored, and it is the    *)
(* one of the cookie, for any number of tabs, members, sign-ins and        *)
(* refreshes in flight.                                                    *)
(***************************************************************************)
EXTENDS BrowserSession, BoundedMaximum

(***************************************************************************)
(* The pieces that the actions share                                       *)
(***************************************************************************)

\* A call is added in a slot that was free, and the others are kept.
LEMMA AddedOne ==
    ASSUME NEW calls \in [Slots -> Refresh \cup {Idle}], Room(calls),
           NEW t, NEW initial, NEW s
    PROVE  \E i \in Slots :
              /\ calls[i] = Idle
              /\ Added(calls, t, initial, s) =
                   [calls EXCEPT ![i] = [tab |-> t, initial |-> initial, step |-> "user",
                                         parsed |-> s, user |-> None]]
<1> DEFINE free == {i \in Slots : calls[i] = Idle}
<1>1. free \subseteq Nat /\ free # {}
  BY SessionConstants DEF Room, Slots
<1>2. \E i \in free : \A j \in free : i <= j
  BY <1>1, MinOfNaturals
<1>3. (CHOOSE i \in free : \A j \in free : i <= j) \in free
  BY <1>2
<1> HIDE DEF free
<1>4. PICK k \in free : k = CHOOSE i \in free : \A j \in free : i <= j
  BY <1>3
<1>5. Added(calls, t, initial, s) = [calls EXCEPT ![k] = [tab |-> t, initial |-> initial,
                                       step |-> "user", parsed |-> s, user |-> None]]
  BY <1>4 DEF Added, free
<1> QED
  BY <1>4, <1>5 DEF free

LEMMA NewCallTyped ==
    ASSUME NEW t \in Tabs, NEW initial \in BOOLEAN, NEW s \in Session
    PROVE  [tab |-> t, initial |-> initial, step |-> "user", parsed |-> s, user |-> None] \in Refresh
BY DEF Refresh

LEMMA IdleIsNoCall == Idle \notin Refresh
BY DEF Idle, Refresh

LEMMA AddedTyped ==
    ASSUME NEW calls \in [Slots -> Refresh \cup {Idle}], Room(calls),
           NEW t \in Tabs, NEW initial \in BOOLEAN, NEW s \in Session
    PROVE  Added(calls, t, initial, s) \in [Slots -> Refresh \cup {Idle}]
BY AddedOne, NewCallTyped

LEMMA StoreTyped ==
    ASSUME NEW t \in Tabs, NEW s \in Session \cup {None}, NEW waiting \in [Tabs -> BOOLEAN],
           Store(t, s, waiting)
    PROVE  stored' \in Session \cup {None} /\ pending' \in [Tabs -> BOOLEAN]
BY DEF Store

LEMMA ShowSessionTyped ==
    ASSUME TypeOK, NEW t \in Tabs, NEW s \in Session \cup {None}, ShowSession(t, s)
    PROVE  /\ session' \in [Tabs -> Session \cup {None}]
           /\ refused' \in [Tabs -> BOOLEAN] /\ missed' \in [Tabs -> BOOLEAN]
BY DEF TypeOK, ShowSession

(***************************************************************************)
(* Type correctness                                                        *)
(***************************************************************************)

LEMMA BeginRefreshTyped ==
    ASSUME TypeOK, NEW t \in Tabs, NEW initial \in BOOLEAN,
           NEW calls \in [Slots -> Refresh \cup {Idle}], NEW waiting \in [Tabs -> BOOLEAN],
           BeginRefresh(t, initial, calls, waiting)
    PROVE  /\ stored' \in Session \cup {None} /\ pending' \in [Tabs -> BOOLEAN]
           /\ session' \in [Tabs -> Session \cup {None}] /\ refused' \in [Tabs -> BOOLEAN]
           /\ missed' \in [Tabs -> BOOLEAN]
           /\ refreshes' \in [Slots -> Refresh \cup {Idle}] /\ ready' \in [Tabs -> BOOLEAN]
<1>1. CASE refreshes' = calls /\ Store(t, None, waiting) /\ ShowSession(t, None)
           /\ ready' = [ready EXCEPT ![t] = @ \/ initial]
  BY <1>1, StoreTyped, ShowSessionTyped DEF TypeOK
<1>2. CASE /\ stored # None /\ Room(calls) /\ Store(t, stored, waiting)
           /\ IF initial THEN ShowSession(t, None) ELSE UNCHANGED shown
           /\ refreshes' = Added(calls, t, initial, stored)
           /\ ready' = [ready EXCEPT ![t] = @ /\ ~initial]
  <2>1. stored \in Session
    BY <1>2 DEF TypeOK
  <2>2. refreshes' \in [Slots -> Refresh \cup {Idle}]
    BY <1>2, <2>1, AddedTyped
  <2>3. /\ session' \in [Tabs -> Session \cup {None}]
        /\ refused' \in [Tabs -> BOOLEAN] /\ missed' \in [Tabs -> BOOLEAN]
    BY <1>2, ShowSessionTyped DEF TypeOK, shown
  <2> QED
    BY <1>2, <2>1, <2>2, <2>3, StoreTyped DEF TypeOK
<1> QED
  BY <1>1, <1>2 DEF BeginRefresh

LEMMA EndRefreshTyped ==
    ASSUME TypeOK, NEW i \in Slots, refreshes[i] # Idle, NEW s \in Session \cup {None},
           EndRefresh(i, s), UNCHANGED server
    PROVE  TypeOK'
<1>1. refreshes[i].tab \in Tabs /\ refreshes[i].initial \in BOOLEAN
  BY DEF TypeOK, Refresh
<1>2. stored' \in Session \cup {None} /\ pending' \in [Tabs -> BOOLEAN]
  BY <1>1, StoreTyped DEF TypeOK, EndRefresh
<1>3. /\ session' \in [Tabs -> Session \cup {None}]
      /\ refused' \in [Tabs -> BOOLEAN] /\ missed' \in [Tabs -> BOOLEAN]
  BY <1>1, ShowSessionTyped DEF EndRefresh
<1>4. refreshes' \in [Slots -> Refresh \cup {Idle}] /\ ready' \in [Tabs -> BOOLEAN]
  BY <1>1 DEF TypeOK, EndRefresh
<1> QED
  BY <1>2, <1>3, <1>4 DEF TypeOK, EndRefresh, server

\* After a refresh the session names the member that the server knew.
LEMMA RefreshedTyped ==
    ASSUME TypeOK, NEW i \in Slots, InFlight(i, "permissions"), refreshes[i].user # None
    PROVE  /\ RefreshedSession(refreshes[i]) \in Session
           /\ RefreshedSession(refreshes[i]).user = refreshes[i].user
BY DEF TypeOK, InFlight, Refresh, RefreshedSession, Session

\* A cookie has an owner, and a call that asks for permissions knows the member.
OwnerKnown == cookie # 0 => owner \in Users

UserKnown ==
    \A i \in Slots : InFlight(i, "permissions") => refreshes[i].user \in Users

TypeInv == TypeOK /\ OwnerKnown /\ UserKnown

LEMMA InitTypeInv == Init => TypeInv
<1> SUFFICES ASSUME Init PROVE TypeInv
  OBVIOUS
<1>1. account \in [Users -> Account] /\ \A u \in Users : account[u] \in AccountsOf[u]
  BY SessionConstants DEF Init
<1>2. cookie \in 0 .. MaxSignIns
  BY SessionConstants DEF Init
<1>3. UserKnown /\ OwnerKnown
  BY DEF Init, UserKnown, OwnerKnown, InFlight, Idle
<1> QED
  BY <1>1, <1>2, <1>3 DEF Init, TypeInv, TypeOK

LEMMA CallsKept ==
    ASSUME TypeInv, NEW t \in Tabs, NEW initial \in BOOLEAN,
           NEW calls \in [Slots -> Refresh \cup {Idle}],
           \A i \in Slots : calls[i] \in {refreshes[i], Idle},
           NEW waiting \in [Tabs -> BOOLEAN], BeginRefresh(t, initial, calls, waiting)
    PROVE  UserKnown'
<1>1. CASE refreshes' = calls
  BY <1>1 DEF TypeInv, UserKnown, InFlight
<1>2. CASE Room(calls) /\ refreshes' = Added(calls, t, initial, stored)
  <2>1. PICK i \in Slots : refreshes' = [calls EXCEPT ![i] = [tab |-> t, initial |-> initial,
                                           step |-> "user", parsed |-> stored, user |-> None]]
    BY <1>2, AddedOne
  <2> QED
    BY <2>1 DEF TypeInv, UserKnown, InFlight
<1> QED
  BY <1>1, <1>2 DEF BeginRefresh

LEMMA NextTypeInv == TypeInv /\ [Next]_vars => TypeInv'
<1> SUFFICES ASSUME TypeInv, [Next]_vars PROVE TypeInv'
  OBVIOUS
<1> USE DEF server, storage, shown
<1>1. TypeOK /\ OwnerKnown /\ UserKnown
  BY DEF TypeInv
<1>2. ASSUME NEW t \in Tabs, NEW initial \in BOOLEAN, NEW calls \in [Slots -> Refresh \cup {Idle}],
             \A i \in Slots : calls[i] \in {refreshes[i], Idle},
             NEW waiting \in [Tabs -> BOOLEAN], BeginRefresh(t, initial, calls, waiting),
             open' \in [Tabs -> BOOLEAN], listening' \in [Tabs -> BOOLEAN], account' \in [Users -> Account],
             \A u \in Users : account'[u] \in AccountsOf[u],
             UNCHANGED <<cookie, owner, revoked, expired, overlapped>>
      PROVE  TypeInv'
  BY <1>1, <1>2, BeginRefreshTyped, CallsKept DEF TypeInv, TypeOK, OwnerKnown
<1>3. ASSUME NEW t \in Tabs, OpenTab(t) PROVE TypeInv'
  <2> DEFINE calls == [i \in Slots |-> IF Belongs(refreshes[i], t) THEN Idle ELSE refreshes[i]]
  <2>1. /\ calls \in [Slots -> Refresh \cup {Idle}]
        /\ \A i \in Slots : calls[i] \in {refreshes[i], Idle}
    BY <1>1 DEF TypeOK
  <2>2. /\ [pending EXCEPT ![t] = FALSE] \in [Tabs -> BOOLEAN]
        /\ open' \in [Tabs -> BOOLEAN] /\ listening' \in [Tabs -> BOOLEAN]
    BY <1>1, <1>3 DEF TypeOK, OpenTab
  <2>3. BeginRefresh(t, TRUE, calls, [pending EXCEPT ![t] = FALSE])
    BY <1>3 DEF OpenTab
  <2> HIDE DEF calls
  <2> QED
    BY <1>1, <1>2, <1>3, <2>1, <2>2, <2>3 DEF OpenTab, TypeOK
<1>4. ASSUME NEW t \in Tabs, Focus(t) PROVE TypeInv'
  BY <1>1, <1>2, <1>4 DEF Focus, TypeOK
<1>5. ASSUME NEW t \in Tabs, StorageEvent(t) PROVE TypeInv'
  <2>1. [pending EXCEPT ![t] = FALSE] \in [Tabs -> BOOLEAN]
    BY <1>1 DEF TypeOK
  <2>2. CASE BeginRefresh(t, FALSE, refreshes, [pending EXCEPT ![t] = FALSE])
    BY <1>1, <1>2, <1>5, <2>1, <2>2 DEF StorageEvent, TypeOK
  <2>3. CASE ~BeginRefresh(t, FALSE, refreshes, [pending EXCEPT ![t] = FALSE])
    BY <1>1, <1>5, <2>1, <2>3 DEF StorageEvent, TypeInv, TypeOK, OwnerKnown, UserKnown, InFlight
  <2> QED
    BY <2>2, <2>3
<1>6. ASSUME NEW i \in Slots, NEW s \in Session \cup {None}, refreshes[i] # Idle,
             EndRefresh(i, s), UNCHANGED server
      PROVE  TypeInv'
  <2>1. TypeOK'
    BY <1>1, <1>6, EndRefreshTyped
  <2>2. UserKnown'
    BY <1>1, <1>6 DEF EndRefresh, UserKnown, InFlight, TypeOK
  <2> QED
    BY <1>1, <1>6, <2>1, <2>2 DEF TypeInv, OwnerKnown
<1>7. ASSUME NEW i \in Slots, DirectoryUserKnown(i) PROVE TypeInv'
  <2>1. owner \in Users
    BY <1>1, <1>7 DEF DirectoryUserKnown, Authenticated, OwnerKnown
  <2>2. refreshes[i] \in Refresh
    BY <1>1, <1>7 DEF DirectoryUserKnown, InFlight, TypeOK
  <2>3. [refreshes[i] EXCEPT !.step = "permissions", !.user = owner] \in Refresh
    BY <2>1, <2>2 DEF Refresh
  <2>4. refreshes' = [refreshes EXCEPT ![i] = [refreshes[i] EXCEPT !.step = "permissions", !.user = owner]]
    BY <1>7 DEF DirectoryUserKnown
  <2>5. refreshes' \in [Slots -> Refresh \cup {Idle}]
    BY <1>1, <2>3, <2>4 DEF TypeOK
  <2>6. UserKnown'
    BY <1>1, <2>1, <2>2, <2>4 DEF UserKnown, InFlight, TypeOK, Refresh
  <2> QED
    BY <1>1, <1>7, <2>5, <2>6 DEF DirectoryUserKnown, TypeInv, TypeOK, OwnerKnown
<1>8. ASSUME NEW i \in Slots, \/ DirectoryUserUnusable(i) \/ DirectoryUserRefused(i)
                              \/ DirectoryUserFails(i) \/ PermissionsRefused(i)
      PROVE  TypeInv'
  BY <1>6, <1>8
  DEF DirectoryUserUnusable, DirectoryUserRefused, DirectoryUserFails, PermissionsRefused, InFlight
<1>9. ASSUME NEW i \in Slots, PermissionsKnown(i) PROVE TypeInv'
  <2>1. refreshes[i].user # None
    BY <1>1, <1>9, SessionConstants DEF PermissionsKnown, UserKnown
  <2> QED
    BY <1>1, <1>6, <1>9, <2>1, RefreshedTyped DEF PermissionsKnown, InFlight
<1>10. ASSUME NEW t \in Tabs, NEW u \in Users, SignIn(t, u) PROVE TypeInv'
  <2>1. SignedIn(cookie + 1, u) \in Session
    BY <1>10 DEF SignIn, SignedIn, Session
  <2>7. Room(refreshes) /\ refreshes' = Added(refreshes, t, FALSE, SignedIn(cookie + 1, u))
    BY <1>10 DEF SignIn
  <2>2. PICK i \in Slots : refreshes' = [refreshes EXCEPT ![i] =
                              [tab |-> t, initial |-> FALSE, step |-> "user",
                               parsed |-> SignedIn(cookie + 1, u), user |-> None]]
    <3>1. refreshes \in [Slots -> Refresh \cup {Idle}]
      BY <1>1 DEF TypeOK
    <3>2. PICK calls, initial, s : calls = refreshes /\ initial = FALSE /\ s = SignedIn(cookie + 1, u)
      OBVIOUS
    <3>3. Room(calls) /\ refreshes' = Added(calls, t, initial, s)
      BY <2>7, <3>2
    <3>4. \E i \in Slots : refreshes' = [calls EXCEPT ![i] =
              [tab |-> t, initial |-> initial, step |-> "user", parsed |-> s, user |-> None]]
      BY <3>1, <3>2, <3>3, AddedOne
    <3> QED
      BY <3>2, <3>4
  <2>3. refreshes' \in [Slots -> Refresh \cup {Idle}]
    BY <1>1, <2>1, <2>2, NewCallTyped DEF TypeOK
  <2>4. UserKnown'
    BY <1>1, <2>2 DEF UserKnown, InFlight, TypeOK
  <2>5. /\ stored' \in Session \cup {None} /\ pending' \in [Tabs -> BOOLEAN]
        /\ session' \in [Tabs -> Session \cup {None}]
        /\ refused' \in [Tabs -> BOOLEAN] /\ missed' \in [Tabs -> BOOLEAN]
    BY <1>1, <1>10, <2>1, StoreTyped, ShowSessionTyped DEF SignIn, TypeOK
  <2>6. cookie' \in 0 .. MaxSignIns /\ owner' \in Users /\ revoked' \in BOOLEAN
        /\ overlapped' \in BOOLEAN
    <3>1. cookie' = cookie + 1 /\ cookie + 1 \in 1 .. MaxSignIns
      BY <1>10 DEF SignIn, SessionIds
    <3>2. owner' = u /\ revoked' = FALSE
      BY <1>10 DEF SignIn
    <3>3. overlapped' = (overlapped \/ \E k \in Slots : Belongs(refreshes[k], t))
      BY <1>10 DEF SignIn
    <3>4. 1 .. MaxSignIns \subseteq 0 .. MaxSignIns
      BY SessionConstants
    <3>5. overlapped' \in BOOLEAN
      BY <1>1, <3>3 DEF TypeOK
    <3> QED
      BY <3>1, <3>2, <3>4, <3>5
  <2> QED
    BY <1>1, <1>10, <2>3, <2>4, <2>5, <2>6 DEF SignIn, TypeInv, TypeOK, OwnerKnown
<1>11. ASSUME NEW t \in Tabs, EndSession(t), revoked' \in BOOLEAN, account' \in [Users -> Account],
              \A u \in Users : account'[u] \in AccountsOf[u],
              UNCHANGED <<cookie, owner, expired, open, ready, listening, refreshes, overlapped>>
       PROVE  TypeInv'
  <2>1. /\ stored' \in Session \cup {None} /\ pending' \in [Tabs -> BOOLEAN]
        /\ session' \in [Tabs -> Session \cup {None}]
        /\ refused' \in [Tabs -> BOOLEAN] /\ missed' \in [Tabs -> BOOLEAN]
    BY <1>1, <1>11, StoreTyped, ShowSessionTyped DEF EndSession, TypeOK
  <2> QED
    BY <1>1, <1>11, <2>1 DEF TypeInv, TypeOK, OwnerKnown, UserKnown, InFlight
<1>12. ASSUME NEW t \in Tabs, SignOut(t) \/ SignOutRevoked(t) PROVE TypeInv'
  BY <1>1, <1>11, <1>12 DEF SignOut, SignOutRevoked, TypeOK
<1>13. ASSUME NEW t \in Tabs, RequestRefused(t) PROVE TypeInv'
  <2>1. stored' \in Session \cup {None} /\ pending' \in [Tabs -> BOOLEAN]
    BY <1>1, <1>13, StoreTyped DEF RequestRefused, TypeOK
  <2> QED
    BY <1>1, <1>13, <2>1 DEF RequestRefused, TypeInv, TypeOK, OwnerKnown, UserKnown, InFlight
<1>14. ASSUME NEW t \in Tabs, NEW u \in Users, NEW a \in AccountsOf[u], UpdateMember(t, u, a)
       PROVE  TypeInv'
  <2>1. /\ account' \in [Users -> Account]
        /\ \A x \in Users : account'[x] \in AccountsOf[x]
    BY <1>1, <1>14, SessionConstants DEF UpdateMember, TypeOK
  <2>2. CASE EndSession(t) /\ UNCHANGED <<refreshes, ready>>
    BY <1>1, <1>11, <1>14, <2>1, <2>2 DEF UpdateMember, TypeOK
  <2>3. CASE BeginRefresh(t, FALSE, refreshes, pending)
    BY <1>1, <1>2, <1>14, <2>1, <2>3 DEF UpdateMember, TypeOK
  <2>4. CASE UNCHANGED <<storage, shown, refreshes, ready>>
    BY <1>1, <1>14, <2>1, <2>4 DEF UpdateMember, TypeInv, TypeOK, OwnerKnown, UserKnown, InFlight
  <2> QED
    BY <1>14, <2>2, <2>3, <2>4 DEF UpdateMember
<1>15. ASSUME SessionExpires \/ SessionRevoked PROVE TypeInv'
  <2>1. Authenticated => cookie \in SessionIds
    BY <1>1, SessionConstants DEF Authenticated, TypeOK, SessionIds
  <2>2. expired' \subseteq SessionIds /\ revoked' \in BOOLEAN
    BY <1>1, <1>15, <2>1 DEF SessionExpires, SessionRevoked, TypeOK
  <2>3. UNCHANGED <<account, cookie, owner, storage, open, ready, listening, shown, refreshes,
                    overlapped>>
    BY <1>15 DEF SessionExpires, SessionRevoked
  <2> QED
    BY <1>1, <2>2, <2>3 DEF TypeInv, TypeOK, OwnerKnown, UserKnown, InFlight
<1>16. ASSUME UNCHANGED vars PROVE TypeInv'
  BY <1>1, <1>16 DEF vars, TypeInv, TypeOK, OwnerKnown, UserKnown, InFlight
<1>17. ASSUME NEW t \in Tabs, Listen(t) PROVE TypeInv'
  BY <1>1, <1>17 DEF Listen, TypeInv, TypeOK, OwnerKnown, UserKnown, InFlight
<1> QED
  BY <1>3, <1>4, <1>5, <1>7, <1>8, <1>9, <1>10, <1>12, <1>13, <1>14, <1>15, <1>16, <1>17
  DEF Next, TabStep, Answer, RequestFails, UserStep

\* Every variable keeps its type.
THEOREM SessionTypeCorrect == Spec => []TypeOK
<1>1. TypeInv => TypeOK
  BY DEF TypeInv
<1> QED
  BY <1>1, InitTypeInv, NextTypeInv, PTL DEF Spec

(***************************************************************************)
(* Tabs at rest show what is stored                                        *)
(***************************************************************************)

HasCall(t) == \E i \in Slots : Belongs(refreshes[i], t)
HasInitialCall(t) == \E i \in Slots : Belongs(refreshes[i], t) /\ refreshes[i].initial

\* A tab that differs from the storage has a call or an event on its way, unless a request or
\* an event of it is why it differs; a tab that is not ready has the call that makes it ready.
AgreeInv ==
    \A t \in Tabs : open[t] =>
      /\ ~ready[t] => HasInitialCall(t)
      /\ session[t] = stored \/ refused[t] \/ missed[t] \/ pending[t] \/ HasCall(t)

LEMMA InitAgreeInv == Init => AgreeInv
BY DEF Init, AgreeInv

LEMMA OthersCalls ==
    ASSUME NEW calls \in [Slots -> Refresh \cup {Idle}], Room(calls),
           NEW t, NEW initial, NEW s
    PROVE  LET next == Added(calls, t, initial, s) IN
           /\ \E i \in Slots : Belongs(next[i], t) /\ next[i].initial = initial
           /\ \A i \in Slots : calls[i] # Idle => next[i] = calls[i]
<1>1. PICK i \in Slots :
          /\ calls[i] = Idle
          /\ Added(calls, t, initial, s) =
               [calls EXCEPT ![i] = [tab |-> t, initial |-> initial, step |-> "user",
                                     parsed |-> s, user |-> None]]
  BY AddedOne
<1> DEFINE call == [tab |-> t, initial |-> initial, step |-> "user", parsed |-> s, user |-> None]
<1>2. call # Idle /\ call.tab = t /\ call.initial = initial
  BY DEF Idle
<1> HIDE DEF call
<1>3. Added(calls, t, initial, s)[i] = call
  BY <1>1 DEF call
<1>4. \A j \in Slots : j # i => Added(calls, t, initial, s)[j] = calls[j]
  BY <1>1
<1> QED
  BY <1>1, <1>2, <1>3, <1>4 DEF Belongs

\* refreshSession begins in tab t; "calls" still holds the calls of the other tabs.
LEMMA BeginAgrees ==
    ASSUME TypeInv, AgreeInv, NEW t \in Tabs, NEW initial \in BOOLEAN,
           NEW calls \in [Slots -> Refresh \cup {Idle}], NEW waiting \in [Tabs -> BOOLEAN],
           BeginRefresh(t, initial, calls, waiting),
           \A i \in Slots : ~Belongs(refreshes[i], t) => calls[i] = refreshes[i],
           \A u \in Tabs : u # t => waiting[u] = pending[u] /\ open'[u] = open[u],
           initial \/ (calls = refreshes /\ open[t])
    PROVE  AgreeInv'
<1> SUFFICES ASSUME NEW u \in Tabs, open'[u]
             PROVE  /\ ~ready'[u] => HasInitialCall(u)'
                    /\ \/ session'[u] = stored' \/ refused'[u] \/ missed'[u]
                       \/ pending'[u] \/ HasCall(u)'
  BY DEF AgreeInv
<1>0. TypeOK
  BY DEF TypeInv
<1>1. CASE /\ refreshes' = calls /\ Store(t, None, waiting) /\ ShowSession(t, None)
           /\ ready' = [ready EXCEPT ![t] = @ \/ initial]
  <2>1. CASE u = t
    <3>1. session'[t] = None /\ stored' = None /\ (ready'[t] <=> ready[t] \/ initial)
      BY <1>0, <1>1 DEF TypeOK, Store, ShowSession
    <3>2. ~ready'[t] => HasInitialCall(t)'
      BY <1>1, <3>1 DEF AgreeInv, HasInitialCall
    <3> QED
      BY <2>1, <3>1, <3>2
  <2>2. CASE u # t
    <3>1. \A i \in Slots : Belongs(refreshes[i], u) => refreshes'[i] = refreshes[i]
      BY <1>1, <2>2 DEF Belongs
    <3>2. /\ ready'[u] = ready[u] /\ session'[u] = session[u] /\ refused'[u] = refused[u]
          /\ missed'[u] = missed[u] /\ open[u] /\ (pending'[u] <=> pending[u] \/ stored' # stored)
      BY <1>0, <1>1, <2>2 DEF TypeOK, Store, ShowSession
    <3> QED
      BY <3>1, <3>2 DEF AgreeInv, HasCall, HasInitialCall
  <2> QED
    BY <2>1, <2>2
<1>2. CASE /\ stored # None /\ Room(calls) /\ Store(t, stored, waiting)
           /\ IF initial THEN ShowSession(t, None) ELSE UNCHANGED shown
           /\ refreshes' = Added(calls, t, initial, stored)
           /\ ready' = [ready EXCEPT ![t] = @ /\ ~initial]
  <2>1. /\ \E i \in Slots : Belongs(refreshes'[i], t) /\ refreshes'[i].initial = initial
        /\ \A i \in Slots : calls[i] # Idle => refreshes'[i] = calls[i]
    BY <1>2, OthersCalls
  <2>2. CASE u = t
    <3>1. HasCall(t)'
      BY <2>1 DEF HasCall
    <3>2. ~ready'[t] => HasInitialCall(t)'
      <4>1. CASE initial
        BY <2>1, <4>1 DEF HasInitialCall
      <4>2. CASE ~initial
        <5>1. calls = refreshes /\ open[t] /\ (ready'[t] <=> ready[t])
          BY <1>0, <1>2, <4>2 DEF TypeOK
        <5> QED
          BY <2>1, <5>1 DEF AgreeInv, HasInitialCall, Belongs
      <4> QED
        BY <4>1, <4>2
    <3> QED
      BY <2>2, <3>1, <3>2
  <2>3. CASE u # t
    <3>1. \A i \in Slots : Belongs(refreshes[i], u) => refreshes'[i] = refreshes[i]
      BY <2>1, <2>3 DEF Belongs
    <3>2. /\ ready'[u] = ready[u] /\ session'[u] = session[u] /\ refused'[u] = refused[u]
          /\ missed'[u] = missed[u] /\ open[u] /\ pending'[u] = pending[u] /\ stored' = stored
      BY <1>0, <1>2, <2>3 DEF TypeOK, Store, ShowSession, shown
    <3> QED
      BY <3>1, <3>2 DEF AgreeInv, HasCall, HasInitialCall
  <2> QED
    BY <2>2, <2>3
<1> QED
  BY <1>1, <1>2 DEF BeginRefresh

LEMMA EndAgrees ==
    ASSUME TypeInv, AgreeInv, NEW i \in Slots, NEW s, refreshes[i] # Idle, EndRefresh(i, s)
    PROVE  AgreeInv'
<1> SUFFICES ASSUME NEW u \in Tabs, open'[u]
             PROVE  /\ ~ready'[u] => HasInitialCall(u)'
                    /\ \/ session'[u] = stored' \/ refused'[u] \/ missed'[u]
                       \/ pending'[u] \/ HasCall(u)'
  BY DEF AgreeInv
<1>1. TypeOK /\ refreshes[i].initial \in BOOLEAN
  BY DEF TypeInv, TypeOK, Refresh
<1>5. PICK t \in Tabs : t = refreshes[i].tab
  BY DEF TypeInv, TypeOK, Refresh
<1>2. \A j \in Slots : j # i => refreshes'[j] = refreshes[j]
  BY DEF EndRefresh
<1>3. CASE u = t
  <2>1. session'[t] = stored'
    BY <1>1, <1>5 DEF TypeOK, EndRefresh, ShowSession, Store
  <2>2. (ready'[t] <=> ready[t] \/ refreshes[i].initial) /\ open[t]
    BY <1>1, <1>5, <1>3 DEF TypeOK, EndRefresh
  <2>3. ~ready'[t] => HasInitialCall(t)'
    BY <1>1, <1>2, <1>5, <2>2 DEF AgreeInv, HasInitialCall, Belongs
  <2> QED
    BY <1>3, <2>1, <2>3
<1>4. CASE u # t
  <2>1. \A j \in Slots : Belongs(refreshes[j], u) => refreshes'[j] = refreshes[j]
    BY <1>2, <1>5, <1>4 DEF Belongs
  <2>2. /\ ready'[u] = ready[u] /\ session'[u] = session[u] /\ refused'[u] = refused[u]
        /\ missed'[u] = missed[u] /\ open[u] /\ (pending'[u] <=> pending[u] \/ stored' # stored)
    BY <1>1, <1>5, <1>4 DEF TypeOK, EndRefresh, Store, ShowSession
  <2> QED
    BY <2>1, <2>2 DEF AgreeInv, HasCall, HasInitialCall
<1> QED
  BY <1>3, <1>4

\* A change of the storage by a tab that has no call to begin or to end.
LEMMA StoreAgrees ==
    ASSUME TypeInv, AgreeInv, NEW t \in Tabs, NEW s, Store(t, s, pending), UNCHANGED <<open, ready>>,
           \A i \in Slots : refreshes[i] # Idle => refreshes'[i] = refreshes[i],
           \/ ShowSession(t, s)
           \/ UNCHANGED <<session, missed>> /\ refused' = [refused EXCEPT ![t] = TRUE]
    PROVE  AgreeInv'
<1> SUFFICES ASSUME NEW u \in Tabs, open[u]
             PROVE  /\ ~ready'[u] => HasInitialCall(u)'
                    /\ \/ session'[u] = stored' \/ refused'[u] \/ missed'[u]
                       \/ pending'[u] \/ HasCall(u)'
  BY DEF AgreeInv
<1>1. TypeOK
  BY DEF TypeInv
<1>2. (HasInitialCall(u) => HasInitialCall(u)') /\ (HasCall(u) => HasCall(u)')
  BY DEF HasInitialCall, HasCall, Belongs
<1>3. CASE u = t
  BY <1>1, <1>2, <1>3 DEF AgreeInv, TypeOK, ShowSession, Store
<1>4. CASE u # t
  <2>1. /\ session'[u] = session[u] /\ refused'[u] = refused[u]
        /\ missed'[u] = missed[u] /\ (pending'[u] <=> pending[u] \/ stored' # stored)
    BY <1>1, <1>4 DEF TypeOK, Store, ShowSession
  <2> QED
    BY <1>2, <2>1 DEF AgreeInv
<1> QED
  BY <1>3, <1>4

\* Events are on their way only to tabs that exist.
EventsOpen == \A t \in Tabs : pending[t] => open[t]

LEMMA NextEventsOpen == TypeInv /\ EventsOpen /\ [Next]_vars => EventsOpen'
<1> SUFFICES ASSUME TypeInv, EventsOpen, [Next]_vars PROVE EventsOpen'
  OBVIOUS
<1> USE DEF server, storage, shown
<1>0. TypeOK
  BY DEF TypeInv
<1>1. ASSUME NEW t \in Tabs, NEW s, NEW waiting \in [Tabs -> BOOLEAN], Store(t, s, waiting),
             \A u \in Tabs : (waiting[u] => pending[u]) /\ (open[u] => open'[u])
      PROVE  EventsOpen'
  BY <1>0, <1>1 DEF EventsOpen, Store
<1>2. ASSUME NEW t \in Tabs, NEW initial, NEW calls, NEW waiting \in [Tabs -> BOOLEAN],
             BeginRefresh(t, initial, calls, waiting),
             \A u \in Tabs : (waiting[u] => pending[u]) /\ (open[u] => open'[u])
      PROVE  EventsOpen'
  BY <1>1, <1>2 DEF BeginRefresh
<1>3. pending \in [Tabs -> BOOLEAN] /\ \A t \in Tabs : [pending EXCEPT ![t] = FALSE] \in [Tabs -> BOOLEAN]
  BY <1>0 DEF TypeOK
<1>4. CASE \E t \in Tabs : OpenTab(t)
  <2>1. PICK t \in Tabs : OpenTab(t)
    BY <1>4
  <2>2. PICK calls, initial, waiting :
           BeginRefresh(t, initial, calls, waiting) /\ waiting = [pending EXCEPT ![t] = FALSE]
    BY <2>1 DEF OpenTab
  <2>3. /\ waiting \in [Tabs -> BOOLEAN]
        /\ \A u \in Tabs : (waiting[u] => pending[u]) /\ (open[u] => open'[u])
    BY <1>0, <1>3, <2>1, <2>2 DEF OpenTab, TypeOK
  <2> QED
    BY <1>2, <2>2, <2>3
<1>5. CASE \E t \in Tabs : StorageEvent(t)
  <2>1. PICK t \in Tabs : StorageEvent(t)
    BY <1>5
  <2>2. PICK waiting : waiting = [pending EXCEPT ![t] = FALSE]
    OBVIOUS
  <2>3. waiting \in [Tabs -> BOOLEAN] /\ \A u \in Tabs : waiting[u] => pending[u]
    BY <1>0, <1>3, <2>2 DEF TypeOK
  <2>4. /\ UNCHANGED open
        /\ pending' = waiting \/ \E initial, calls : BeginRefresh(t, initial, calls, waiting)
    BY <2>1, <2>2 DEF StorageEvent
  <2> QED
    BY <1>2, <2>3, <2>4 DEF EventsOpen
<1>6. CASE \E t \in Tabs : Focus(t) \/ \E u \in Users : \E a \in AccountsOf[u] : UpdateMember(t, u, a)
  BY <1>1, <1>2, <1>3, <1>6 DEF Focus, UpdateMember, EndSession, EventsOpen
<1>7. CASE \E t \in Tabs : \/ SignOut(t) \/ SignOutRevoked(t) \/ RequestRefused(t)
                           \/ \E u \in Users : SignIn(t, u)
  BY <1>1, <1>3, <1>7 DEF SignOut, SignOutRevoked, RequestRefused, SignIn, EndSession
<1>8. CASE \E i \in Slots : Answer(i) \/ DirectoryUserFails(i)
  <2>1. \A i \in Slots : refreshes[i] # Idle => refreshes[i].tab \in Tabs
    BY <1>0 DEF TypeOK, Refresh
  <2>2. ASSUME NEW i \in Slots, NEW s, refreshes[i] # Idle, EndRefresh(i, s) PROVE EventsOpen'
    BY <1>1, <1>3, <2>1, <2>2 DEF EndRefresh
  <2>3. ASSUME NEW i \in Slots, DirectoryUserKnown(i) PROVE EventsOpen'
    BY <2>3 DEF DirectoryUserKnown, EventsOpen
  <2> QED
    BY <1>8, <2>2, <2>3
    DEF Answer, DirectoryUserUnusable, DirectoryUserRefused, PermissionsKnown, PermissionsRefused,
        DirectoryUserFails, InFlight
<1>9. CASE SessionExpires \/ SessionRevoked \/ (\E t \in Tabs : Listen(t)) \/ UNCHANGED vars
  BY <1>9 DEF SessionExpires, SessionRevoked, Listen, vars, EventsOpen
<1> QED
  BY <1>4, <1>5, <1>6, <1>7, <1>8, <1>9 DEF Next, TabStep, RequestFails, UserStep

LEMMA NextAgreeInv == TypeInv /\ EventsOpen /\ AgreeInv /\ [Next]_vars => AgreeInv'
<1> SUFFICES ASSUME TypeInv, EventsOpen, AgreeInv, [Next]_vars PROVE AgreeInv'
  OBVIOUS
<1> USE DEF server, storage, shown
<1>0. TypeOK
  BY DEF TypeInv
<1>1. ASSUME UNCHANGED <<stored, pending, open, ready, shown, refreshes>> PROVE AgreeInv'
  BY <1>1 DEF AgreeInv, HasInitialCall, HasCall, Belongs
<1>2. ASSUME NEW t \in Tabs, OpenTab(t) PROVE AgreeInv'
  <2> DEFINE calls == [i \in Slots |-> IF Belongs(refreshes[i], t) THEN Idle ELSE refreshes[i]]
             waiting == [pending EXCEPT ![t] = FALSE]
  <2>1. /\ calls \in [Slots -> Refresh \cup {Idle}] /\ waiting \in [Tabs -> BOOLEAN]
        /\ \A i \in Slots : ~Belongs(refreshes[i], t) => calls[i] = refreshes[i]
        /\ \A u \in Tabs : u # t => waiting[u] = pending[u] /\ open'[u] = open[u]
    BY <1>0, <1>2 DEF TypeOK, OpenTab
  <2>2. BeginRefresh(t, TRUE, calls, waiting)
    BY <1>2 DEF OpenTab
  <2> HIDE DEF calls, waiting
  <2>3. PICK c, w, initial : c = calls /\ w = waiting /\ initial = TRUE
    OBVIOUS
  <2>4. BeginRefresh(t, initial, c, w) /\ initial
    BY <2>2, <2>3
  <2> QED
    BY <2>1, <2>3, <2>4, BeginAgrees
<1>3. ASSUME NEW t \in Tabs, NEW waiting \in [Tabs -> BOOLEAN], open[t], UNCHANGED open,
             BeginRefresh(t, FALSE, refreshes, waiting),
             \A u \in Tabs : u # t => waiting[u] = pending[u]
      PROVE  AgreeInv'
  <2>1. PICK c, initial : c = refreshes /\ initial = FALSE
    OBVIOUS
  <2>2. BeginRefresh(t, initial, c, waiting) /\ initial \in BOOLEAN /\ c \in [Slots -> Refresh \cup {Idle}]
    BY <1>0, <1>3, <2>1 DEF TypeOK
  <2>3. \A i \in Slots : c[i] = refreshes[i]
    BY <2>1
  <2> QED
    BY <1>3, <2>1, <2>2, <2>3, BeginAgrees
<1>4. ASSUME NEW t \in Tabs, Focus(t) PROVE AgreeInv'
  BY <1>0, <1>3, <1>4 DEF Focus, TypeOK
<1>5. ASSUME NEW t \in Tabs, StorageEvent(t) PROVE AgreeInv'
  <2>1. PICK waiting \in [Tabs -> BOOLEAN] : waiting = [pending EXCEPT ![t] = FALSE]
    BY <1>0 DEF TypeOK
  <2>2. \A u \in Tabs : u # t => waiting[u] = pending[u]
    BY <1>0, <2>1 DEF TypeOK
  <2>3. open[t]
    BY <1>5 DEF StorageEvent, EventsOpen
  <2>4. CASE Listens(t)
    BY <1>3, <1>5, <2>1, <2>2, <2>3, <2>4 DEF StorageEvent
  <2>5. CASE ~Listens(t)
    <3>1. /\ pending' = waiting /\ missed' = [missed EXCEPT ![t] = @ \/ ready[t]]
          /\ UNCHANGED <<stored, session, refused, refreshes, ready, open>>
      BY <1>5, <2>1, <2>5 DEF StorageEvent
    <3>2. \A u \in Tabs : (missed[u] => missed'[u]) /\ (u = t /\ ready[u] => missed'[u])
      BY <1>0, <3>1 DEF TypeOK
    <3> QED
      BY <2>2, <3>1, <3>2 DEF AgreeInv, HasInitialCall, HasCall, Belongs
  <2> QED
    BY <2>4, <2>5
<1>6. ASSUME NEW i \in Slots, DirectoryUserKnown(i) PROVE AgreeInv'
  <2>1. refreshes[i] \in Refresh
    BY <1>0, <1>6 DEF DirectoryUserKnown, InFlight, TypeOK
  <2>2. PICK u : refreshes' = [refreshes EXCEPT ![i] = [refreshes[i] EXCEPT !.step = "permissions", !.user = u]]
    BY <1>6 DEF DirectoryUserKnown
  <2>3. [refreshes[i] EXCEPT !.step = "permissions", !.user = u] # Idle
    BY <2>1 DEF Refresh, Idle
  <2>4. \A t \in Tabs : (HasInitialCall(t) => HasInitialCall(t)') /\ (HasCall(t) => HasCall(t)')
    BY <1>0, <2>1, <2>2, <2>3 DEF HasInitialCall, HasCall, Belongs, TypeOK, Refresh
  <2> QED
    BY <1>6, <2>4 DEF DirectoryUserKnown, AgreeInv
<1>7. ASSUME NEW i \in Slots, Answer(i) \/ DirectoryUserFails(i) PROVE AgreeInv'
  <2>1. CASE \E s : refreshes[i] # Idle /\ EndRefresh(i, s)
    BY <2>1, EndAgrees
  <2>2. CASE DirectoryUserKnown(i)
    BY <1>6, <2>2
  <2> QED
    BY <1>7, <2>1, <2>2
    DEF Answer, DirectoryUserUnusable, DirectoryUserRefused, PermissionsKnown, PermissionsRefused,
        DirectoryUserFails, InFlight
<1>8. ASSUME NEW t \in Tabs, SignOut(t) \/ SignOutRevoked(t) \/ RequestRefused(t) PROVE AgreeInv'
  BY <1>8, StoreAgrees DEF SignOut, SignOutRevoked, EndSession, RequestRefused
<1>9. ASSUME NEW t \in Tabs, NEW u \in Users, SignIn(t, u) PROVE AgreeInv'
  <2>1. PICK calls, initial, s : calls = refreshes /\ initial = FALSE /\ s = SignedIn(cookie + 1, u)
    OBVIOUS
  <2>2. /\ Room(calls) /\ refreshes' = Added(calls, t, initial, s)
        /\ Store(t, s, pending) /\ ShowSession(t, s) /\ UNCHANGED <<open, ready>>
    BY <1>9, <2>1 DEF SignIn
  <2>3. calls \in [Slots -> Refresh \cup {Idle}]
    BY <1>0, <2>1 DEF TypeOK
  <2>4. \A i \in Slots : calls[i] # Idle => refreshes'[i] = calls[i]
    BY <2>2, <2>3, OthersCalls
  <2> QED
    BY <2>1, <2>2, <2>4, StoreAgrees
<1>10. ASSUME NEW t \in Tabs, NEW u \in Users, NEW a \in AccountsOf[u], UpdateMember(t, u, a)
       PROVE  AgreeInv'
  <2>1. CASE UNCHANGED <<storage, shown, refreshes, ready>>
    BY <1>1, <1>10, <2>1 DEF UpdateMember
  <2>2. CASE EndSession(t) /\ UNCHANGED <<refreshes, ready>>
    BY <1>10, <2>2, StoreAgrees DEF UpdateMember, EndSession
  <2>3. CASE BeginRefresh(t, FALSE, refreshes, pending)
    BY <1>0, <1>3, <1>10, <2>3 DEF UpdateMember, TypeOK
  <2> QED
    BY <1>10, <2>1, <2>2, <2>3 DEF UpdateMember
<1>11. ASSUME SessionExpires \/ SessionRevoked \/ \E t \in Tabs : Listen(t) PROVE AgreeInv'
  BY <1>1, <1>11 DEF SessionExpires, SessionRevoked, Listen
<1>12. ASSUME UNCHANGED vars PROVE AgreeInv'
  BY <1>1, <1>12 DEF vars
<1> QED
  BY <1>2, <1>4, <1>5, <1>7, <1>8, <1>9, <1>10, <1>11, <1>12
  DEF Next, TabStep, RequestFails, UserStep

LEMMA InitEventsOpen == Init => EventsOpen
BY DEF Init, EventsOpen

\* Once no answer and no storage event is on its way, every open tab shows the session that
\* is stored, however the tabs' refreshes, sign-ins and sign-outs interleaved (provider.tsx
\* 53-226): a tab that does not has been told of the change, or is asking, or a request of it
\* was refused, or the event that told it came before its listeners were registered.
THEOREM TabsAgree == Spec => []QuietTabsAgree
<1>1. TypeInv /\ AgreeInv => QuietTabsAgree
  <2> SUFFICES ASSUME TypeInv, AgreeInv, Quiet, NEW t \in Tabs, open[t], ~refused[t],
                      ~missed[t]
               PROVE  session[t] = stored
    BY DEF QuietTabsAgree
  <2>1. ~HasCall(t)
    BY DEF HasCall, Belongs, Quiet
  <2> QED
    BY <2>1 DEF AgreeInv, Quiet
<1>2. Init => TypeInv /\ EventsOpen /\ AgreeInv
  BY InitTypeInv, InitEventsOpen, InitAgreeInv
<1>3. TypeInv /\ EventsOpen /\ AgreeInv /\ [Next]_vars => (TypeInv /\ EventsOpen /\ AgreeInv)'
  BY NextTypeInv, NextEventsOpen, NextAgreeInv
<1> QED
  BY <1>1, <1>2, <1>3, PTL DEF Spec

(***************************************************************************)
(* At rest the stored member is the one of the cookie                      *)
(***************************************************************************)

\* Tab t sees to it that the stored member becomes the owner of the cookie: what its calls
\* have learnt is true, and if something else is stored it is asking or will be told to ask,
\* unless it missed that it was told.
Vouches(t) ==
    /\ open[t]
    /\ \A i \in Slots : Belongs(refreshes[i], t) /\ refreshes[i].step = "permissions"
                            => refreshes[i].user = owner
    /\ stored # None /\ stored.user # owner => pending[t] \/ HasCall(t) \/ missed[t]

\* The tab that signed in last vouches for the storage, since it had no older call.
IdentityInv == ~overlapped /\ cookie # 0 => \E t \in Tabs : Vouches(t)

LEMMA StoreVouches ==
    ASSUME NEW v \in Tabs, Vouches(v), NEW t \in Tabs, NEW s,
           NEW waiting \in [Tabs -> BOOLEAN], Store(t, s, waiting), UNCHANGED owner, open'[v],
           t # v => /\ waiting[v] = pending[v] /\ (HasCall(v) => HasCall(v)')
                    /\ (missed[v] => missed'[v]),
           t = v => s = None \/ s.user = owner \/ HasCall(v)',
           \A i \in Slots : Belongs(refreshes'[i], v) /\ refreshes'[i].step = "permissions"
                                => refreshes'[i] = refreshes[i]
    PROVE  Vouches(v)'
<1>1. CASE t = v
  BY <1>1 DEF Vouches, Store, Belongs
<1>2. CASE t # v
  <2>1. pending'[v] <=> pending[v] \/ s # stored
    BY <1>2 DEF Vouches, Store
  <2> QED
    BY <1>2, <2>1 DEF Vouches, Store, Belongs
<1> QED
  BY <1>1, <1>2

LEMMA BeginVouches ==
    ASSUME TypeOK, NEW v \in Tabs, Vouches(v), NEW t \in Tabs, NEW initial,
           NEW calls \in [Slots -> Refresh \cup {Idle}], NEW waiting \in [Tabs -> BOOLEAN],
           BeginRefresh(t, initial, calls, waiting), UNCHANGED owner, open'[v],
           \A i \in Slots : ~Belongs(refreshes[i], t) => calls[i] = refreshes[i],
           \A i \in Slots : calls[i] \in {refreshes[i], Idle},
           t # v => waiting[v] = pending[v]
    PROVE  Vouches(v)'
<1>3. t # v => (missed[v] => missed'[v])
  BY DEF BeginRefresh, ShowSession, TypeOK, shown
<1>1. CASE refreshes' = calls /\ Store(t, None, waiting)
  <2>1. t # v => (HasCall(v) => HasCall(v)')
    BY <1>1 DEF HasCall, Belongs
  <2>2. \A i \in Slots : Belongs(refreshes'[i], v) => refreshes'[i] = refreshes[i]
    BY <1>1 DEF Belongs
  <2> QED
    BY <1>1, <1>3, <2>1, <2>2, StoreVouches
<1>2. CASE Room(calls) /\ Store(t, stored, waiting) /\ refreshes' = Added(calls, t, initial, stored)
  <2>1. PICK i \in Slots :
           /\ calls[i] = Idle
           /\ refreshes' = [calls EXCEPT ![i] = [tab |-> t, initial |-> initial, step |-> "user",
                                                 parsed |-> stored, user |-> None]]
    BY <1>2, AddedOne
  <2>2. refreshes'[i].step = "user" /\ \A j \in Slots : j # i => refreshes'[j] = calls[j]
    BY <2>1
  <2>3. HasCall(t)' /\ \A j \in Slots : calls[j] # Idle => refreshes'[j] = calls[j]
    BY <1>2, OthersCalls DEF HasCall
  <2>4. t # v => (HasCall(v) => HasCall(v)')
    BY <2>3 DEF HasCall, Belongs
  <2>5. \A j \in Slots : Belongs(refreshes'[j], v) /\ refreshes'[j].step = "permissions"
                             => refreshes'[j] = refreshes[j]
    BY <2>2 DEF Belongs
  <2>6. PICK s : s = stored /\ Store(t, s, waiting)
    BY <1>2
  <2> QED
    BY <1>3, <2>3, <2>4, <2>5, <2>6, StoreVouches
<1> QED
  BY <1>1, <1>2 DEF BeginRefresh

\* A call that ends stores nothing, or the member it learnt of.
LEMMA EndVouches ==
    ASSUME TypeInv, NEW v \in Tabs, Vouches(v), NEW i \in Slots, refreshes[i] # Idle, NEW s,
           EndRefresh(i, s), UNCHANGED owner,
           \/ s = None
           \/ refreshes[i].step = "permissions" /\ s.user = refreshes[i].user
    PROVE  Vouches(v)'
<1>1. TypeOK
  BY DEF TypeInv
<1>2. PICK t \in Tabs, waiting \in [Tabs -> BOOLEAN] : t = refreshes[i].tab /\ waiting = pending
  BY <1>1 DEF TypeOK, Refresh
<1>3. Store(t, s, waiting) /\ open'[v]
  BY <1>2 DEF EndRefresh, Vouches
<1>4. refreshes'[i] = Idle /\ \A j \in Slots : j # i => refreshes'[j] = refreshes[j]
  BY <1>1 DEF EndRefresh, TypeOK
<1>5. t # v => (HasCall(v) => HasCall(v)') /\ (missed[v] => missed'[v])
  BY <1>1, <1>2, <1>4 DEF HasCall, Belongs, EndRefresh, ShowSession, TypeOK
<1>6. \A j \in Slots : Belongs(refreshes'[j], v) => refreshes'[j] = refreshes[j]
  BY <1>4 DEF Belongs
<1>7. t = v => s = None \/ s.user = owner
  BY <1>2 DEF Vouches, Belongs
<1> QED
  BY <1>2, <1>3, <1>5, <1>6, <1>7, StoreVouches

LEMMA NextIdentityInv ==
    TypeInv /\ EventsOpen /\ AgreeInv /\ IdentityInv /\ [Next]_vars => IdentityInv'
<1> SUFFICES ASSUME TypeInv, EventsOpen, AgreeInv, IdentityInv, [Next]_vars, ~overlapped',
                    cookie' # 0
             PROVE  \E t \in Tabs : Vouches(t)'
  BY DEF IdentityInv
<1> USE DEF server, storage, shown
<1>0. TypeOK
  BY DEF TypeInv
<1>1. ASSUME NEW t \in Tabs, NEW u \in Users, SignIn(t, u) PROVE Vouches(t)'
  <2>1. PICK calls, initial, s : calls = refreshes /\ initial = FALSE /\ s = SignedIn(cookie + 1, u)
    OBVIOUS
  <2>2. /\ open'[t] /\ stored' = s /\ owner' = u /\ s.user = u
        /\ Room(calls) /\ refreshes' = Added(calls, t, initial, s)
        /\ \A i \in Slots : ~Belongs(refreshes[i], t)
    BY <1>1, <2>1 DEF SignIn, SignedIn, Store
  <2>3. calls \in [Slots -> Refresh \cup {Idle}]
    BY <1>0, <2>1 DEF TypeOK
  <2>4. PICK i \in Slots : refreshes' = [calls EXCEPT ![i] = [tab |-> t, initial |-> initial,
                                           step |-> "user", parsed |-> s, user |-> None]]
    BY <2>2, <2>3, AddedOne
  <2>5. \A j \in Slots : Belongs(refreshes'[j], t) => refreshes'[j].step = "user"
    BY <2>1, <2>2, <2>3, <2>4
  <2> QED
    BY <2>2, <2>5 DEF Vouches
<1>2. CASE \E t \in Tabs, u \in Users : SignIn(t, u)
  BY <1>1, <1>2
<1>3. CASE ~\E t \in Tabs, u \in Users : SignIn(t, u)
  <2>1. UNCHANGED <<cookie, owner, overlapped>>
    BY <1>3
    DEF Next, TabStep, RequestFails, UserStep, vars, Answer, DirectoryUserKnown, DirectoryUserUnusable,
        DirectoryUserRefused, DirectoryUserFails, PermissionsKnown, PermissionsRefused, EndRefresh,
        OpenTab, Focus, StorageEvent, SignOut, SignOutRevoked, RequestRefused, UpdateMember,
        SessionExpires, SessionRevoked, Listen
  <2>2. PICK v \in Tabs : Vouches(v)
    BY <2>1 DEF IdentityInv
  <2>3. ASSUME UNCHANGED <<stored, pending, open, refreshes, missed>> PROVE Vouches(v)'
    BY <2>1, <2>2, <2>3 DEF Vouches, HasCall
  <2>4. ASSUME NEW t \in Tabs, OpenTab(t) PROVE Vouches(v)'
    <3>1. PICK calls, waiting :
             /\ calls = [i \in Slots |-> IF Belongs(refreshes[i], t) THEN Idle ELSE refreshes[i]]
             /\ waiting = [pending EXCEPT ![t] = FALSE]
      OBVIOUS
    <3>2. /\ calls \in [Slots -> Refresh \cup {Idle}] /\ waiting \in [Tabs -> BOOLEAN]
          /\ \A i \in Slots : ~Belongs(refreshes[i], t) => calls[i] = refreshes[i]
          /\ \A i \in Slots : calls[i] \in {refreshes[i], Idle}
          /\ t # v => waiting[v] = pending[v]
      BY <1>0, <3>1 DEF TypeOK
    <3>3. open'[v]
      BY <1>0, <2>2, <2>4 DEF OpenTab, TypeOK, Vouches
    <3>4. \E initial : BeginRefresh(t, initial, calls, waiting)
      BY <2>4, <3>1 DEF OpenTab
    <3> QED
      BY <1>0, <2>1, <2>2, <3>2, <3>3, <3>4, BeginVouches
  <2>5. ASSUME NEW t \in Tabs, NEW waiting \in [Tabs -> BOOLEAN], UNCHANGED open,
               BeginRefresh(t, FALSE, refreshes, waiting), t # v => waiting[v] = pending[v]
        PROVE  Vouches(v)'
    <3>1. PICK calls, initial : calls = refreshes /\ BeginRefresh(t, initial, calls, waiting)
      BY <2>5
    <3>2. /\ calls \in [Slots -> Refresh \cup {Idle}] /\ open'[v]
          /\ \A i \in Slots : calls[i] = refreshes[i]
      BY <1>0, <2>2, <2>5, <3>1 DEF TypeOK, Vouches
    <3> QED
      BY <1>0, <2>1, <2>2, <2>5, <3>1, <3>2, BeginVouches
  <2>6. ASSUME NEW t \in Tabs, StorageEvent(t) PROVE Vouches(v)'
    <3>1. PICK waiting \in [Tabs -> BOOLEAN] : waiting = [pending EXCEPT ![t] = FALSE]
      BY <1>0 DEF TypeOK
    <3>2. t # v => waiting[v] = pending[v]
      BY <1>0, <3>1 DEF TypeOK
    <3>3. CASE Listens(t)
      BY <2>5, <2>6, <3>1, <3>2, <3>3 DEF StorageEvent
    <3>4. CASE ~Listens(t)
      <4>1. /\ pending' = waiting /\ missed' = [missed EXCEPT ![t] = @ \/ ready[t]]
            /\ UNCHANGED <<stored, refreshes, open>>
        BY <2>6, <3>1, <3>4 DEF StorageEvent
      <4>2. ready[t] \/ HasCall(t)
        BY <2>6 DEF StorageEvent, EventsOpen, AgreeInv, HasInitialCall, HasCall
      <4>3. (missed[v] => missed'[v]) /\ (t = v /\ ready[v] => missed'[v])
        BY <1>0, <4>1 DEF TypeOK
      <4> QED
        BY <2>1, <2>2, <3>2, <4>1, <4>2, <4>3 DEF Vouches, HasCall
    <3> QED
      BY <3>3, <3>4
  <2>7. ASSUME NEW i \in Slots, DirectoryUserKnown(i) PROVE Vouches(v)'
    <3>1. refreshes[i] \in Refresh
      BY <1>0, <2>7 DEF DirectoryUserKnown, InFlight, TypeOK
    <3>2. PICK call : /\ call = [refreshes[i] EXCEPT !.step = "permissions", !.user = owner]
                      /\ refreshes' = [refreshes EXCEPT ![i] = call]
      BY <2>7 DEF DirectoryUserKnown
    <3>3. call # Idle /\ call.tab = refreshes[i].tab /\ call.user = owner
      BY <3>1, <3>2 DEF Refresh, Idle
    <3>4. refreshes'[i] = call /\ \A j \in Slots : j # i => refreshes'[j] = refreshes[j]
      BY <1>0, <3>2 DEF TypeOK
    <3>5. HasCall(v) => HasCall(v)'
      BY <3>3, <3>4 DEF HasCall, Belongs
    <3> QED
      BY <2>1, <2>2, <2>7, <3>3, <3>4, <3>5 DEF DirectoryUserKnown, Vouches
  <2>8. ASSUME NEW i \in Slots, Answer(i) \/ DirectoryUserFails(i), ~DirectoryUserKnown(i)
        PROVE  Vouches(v)'
    <3>1. CASE PermissionsKnown(i)
      <4>1. PICK s : s = RefreshedSession(refreshes[i])
        OBVIOUS
      <4>2. refreshes[i] # Idle /\ refreshes[i].step = "permissions" /\ EndRefresh(i, s)
        BY <3>1, <4>1 DEF PermissionsKnown, InFlight
      <4>3. refreshes[i].user # None
        BY <3>1, SessionConstants DEF PermissionsKnown, TypeInv, UserKnown
      <4>4. s.user = refreshes[i].user
        BY <1>0, <3>1, <4>1, <4>3, RefreshedTyped DEF PermissionsKnown
      <4> QED
        BY <2>1, <2>2, <4>2, <4>4, EndVouches
    <3>2. CASE refreshes[i] # Idle /\ EndRefresh(i, None)
      BY <2>1, <2>2, <3>2, EndVouches
    <3> QED
      BY <2>8, <3>1, <3>2
      DEF Answer, DirectoryUserUnusable, DirectoryUserRefused, PermissionsRefused,
          DirectoryUserFails, InFlight
  <2>9. ASSUME NEW t \in Tabs, Store(t, None, pending), UNCHANGED <<open, refreshes>>,
               t # v => (missed[v] => missed'[v])
        PROVE  Vouches(v)'
    <3>1. PICK s, waiting : s = None /\ waiting = pending /\ Store(t, s, waiting)
      BY <2>9
    <3>2. waiting \in [Tabs -> BOOLEAN] /\ waiting[v] = pending[v] /\ open'[v]
      BY <1>0, <2>2, <2>9, <3>1 DEF TypeOK, Vouches
    <3>3. HasCall(v) => HasCall(v)'
      BY <2>9 DEF HasCall
    <3>4. \A i \in Slots : refreshes'[i] = refreshes[i]
      BY <2>9
    <3> QED
      BY <2>1, <2>2, <2>9, <3>1, <3>2, <3>3, <3>4, StoreVouches
  <2>10. ASSUME NEW t \in Tabs, NEW u \in Users, NEW a \in AccountsOf[u], UpdateMember(t, u, a)
         PROVE  Vouches(v)'
    BY <1>0, <2>3, <2>5, <2>9, <2>10 DEF UpdateMember, EndSession, ShowSession, TypeOK
  <2>11. ASSUME NEW t \in Tabs, SignOut(t) \/ SignOutRevoked(t) \/ RequestRefused(t) PROVE Vouches(v)'
    BY <1>0, <2>9, <2>11 DEF SignOut, SignOutRevoked, RequestRefused, EndSession, ShowSession, TypeOK
  <2>12. ASSUME NEW t \in Tabs, Focus(t) PROVE Vouches(v)'
    BY <1>0, <2>5, <2>12 DEF Focus, TypeOK
  <2>13. CASE SessionExpires \/ SessionRevoked \/ (\E t \in Tabs : Listen(t)) \/ UNCHANGED vars
    BY <2>3, <2>13 DEF SessionExpires, SessionRevoked, Listen, vars
  <2> QED
    BY <1>3, <2>4, <2>6, <2>7, <2>8, <2>10, <2>11, <2>12, <2>13
    DEF Next, TabStep, RequestFails, UserStep
<1> QED
  BY <1>2, <1>3

\* Once no answer and no storage event is on its way, the member who is shown is the one whose
\* cookie every request carries, although refreshSession combines a stored session with two
\* answers given at different times (provider.tsx 53-141), unless a tab signed in while it was
\* still refreshing, or a tab missed an event before it listened: the tab that signed in last
\* corrects whatever the others store.
THEOREM IdentitySettles == Spec => []SettledIdentity
<1>1. TypeInv /\ AgreeInv /\ IdentityInv => SettledIdentity
  <2> SUFFICES ASSUME TypeInv, IdentityInv, Quiet, ~overlapped, stored # None,
                      Authenticated, \A t \in Tabs : ~missed[t]
               PROVE  stored.user = owner
    BY DEF SettledIdentity
  <2>1. PICK t \in Tabs : Vouches(t)
    BY DEF IdentityInv, Authenticated
  <2>2. ~HasCall(t) /\ ~pending[t]
    BY DEF HasCall, Belongs, Quiet
  <2> QED
    BY <2>1, <2>2 DEF Vouches
<1>2. Init => TypeInv /\ EventsOpen /\ AgreeInv /\ IdentityInv
  BY InitTypeInv, InitEventsOpen, InitAgreeInv DEF Init, IdentityInv
<1>3. TypeInv /\ EventsOpen /\ AgreeInv /\ IdentityInv /\ [Next]_vars
        => (TypeInv /\ EventsOpen /\ AgreeInv /\ IdentityInv)'
  BY NextTypeInv, NextEventsOpen, NextAgreeInv, NextIdentityInv
<1> QED
  BY <1>1, <1>2, <1>3, PTL DEF Spec

=============================================================================
