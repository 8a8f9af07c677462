-------------------------- MODULE MCBrowserSession --------------------------
(* An instance of BrowserSession for TLC. *)
EXTENDS BrowserSession, TLC

CONSTANTS t1, t2, u1, u2, none

Member    == [active |-> TRUE, role |-> "operator", memberships |-> {"active"}]
Suspended == [active |-> TRUE, role |-> "operator", memberships |-> {"suspended"}]

\* One member whose account does not change, one who may be suspended.
Accounts == u1 :> {Member} @@ u2 :> {Member, Suspended}

\* The second sign-in is with the same account or with the other one.
WhoSignsIn == <<{u1}, {u1, u2}>>

\* The first session may be revoked, the second may expire.
HowSessionsEnd == <<{"is_revoked"}, {"expires"}>>
=============================================================================
