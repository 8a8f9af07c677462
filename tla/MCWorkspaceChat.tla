--------------------------- MODULE MCWorkspaceChat ---------------------------
(* Small instances of WorkspaceChat. *)
EXTENDS WorkspaceChat, TLC

CONSTANTS w1, w2, k1, k2, c1, c2, c3

TwoWorkspaces == k1 :> w1 @@ k2 :> w2
Homes == c1 :> w1 @@ c2 :> w1 @@ c3 :> w2
=============================================================================
