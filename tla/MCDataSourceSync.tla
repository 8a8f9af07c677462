-------------------------- MODULE MCDataSourceSync --------------------------
(***************************************************************************)
(* DataSourceSync on small sets. Runs, pages and the two bodies that share a *)
(* validator are never compared but for equality: permuting them changes     *)
(* nothing.                                                                  *)
(***************************************************************************)
EXTENDS DataSourceSync, TLC

CONSTANTS b1, b2, b3, e1

Answer(b, e) == [body |-> b, validator |-> e]

\* One page that never changes.
OneAnswer == {Answer(b1, e1)}

\* Two bodies that share a validator, and one that is sent without any.
SharedValidator == {Answer(b1, e1), Answer(b2, e1), Answer(b3, NoValidator)}

Symmetry == Permutations(Runs) \cup Permutations(Urls) \cup Permutations({b1, b2})
=============================================================================
