--------------------------- MODULE ExclusiveLease ---------------------------
(***************************************************************************)
(* What synchronization promises to those who use a data source: the source *)
(* belongs to at most one run, each run holds it once and ends once, and a  *)
(* run that loses it to another one has failed.  How the row, its token, its *)
(* expiry, the API's requests and the workers' late transactions bring this *)
(* about is the subject of DataSourceSync, which implements this module.    *)
(***************************************************************************)
CONSTANTS Holders, NoHolder

VARIABLES
    holder,     \* who has the source, or NoHolder
    outcome     \* what became of every holder

leaseVars == <<holder, outcome>>

Init == holder = NoHolder /\ outcome = [h \in Holders |-> "none"]

Acquire(h) ==
    /\ holder = NoHolder /\ outcome[h] = "none"
    /\ holder' = h
    /\ outcome' = [outcome EXCEPT ![h] = "running"]

\* The source is taken from a holder that is late, which fails by that.
Seize(h) ==
    /\ holder # NoHolder /\ outcome[h] = "none"
    /\ holder' = h
    /\ outcome' = [outcome EXCEPT ![holder] = "failed", ![h] = "running"]

\* Only the holder can end its turn.
Release(h, result) ==
    /\ holder = h
    /\ holder' = NoHolder
    /\ outcome' = [outcome EXCEPT ![h] = result]

Next == \E h \in Holders :
            \/ Acquire(h) \/ Seize(h)
            \/ \E result \in {"completed", "failed"} : Release(h, result)

Spec == Init /\ [][Next]_leaseVars
=============================================================================
