--------------------------- MODULE BoundedMaximum ---------------------------
(***************************************************************************)
(* The minimum of a set of natural numbers, and the maximum of a bounded    *)
(* one, which FiniteSetsExt defines by CHOOSE, exist.                       *)
(***************************************************************************)
EXTENDS Naturals, FiniteSetsExt, NaturalsInduction, WellFoundedInduction, TLAPS

\* A bounded nonempty set of natural numbers has the maximum that Max returns.
LEMMA MaxOfBounded ==
    ASSUME NEW S, S \subseteq Nat, S # {}, NEW b \in Nat, \A x \in S : x <= b
    PROVE  Max(S) \in S /\ \A x \in S : x <= Max(S)
<1> DEFINE T == {t \in Nat : \A x \in S : x <= t}
<1>1. PICK t \in T : \A y \in T : ~(<<y, t>> \in OpToRel(<, Nat))
  <2>1. T \subseteq Nat /\ T # {}
    OBVIOUS
  <2>2. IsWellFoundedOn(OpToRel(<, Nat), Nat)
    BY NatLessThanWellFounded
  <2> HIDE DEF T
  <2> QED
    BY <2>1, <2>2, WFMin
<1>2. \A y \in T : ~(y < t)
  BY <1>1 DEF OpToRel
<1>3. t \in S
  <2>1. CASE t = 0
    <3>1. PICK x \in S : TRUE
      OBVIOUS
    <3>2. x <= 0 /\ x \in Nat
      BY <2>1, <3>1
    <3>3. x = 0
      BY <3>2
    <3> QED
      BY <2>1, <3>3
  <2>2. CASE t # 0
    <3>1. t - 1 \notin T
      BY <1>2, <2>2
    <3> QED
      BY <3>1, <2>2
  <2> QED
    BY <2>1, <2>2
<1>4. \A x \in S : t >= x
  OBVIOUS
<1>5. \E x \in S : \A y \in S : x >= y
  BY <1>3, <1>4
<1> QED
  BY <1>5 DEF Max

\* A nonempty set of natural numbers has the minimum that Min returns.
LEMMA MinOfNaturals ==
    ASSUME NEW S, S \subseteq Nat, S # {}
    PROVE  Min(S) \in S /\ \A x \in S : Min(S) <= x
<1>1. PICK t \in S : \A y \in S : ~(<<y, t>> \in OpToRel(<, Nat))
  <2>1. IsWellFoundedOn(OpToRel(<, Nat), Nat)
    BY NatLessThanWellFounded
  <2> QED
    BY <2>1, WFMin
<1>2. \A y \in S : ~(y < t)
  BY <1>1 DEF OpToRel
<1>3. \E x \in S : \A y \in S : x =< y
  BY <1>2
<1> QED
  BY <1>3 DEF Min
=============================================================================
