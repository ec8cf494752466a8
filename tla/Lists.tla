------------------------------- MODULE Lists --------------------------------
(***************************************************************************)
(* Lists as the code sorts and filters them, by definitions the provers    *)
(* can open: what stands where in an order, and what is left of a list.    *)
(***************************************************************************)
EXTENDS Integers, FiniteSets, SequencesExt

(* The elements of S in the order R, a set of pairs: the n-th one has n - 1
   before it. *)
InOrder(S, R) ==
  [n \in 1..Cardinality(S) |->
     CHOOSE x \in S : Cardinality({y \in S : <<y, x>> \in R}) = n - 1]

(* The items of a list that are in T, as a filter leaves them. *)
PlacesOf(s, T) == {i \in DOMAIN s : s[i] \in T}
Ascending(S) == {p \in S \X S : p[1] < p[2]}
Those(s, T) == LET kept == InOrder(PlacesOf(s, T), Ascending(DOMAIN s))
               IN [n \in DOMAIN kept |-> s[kept[n]]]
Kept(s, P(_)) == Those(s, {x \in ToSet(s) : P(x)})
=============================================================================
