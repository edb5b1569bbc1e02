----------------------------- MODULE ListPlaces -----------------------------
(***************************************************************************)
(* The elements of a list at some of its places.                           *)
(***************************************************************************)
EXTENDS Integers, Sequences, FiniteSets

\* The n-th of some places in a list, and the elements at these places in their order.
NthPlace(places, n) == CHOOSE i \in places : Cardinality({j \in places : j < i}) = n - 1

ElementsAt(list, places) ==
    [n \in 1..Cardinality(places) |-> list[NthPlace(places, n)]]

\* SelectSeq, in a closed form.
Selected(list, Test(_)) == ElementsAt(list, {i \in DOMAIN list : Test(list[i])})
=============================================================================
