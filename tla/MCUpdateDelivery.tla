-------------------------- MODULE MCUpdateDelivery --------------------------
(***************************************************************************)
(* UpdateDelivery for TLC.                                                 *)
(***************************************************************************)
EXTENDS UpdateDelivery

\* Every cancel names the same place.
SameTarget == [k \in Cancels |-> CHOOSE p \in Places : TRUE]
=============================================================================
