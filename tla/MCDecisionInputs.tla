-------------------------- MODULE MCDecisionInputs --------------------------
(* An instance of DecisionInputs for TLC. *)
EXTENDS DecisionInputs

\* A station's packet and the markets' lists take three updates to go wrong; two of the
\* index or of the nowcast, whose updates have more forms, reach every slip twice.
MCMaxUpdates ==
    [index |-> 2, nowcast |-> 2, station |-> 3, markets |-> 3]
=============================================================================
