-------------------------- MODULE MCResultAssembly --------------------------
(* An instance of ResultAssembly for TLC. *)
EXTENDS ResultAssembly

\* Logs for a diagnostic, for evidence only and for neither; telemetry the decoder charges as
\* encoded and more, and telemetry no result takes.
MCEmissions ==
    {Output("log", size, size, TRUE) : size \in 1..3}
    \cup {Output("telemetry", 1, 1, TRUE), Output("telemetry", 1, 3, TRUE),
          Output("telemetry", 1, 1, FALSE)}

\* Content that fits, content that leaves no room, and content the decoder overcharges,
\* with room for the overflow to be told and without.
MCEssentials ==
    {[size |-> 1, charge |-> 2], [size |-> 5, charge |-> 5], [size |-> 3, charge |-> 7],
     [size |-> 3, charge |-> 9]}
=============================================================================
