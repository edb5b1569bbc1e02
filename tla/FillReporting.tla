---------------------------- MODULE FillReporting ----------------------------
(***************************************************************************)
(* What the runner promises a kernel about its orders, without sections,   *)
(* views, tombstones, attempts or deferrals: a kernel's books of an order  *)
(* follow its fills one after the other, never ahead of the Broker and     *)
(* never back, except to the last durable write after a crash; once an     *)
(* order is closed the books are complete, and they stay so.               *)
(*                                                                         *)
(* RunnerSection implements it (Reporting there).                          *)
(***************************************************************************)
EXTENDS Naturals

CONSTANTS
    Orders,    \* the place commands
    Quantity   \* an order's quantity, in Nat

VARIABLES
    had,      \* the fills each order has had, 0 among them
    settled,  \* orders that cannot fill any more: final, or refused
    told,     \* the fill the kernel and the diagnostics were told of
    closed,   \* orders reported as final
    kept      \* told and closed as of the last durable write

vars == <<had, settled, told, closed, kept>>

Init ==
    /\ had \in [Orders -> SUBSET (0..Quantity)]
    /\ \A o \in Orders : 0 \in had[o]
    /\ settled \subseteq Orders
    /\ told = [o \in Orders |-> 0]
    /\ closed = {}
    /\ kept = [told |-> told, closed |-> closed]

\* No fill was had after this one.
IsLastFill(o, fill) == fill \in had[o] /\ \A n \in had[o] : n =< fill

\* An order fills further, or settles, or both.
Fill(o) ==
    /\ o \notin settled
    /\ \E n \in 0..Quantity :
          /\ \A m \in had[o] : m =< n
          /\ had' = [had EXCEPT ![o] = @ \cup {n}]
    /\ settled' \in {settled, settled \cup {o}}
    /\ UNCHANGED <<told, closed, kept>>

\* A decision tells of later fills, of any an order has had, skipping none that it closes
\* with.  Orders it issues may be refused or cancelled at once, without a fill.
Report ==
    /\ UNCHANGED had
    /\ settled \subseteq settled' /\ \A o \in settled' \ settled : had[o] = {0}
    /\ \A o \in Orders : /\ told'[o] \in had[o] /\ told'[o] >= told[o]
                         /\ o \in closed => told'[o] = told[o]
    /\ closed \subseteq closed'
    /\ \A o \in closed' \ closed : o \in settled /\ IsLastFill(o, told'[o])
    /\ kept' \in {kept, [told |-> told', closed |-> closed']}

\* A crash goes back to the last durable write.
Recover ==
    /\ told' = kept.told /\ closed' = kept.closed
    /\ UNCHANGED <<had, settled, kept>>

Next == (\E o \in Orders : Fill(o)) \/ Report \/ Recover

Spec == Init /\ [][Next]_vars
=============================================================================
