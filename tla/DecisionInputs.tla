--------------------------- MODULE DecisionInputs ---------------------------
(***************************************************************************)
(* The inputs of a Decision Context V6 beside each other: the station, the *)
(* hourly index, the nowcast and the markets, folded by the host as its    *)
(* feeds tell it, and checked as a whole before each decision              *)
(* (DecisionContextV6::validate and KernelSession::invoke).                *)
(*                                                                         *)
(* No check relates two of the parts, so that one feed at a time is        *)
(* followed: `live` is chosen at the start, and the other parts stay as    *)
(* they are, without a nowcast or a window.                                *)
(***************************************************************************)
EXTENDS HourlyIndex, Nowcast, StationFeed, MarketBook

CONSTANT MaxUpdates  \* bound on the live part's updates, per part

Parts == {"index", "nowcast", "station", "markets"}

ASSUME InputsAssumption == MaxUpdates \in [Parts -> Nat]

VARIABLES
    live,    \* the part whose feed is followed
    updates  \* counts its updates

IndexVars == index
NowcastVars == nowcast
MarketVars == <<markets, window, strikes>>
InputVars == <<index, nowcast, StationVars, MarketVars>>
vars == <<InputVars, now, live, updates>>

\* What the whole is made of.
TypeOK == IndexTypeOK /\ NowcastTypeOK /\ StationTypeOK /\ MarketTypeOK

\* The context a host builds at t is admitted.
ValidInputs(t) ==
    /\ ValidIndex(index, t)
    /\ ValidNowcast(nowcast, t)
    /\ ValidStation(station)
    /\ ValidMarkets

-----------------------------------------------------------------------------
Init ==
    /\ now = MinTime + 1
    /\ IndexInit /\ NowcastInit /\ StationInit /\ MarketInit
    /\ live \in Parts
    /\ live # "nowcast" => nowcast = NoSnapshot
    /\ live # "markets" => window = None
    /\ updates = 0

\* The live part is updated; the others stay.
Update(part) ==
    /\ live = part
    /\ updates < MaxUpdates[part]
    /\ updates' = updates + 1
    /\ UNCHANGED <<now, live>>

IndexUpdate ==
    /\ Update("index") /\ IndexFold
    /\ UNCHANGED <<NowcastVars, StationVars, MarketVars>>

NowcastUpdate ==
    /\ Update("nowcast") /\ NowcastFold
    /\ UNCHANGED <<IndexVars, StationVars, MarketVars>>

StationUpdate ==
    /\ Update("station") /\ StationFold
    /\ UNCHANGED <<IndexVars, NowcastVars, MarketVars>>

MarketUpdate ==
    /\ Update("markets") /\ MarketFold
    /\ UNCHANGED <<IndexVars, NowcastVars, StationVars>>

CaptureDelivered ==
    /\ Deliver
    /\ UNCHANGED <<IndexVars, NowcastVars, MarketVars, now, live, updates>>

\* Time passes; the station and the markets are checked against no time.
TimePasses ==
    /\ live \in {"index", "nowcast"}
    /\ Tick
    /\ UNCHANGED <<InputVars, live, updates>>

Next ==
    \/ IndexUpdate
    \/ NowcastUpdate
    \/ StationUpdate
    \/ MarketUpdate
    \/ CaptureDelivered
    \/ TimePasses

Spec == Init /\ [][Next]_vars

-----------------------------------------------------------------------------
(* Properties *)

\* Inputs that were admitted are admitted at every later decision until an update changes
\* them: no input expires, and a decision time near the end of time does not refuse what an
\* earlier one took.  (Clock's saturating additions; the checks' one-sided windows.)
InputsStayValid ==
    [][UNCHANGED InputVars /\ ValidInputs(now) => ValidInputs(now')]_vars
=============================================================================
