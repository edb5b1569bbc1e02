---------------------------- MODULE ContextTimes ----------------------------
(***************************************************************************)
(* What the parts of a Decision Context V6 share: the decision time, the   *)
(* window each supplied time must fall in, the canonical order of a list,  *)
(* and the metadata the host attaches to each stream.                      *)
(*                                                                         *)
(* Times are integers in one unit (the code carries milliseconds and       *)
(* nanoseconds of i64); identifiers are integers, ordered as the code      *)
(* orders their text.  A check returns TRUE where the code returns Ok: the *)
(* category of the error is left out.                                      *)
(***************************************************************************)
EXTENDS ListPlaces

CONSTANTS
    None,          \* an absent Option
    MinTime,       \* the earliest supplied time (2020-01-01)
    MaxTime,       \* i64::MAX, where a time saturates
    ObservedLead,  \* how far past the decision time an observed time may be
    ForecastLead,  \* ... a forecast step or settle
    HourLead,      \* ... the end of the current hour
    HourLength,    \* the time from one top of hour to the next
    MaxProvenance  \* provenance entries of one stream

ASSUME TimesAssumption ==
    /\ {MinTime, MaxTime, ObservedLead, ForecastLead, HourLead} \subseteq Nat
    /\ {HourLength, MaxProvenance} \subseteq Nat \ {0}
    /\ MinTime < MaxTime
    /\ None \notin Int

VARIABLE now  \* decision_time_unix_ms of the context the host would build

Times == 0..MaxTime

\* Mutant: a time past the last one wraps around.
WrappingAdd(a, b) == (a + b) % (MaxTime + 1)

SaturatingAdd(a, b) == IF a + b > MaxTime THEN MaxTime ELSE a + b

\* A time after the decision time, as the host's feeds give it.
Later(d) == SaturatingAdd(now, d)

\* The latest time of each kind that a context decided at t may hold.
Clock(t) ==
    [observed |-> SaturatingAdd(t, ObservedLead),
     forecast |-> SaturatingAdd(t, ForecastLead),
     hour     |-> SaturatingAdd(t, HourLead)]

IsTime(at, latest) == MinTime =< at /\ at =< latest

OptionalTime(at, latest) == at = None \/ IsTime(at, latest)

TopOfHour(at) == at % HourLength = 0

\* Keys are tuples, compared component by component.
Precedes(a, b) ==
    \E i \in DOMAIN a : a[i] < b[i] /\ \A j \in 1..(i - 1) : a[j] = b[j]

StrictlySorted(keys) ==
    \A i \in 1..(Len(keys) - 1) : Precedes(keys[i], keys[i + 1])

NewestFirst(keys) ==
    \A i \in 1..(Len(keys) - 1) : Precedes(keys[i + 1], keys[i])

\* The keys of a list of records.
KeysOf(list, Key(_)) == [i \in DOMAIN list |-> Key(list[i])]

\* The first element of a list at some places, and the one a lookup finds.
FirstAt(list, places) ==
    IF places = {} THEN None ELSE list[CHOOSE i \in places : \A j \in places : i =< j]

FirstWhere(list, Found(_)) == FirstAt(list, {i \in DOMAIN list : Found(list[i])})

-----------------------------------------------------------------------------
(* Component metadata *)

Authorities == {"Current", "Warming", "Unavailable"}

ComponentMetas ==
    [authority : Authorities, revision : Nat, generation : Nat,
     updated_at : Times \cup {None}, provenance : Seq(Times)]

\* The provider's and the host's time of a provenance are one time here.
ComponentMeta(authority, at) ==
    [authority |-> authority, revision |-> 1, generation |-> 1,
     updated_at |-> at, provenance |-> IF at = None THEN << >> ELSE <<at>>]

ValidMeta(meta) ==
    /\ Len(meta.provenance) =< MaxProvenance
    /\ meta.revision # 0
    /\ meta.generation # 0

\* A stream's update and provenance times are observed times; absent times pass.
ValidMetaTimes(meta, clock) ==
    /\ OptionalTime(meta.updated_at, clock.observed)
    /\ \A i \in DOMAIN meta.provenance : IsTime(meta.provenance[i], clock.observed)

\* Time passes between two decisions of a Sleeve.
Tick == now < MaxTime /\ now' = now + 1
=============================================================================
