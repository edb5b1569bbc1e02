---------------------------- MODULE HourlyIndex ----------------------------
(***************************************************************************)
(* The hourly Kalshi Weather Index of a city: the host folds the           *)
(* provider's snapshot and events into one input, checks it before each    *)
(* decision (hourly_index_v6.rs), and a kernel looks its records up        *)
(* (strategy_core_kernel hourly_index.rs).                                 *)
(*                                                                         *)
(* The fold is the host's and external.  It is modelled with what can go   *)
(* wrong in it (an event folded out of order, a summary not refreshed, a   *)
(* short array, metadata lost, a receipt from a clock ahead), because the  *)
(* check is what stands between such an input and a kernel.                *)
(***************************************************************************)
EXTENDS ContextTimes

CONSTANTS
    MaxMinutes,      \* MAX_INDEX_MINUTES
    MaxStations,     \* MAX_INDEX_STATIONS
    MaxSteps,        \* MAX_INDEX_FORECAST_STEPS
    MaxModels,       \* MAX_INDEX_FORECAST_MODELS
    MaxSettles,      \* MAX_INDEX_FORECAST_SETTLES
    MaxSettlements,  \* MAX_INDEX_SETTLEMENTS
    MaxConditions,   \* MAX_INDEX_FEED_CONDITIONS
    DefaultModel,    \* DEFAULT_INDEX_FORECAST_MODEL
    OtherModels,     \* the other forecast models
    Stations,        \* station identifiers, 1..n
    Readings,        \* values a minute may have
    MaxIndexSeq      \* i64::MAX, the last seq a kernel is told

ASSUME IndexAssumption ==
    /\ {MaxMinutes, MaxStations, MaxSteps, MaxModels, MaxSettles, MaxSettlements,
        MaxConditions, MaxIndexSeq} \subseteq Nat
    /\ OtherModels \subseteq Int /\ DefaultModel \in Int \ OtherModels
    /\ IsFiniteSet(Stations) /\ 1 \in Stations /\ Stations = 1..Cardinality(Stations)
    /\ None \notin Readings

VARIABLE index  \* HourlyIndexInputV6: the supplied city and its streams' metadata

Phases == {"Provisional", "Official", "Missing"}
Streams == {"minutes", "hour", "forecast", "bias", "settlements", "calibration"}
KnownConditions == {"PersistentFallback", "IntermittentFallback", "MemberExcluded",
                    "QcSubstitution", "QuorumRisk", "UnavailableMinutes"}

-----------------------------------------------------------------------------
(* What the host supplies *)

OptionalTimes == Times \cup {None}

SuppliedEnvelopes == [seq : Nat, emitted_at : OptionalTimes, received_at : Times]

StationReadings == [station : Stations, received_at : OptionalTimes]

\* value stands for value_f, official_f and provisional_f together.
SuppliedMinutes ==
    [envelope : SuppliedEnvelopes \cup {None}, minute : Times, phase : Phases,
     revision : Nat, value : Readings \cup {None}, published_at : OptionalTimes,
     stations : Seq(StationReadings)]

\* A kind the contract does not know carries the provider's text.
FeedConditions ==
    [known : BOOLEAN, kind : KnownConditions \cup {"member_drift"},
     station : Stations \cup {None}, since : Times, last_seen : Times]

SuppliedHours ==
    [hour_end : Times, final_at : Times, determine_by : Times,
     settles_now_as : [minute : Times, value : Readings] \cup {None},
     feed_conditions : Seq(FeedConditions)]

\* An element of a step's array is named by the step it is for.
SuppliedForecasts ==
    [model_id : OtherModels \cup {DefaultModel}, run_time : Times, fetched_at : Times,
     missing : Seq(Stations), steps : Seq(Times), value : Seq(Times),
     quorum_met : Seq(Times), partial : Seq(Times), settles : Seq(Times),
     bias : [as_of : Times, members : Seq(Stations)] \cup {None}]

SuppliedSettlements ==
    [hour_end : Times, settle_minute : OptionalTimes, determined_at : Times,
     finalized_at : OptionalTimes, revision : Nat]

SuppliedCalibrations ==
    [effective_at : OptionalTimes, published_at : OptionalTimes, members : Seq(Stations)]

SuppliedIndexes ==
    [seq : Nat,
     latest : SuppliedMinutes \cup {None}, latest_valued : SuppliedMinutes \cup {None},
     recent_minutes : Seq(SuppliedMinutes), current_hour : SuppliedHours \cup {None},
     forecast : SuppliedForecasts \cup {None}, forecasts : Seq(SuppliedForecasts),
     recent_settlements : Seq(SuppliedSettlements),
     calibration : SuppliedCalibrations \cup {None}]

ModelComponents == [model_id : OtherModels, forecast : ComponentMetas, bias : ComponentMetas]

IndexComponents ==
    [streams : [Streams -> ComponentMetas], models : Seq(ModelComponents)]

\* The index is what the contract's types can hold.
IndexTypeOK == index \in [supplied : SuppliedIndexes, components : IndexComponents]

-----------------------------------------------------------------------------
(* HourlyIndexInputV6::validate *)

MinuteKey(m) == <<m.minute>>
HourKey(r) == <<r.hour_end>>
ModelKey(r) == <<r.model_id>>
StationKey(r) == <<r.station>>
OwnKey(v) == <<v>>

ValidMinute(m, clock) ==
    /\ m.envelope # None =>
          /\ OptionalTime(m.envelope.emitted_at, clock.observed)
          /\ IsTime(m.envelope.received_at, clock.observed)
    /\ IsTime(m.minute, clock.observed)
    /\ OptionalTime(m.published_at, clock.observed)
    /\ Len(m.stations) =< MaxStations
    /\ \A i \in DOMAIN m.stations : OptionalTime(m.stations[i].received_at, clock.observed)
    /\ StrictlySorted(KeysOf(m.stations, StationKey))

\* A known kind is never carried as text, and a condition was last seen after it began.
ValidCondition(c, clock) ==
    /\ ~c.known => c.kind \notin KnownConditions
    /\ IsTime(c.since, c.last_seen)
    /\ IsTime(c.last_seen, clock.observed)

ValidHour(h, clock) ==
    /\ TopOfHour(h.hour_end)
    /\ \A at \in {h.hour_end, h.final_at, h.determine_by} : IsTime(at, clock.hour)
    /\ h.settles_now_as # None => IsTime(h.settles_now_as.minute, clock.observed)
    /\ Len(h.feed_conditions) =< MaxConditions
    /\ \A i \in DOMAIN h.feed_conditions : ValidCondition(h.feed_conditions[i], clock)

\* Mutant: the flags of the steps are not counted.
AlignedValues(f) ==
    /\ Len(f.value) = Len(f.steps)
    /\ Len(f.quorum_met) = Len(f.steps)

\* The arrays are aligned to the steps.
AlignedForecast(f) ==
    /\ Len(f.value) = Len(f.steps)
    /\ Len(f.quorum_met) = Len(f.steps)
    /\ Len(f.partial) = Len(f.steps)

ValidForecast(f, clock) ==
    /\ IsTime(f.run_time, clock.observed) /\ IsTime(f.fetched_at, clock.observed)
    /\ Len(f.steps) =< MaxSteps /\ Len(f.settles) =< MaxSettles
    /\ Len(f.missing) =< MaxStations
    /\ AlignedForecast(f)
    /\ StrictlySorted(KeysOf(f.missing, OwnKey))
    /\ StrictlySorted(KeysOf(f.steps, OwnKey))
    /\ \A i \in DOMAIN f.steps : IsTime(f.steps[i], clock.forecast)
    /\ \A i \in DOMAIN f.settles :
          TopOfHour(f.settles[i]) /\ IsTime(f.settles[i], clock.forecast)
    /\ StrictlySorted(KeysOf(f.settles, OwnKey))
    /\ f.bias # None =>
          /\ IsTime(f.bias.as_of, clock.observed)
          /\ Len(f.bias.members) =< MaxStations
          /\ StrictlySorted(KeysOf(f.bias.members, OwnKey))

ValidSettlement(s, clock) ==
    /\ TopOfHour(s.hour_end)
    /\ IsTime(s.hour_end, clock.observed) /\ IsTime(s.determined_at, clock.observed)
    /\ OptionalTime(s.settle_minute, clock.observed)
    /\ OptionalTime(s.finalized_at, clock.observed)

\* A calibration may be published ahead of its effective time, not ahead of its publication.
ValidCalibration(c, clock) ==
    /\ OptionalTime(c.effective_at, MaxTime)
    /\ OptionalTime(c.published_at, clock.observed)
    /\ Len(c.members) =< MaxStations
    /\ StrictlySorted(KeysOf(c.members, OwnKey))

\* Mutant: a summary of the same time is taken for the same minute.
SameTime(a, b) == a.minute = b.minute

\* Identity and values; readings and envelope may differ.
SameMinute(a, b) ==
    /\ a.minute = b.minute
    /\ a.revision = b.revision
    /\ a.phase = b.phase
    /\ a.value = b.value

HasValue(m) == m.value # None

\* latest is the newest retained minute; latest_valued agrees with its retained minute and
\* no newer retained minute has a value.
ValidSummaries(s) ==
    LET newest == FirstWhere(s.recent_minutes, LAMBDA m : TRUE)
        valued == FirstWhere(s.recent_minutes, HasValue)
        SummaryOf(m) == m.minute = s.latest_valued.minute
        retained == FirstWhere(s.recent_minutes, SummaryOf)
    IN  /\ newest # None => s.latest # None /\ SameMinute(s.latest, newest)
        /\ s.latest_valued = None => valued = None
        /\ s.latest_valued # None =>
              /\ HasValue(s.latest_valued)
              /\ s.latest # None /\ s.latest_valued.minute =< s.latest.minute
              /\ retained # None => SameMinute(s.latest_valued, retained)
              /\ valued # None => valued.minute =< s.latest_valued.minute

ValidSupplied(s, clock) ==
    /\ Len(s.recent_minutes) =< MaxMinutes
    /\ Len(s.recent_settlements) =< MaxSettlements
    /\ s.latest # None => ValidMinute(s.latest, clock)
    /\ s.latest_valued # None => ValidMinute(s.latest_valued, clock)
    /\ \A i \in DOMAIN s.recent_minutes : ValidMinute(s.recent_minutes[i], clock)
    /\ NewestFirst(KeysOf(s.recent_minutes, MinuteKey))
    /\ ValidSummaries(s)
    /\ s.current_hour # None => ValidHour(s.current_hour, clock)
    /\ s.forecast # None =>
          ValidForecast(s.forecast, clock) /\ s.forecast.model_id = DefaultModel
    /\ Len(s.forecasts) =< MaxModels
    /\ StrictlySorted(KeysOf(s.forecasts, ModelKey))
    /\ \A i \in DOMAIN s.forecasts :
          s.forecasts[i].model_id # DefaultModel /\ ValidForecast(s.forecasts[i], clock)
    /\ \A i \in DOMAIN s.recent_settlements : ValidSettlement(s.recent_settlements[i], clock)
    /\ NewestFirst(KeysOf(s.recent_settlements, HourKey))
    /\ s.calibration # None => ValidCalibration(s.calibration, clock)

ValidStream(meta, clock) == ValidMeta(meta) /\ ValidMetaTimes(meta, clock)

\* Every other model's forecast comes with that model's metadata.
ValidIndex(i, t) ==
    LET clock == Clock(t)
        models == i.components.models
    IN  /\ \A stream \in Streams : ValidStream(i.components.streams[stream], clock)
        /\ Len(models) =< MaxModels
        /\ StrictlySorted(KeysOf(models, ModelKey))
        /\ \A k \in DOMAIN models :
              /\ models[k].model_id # DefaultModel
              /\ ValidStream(models[k].forecast, clock) /\ ValidStream(models[k].bias, clock)
        /\ \A k \in DOMAIN i.supplied.forecasts :
              \E n \in DOMAIN models : models[n].model_id = i.supplied.forecasts[k].model_id
        /\ ValidSupplied(i.supplied, clock)

-----------------------------------------------------------------------------
(* HourlyIndexState::from_supplied: what a kernel reads.  Conversions to   *)
(* f64 and to DateTime keep the values told apart here.                    *)

\* A minute without an envelope was not set by an event; a seq past i64 is not told.
MinuteProvenance(envelope) ==
    IF envelope = None THEN [city_sequence |-> None, received_at |-> None]
    ELSE [city_sequence |-> IF envelope.seq =< MaxIndexSeq THEN envelope.seq ELSE None,
          received_at |-> envelope.received_at]

ReadMinutes ==
    [minute : Times, phase : Phases, revision : Nat, value : Readings \cup {None},
     stations : Seq(StationReadings),
     provenance : [city_sequence : Nat \cup {None}, received_at : OptionalTimes],
     supplied : SuppliedMinutes]

\* An absent Option is no minute and no metadata.
ASSUME IndexNoneAssumption ==
    /\ None \notin SuppliedMinutes /\ None \notin ReadMinutes
    /\ None \notin ModelComponents
    /\ None \notin [forecast : ComponentMetas, bias : ComponentMetas]

ReadMinute(m) ==
    [minute |-> m.minute, phase |-> m.phase, revision |-> m.revision, value |-> m.value,
     stations |-> m.stations, provenance |-> MinuteProvenance(m.envelope), supplied |-> m]

\* zip: as many steps as the shortest of the four arrays.
ReadSteps(f) ==
    LET lengths == {Len(f.steps), Len(f.value), Len(f.quorum_met), Len(f.partial)}
    IN  [i \in 1..(CHOOSE n \in lengths : \A m \in lengths : n =< m) |->
            [at |-> f.steps[i], value |-> f.value[i], quorum_met |-> f.quorum_met[i],
             partial |-> f.partial[i]]]

ReadForecast(f) ==
    [model_id |-> f.model_id, steps |-> ReadSteps(f), settles |-> f.settles,
     bias |-> f.bias, supplied |-> f]

ReadHour(h) ==
    [hour_end |-> h.hour_end, final_at |-> h.final_at, determine_by |-> h.determine_by,
     settles_now_as |-> h.settles_now_as, feed_conditions |-> h.feed_conditions]

ReadOptional(value, Read(_)) == IF value = None THEN None ELSE Read(value)

ReadEach(list, Read(_)) == [i \in DOMAIN list |-> Read(list[i])]

ReadIndex(i) ==
    [seq |-> i.supplied.seq,
     components |-> i.components,
     latest |-> ReadOptional(i.supplied.latest, ReadMinute),
     latest_valued |-> ReadOptional(i.supplied.latest_valued, ReadMinute),
     recent_minutes |-> ReadEach(i.supplied.recent_minutes, ReadMinute),
     current_hour |-> ReadOptional(i.supplied.current_hour, ReadHour),
     forecast |-> ReadOptional(i.supplied.forecast, ReadForecast),
     forecasts |-> ReadEach(i.supplied.forecasts, ReadForecast),
     recent_settlements |-> i.supplied.recent_settlements,
     calibration |-> i.supplied.calibration]

\* HourlyIndexState::minute, settlement, forecast_for and forecast_components;
\* IndexMinute::station; IndexForecast::settle.
MinuteAt(state, minute) ==
    LET At(m) == m.minute = minute IN FirstWhere(state.recent_minutes, At)

StationReading(m, station) ==
    LET Of(r) == r.station = station IN FirstWhere(m.stations, Of)

SettleAt(f, hour_end) ==
    LET At(end) == end = hour_end IN FirstWhere(f.settles, At)

Settlement(state, hour_end) ==
    LET At(s) == s.hour_end = hour_end IN FirstWhere(state.recent_settlements, At)

\* The default model's forecast is looked at first.
ForecastFor(state, model) ==
    LET Of(f) == f.model_id = model
    IN  FirstWhere((IF state.forecast = None THEN << >> ELSE <<state.forecast>>)
                       \o state.forecasts, Of)

ForecastComponents(state, model) ==
    LET Of(c) == c.model_id = model
        found == FirstWhere(state.components.models, Of)
        streams == state.components.streams
    IN  IF model = DefaultModel
        THEN [forecast |-> streams["forecast"], bias |-> streams["bias"]]
        ELSE IF found = None THEN None
        ELSE [forecast |-> found.forecast, bias |-> found.bias]

-----------------------------------------------------------------------------
(* The host's fold (external): each update with at most one slip *)

Live(at) == ComponentMeta("Current", at)

WarmingIndex ==
    [supplied |->
        [seq |-> 0, latest |-> None, latest_valued |-> None, recent_minutes |-> << >>,
         current_hour |-> None, forecast |-> None, forecasts |-> << >>,
         recent_settlements |-> << >>, calibration |-> None],
     components |->
        [streams |-> [stream \in Streams |-> ComponentMeta("Warming", None)],
         models |-> << >>]]

\* A receipt stamped by a clock further ahead than the check allows.
Ahead == Later(ObservedLead + 1)

\* An item in a list kept newest first: in its place or in place of the one it revises.
Retained(list, item, Key(_), bound) ==
    LET Newer(x) == Precedes(Key(item), Key(x))
        Older(x) == Precedes(Key(x), Key(item))
        all == Selected(list, Newer) \o <<item>> \o Selected(list, Older)
    IN  SubSeq(all, 1, IF Len(all) < bound THEN Len(all) ELSE bound)

\* An item put in front of the list it is folded into, as if it were the newest.
InFront(list, item, bound) ==
    SubSeq(<<item>> \o list, 1, IF Len(list) < bound THEN Len(list) + 1 ELSE bound)

\* The summaries taken from the retained minutes; a valued minute no longer retained stays.
Refreshed(s) ==
    LET newest == FirstWhere(s.recent_minutes, LAMBDA m : TRUE)
        valued == FirstWhere(s.recent_minutes, HasValue)
    IN  [s EXCEPT !.latest = IF newest = None THEN @ ELSE newest,
                  !.latest_valued = IF valued = None THEN @ ELSE valued]

\* A minute of the REST baseline has neither an event's envelope nor readings.
MinuteOf(at, revision, value, received, streamed) ==
    [envelope |-> IF streamed
                  THEN [seq |-> index.supplied.seq + 1, emitted_at |-> None,
                        received_at |-> received]
                  ELSE None,
     minute |-> at, phase |-> IF revision = 1 THEN "Provisional" ELSE "Official",
     revision |-> revision, value |-> value, published_at |-> received,
     stations |-> IF streamed
                  THEN [i \in 1..Cardinality(Stations) |->
                           [station |-> i, received_at |-> received]]
                  ELSE << >>]

\* A minute, new or revised, from the stream or from a baseline that leaves the summaries as
\* they are.
IndexMinute ==
    \E at \in {now - 1, now}, revision \in {1, 2}, value \in Readings \cup {None},
       slip \in {"none", "front", "ahead", "baseline"} :
        LET s == index.supplied
            streamed == slip # "baseline"
            minute == MinuteOf(at, revision, value, IF slip = "ahead" THEN Ahead ELSE now,
                               streamed)
            minutes == IF slip = "front" THEN InFront(s.recent_minutes, minute, MaxMinutes)
                       ELSE Retained(s.recent_minutes, minute, MinuteKey, MaxMinutes)
            folded == [s EXCEPT !.recent_minutes = minutes,
                                !.seq = IF streamed THEN @ + 1 ELSE @]
        IN  index' = [index EXCEPT
                !.supplied = IF streamed THEN Refreshed(folded) ELSE folded,
                !.components.streams["minutes"] = Live(now)]

\* A reconnect drops the retained minutes and keeps the summaries.
DropMinutes ==
    /\ index.supplied.recent_minutes # << >>
    /\ index' = [index EXCEPT !.supplied.recent_minutes = << >>]

\* The hour, with a feed condition of a kind the contract knows or of another.
HourUpdate ==
    \E end \in {now, Later(HourLead + 1)}, known \in BOOLEAN,
       kind \in {"QuorumRisk", "member_drift"}, since \in {now, Later(1)} :
        /\ known => kind \in KnownConditions
        /\ index' = [index EXCEPT
              !.supplied.current_hour =
                 [hour_end |-> end, final_at |-> end, determine_by |-> end,
                  settles_now_as |-> None,
                  feed_conditions |->
                     <<[known |-> known, kind |-> kind, station |-> None, since |-> since,
                        last_seen |-> now]>>],
              !.components.streams["hour"] = Live(now)]

ForecastOf(model, slip) ==
    LET ahead == IF slip = "far" THEN ForecastLead ELSE 0
        steps == <<Later(ahead), Later(ahead + 1)>>
        Array(name) == IF slip = name THEN <<Later(ahead + 1)>> ELSE steps
        top == Later(HourLength - (now % HourLength))
    IN  [model_id |-> model, run_time |-> now, fetched_at |-> now, missing |-> << >>,
         steps |-> steps, value |-> Array("value"), quorum_met |-> Array("quorum_met"),
         partial |-> Array("partial"), settles |-> <<top>>, bias |-> None]

\* A forecast of the default model, or of a model among the others with that model's
\* metadata.  Slips: an array short of an element, steps too far ahead, out of its place,
\* or its metadata not yet there.
ForecastIndex ==
    \E model \in OtherModels \cup {DefaultModel}, apart \in BOOLEAN,
       slip \in {"none", "value", "quorum_met", "partial", "far", "appended",
                 "undescribed"} :
        LET f == ForecastOf(model, slip)
            Before(x) == x.model_id < model
            After(x) == x.model_id > model
            Placed(list, item) == Selected(list, Before) \o <<item>> \o Selected(list, After)
            meta == [model_id |-> model, forecast |-> Live(now), bias |-> Live(now)]
        IN  IF apart
            THEN index' = [index EXCEPT
                    !.supplied.forecasts = IF slip = "appended" THEN Append(@, f)
                                           ELSE Placed(@, f),
                    !.components.models = IF slip # "undescribed" /\ model # DefaultModel
                                          THEN Placed(@, meta) ELSE @]
            ELSE index' = [index EXCEPT !.supplied.forecast = f,
                                        !.components.streams["forecast"] = Live(now)]

\* The bias of the default model's forecast, perhaps with a member twice.
ForecastBias ==
    /\ index.supplied.forecast # None
    /\ \E members \in {<< 1 >>, <<1, 1>>} :
          index' = [index EXCEPT !.supplied.forecast.bias = [as_of |-> now, members |-> members],
                                 !.components.streams["bias"] = Live(now)]

\* A removal keeps the model's metadata.
ForecastRemoved ==
    \E model \in OtherModels :
        LET Stays(f) == f.model_id # model
        IN  /\ \E i \in DOMAIN index.supplied.forecasts :
                   index.supplied.forecasts[i].model_id = model
            /\ index' = [index EXCEPT !.supplied.forecasts = Selected(@, Stays)]

\* An hour settled, or one settled before reconciled.
HourSettled ==
    \E end \in {now - 1, now}, revision \in {1, 2}, slip \in {"none", "front"} :
        LET settlement == [hour_end |-> end, settle_minute |-> end, determined_at |-> now,
                           finalized_at |-> IF revision = 1 THEN None ELSE now,
                           revision |-> revision]
        IN  index' = [index EXCEPT
                !.supplied.recent_settlements =
                    IF slip = "none" THEN Retained(@, settlement, HourKey, MaxSettlements)
                    ELSE InFront(@, settlement, MaxSettlements),
                !.components.streams["settlements"] = Live(now)]

Calibration ==
    \E effective \in {None, MaxTime}, published \in {now, Ahead} :
        index' = [index EXCEPT
            !.supplied.calibration = [effective_at |-> effective, published_at |-> published,
                                      members |-> << 1 >>],
            !.components.streams["calibration"] = Live(now)]

\* A stream's metadata starts over without a revision.
LoseMeta ==
    \E stream \in Streams :
        index' = [index EXCEPT !.components.streams[stream].revision = 0]

IndexInit == index = WarmingIndex

IndexFold ==
    \/ IndexMinute
    \/ DropMinutes
    \/ HourUpdate
    \/ ForecastIndex
    \/ ForecastBias
    \/ ForecastRemoved
    \/ HourSettled
    \/ Calibration
    \/ LoseMeta

-----------------------------------------------------------------------------
(* Properties *)

\* What a kernel reads as the newest minute and as the newest minute with a value is what it
\* finds when it looks the retained minutes up, whatever the fold missed: neither an older
\* revision of a retained minute nor a value that a newer retained one replaced.
\* (validate_summaries; HourlyIndexState::minute.)
SummariesTellTheMinutes ==
    ValidIndex(index, now) =>
        LET state == ReadIndex(index)
            minutes == {state.recent_minutes[i] : i \in DOMAIN state.recent_minutes}
            Told(summary, m) == /\ summary.revision = m.revision
                                /\ summary.phase = m.phase
                                /\ summary.value = m.value
        IN  /\ \A m \in minutes :
                  /\ state.latest # None /\ m.minute =< state.latest.minute
                  /\ m.minute = state.latest.minute => Told(state.latest, m)
                  /\ HasValue(m) =>
                        /\ state.latest_valued # None
                        /\ m.minute =< state.latest_valued.minute
                  /\ state.latest_valued # None /\ m.minute = state.latest_valued.minute =>
                        Told(state.latest_valued, m)
            /\ minutes # {} => MinuteAt(state, state.latest.minute) # None

\* Every record of an index that passes the check is found by its key, whole: no record of
\* the same key hides it, a forecast's metadata is there, and no step is lost or joined to
\* another step's value.  (strictly_sorted, the alignment of validate_forecast and the zip
\* of IndexForecast::from_supplied.)
IndexReadsAreWhole ==
    ValidIndex(index, now) =>
        LET state == ReadIndex(index)
            s == index.supplied
            forecasts == {state.forecasts[i] : i \in DOMAIN state.forecasts}
                             \cup ({state.forecast} \ {None})
        IN  /\ \A i \in DOMAIN s.recent_minutes :
                  MinuteAt(state, s.recent_minutes[i].minute).supplied = s.recent_minutes[i]
            /\ \A i \in DOMAIN s.recent_settlements :
                  Settlement(state, s.recent_settlements[i].hour_end) = s.recent_settlements[i]
            /\ \A f \in forecasts :
                  /\ ForecastFor(state, f.model_id) = f
                  /\ ForecastComponents(state, f.model_id) # None
                  /\ f.steps = [i \in DOMAIN f.supplied.steps |->
                                  [at |-> f.supplied.steps[i], value |-> f.supplied.steps[i],
                                   quorum_met |-> f.supplied.steps[i],
                                   partial |-> f.supplied.steps[i]]]
                  /\ \A i \in DOMAIN f.settles : SettleAt(f, f.settles[i]) = f.settles[i]
=============================================================================
