---------------------------- MODULE StationFeed ----------------------------
(***************************************************************************)
(* A station's weather: the owner accepts the provider's partial updates   *)
(* one by one, retains originals and winners, and captures each update as  *)
(* a packet that is delivered to the kernel in order, later, beside the    *)
(* station as it is then.                                                  *)
(*                                                                         *)
(* The checks are those of current_v6.rs, supplied_v6.rs and decision_v6.rs*)
(* (each with the station it is checked against); what the kernel reads is *)
(* station_state of projection.rs and the events of events.rs.  The owner  *)
(* is the trading host's and external, but for the rule by which winners   *)
(* are kept (WeatherFacts::accept).                                        *)
(*                                                                         *)
(* A supplied temperature is in ninths of a milli-degree Celsius or in     *)
(* fifths of a milli-degree Fahrenheit: one step is one step, so that      *)
(* conversion is exact.  The owner's derived values are whole              *)
(* milli-degrees Celsius, and rounded.                                     *)
(***************************************************************************)
EXTENDS ContextTimes

CONSTANTS
    Temperatures,    \* what providers tell, in ninths of a milli-degree
    ReportTypes,     \* 1..n, in the order of their text
    Episodes,        \* weather episodes
    ForecastModels,  \* 1..n
    MaxGeneration,   \* bound on reconnects
    MaxReports,      \* MAX_SUPPLIED_REPORTS
    MaxEpisodes      \* MAX_SUPPLIED_WEATHER_EVENTS

ASSUME StationAssumption ==
    /\ Temperatures \subseteq Int
    /\ ReportTypes \subseteq Nat /\ ForecastModels \subseteq Nat
    /\ {MaxGeneration, MaxReports, MaxEpisodes} \subseteq Nat

VARIABLES
    station,   \* StationV4, its supplied originals, winners, issuance and oracle tables
    captured,  \* packets accepted and not delivered, oldest first
    accepted   \* history: per field, the value last accepted

Components == {"observation", "extrema", "reports", "weather_events", "forecast", "oracle"}
WeatherFields == {"Temperature", "RunningHigh", "DsmHigh", "ExtremeHigh"}
Ranks == {"high", "low"}

Metas == [revision : Nat, generation : Nat]

FahrenheitOf(c) == c + 160000
CelsiusOf(f) == f - 160000

\* round() to the milli-degree; a ninth is never half way.
Rounded(c) == (2 * c + 9) \div 18

\* A derived value, and where it is told among the supplied ones.
DerivedValues == {Rounded(c) : c \in Temperatures}
Ninths(value) == 9 * value

\* An original has the unit or the units its provider supplied.
Originals == [c : Int \cup {None}, f : Int \cup {None}]

OriginalOf(c, units) ==
    [c |-> IF "c" \in units THEN c ELSE None,
     f |-> IF "f" \in units THEN FahrenheitOf(c) ELSE None]

-----------------------------------------------------------------------------
(* Winners: one accepted value per field (WeatherFacts) *)

Facts == [value : Originals, owner_generation : Nat, owner_revision : Nat]

WeatherFacts == [WeatherFields -> {None} \cup Facts]

NoFacts == [field \in WeatherFields |-> None]

FactOf(value, generation, revision) ==
    [value |-> value, owner_generation |-> generation, owner_revision |-> revision]

\* Mutant: an update replaces all winners.
AcceptOnlyTheseFacts(facts, update, generation, revision) ==
    [field \in WeatherFields |->
        IF field \in DOMAIN update THEN FactOf(update[field], generation, revision) ELSE None]

\* The fields of a partial update win; the others keep their winners.
AcceptFacts(facts, update, generation, revision) ==
    [field \in WeatherFields |->
        IF field \in DOMAIN update THEN FactOf(update[field], generation, revision)
        ELSE facts[field]]

\* A value has a unit, in a field of its kind.
ValuesAreValid(facts) ==
    \A field \in WeatherFields : facts[field] # None =>
        facts[field].value.c # None \/ facts[field].value.f # None

\* WeatherFacts::temperature_f: the original in that unit, or the other one converted.
FactFahrenheit(facts, field) ==
    IF facts[field] = None THEN None
    ELSE IF facts[field].value.f # None THEN facts[field].value.f
    ELSE FahrenheitOf(facts[field].value.c)

-----------------------------------------------------------------------------
(* The station as a context holds it *)

\* The owner's derived records, a value in milli-Celsius, ...
StationReports ==
    [type : ReportTypes, id : Nat, revision : Nat, value : DerivedValues]

StationEpisodes == [id : Episodes, state : {"active", "updated"}]

ForecastVersions == [model_id : ForecastModels, version : Nat]

OracleTables == [rank_by : Ranks, rows : Nat, meta : Metas]

\* A current table, and the rows of its original if one was supplied (OracleInputV6).
\* An original of another query is refused, and left out.
OracleInputs == [table : OracleTables, supplied : {None} \cup Nat]

\* A table as a kernel reads it.
ReadTables ==
    [rank_by : Ranks, meta : Metas, origin : {"Supplied", "Derived"}, rows : Nat]

\* An absent Option is no value.
ASSUME StationNoneAssumption ==
    None \notin Facts /\ None \notin StationReports /\ None \notin ReadTables

\* ... when the owner accepted a model's version, ...
ForecastIssuances ==
    [model_id : ForecastModels, version : Nat, station_generation : Nat,
     station_revision : Nat, forecast_generation : Nat]

\* ... and the originals as their providers supplied them.
SuppliedReports == [type : ReportTypes, id : Nat, revision : Nat, value : Originals]

SuppliedStations ==
    [high : {None} \cup Originals,
     observation : {None} \cup [at : Times, value : Originals],
     daily : {None} \cup Originals,
     reports : Seq(SuppliedReports),
     episodes : Seq(StationEpisodes)]

StationRecords ==
    [generation : Nat, sequence : Nat, revision : Nat,
     metas : [Components -> Metas],
     observation : {None} \cup [at : Times, value : DerivedValues],
     running_high : {None} \cup DerivedValues,
     high : {None} \cup [at : Times, value : DerivedValues],
     reports : Seq(StationReports),
     episodes : Seq(StationEpisodes),
     forecast : Seq(ForecastVersions),
     issuance : Seq(ForecastIssuances),
     oracle : {None} \cup OracleTables,
     oracles : Seq(OracleInputs),
     facts : WeatherFacts,
     supplied : SuppliedStations]

\* A packet's update, and the original it was told by.
EpisodeStates == {"active", "updated", "ended"}

PacketData ==
    [kind : {"observation", "extrema"}, at : Times, value : DerivedValues]
        \cup [kind : {"reports"}, type : ReportTypes, id : Nat, revision : Nat,
              value : DerivedValues]
        \cup [kind : {"weather_events"}, id : Episodes, state : EpisodeStates]

PacketOriginals ==
    [at : Times, value : Originals, sequence : Nat]
        \cup [type : ReportTypes, id : Nat, revision : Nat, value : Originals, sequence : Nat]
        \cup [id : Episodes, state : EpisodeStates, sequence : Nat]

Packets ==
    [data : PacketData, original : {None} \cup PacketOriginals,
     source_generation : Nat, source_sequence : Nat,
     cursor : [generation : Nat, sequence : Nat],
     station_revision : Nat, meta : Metas, facts : WeatherFacts]

\* What the station and the packets are made of.
StationTypeOK ==
    /\ station \in StationRecords
    /\ captured \in Seq(Packets)
    /\ accepted \in [WeatherFields -> {None} \cup Originals]

\* SuppliedStationV6, its lists bounded, in order and of current episodes.
TypeKey(report) == <<report.type>>
EpisodeKey(episode) == <<episode.id>>

ValidSuppliedStation(supplied) ==
    /\ Len(supplied.reports) =< MaxReports
    /\ Len(supplied.episodes) =< MaxEpisodes
    /\ StrictlySorted(KeysOf(supplied.reports, TypeKey))
    /\ StrictlySorted(KeysOf(supplied.episodes, EpisodeKey))
    /\ \A i \in DOMAIN supplied.episodes : supplied.episodes[i].state # "ended"

\* Mutant: revisions are compared across generations.
NotAheadOfAny(generation, revision, s) ==
    generation =< s.generation /\ revision =< s.revision

\* A generation's revisions count from 1 within it: only those of the current one are
\* compared with the station's.
NotAhead(generation, revision, s) ==
    /\ generation =< s.generation
    /\ generation = s.generation => revision =< s.revision

\* validate_current_weather.
ValidCurrentWeather(s) ==
    /\ ValuesAreValid(s.facts)
    /\ \A field \in WeatherFields : s.facts[field] # None =>
          LET fact == s.facts[field]
          IN  /\ fact.owner_generation # 0 /\ fact.owner_revision # 0
              /\ NotAhead(fact.owner_generation, fact.owner_revision, s)

\* validate_forecast_issuance: model by model.
ValidIssuance(s) ==
    /\ Len(s.issuance) = Len(s.forecast)
    /\ \A i \in DOMAIN s.forecast :
          LET issued == s.issuance[i]
          IN  /\ issued.station_generation # 0 /\ issued.station_revision # 0
              /\ issued.forecast_generation # 0
              /\ issued.model_id = s.forecast[i].model_id
              /\ issued.version = s.forecast[i].version
              /\ NotAhead(issued.station_generation, issued.station_revision, s)
              /\ issued.station_generation = s.generation =>
                    issued.forecast_generation =< s.metas["forecast"].generation

\* The current oracle tables (current_v6::validate): high before low, each once, and the
\* owner's own table, which is ranked by high here, among them as it is.  The rows of an
\* original are compared with no table's.
RankKey(input) == <<IF input.table.rank_by = "high" THEN 0 ELSE 1>>

ValidOracles(s) ==
    LET tables == {s.oracles[i].table : i \in DOMAIN s.oracles}
        Own == {table \in tables : table.rank_by = "high"}
    IN  /\ Len(s.oracles) =< 2
        /\ StrictlySorted(KeysOf(s.oracles, RankKey))
        /\ \A table \in tables : table.meta.revision \in 1..s.revision
                                 /\ table.meta.generation # 0
        /\ s.oracle # None => Own = {s.oracle}
        /\ s.oracle = None => tables = {}

\* The station of an admitted context.
ValidStation(s) ==
    /\ ValidSuppliedStation(s.supplied)
    /\ ValidCurrentWeather(s)
    /\ ValidIssuance(s)
    /\ ValidOracles(s)

-----------------------------------------------------------------------------
(* One fact as a kernel is told of it: by its original, in the units that its provider  *)
(* supplied, or by the owner's derived value, in both                                   *)

InBothUnits(value) == OriginalOf(Ninths(value), {"c", "f"})

SuppliedObservation(original) ==
    [origin |-> "Supplied", at |-> original.at, value |-> original.value]

DerivedObservation(observation) ==
    [origin |-> "Derived", at |-> observation.at, value |-> InBothUnits(observation.value)]

SuppliedReport(original) ==
    [origin |-> "Supplied", id |-> original.id, value |-> original.value]

DerivedReport(report) ==
    [origin |-> "Derived", id |-> report.id, value |-> InBothUnits(report.value)]

\* The unit that an extreme was not supplied in is converted.
SuppliedExtreme(value) ==
    [origin |-> "Supplied",
     value |-> [c |-> IF value.c # None THEN value.c ELSE CelsiusOf(value.f),
                f |-> IF value.f # None THEN value.f ELSE FahrenheitOf(value.c)]]

DerivedExtreme(value) == [origin |-> "Derived", value |-> InBothUnits(value)]

SuppliedEpisode(original) ==
    [origin |-> "Supplied", id |-> original.id, state |-> original.state]

DerivedEpisode(episode) ==
    [origin |-> "Derived", id |-> episode.id, state |-> episode.state]

-----------------------------------------------------------------------------
(* A captured packet and its delivery *)

\* What the update was about, told apart per kind.
SameSubject(data, original) ==
    CASE data.kind = "observation" -> original.at = data.at
      [] data.kind = "extrema" -> original.at = data.at
      [] data.kind = "reports" -> /\ original.type = data.type
                                  /\ original.id = data.id
                                  /\ original.revision = data.revision
      [] data.kind = "weather_events" -> original.id = data.id /\ original.state = data.state

\* OriginatingWeatherV6::validate: the packet is of the trigger it is delivered with, not
\* ahead of the station, all its winners are its own, and its original is of the same event.
ValidPacket(packet, trigger, s) ==
    /\ trigger = [generation |-> packet.source_generation, sequence |-> packet.source_sequence]
    /\ packet.station_revision # 0 /\ packet.source_sequence # 0
    /\ packet.cursor.sequence # 0
    /\ packet.source_generation = packet.cursor.generation
    /\ NotAhead(packet.cursor.generation, packet.station_revision, s)
    /\ packet.cursor.generation = s.generation =>
          /\ packet.meta.revision =< s.metas[packet.data.kind].revision
          /\ packet.meta.generation =< s.metas[packet.data.kind].generation
    /\ packet.meta.revision # 0 /\ packet.meta.generation # 0
    /\ ValuesAreValid(packet.facts)
    /\ \A field \in WeatherFields : packet.facts[field] # None =>
          /\ packet.facts[field].owner_generation = packet.source_generation
          /\ packet.facts[field].owner_revision = packet.station_revision
    /\ packet.original # None =>
          /\ SameSubject(packet.data, packet.original)
          /\ packet.original.sequence = packet.cursor.sequence

\* captured_weather_event: from its original, or else from its derived data, with the
\* acceptance it was captured with; nothing of it is taken from the station of now.
PacketEvent(packet) ==
    LET data == packet.data
        original == packet.original
    IN  [told |->
            CASE data.kind = "observation" ->
                    IF original = None THEN DerivedObservation(data)
                    ELSE SuppliedObservation(original)
              [] data.kind = "reports" ->
                    IF original = None THEN DerivedReport(data) ELSE SuppliedReport(original)
              [] data.kind = "weather_events" ->
                    IF original = None THEN DerivedEpisode(data) ELSE SuppliedEpisode(original)
              [] data.kind = "extrema" ->
                    IF original = None THEN DerivedExtreme(data.value)
                    ELSE SuppliedExtreme(original.value),
         acceptance |-> [generation |-> packet.cursor.generation,
                         revision |-> packet.station_revision,
                         component |-> packet.meta, weather |-> packet.facts]]

-----------------------------------------------------------------------------
(* What a kernel reads of the station (station_state) *)

\* Mutant: from the original of its type, of whatever revision.
ReadReportOfType(s, report) ==
    LET OfType(original) == original.type = report.type
        original == FirstWhere(s.supplied.reports, OfType)
    IN  IF original # None THEN SuppliedReport(original) ELSE DerivedReport(report)

\* A report is read from the original of its own revision only.
ReadReport(s, report) ==
    LET OfType(original) == original.type = report.type
        original == FirstWhere(s.supplied.reports, OfType)
    IN  IF /\ original # None
           /\ original.id = report.id
           /\ original.revision = report.revision
        THEN SuppliedReport(original)
        ELSE DerivedReport(report)

ReadEpisode(s, episode) ==
    LET Of(original) == original.id = episode.id
        original == FirstWhere(s.supplied.episodes, Of)
    IN  IF original # None THEN SuppliedEpisode(original) ELSE DerivedEpisode(episode)

\* An issued model takes the version and the issuance that was accepted.
ReadStationForecast(s) ==
    [i \in DOMAIN s.forecast |->
        [model_id |-> s.forecast[i].model_id, version |-> s.forecast[i].version,
         issuance |-> s.issuance[i]]]

\* A current table, or the original it was supplied by in its place: told in the table's
\* rank and with the table's acceptance.
ReadOracle(input) ==
    [rank_by |-> input.table.rank_by, meta |-> input.table.meta,
     origin |-> IF input.supplied = None THEN "Derived" ELSE "Supplied",
     rows |-> IF input.supplied = None THEN input.table.rows ELSE input.supplied]

\* The current table a kernel finds for a query.
OracleTable(state, rank) ==
    LET Of(table) == table.rank_by = rank IN FirstWhere(state.oracle_tables, Of)

\* Mutant: it is shown for good.
CurrentForGood(original, derived) == TRUE

\* The original of the day's extremes is shown while the derived value, if there is one,
\* agrees with it within the rounding of the derived precision; of two units, Celsius
\* is compared.
CurrentDaily(original, derived) ==
    \/ derived = None
    \/ LET c == IF original.c # None THEN original.c
                ELSE IF original.f # None THEN CelsiusOf(original.f) ELSE None
       IN  c # None /\ Rounded(c) - derived \in -1..1

LegacyHigh(s) ==
    LET daily == s.supplied.daily
        derived == IF s.running_high = None THEN None ELSE FahrenheitOf(Ninths(s.running_high))
    IN  IF daily = None THEN derived
        ELSE IF ~CurrentDaily(daily, s.running_high) THEN derived
        ELSE IF daily.f # None THEN daily.f
        ELSE IF daily.c # None THEN FahrenheitOf(daily.c)
        ELSE derived

\* An original with the derived observation's time stands for it.
LegacyTemperature(s) ==
    LET original == s.supplied.observation
        derived == IF s.observation = None THEN None
                   ELSE FahrenheitOf(Ninths(s.observation.value))
    IN  IF original # None /\ s.observation # None /\ original.at = s.observation.at
           /\ original.value.f # None
        THEN original.value.f ELSE derived

\* From the winners where the context has them, else by the compatibility projection.
ReadWeather(s, current) ==
    IF current
    THEN [current_temp |-> FactFahrenheit(s.facts, "Temperature"),
          running_high |-> FactFahrenheit(s.facts, "RunningHigh"),
          dsm_high |-> FactFahrenheit(s.facts, "DsmHigh")]
    ELSE [current_temp |-> LegacyTemperature(s),
          running_high |-> LegacyHigh(s),
          dsm_high |-> None]

\* An original stands for what it supplies; a derived extreme is told at the precision of
\* its winner.
ReadHigh(s, current) ==
    LET winner == s.facts["ExtremeHigh"]
    IN  IF s.supplied.high # None THEN SuppliedExtreme(s.supplied.high)
        ELSE IF s.high = None THEN None
        ELSE IF current /\ winner # None
             THEN [origin |-> "Derived", value |-> SuppliedExtreme(winner.value).value]
        ELSE DerivedExtreme(s.high.value)

ReadObservation(s) ==
    IF s.supplied.observation # None THEN SuppliedObservation(s.supplied.observation)
    ELSE IF s.observation = None THEN None
    ELSE DerivedObservation(s.observation)

\* With the current inputs, and with the winners or without.
ReadStation(s, current) ==
    [weather |-> ReadWeather(s, current),
     observation |-> ReadObservation(s), extreme_high |-> ReadHigh(s, current),
     reports |-> [i \in DOMAIN s.reports |-> ReadReport(s, s.reports[i])],
     weather_events |-> [i \in DOMAIN s.episodes |-> ReadEpisode(s, s.episodes[i])],
     forecast |-> ReadStationForecast(s),
     oracle_tables |-> [i \in DOMAIN s.oracles |-> ReadOracle(s.oracles[i])],
     components |-> s.metas]

-----------------------------------------------------------------------------
(* The owner (external) *)

StationVars == <<station, captured, accepted>>

\* An owner that has just connected; revisions and cursors count from 1.
FreshStation ==
    [generation |-> 1, sequence |-> 1, revision |-> 1,
     metas |-> [kind \in Components |-> [revision |-> 1, generation |-> 1]],
     observation |-> None, running_high |-> None, high |-> None,
     reports |-> << >>, episodes |-> << >>, forecast |-> << >>, issuance |-> << >>,
     oracle |-> None, oracles |-> << >>, facts |-> NoFacts,
     supplied |-> [observation |-> None, high |-> None, daily |-> None, reports |-> << >>,
                   episodes |-> << >>]]

\* A report or an episode in its place, instead of the one it replaces.
InPlace(list, item, Key(_)) ==
    LET Before(x) == Precedes(Key(x), Key(item))
        After(x) == Precedes(Key(item), Key(x))
    IN  Selected(list, Before) \o <<item>> \o Selected(list, After)

\* The next revision of the station and of a component, with the update's cursor.
Advanced(s, kind) ==
    [s EXCEPT !.sequence = @ + 1, !.revision = @ + 1, !.metas[kind].revision = @ + 1]

\* An update of some fields, all told one value, and what is accepted of it.
Telling(fields, value) == [field \in fields |-> value]

AcceptedValues(update) ==
    [field \in WeatherFields |->
        IF field \in DOMAIN update THEN update[field] ELSE accepted[field]]

\* The owner accepts an update: the station `changed` is advanced, its winners accept the
\* update's fields, and the update is captured for delivery as it was accepted.
Accept(changed, data, original, update) ==
    LET s == Advanced(changed, data.kind)
    IN  /\ station' = [s EXCEPT !.facts =
              AcceptFacts(@, update, s.generation, s.revision)]
        /\ captured' = Append(captured,
              [data |-> data, original |-> original,
               source_generation |-> s.generation, source_sequence |-> s.sequence,
               cursor |-> [generation |-> s.generation, sequence |-> s.sequence],
               station_revision |-> s.revision, meta |-> s.metas[data.kind],
               facts |-> [field \in WeatherFields |->
                   IF field \in DOMAIN update
                   THEN FactOf(update[field], s.generation, s.revision) ELSE None]])
        /\ accepted' = AcceptedValues(update)

Higher(value, other) == other = None \/ value > other

\* An observation, or a correction of the one of the same time; it raises the running high.
\* One without an original leaves the original of an earlier one retained.
AcceptObservation ==
    \E told \in Temperatures, at \in {now, Later(1)}, units \in {{}, {"f"}} :
        LET value == Rounded(told)
            original == IF units = {} THEN None
                        ELSE [at |-> at, value |-> OriginalOf(told, units),
                              sequence |-> station.sequence + 1]
            fact == IF units = {} THEN OriginalOf(Ninths(value), {"c"})
                    ELSE OriginalOf(told, units)
            raises == Higher(value, station.running_high)
            retained == IF original = None THEN station.supplied.observation
                        ELSE [at |-> at, value |-> original.value]
            changed == [station EXCEPT
                !.observation = [at |-> at, value |-> value],
                !.running_high = IF raises THEN value ELSE @,
                !.supplied.observation = retained]
        IN  /\ station.observation # None => at >= station.observation.at
            /\ Accept(changed, [kind |-> "observation", at |-> at, value |-> value], original,
                      Telling({"Temperature"} \cup (IF raises THEN {"RunningHigh"} ELSE {}),
                              fact))

\* A report or its next revision; a revision without an original leaves the original of an
\* earlier one retained.
AcceptReport ==
    \E type \in ReportTypes, degrees \in Temperatures, told \in BOOLEAN :
        LET value == Rounded(degrees)
            OfType(report) == report.type = type
            held == FirstWhere(station.reports, OfType)
            report == [type |-> type, id |-> type, value |-> value,
                       revision |-> IF held = None THEN 0 ELSE held.revision + 1]
            fact == OriginalOf(degrees, {"f"})
            original == [type |-> type, id |-> type, revision |-> report.revision, value |-> fact]
            packed == [type |-> type, id |-> type, revision |-> report.revision, value |-> fact,
                       sequence |-> station.sequence + 1]
            changed == [station EXCEPT
                !.reports = InPlace(@, report, TypeKey),
                !.supplied.reports = IF told THEN InPlace(@, original, TypeKey) ELSE @]
        IN  Accept(changed,
                   [kind |-> "reports", type |-> type, id |-> type, value |-> value,
                    revision |-> report.revision],
                   IF told THEN packed ELSE None,
                   Telling({"DsmHigh"}, fact))

AcceptExtreme ==
    \E degrees \in Temperatures, told \in BOOLEAN :
        LET value == Rounded(degrees)
            fact == OriginalOf(degrees, {"f"})
            changed == [station EXCEPT
                !.high = [at |-> now, value |-> value],
                !.supplied.high = IF told THEN fact ELSE None]
        IN  /\ station.high # None => value > station.high.value
            /\ Accept(changed, [kind |-> "extrema", at |-> now, value |-> value],
                      IF told THEN [at |-> now, value |-> fact,
                                    sequence |-> station.sequence + 1]
                      ELSE None,
                      Telling({"ExtremeHigh"}, fact))

\* An episode that has ended leaves the station; its end is captured.
AcceptEpisode ==
    \E id \in Episodes, state \in EpisodeStates, told \in BOOLEAN :
        LET Others(e) == e.id # id
            held == \E i \in DOMAIN station.episodes : station.episodes[i].id = id
            episode == [id |-> id, state |-> state]
            changed ==
                IF state = "ended"
                THEN [station EXCEPT !.episodes = Selected(@, Others),
                                     !.supplied.episodes = Selected(@, Others)]
                ELSE [station EXCEPT !.episodes = InPlace(@, episode, EpisodeKey),
                                     !.supplied.episodes =
                                        IF told THEN InPlace(@, episode, EpisodeKey) ELSE @]
        IN  /\ (state = "active") # held
            /\ Accept(changed, [kind |-> "weather_events", id |-> id, state |-> state],
                      IF told THEN [id |-> id, state |-> state,
                                    sequence |-> station.sequence + 1]
                      ELSE None,
                      Telling({}, None))

\* An original of the day's extreme in one unit, or in both, which its provider may have
\* rounded each by itself.
DailyOriginals(c) ==
    {OriginalOf(c, {"c"}), OriginalOf(c, {"f"})}
        \cup {[c |-> c, f |-> FahrenheitOf(other)] : other \in Temperatures}

\* The day's extremes of the REST endpoint seed the running high.
DailyOriginal ==
    \E degrees \in Temperatures : \E original \in DailyOriginals(degrees) :
        LET s == Advanced(station, "observation")
            update == Telling({"RunningHigh"}, original)
        IN  /\ station' = [s EXCEPT
                  !.running_high = Rounded(degrees), !.supplied.daily = original,
                  !.facts = AcceptFacts(@, update, s.generation, s.revision)]
            /\ accepted' = AcceptedValues(update)
            /\ UNCHANGED captured

\* A model's next version, issued as it is accepted; the other models keep their issuance.
ForecastUpdate ==
    \E model \in ForecastModels, version \in {1, 2} :
        LET s == Advanced(station, "forecast")
            Key(f) == <<f.model_id>>
        IN  /\ station' = [s EXCEPT
                  !.forecast = InPlace(@, [model_id |-> model, version |-> version], Key),
                  !.issuance = InPlace(@,
                      [model_id |-> model, version |-> version,
                       station_generation |-> s.generation,
                       station_revision |-> s.revision,
                       forecast_generation |-> s.metas["forecast"].generation], Key)]
            /\ UNCHANGED <<captured, accepted>>

\* A table of a rank, the owner's own if it is ranked by high, with or without an
\* original, which may be of other rows.  Slips: it is appended, whatever is held, or the
\* current tables are not told.
OracleUpdate ==
    \E rank \in Ranks, rows \in {1, 2}, supplied \in {None, 1}, slip \in {"none", "appended", "stale"} :
        LET s == Advanced(station, "oracle")
            table == [rank_by |-> rank, rows |-> rows, meta |-> s.metas["oracle"]]
            input == [table |-> table, supplied |-> supplied]
        IN  /\ station' = [s EXCEPT
                  !.oracle = IF rank = "high" THEN table ELSE @,
                  !.oracles = IF slip = "none" THEN InPlace(@, input, RankKey)
                              ELSE IF slip = "stale" THEN @ ELSE Append(@, input)]
            /\ UNCHANGED <<captured, accepted>>

\* The provider's connection starts over, and with it its sequences and perhaps the revisions;
\* what was accepted stays, but for the oracle tables, which are fetched again, and what was
\* captured is still to be delivered.
Reconnect ==
    /\ station.generation < MaxGeneration
    /\ \E restarts \in BOOLEAN :
          station' = [station EXCEPT
              !.generation = @ + 1, !.sequence = 1,
              !.oracle = None, !.oracles = << >>,
              !.revision = IF restarts THEN 1 ELSE @ + 1,
              !.metas = [kind \in Components |->
                  [revision |-> IF restarts THEN 1 ELSE @[kind].revision,
                   generation |-> @[kind].generation + 1]]]
    /\ UNCHANGED <<captured, accepted>>

Deliver ==
    /\ captured # << >>
    /\ captured' = Tail(captured)
    /\ UNCHANGED <<station, accepted>>

StationInit ==
    /\ station = FreshStation
    /\ captured = << >>
    /\ accepted = NoFacts

StationFold ==
    \/ AcceptObservation
    \/ AcceptReport
    \/ AcceptExtreme
    \/ AcceptEpisode
    \/ DailyOriginal
    \/ ForecastUpdate
    \/ OracleUpdate
    \/ Reconnect

-----------------------------------------------------------------------------
(* Properties *)

\* In no unit a fact is told in is it another than the owner's derived value, as that
\* is rounded.
Tells(told, value) ==
    /\ told.c # None \/ told.f # None
    /\ told.c # None => Rounded(told.c) = value
    /\ told.f # None => Rounded(CelsiusOf(told.f)) = value

\* A packet that waits stays deliverable, whatever the owner accepts, corrects, ends or loses
\* before its delivery, also when the provider's counters start over: the kernel is told of
\* every update that was accepted, as it was accepted.
\* (OriginatingWeatherV6::validate; captured_weather_event.)
CapturedStaysDeliverable ==
    \A i \in DOMAIN captured :
        LET packet == captured[i]
            trigger == [generation |-> packet.source_generation,
                        sequence |-> packet.source_sequence]
            event == PacketEvent(packet)
        IN  /\ ValidPacket(packet, trigger, station)
            /\ IF packet.data.kind = "weather_events"
               THEN event.told.state = packet.data.state
               ELSE Tells(event.told.value, packet.data.value)
            /\ event.acceptance.generation =< station.generation

\* The winners a context holds are the values last accepted of each field, whichever updates
\* came between, and they and the issuance stay admissible across reconnects.
\* (WeatherFacts::accept, validate_current_weather, validate_forecast_issuance.)
AcceptedStaysCurrent ==
    /\ ValidCurrentWeather(station)
    /\ ValidIssuance(station)
    /\ \A field \in WeatherFields :
          accepted[field] = IF station.facts[field] = None THEN None
                            ELSE station.facts[field].value

\* What is shown follows the owner's record, whatever originals are retained.  The running
\* high of the compatibility projection is the owner's within a milli-degree and the half
\* that rounding takes (an original in both units, which is compared in Celsius only, is
\* so in Celsius).  A report is told with the value of the owner's revision.  The table
\* found for the owner's query is there just if the owner has one, with the owner's
\* acceptance, and with its rows unless an original is shown: that one is compared with
\* no table and may be superseded.
\* (legacy_weather_summary's rule, projection.rs:280-284; the filter on report_revision;
\* current_v6::validate.)
ShownIsTheOwners ==
    LET read == ReadStation(station, FALSE)
        shown == read.weather.running_high
        daily == station.supplied.daily
        table == OracleTable(read, "high")
        Near(f) == f - FahrenheitOf(Ninths(station.running_high)) \in -13..13
    IN  /\ station.running_high # None =>
              /\ shown # None
              /\ \/ Near(shown)
                 \/ /\ daily # None /\ daily.c # None
                    /\ shown = daily.f /\ Near(FahrenheitOf(daily.c))
        /\ \A i \in DOMAIN station.reports :
              Tells(read.reports[i].value, station.reports[i].value)
        /\ ValidStation(station) =>
              /\ table = None <=> station.oracle = None
              /\ table # None => table.meta = station.oracle.meta
              /\ table # None /\ table.origin = "Derived" => table.rows = station.oracle.rows
=============================================================================
