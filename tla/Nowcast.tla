------------------------------ MODULE Nowcast ------------------------------
(***************************************************************************)
(* The forecast runner's nowcast of a city: the host folds the runner's    *)
(* feed into one input, checks it before each decision (nowcast_v6.rs) and *)
(* a kernel reads it, or why it may not (strategy_core_kernel nowcast.rs). *)
(*                                                                         *)
(* The feed and its fold are the host's and external, modelled with what   *)
(* can go wrong in them.                                                   *)
(***************************************************************************)
EXTENDS ContextTimes

CONSTANTS
    MaxIssues,     \* MAX_NOWCAST_ISSUES
    MaxMembers,    \* MAX_NOWCAST_STATIONS
    MaxLeads,      \* MAX_NOWCAST_LEADS
    MaxLevels,     \* MAX_NOWCAST_LEVELS
    MaxArtifacts,  \* MAX_NOWCAST_ARTIFACTS
    MaxMetars,     \* MAX_NOWCAST_METARS
    Members,       \* the city's member stations
    Strangers,     \* stations the runner does not list for the city
    Models,        \* artefact models, of one kind each
    Reasons        \* why a feed is unavailable

ASSUME NowcastAssumption ==
    /\ {MaxIssues, MaxMembers, MaxLeads, MaxLevels, MaxArtifacts, MaxMetars} \subseteq Nat
    /\ Members \subseteq Int /\ Members # {} /\ Strangers \subseteq Int \ Members
    /\ Models \subseteq Int
    /\ None \notin Reasons /\ "NoSnapshot" \in Reasons

VARIABLE nowcast  \* NowcastInputV6: what is supplied, the feed's metadata, why unavailable

-----------------------------------------------------------------------------
(* What the host supplies *)

Envelopes == [seq : Nat, emitted_at : Times \cup {None}, received_at : Times]

\* q holds, per level, the level it is the quantile of.
Leads == [lead_min : Nat, target_time : Times, q : Seq(Nat)]

StationForecasts ==
    [station_id : Members \cup Strangers, issue_time : Times, envelope : Envelopes,
     levels : Seq(Nat), leads : Seq(Leads)]

NowcastStations ==
    [station_id : Members \cup Strangers, issues : Seq(StationForecasts)]

\* The hash of a body tells bodies apart.
Bodies == {"published", "truncated"}

Sha256(body) == <<"sha256", body>>

Artifacts ==
    [model_id : Models, valid_from : Times, published_at : Times \cup {None},
     sha256 : {Sha256(body) : body \in Bodies}, body : Bodies, envelope : Envelopes]

MemberMetars ==
    [station_id : Members \cup Strangers, valid_time : Times,
     first_seen : Times \cup {None}, envelope : Envelopes]

NowcastIssues ==
    [issue_time : Times, stations : Seq(Int), failed : Seq(Int), envelope : Envelopes]

Heartbeats == [received_at : Times, last_issue_time : Times \cup {None}]

SuppliedNowcasts ==
    [seq : Nat, stations : Seq(Int), forecasts : Seq(NowcastStations),
     artifacts : Seq(Artifacts), member_metars : Seq(MemberMetars),
     last_issue : NowcastIssues \cup {None}, heartbeat : Heartbeats \cup {None}]

\* The nowcast is what the contract's types can hold.
NowcastTypeOK ==
    nowcast \in [supplied : SuppliedNowcasts, feed : ComponentMetas,
                 unavailable : Reasons \cup {None}]

-----------------------------------------------------------------------------
(* NowcastInputV6::validate *)

ForecastKey(station) == <<station.station_id>>
IssueKey(f) == <<f.issue_time>>
LeadKey(lead) == <<lead.lead_min>>
ArtifactKey(a) == <<a.model_id, a.valid_from>>
MetarKey(m) == <<m.station_id, m.valid_time>>
SelfKey(v) == <<v>>

\* Mutant: a reason is asked for only where the authority is withdrawn.
ReasonIfWithdrawn(n) == n.feed.authority = "Unavailable" => n.unavailable # None

\* Fail closed: the host vouches for the feed or says why not.
FailsClosed(n) ==
    \/ n.feed.authority = "Current" /\ n.unavailable = None
    \/ n.feed.authority = "Unavailable" /\ n.unavailable # None

ValidEnvelope(e, clock) ==
    /\ OptionalTime(e.emitted_at, clock.observed)
    /\ IsTime(e.received_at, clock.observed)

ValidStationList(stations) ==
    Len(stations) =< MaxMembers /\ StrictlySorted(KeysOf(stations, SelfKey))

\* Levels increase, and every lead has one value for each of them.
ValidStationForecast(f, clock) ==
    /\ IsTime(f.issue_time, clock.observed)
    /\ ValidEnvelope(f.envelope, clock)
    /\ Len(f.levels) =< MaxLevels /\ Len(f.leads) =< MaxLeads
    /\ f.levels # << >>
    /\ StrictlySorted(KeysOf(f.levels, SelfKey))
    /\ StrictlySorted(KeysOf(f.leads, LeadKey))
    /\ \A i \in DOMAIN f.leads :
          /\ f.leads[i].lead_min # 0
          /\ Len(f.leads[i].q) = Len(f.levels)
          /\ IsTime(f.leads[i].target_time, clock.forecast)

\* Mutant: whose the issues are is not looked at.
IssuesInOrder(station, clock) ==
    /\ station.issues # << >>
    /\ Len(station.issues) =< MaxIssues
    /\ StrictlySorted(KeysOf(station.issues, IssueKey))
    /\ \A i \in DOMAIN station.issues : ValidStationForecast(station.issues[i], clock)

\* The complete issues of one station, oldest first.
ValidNowcastStation(station, clock) ==
    /\ station.issues # << >>
    /\ Len(station.issues) =< MaxIssues
    /\ StrictlySorted(KeysOf(station.issues, IssueKey))
    /\ \A i \in DOMAIN station.issues :
          /\ station.issues[i].station_id = station.station_id
          /\ ValidStationForecast(station.issues[i], clock)

\* A version may be published ahead of the time it applies from.
ValidArtifact(a, clock) ==
    /\ IsTime(a.valid_from, MaxTime)
    /\ OptionalTime(a.published_at, clock.observed)
    /\ ValidEnvelope(a.envelope, clock)
    /\ a.sha256 = Sha256(a.body)

ValidMetar(m, stations, clock) ==
    /\ m.station_id \in stations
    /\ IsTime(m.valid_time, clock.observed)
    /\ OptionalTime(m.first_seen, clock.observed)
    /\ ValidEnvelope(m.envelope, clock)

ValidIssue(issue, clock) ==
    /\ IsTime(issue.issue_time, clock.observed)
    /\ ValidStationList(issue.stations) /\ ValidStationList(issue.failed)
    /\ ValidEnvelope(issue.envelope, clock)

ValidHeartbeat(h, clock) ==
    /\ IsTime(h.received_at, clock.observed)
    /\ OptionalTime(h.last_issue_time, clock.observed)

\* Every forecast and METAR is of a member station the runner listed for the city.
ValidNowcast(n, t) ==
    LET clock == Clock(t)
        s == n.supplied
        listed == {s.stations[i] : i \in DOMAIN s.stations}
    IN  /\ ValidMeta(n.feed)
        /\ FailsClosed(n)
        /\ ValidMetaTimes(n.feed, clock)
        /\ Len(s.forecasts) =< MaxMembers
        /\ Len(s.artifacts) =< MaxArtifacts
        /\ Len(s.member_metars) =< MaxMetars
        /\ ValidStationList(s.stations)
        /\ StrictlySorted(KeysOf(s.forecasts, ForecastKey))
        /\ \A i \in DOMAIN s.forecasts :
              s.forecasts[i].station_id \in listed /\ ValidNowcastStation(s.forecasts[i], clock)
        /\ StrictlySorted(KeysOf(s.artifacts, ArtifactKey))
        /\ \A i \in DOMAIN s.artifacts : ValidArtifact(s.artifacts[i], clock)
        /\ StrictlySorted(KeysOf(s.member_metars, MetarKey))
        /\ \A i \in DOMAIN s.member_metars : ValidMetar(s.member_metars[i], listed, clock)
        /\ s.last_issue # None => ValidIssue(s.last_issue, clock)
        /\ s.heartbeat # None => ValidHeartbeat(s.heartbeat, clock)

-----------------------------------------------------------------------------
(* NowcastState: what a kernel reads *)

ReadNowcast(n) ==
    [feed |-> n.feed, unavailable |-> n.unavailable, supplied |-> n.supplied]

\* NowcastState::available: the nowcast, or why not.
Available(state) ==
    IF state.unavailable # None THEN [err |-> state.unavailable]
    ELSE IF state.feed.authority = "Current" THEN [ok |-> state.supplied]
    ELSE [err |-> "Invalid"]

\* SuppliedNowcast::issues and artifacts_of.
IssuesOf(supplied, station) ==
    LET Of(f) == f.station_id = station
        found == FirstWhere(supplied.forecasts, Of)
    IN  IF found = None THEN << >> ELSE found.issues

ArtifactsOf(supplied, model) ==
    LET Of(a) == a.model_id = model IN Selected(supplied.artifacts, Of)

-----------------------------------------------------------------------------
(* The runner's feed and the host's fold of it (external) *)

EnvelopeAt(at) == [seq |-> nowcast.supplied.seq + 1, emitted_at |-> None, received_at |-> at]

\* Every event of the city has the next seq and stamps the feed.
Folded(supplied, at) ==
    [nowcast EXCEPT !.supplied = [supplied EXCEPT !.seq = @ + 1],
                    !.feed.updated_at = at, !.feed.provenance = <<at>>]

NoSnapshot ==
    [supplied |-> [seq |-> 0, stations |-> << >>, forecasts |-> << >>, artifacts |-> << >>,
                   member_metars |-> << >>, last_issue |-> None, heartbeat |-> None],
     feed |-> ComponentMeta("Unavailable", None), unavailable |-> "NoSnapshot"]

\* The runner lists the city's stations, in order, and the host vouches for the feed.
CitySnapshot ==
    [NoSnapshot EXCEPT
        !.supplied.seq = 1,
        !.supplied.stations = Selected(<<1, 2, 3>>, LAMBDA station : station \in Members),
        !.feed = ComponentMeta("Current", now), !.unavailable = None]

\* Kept in order and bounded, the oldest dropped; or (out of order) at the end.
KeptIssues(issues, f) ==
    LET Older(x) == x.issue_time < f.issue_time
        Newer(x) == x.issue_time > f.issue_time
        all == Selected(issues, Older) \o <<f>> \o Selected(issues, Newer)
    IN  SubSeq(all, IF Len(all) > MaxIssues THEN Len(all) - MaxIssues + 1 ELSE 1, Len(all))

\* A forecast of a listed or unlisted station; slips: folded under another station, issued
\* ahead, at the end whatever its time, or with a lead short of a level.
StationForecast ==
    \E station \in Members \cup Strangers, issued \in {now - 1, now},
       slip \in {"none", "misfiled", "ahead", "appended", "short"} :
        LET f == [station_id |-> station,
                  issue_time |-> IF slip = "ahead" THEN Later(ObservedLead + 1)
                                 ELSE issued,
                  envelope |-> EnvelopeAt(now), levels |-> <<1, 2>>,
                  leads |-> <<[lead_min |-> 1, target_time |-> now,
                               q |-> IF slip = "short" THEN << 2 >> ELSE <<1, 2>>]>>]
            s == nowcast.supplied
            under == IF slip = "misfiled" THEN CHOOSE m \in Members : TRUE ELSE station
            Before(x) == x.station_id < under
            After(x) == x.station_id > under
            held == IssuesOf(s, under)
            entry == [station_id |-> under,
                      issues |-> IF slip = "appended" THEN Append(held, f)
                                 ELSE KeptIssues(held, f)]
        IN  nowcast' = Folded([s EXCEPT !.forecasts =
                Selected(@, Before) \o <<entry>> \o Selected(@, After)], now)

\* A version in force or a next one; slips: its body cut short, or at the end of the list.
ModelArtifact ==
    \E model \in Models, from \in {now, Later(1)}, slip \in {"none", "truncated", "appended"} :
        LET a == [model_id |-> model, valid_from |-> from, published_at |-> now,
                  sha256 |-> Sha256("published"),
                  body |-> IF slip = "truncated" THEN "truncated" ELSE "published",
                  envelope |-> EnvelopeAt(now)]
            s == nowcast.supplied
            Before(x) == Precedes(ArtifactKey(x), ArtifactKey(a))
            After(x) == Precedes(ArtifactKey(a), ArtifactKey(x))
        IN  nowcast' = Folded([s EXCEPT !.artifacts =
                IF slip = "appended" THEN Append(@, a)
                ELSE Selected(@, Before) \o <<a>> \o Selected(@, After)], now)

MemberMetar ==
    \E station \in Members \cup Strangers :
        LET m == [station_id |-> station, valid_time |-> now, first_seen |-> None,
                  envelope |-> EnvelopeAt(now)]
            s == nowcast.supplied
            Before(x) == Precedes(MetarKey(x), MetarKey(m))
            After(x) == Precedes(MetarKey(m), MetarKey(x))
        IN  nowcast' = Folded([s EXCEPT !.member_metars =
                Selected(@, Before) \o <<m>> \o Selected(@, After)], now)

IssueComplete ==
    \E stations \in {nowcast.supplied.stations, <<2, 1>>} :
        nowcast' = Folded([nowcast.supplied EXCEPT !.last_issue =
            [issue_time |-> now, stations |-> stations, failed |-> << >>,
             envelope |-> EnvelopeAt(now)]], now)

\* Unsequenced: the connection is alive even when nothing is issued.
Heartbeat ==
    nowcast' = [nowcast EXCEPT !.supplied.heartbeat =
                    [received_at |-> now, last_issue_time |-> None]]

\* A fresh snapshot: what was held is replaced, the host vouches again.
Snapshot == nowcast' = CitySnapshot

\* What is held stays resident.  A slip tells the reason without taking the authority back,
\* or takes it back without a reason.
Withdraw ==
    \E reason \in Reasons \cup {None}, authority \in {"Current", "Unavailable"} :
        /\ reason = None => authority = "Unavailable"
        /\ nowcast' = [nowcast EXCEPT !.unavailable = reason, !.feed.authority = authority]

NowcastInit == nowcast \in {NoSnapshot, CitySnapshot}

NowcastFold ==
    \/ StationForecast
    \/ ModelArtifact
    \/ MemberMetar
    \/ IssueComplete
    \/ Heartbeat
    \/ Snapshot
    \/ Withdraw

-----------------------------------------------------------------------------
(* Properties *)

\* A kernel is given the nowcast only while the host vouches for the feed, and otherwise the
\* reason the host had; what a slip of the host leaves half said never reaches it.
\* (validate's match on authority and reason; NowcastState::available.)
NowcastFailsClosed ==
    ValidNowcast(nowcast, now) =>
        Available(ReadNowcast(nowcast)) =
            IF nowcast.feed.authority = "Current" THEN [ok |-> nowcast.supplied]
            ELSE [err |-> nowcast.unavailable]

\* The issues a kernel reads of a station are that station's, of a member of the city, the
\* newest last, with a value for every level; the versions of a model come by the time they
\* apply from, so the last one that applies is in force; every body is the published one.
\* (validate_station, validate_forecast, validate_artifact; issues, artifacts_of.)
NowcastReadsAreWhole ==
    ValidNowcast(nowcast, now) =>
        LET s == nowcast.supplied
            held == {f.station_id : f \in {s.forecasts[i] : i \in DOMAIN s.forecasts}}
        IN  /\ \A station \in held :
                  LET issues == IssuesOf(s, station)
                      newest == issues[Len(issues)]
                  IN  /\ \E i \in DOMAIN s.stations : s.stations[i] = station
                      /\ \A i \in DOMAIN issues :
                            /\ issues[i].station_id = station
                            /\ issues[i].issue_time =< newest.issue_time
                            /\ \A n \in DOMAIN issues[i].leads :
                                  issues[i].leads[n].q = issues[i].levels
            /\ \A model \in Models :
                  LET versions == ArtifactsOf(s, model)
                  IN  \A i, j \in DOMAIN versions :
                          /\ i < j => versions[i].valid_from < versions[j].valid_from
                          /\ versions[i].sha256 = Sha256("published") =>
                                versions[i].body = "published"
=============================================================================
