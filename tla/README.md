# A verification of the Decision V6 runner

TLA+ modules for `native/strategy_core_v3`, the core that runs a Strategy's kernel
inside one *decision* of the trading host (traderv3), with the TLC configurations
that check them and the theorems about them that TLAPS proves.

Paths below are relative to the repository; `kernel_v6.rs`, `decision_v6.rs` and
the like are files of `native/strategy_core_v3/src`.

## 1. The system

A *Sleeve* (one Strategy on a Broker account) runs as a sequence of decisions. The
host builds a *decision context* (a view of the Broker, market data, weather data,
the trigger event, the previous *checkpoint*), the runner
(`run_transaction`, kernel_v6.rs) compares the Broker view with the checkpoint's
*runner section*, hands the kernel the order updates it derives and then the
trigger event, and returns a *decision result*: the kernel's commands, a new
checkpoint, diagnostics. The host validates it, admits its commands to the Broker
and writes everything in one durable write, or lets it go.

No code of the repository is concurrent. What makes it hard is that everything
around it is: the view may be stale, partial, truncated or reordered; the decision
may be rejected, lost in a crash or run again; the kernel is foreign code that may
fail at any point of any update.

| Component | State | Operations | Hard behaviour | What makes it correct |
|---|---|---|---|---|
| Order-update comparison (`kernel_v6/updates.rs`) | the runner section: newest revision seen, one entry per tracked order or command (last status and fill seen, failures, deferrals, absences) | compare a view, derive updates, adopt open orders, count absences, expire and evict tombstones, write failures back, list acknowledgements | stale, partial and truncated views; retries while the order moves on; bounded tombstones; crashes | every fill is told to the kernel once; what is final is told before the host may forget it; outcomes are acknowledged in the end; the section can always be read again |
| Update delivery and rollback (`kernel_v6.rs`, `run_transaction`) | the kernel's state, the calls so far, a snapshot of both per update, the delivery order | order the updates, hold, snapshot, deliver, undo, roll the decision back | a kernel that fails half-way; a kernel that cannot be restored; contention of several updates for one decision's room | a failed update leaves nothing; an update is handled exactly once or abandoned; a cancel's outcome follows its target's |
| Decision host (`kernel_v6.rs`, `KernelHost`) | the decision so far: commands, plan rows, provisional orders, cancel marks, timer keys, runner entries, reserved cash | place, cancel, cancel all, schedule and cancel a timer, request, stop, log | calls across several updates and the trigger, some of them undone | the result passes the contract's check, but for one known kind of decision (finding 3); bounded entries; nothing of an undone call stays |
| Decision contract (`decision_v6.rs`) | none (pure) | validate context and result, count plan rows | the check counts again what the host counted as it went | a cancel-all fits at the open-order cap |
| Native run (`kernel_v6/native.rs`) | the section and the kernel between decisions of one process | run one decision in memory, tombstones kept for the next | an error leaves the section taken | equals the durable run |
| Result assembly (`kernel_v6.rs`) | the outputs in the order produced, the result's lists, the count of what they lost | log, measure, undo a failed update's outputs in part, append within bounds, shed until the result encodes | the decoder charges more than the encoding; logs overflow into evidence; losses are told in the result they made too large | every output is in the result once, or counted; what the decision is for is never shed |
| Broker data and identities (`decision_v6.rs`) | none | validate orders, fills, positions, receipts, ids | numeric edges | a valid context is what the runner may rely on |
| State projection and events (`kernel_v6/projection.rs`, `kernel_v6/events.rs`) | none | build the kernel's state and events from the context and the calls so far | originals and derived values of one fact beside each other, of different updates | what is shown follows the owner's record, whatever originals are retained; an update is told as it was accepted |
| Hourly index (`hourly_index_v6.rs`, kernel `hourly_index.rs`) | none: a snapshot of minutes, hours and forecasts comes with each context | validate the snapshot, project it for the kernel, look records up | summaries that disagree with the minutes they summarize, after corrections; aligned arrays; end of time | what a kernel reads is one consistent snapshot, and each record is found whole |
| Nowcast (`nowcast_v6.rs`, kernel `nowcast.rs`) | none: issues, artefacts and observations of a city come with each context | validate, tell what is held or why not | a feed withdrawn half-way; issues filed under the wrong station or out of order | fails closed, with the reason; the newest is the newest |
| Supplied data, current observations (`supplied_v6.rs`, `current_v6.rs`, `decision_v6.rs`, kernel `weather.rs`, `supplied.rs`) | none: the owner's station, winners, issuance, captured packets and market lists come with each context | validate each beside the station it is of, read them | packets delivered after later updates and reconnects; counters that start over; books that move under a window | captured packets stay deliverable; a winner is the value last accepted; a window is of its book |
| Kernel contract (`strategy_core_kernel`: state, context, actions, events) | none | types, look-ups, the trait of a kernel | | |
| Fees (`fees.rs` of `strategy_core_kernel`) | an accumulator per order, kept by the Broker between fills | charge a fill, reserve for a buy | rounding fill by fill, rebates, prices below the cap with higher fees | a commitment covers every way to fill the order; no rounding is lost |
| Decimals, climate days, freshness (`strategy_core_kernel`) | none | exact conversions | rounding, overflow | |
| Canonical profile, Decision V4 (`lib.rs`, `decision_v4.rs`) | none | canonical JSON, digests, V4 wire | | |

How they interact: the host (outside the repository) calls `run_transaction`, which
calls the comparison once (`compare`), then the kernel once per update and once for
the trigger; the kernel calls back into `KernelHost`; at the end the comparison's
`finalize` and `acknowledgements` make the new section, and the contract's
validation runs over the result. Before the kernel sees anything, the context is
validated as a whole, and what the kernel reads of it is projected anew for each call;
what the kernel logs and measures is appended to the result at the end and shed until the
result fits. All state that survives a decision is in the checkpoint. The Broker, the
durable store, the kernel, and the owners that fold the weather and market feeds into a
context are outside `src/` and are modelled from how the code uses them (in
`PROJECT.json`, "external").

## 2. The modules

| Module | Models | Extends |
|---|---|---|
| `OrderUpdates` | `updates.rs`: what one comparison does to one section, as operators | |
| `FillReporting` | abstract: what a kernel is promised about its orders' fills | |
| `RunnerSection` | the Broker, the views, decisions over a checkpoint, durable writes, crashes | `OrderUpdates`; implements `FillReporting` |
| `UpdateDelivery` | the delivery loop inside a decision, step by step, over many decisions | `OrderUpdates` |
| `PlanRows` | the count of a decision's plan rows and the open-order cap | |
| `DecisionHost` | the kernel's calls in one decision, what a failure undoes, the contract's check | `PlanRows` |
| `ListPlaces` | no code: the elements of a list at some of its places | |
| `ResultAssembly` | what becomes of logs, telemetry and update errors: undone, appended, shed | `ListPlaces` |
| `OrderFees` | `fees.rs`: the fills of one order, what they are charged and what a buy commits | |
| `ContextTimes` | what the parts of a context share: times, order of lists, look-ups, stream metadata | `ListPlaces` |
| `HourlyIndex` | the hourly index: fold, validation, what a kernel reads and looks up | `ContextTimes` |
| `Nowcast` | the nowcast: fold, validation, availability, look-ups | `ContextTimes` |
| `StationFeed` | a station's weather: accepted updates, winners, captured packets, projection | `ContextTimes` |
| `MarketBook` | market books, their window minima and strikes | `ContextTimes` |
| `DecisionInputs` | the four parts beside each other, validated as one context | the four |
| `MCRunnerSection`, `MCUpdateDelivery`, `MCDecisionHost`, `MCResultAssembly`, `MCDecisionInputs` | contexts, targets, outputs, bounds and symmetry for TLC | the module they name |
| `RunnerSectionProofs`, `FillAccountingProofs` | theorems, the second module's on the first's | `RunnerSection` |
| `UpdateDeliveryProofs` | theorems | `UpdateDelivery`, `OrderLemmas` |
| `DecisionHostProofs` | theorems | `DecisionHost`, `OrderLemmas` |
| `OrderFeesProofs` | theorems | `OrderFees` |
| `ResultAssemblyProofs` | theorems | `ResultAssembly`, `OrderLemmas` |
| `DecisionInputsProofs` | theorems | `DecisionInputs`, `OrderLemmas` |
| `OrderLemmas` | lemmas about least numbers, ranks in a finite order, functions that are sequences, lists of chosen places, folds | `ListPlaces` |

Definitions called "Mutant" in a comment are not part of the model: each is the form
a plausible slip of the code would give to the definition after it, kept to show
that a property would notice.

### OrderUpdates and RunnerSection

*State.* `section` is `RunnerSection` of decision_v6.rs: `seeded`, `newest` (the
newest revision compared) and `entries`, a function from commands to entries. An
entry of a place stands for `TrackedOrder`, of a cancel or a cancel-all for
`TrackedReceipt`; the two lists of the code are one function because a command id
is in one of them only. `broker` is the account's history, one snapshot of the
Sleeve's orders and receipts per revision. `book` is what the kernel and the
diagnostics were told of each order: fills `counted` by handled updates, `lost` with
abandoned ones, `unreported` (filled before the runner adopted the order), the
commands `closed` (final update handled or abandoned), and `dropped` (tombstone
expired or evicted). `saved` is what the last durable write holds, `acked` what it
acknowledged.

*Actions.* `OrderMoves` and `OtherSleeveMoves` are the Broker's; `Decide` is one
completed decision: `compare` (`Stays`, `HasUpdate`, `After`, `Adoptable`,
`Expired`), the delivery's outcome per update (`DeliveryOutcomes`), the commands
issued, `finalize` (`FinalEntries`, `Reinstated`, `Evictions`) and
`acknowledgements` (`Acknowledged`), with the durable write if there is one; `Crash`
resumes from `saved`. A rejected decision changes nothing and needs no action.

*Views.* A view is of any revision so far, complete or truncated, and may miss any
order or receipt; a truncated one still shows all open orders (the contract says it
drops terminal orders only). The host gives views in any order. This is weaker than
what a sane host does and is exactly what `updates.rs` defends against.

*Abstractions.* An order is its status, fill and revision; prices, costs and fees
are left out (the fill is compared by quantity first). How the delivery loop arrives
at an outcome is `UpdateDelivery`'s business: `OutcomesOf` is the set of outcomes it
may have, and `UpdateDelivery` checks that it has no others (`OutcomesAsAssumed`).
Which orders are adopted when there are more than fit, and which tombstones are
evicted, is nondeterministic within the code's order (pending first, then absence).
A section's entries are named by their commands, so `ValidSection` here is the section's
bounds, counters and entries one by one; that every place has a client order id of its own
is checked where ids are chosen, in `DecisionHost`.

### FillReporting, and that RunnerSection implements it

`FillReporting` says what a kernel may rely on without naming a section, a view, a
tombstone, an attempt or a deferral: what it was told of an order is some fill the order
has *had*, never ahead of the Broker and never back except to the last durable write; an
order is reported closed only when it can fill no more and the last fill was told, and
nothing is told of it after that. `RunnerSection` instantiates it (`Reporting`) with

| `FillReporting` | `RunnerSection` |
|---|---|
| `had` | the fills an order shows in any revision of `broker`, 0 among them |
| `settled` | orders that are final in the last revision, and places it has a receipt of (refused) |
| `told` | `counted + lost + unreported` of `book` (of `lost`: it is in the diagnostics) |
| `closed` | the places in `closed` of `book` |
| `kept` | `told` and `closed` of `saved` |

and `ReportsFollowFills` is `Reporting!Spec`: a decision is one `Report` or a stutter,
whatever view it was given and however its updates ended, a crash is a `Recover`, the
Broker's moves are `Fill`s. `MCSectionCrash` checks it with stale and truncated views,
failures, evictions and crashes; `RunnerFollowsFills` proves it.

### UpdateDelivery

One action per step of the loop at kernel_v6.rs:197-340: `Begin` derives the delivery
order (`delivery_order`), `Hold` and `SnapshotFails` skip an update, `Deliver` saves
the state and enters the kernel, `Issue` is a command of the kernel's handler,
accepted or refused for room (with the test that decides whether the refusal
*defers* the update), `Handled`, `Fails` and `CannotRestore` are how the handler
ends, `Completes`, `Rejects`, `StartLost` how the decision does. The kernel is a
counter per command, raised as soon as its handler starts, so an update that fails
leaves a trace unless it is undone.

The delivery order is stated in closed form: `Leader` is the first of the updates that
would have an update delivered (its own, or a cancel it is a target of), `Precedes` orders
the updates unit by unit and targets first within a unit, and `DeliveryOrder` is the list
sorted by it, each delivery with whether it is the first of its unit. The code builds the
same list by sorting the deferred updates first and, update by update, placing the
targets not yet placed just before it. `rows` is the room the
commands issued so far take, kept beside them as the host keeps its plan.

All resources that can defer an update (commands, plan rows, requests, the result's
bytes) are one `Room`; the trigger's own commands come after the loop and are left
out.

### DecisionHost and PlanRows

`host` is the part of `KernelHost` that calls change, with the snapshot `saved` a
failed update goes back to. One action per call (`Place`, `CancelOwn`, `CancelOrder`,
`CancelAll`, `Timer`, `Request`, `Stop`); a refused call changes nothing, so a guard
is the call's checks in the code's order. Context orders are given by `context`: open,
final, refused, hidden (kept by the section though the view does not show them).

*The checkpoint.* `CheckpointOf` is the checkpoint a decision starts from: its sequence and
its section's live entries, tombstones and waiting cancels. `TriggerEnds` makes the one it
ends with as `finalize` does: the entries of open orders, those that failed updates bring
back (`Reinstated`: not of an update given up, `abandoned`), the decision's own commands, and
the tombstones that `Evicted` keeps. A rejected decision keeps the checkpoint it started
from.

*The check.* `PassesTheContract` is `validate_decision_result_v6`, written from the result
alone, as the code does. `ValidTransition` is its rule about checkpoints, with the sequence
and, through `ValidSection`, the section's bounds and the client order ids of its places,
each once; the rest is about commands, where what matters is that the host's running counts
and this recount never disagree. `PlanOf` is the recount: `PlanAfter` once per command, from
the context's empty plan. `ResultIsValid` says *which* results pass: all but those of a
completed decision that places an order under the id of a refused place whose refusal is to
be told again (`ReusesRefused`), and none of those. It is the exact extent of finding 3.
`FollowsCommands` names what the host keeps beside the commands, and what each part of it
must be.

Left out: the terms of calls (markets, prices, quantities, cash) and the byte budget of
commands; of the check, identities, the fence, the checkpoint's profile and seal, and which
ids are acknowledged. Logs and telemetry are `ResultAssembly`'s.

### ResultAssembly

`outputs` is the list of `HostOutput`s of a transaction and `mark` its length when the
update being delivered began. The first half is the transaction: `Emit` (a log or a
measurement, in an update or in the trigger), `BeginUpdate`, `EndUpdate`, `SkipUpdate`,
`FailUpdate` (`KernelHost::restore`: the update's logs stay, its telemetry does not, and
an error is added), `FailAll` (no snapshot of the kernel is left). `Assemble` is
`append_outputs` in one step, as the code's one loop over the outputs, for a completed and
for a rejected run. `Fit` is one pass of `fit_result`'s loop: tell the losses anew, encode,
and shed a share of the telemetry, or of the logs once there is none.

A list of which some entries go (`Undone`, `WithoutLogs`, `WithOverflow`) is the list of its
elements at the places that stay, where the code retains or removes one by one. `Destination`
is where the code's chain of conditions takes one output, `Taken` what that does to the lists
and the room; what the loop over all outputs makes is a recursive function of their number
(`Appended`), as is the size of a list (`Total`).

An entry is its code, its size and what the decoder charges for it, and the number of the
output it came from, which only the property reads. What else the result holds
(checkpoint, commands, acknowledgements) is one size and one charge. Texts are left out;
the encoding's bounds are numbers of units.

### The inputs of a decision: HourlyIndex, Nowcast, StationFeed, MarketBook

Each of these modules has three parts. *The fold* is the host's and external: one action
per kind of event of the feed, each also in the forms that a slip of the host would give
it (an event folded out of order, a summary not refreshed, an array one short, metadata
lost, a receipt stamped ahead, a history that lags). *The check* is the contract's
validation (`ValidIndex`, `ValidNowcast`, `ValidStation`, `ValidMarkets`), rule by rule in
the code's terms. *The reading* is what the projection and the kernel crate's look-ups
return for it. The properties say: whatever the fold did, what passes the check reads
right. So a dropped rule of the check, or a look-up that stops at the wrong record, is a
violation, while a slip that the validation stops is not.

- `HourlyIndex`: `index` is `HourlyIndexInputV6`. Values of a minute, of a step's arrays
  and of members are tokens: a step's element is named by the step it is for, so that a
  reading joined from two steps shows.
- `Nowcast`: `nowcast` is `NowcastInputV6`. A quantile is named by its level; an artefact's
  body by whether it is the published one, with its digest.
- `StationFeed`: `station` is `StationV4` with its supplied originals, winners, issuance and
  oracle tables; `captured` the packets accepted and not yet delivered; `accepted` is
  history. `Accept` is the owner's update: facts, station and packet change together. A
  packet is checked (`ValidPacket`) against the station as it is *at delivery*. `Reconnect`
  starts the provider's sequence over and may start the revisions over. `Packets` are the
  packets by kind, each with the original it was told by, if any. Supplied temperatures are
  in ninths of a milli-degree Celsius or fifths of one Fahrenheit, steps of one size, so that
  conversion is exact; the owner's derived values are whole milli-degrees, and `Rounded` is
  the only rounding, where the code has it. Originals thus fall between two milli-degrees, and
  the daily original may have both units, each rounded by itself (`DailyOriginals`). An
  oracle table is read as `OracleTable` of its original where one was supplied (`ReadOracle`),
  with the owner's rank and acceptance: its rows are then compared with no table's.
  `ShownIsTheOwners` says what does hold of what is shown, no more: a superseded original of
  an oracle table is shown, and so is the Fahrenheit half of a daily original whose Celsius
  half agrees.
- `MarketBook`: `markets` the owner's books, tickers and the strikes of their identities (a
  floor in either unit, a cap in Celsius), `window` the least quantity each level showed,
  `strikes` the caps in Fahrenheit; a list beside another in the same order. `StrikeRead`
  takes the strike in Fahrenheit or converts the one in Celsius, in fifths of a milli-degree
  Fahrenheit; a price is the first quote the ticker tells (`FirstQuoted`).
- `DecisionInputs` puts them beside each other under one clock. No check relates two of
  the parts, so a behaviour follows the feed of one of them (`live`): the product of
  the four would only multiply states. `ValidInputs` is the whole context's check.
  `TypeOK` says what the types of the contract hold; it is proved (`InputsAreTyped`) and no
  run's property, as its sets are infinite lists.

A look-up that the code makes with `find` or `binary_search` is `FirstWhere`, the element at
the least place that fits; a list that keeps some elements is `Selected`, the elements at
the places that fit, by rank. Both are closed forms, so that they can be reasoned about.

One station, one city; identifiers are integers in the order of their text; bounds of
single texts and of weights are left out, as are the records' fields that are copied only.

### OrderFees

One order and its fills. `Fill` charges a fill of any part, at any price a limit order
may be filled at, as maker or taker: `TradeFee` rounds the fee up, `Posting` rounds the
cash change down to the grid, keeps what that takes in `accumulator` and rebates whole
units of the grid up to the fill's own fee. `Commitment` is what a buy sets aside when it
is placed, with the search for the worst price (`Peak`, `PricesAround`) as the code does
it. Amounts are exact integers as in the code; the code's units (a dollar's microdollars,
the grid, a contract's parts, the scale of rates) are constants, so TLC can use small ones
and the proofs hold for the real ones. Orders and fills whose amounts do not fit 64 bits
are refused by the code and left out; so are market orders without a cap and the legacy
schedule. A fee rate of zero and a flat rate are fee types like any other.

## 3. The runs

Limits of the code and the small values that stand for them:

| Constant | Code | Runs | Why it is enough |
|---|---|---|---|
| `MaxRunnerEntries` | 256 | 2, 4, 5 | the cap is reached in every run |
| `MaxTombstones` | 32 | 1 | a second vanished entry forces an eviction; in `MCHost` too, of one hidden before and one since |
| `TombstoneExpiryViews` | 16 | 2 | one absence that does not expire, one that does |
| `MaxDeliveryAttempts` | 3 | 1, 2 | a first failure that is retried, and a last |
| `MaxDeliveryDeferrals` | 8 | 2 | one deferral that is retried, one that is not, and a cancel held at the bound |
| `MaxDecisionPlanRows` | 512 | 14, 20 | two or three commands fill it |
| open-order cap | 192 paper, 168 live | 4 and 6 paper; 2 and 3 live, from the plan rows as in the code | reached in both modes |
| `MaxStrategyCommands` | 64 | 3 | reached |
| `MaxRequests` | 8 | 1 | reached |
| `MaxWaiting` | unbounded | 1 | cancels of the context that still wait for their receipt: none, one |
| `MaxRevision` | unbounded | 3, 4; 2 for liveness | placed, moved, moved again or final, with a stale view of each |
| `MaxIssued` | 64 | 1, 2 | two commands of one decision: a place and its own cancel |
| `Quantity` | any | 1, 2 | a partial fill and the rest |
| `Room` | several limits | 1, 2 | each update alone fits, two contend |
| `Dollar`, `Grid`, `Parts` | 1,000,000, 100, 100 | 12, 4, 3 | prices on, next to and off the grid; the peak below, at and above caps |
| `Unit`, `Multipliers` | 10^12, any | 10^5; 0, 2, 5 | no fee, fees whose peak is above a dollar, and within it |
| `MaxDiagnostics`, `MaxEvidence`, `MaxTelemetry` | 64, 64, 256 | 4, 2, 3 | two places for logs besides the two the code keeps, one log over into evidence, one lost |
| `Budget`, `MaxResultSize`, sizes of entries | 896 KiB, 1 MiB; any | 8, 9; 1 to 3 | results that fit, that shed telemetry, that shed logs after it, that fail |
| `ShedShare` | 8 | 2 | a share of more than one, and one that rounds up |
| `MaxOutputs` | unbounded | 3 | an output before, in and after an update that fails; more than the lists hold |
| `MinTime`, `MaxTime` | 2020, `i64::MAX` | 1, 5 | decision times from 2 to the end of time, where the leads saturate |
| `ObservedLead`, `ForecastLead`, `HourLead` | 10 min, 24 h, 2 h | 1, 2, 1 | a time within and past each |
| `HourLength` | an hour | 2 | tops of the hour and times between |
| bounds of the inputs' lists | 3 to 96 | 1, 2 | one entry, the bound, and one more |
| `Temperatures` | any | 3 values, in ninths of a milli-degree | two in neighbouring milli-degrees, so that a high and an original shown for it are as far apart as the rule admits; one farther off |
| `Strikes`, `CelsiusStrikes` | any | 2 and 1, in thousandths of a degree | a bracket in order, out of order and of one value; a Celsius strike below both |
| `Prices`, `One` | up to 1,000,000, 1,000,000 | 2, 4 | two levels of a side; each quote of a ticker there or not |
| `MaxGeneration` | unbounded | 2 | one reconnect, with packets waiting |
| `MaxUpdates` | unbounded | 2 (index, nowcast), 3 (station, markets) | a slip and its correction; for the station, accept, correct or reconnect, and deliver late |

| Run | Distinct states | Question |
|---|---|---|
| MCSection | 61,514 | A place and a cancel, of one decision or of two: `TypeOK`, `FillsAccounted`, `NeverToldTwice`, `ClosedOrdersAreTold`, `SectionIsReadable` |
| MCSectionCrash | 48,858 | An order from before the runner, a cancel-all, decisions lost in crashes: `AcknowledgedIsTold`, `AcknowledgedIsUntracked`, and the refinement `ReportsFollowFills` |
| MCSectionSettles | 4,731 | Liveness, with crashes, an order from before the runner, and a cancel held behind its target: `OutcomesAreAcknowledged` |
| MCDelivery | 4,148,532 | Two places, a cancel and a cancel-all that contend for room: `CancelsFollowTargets`, `FailuresLeaveNothing`, `HandledExactlyOnce`, `OutcomesAsAssumed`, `MostDeferredFirst`, `CancelsAreNotDeferredOut` |
| MCDeliverySettles | 63,534 | Liveness: `EveryUpdateSettles` |
| MCDeliveryStarves | violation | "none starves" (finding 1) |
| MCHost | 2,421,464 | A decision of either mode, with and without each grant, whose updates fail, are skipped, are rolled back: `ResultIsValid`, `HostFollowsCommands`, `LiveEntriesFit`, `CancelAllFitsFirst` |
| MCHostCancelAll | violation | "always fits" (finding 2) |
| MCHostReuse | violation | a reused client order id (finding 3) |
| MCOrderFees | 105,125 | Every split, price and mix of roles of an order: `SpendingIsCovered`, `SpendingInvariant`, `RoundingIsKept`, `FewPricesSuffice` |
| MCContext | 903,144 | The parts of a context, each folded with slips, and what the context's check lets through to a kernel: `SummariesTellTheMinutes`, `IndexReadsAreWhole`, `NowcastFailsClosed`, `NowcastReadsAreWhole`, `CapturedStaysDeliverable`, `AcceptedStaysCurrent`, `ShownIsTheOwners`, `WindowIsOfTheBook`, `InputsStayValid` |
| MCResult | 79,847 | Outputs of any size around the limits, of updates that end in every way: `NothingIsLostUnseen`, `EssentialsAreKept`, `EachPassSheds`, and liveness `AResultIsReached` |

The section runs use five or three of the ten Broker statuses. `Dispatched` and
`RecoveryRequired` are told to the Strategy as `DurablyAccepted` and
`CancellationRequested` are, `Resting` is one more open status, and `Expired` and
`Rejected` are final like `Cancelled`, so each one left out has its like in `MCSection`;
the proofs are about all ten. Deadlock is checked except where the modelled sequence
ends: in the `MCHost` runs and `MCResult`, whose single decision ends, in `MCOrderFees`,
whose order fills up, and in `MCContext`, whose feeds stop at `MaxUpdates`.

The inductive invariants of the proofs (`FillInvariant`, `AckInvariant`, `KnownInvariant`,
`DeliveryInvariant`, `ResultInvariant`, `AssemblyInvariant`, `InputInvariant`) are not among
the runs' properties: the proofs show them for every instance. TLC also finds the first four
to hold on the instances of `MCSectionCrash` and `MCDeliverySettles`, and `AssemblyInvariant`
on that of `MCResult`. That no fill pays out a fee
(`NoFeeIsNegative`) follows from the cap on a rebate, and is proved only (`FeesNeverPayOut`).

### Fairness

`RunnerSection`: weak fairness of a decision over the whole, current view with a
durable write. The host's promise (decision-v6.md) is that it keeps running
decisions while anything is outstanding. That its views are whole *from some point
on* is not fairness but a premise, `ViewsSettle`, inside the property; without it no
code could acknowledge anything. The kernel is not assumed to succeed: outcomes are
acknowledged even if it fails for ever.

`UpdateDelivery`: weak fairness of starting a decision, of going on to the next
update, and of the kernel's handler returning (a handler that hangs is the host's
time limit's business, and shows as a decision that never happened); strong
fairness of `Completes`, which says not every decision is rejected: each attempt
may be, and the action is enabled again in the next. Premises inside the property:
`ViewsSettle`, and `StartsAreRestored` (from some point on the decision's start can
be restored; it was restored from the checkpoint once already in the same decision).

`ResultAssembly`: weak fairness of `Fit`, as the loop of `fit_result` runs until it
returns. That it ends is the property.

## 4. The proofs

| Module | Theorem | For every value of the constants |
|---|---|---|
| `RunnerSectionProofs` | `TypeCorrect` | `Spec => []TypeOK` |
| | `SectionStaysReadable` | `Spec => []SectionIsReadable` |
| `FillAccountingProofs` | `FillsAreAccounted` | `Spec => []FillsAccounted` |
| | `NothingIsToldTwice` | `Spec => []NeverToldTwice` |
| | `ClosedOrdersStayClosed` | `Spec => []ClosedOrdersAreTold` |
| | `AcknowledgedStaysUntracked` | `Spec => []AcknowledgedIsUntracked` |
| | `AcknowledgedWasTold` | `Spec => []AcknowledgedIsTold` |
| | `RunnerFollowsFills` | `Spec => ReportsFollowFills` (the refinement) |
| `UpdateDeliveryProofs` | `DeliveryTypeOK` | `Spec => []TypeOK` |
| | `UpdatesAreHandledOnce` | `Spec => []HandledExactlyOnce` |
| | `FailuresAreUndone` | `Spec => []FailuresLeaveNothing` |
| | `TargetsComeFirst` | `Spec => []CancelsFollowTargets` |
| | `LoopEndsAsAssumed` | `Spec => []OutcomesAsAssumed` |
| | `DeferredComeFirst` | `Spec => []MostDeferredFirst` |
| | `CancelsOutwaitDeferrals` | `Spec => CancelsAreNotDeferredOut` |
| `DecisionHostProofs` | `CancelAllComesFirst` | `Spec => []CancelAllFitsFirst` |
| | `EntriesStayBounded` | `Spec => []LiveEntriesFit` |
| | `DecisionTypeOK` | `Spec => []TypeOK` |
| | `HostKeepsStep` | `Spec => []HostFollowsCommands` |
| | `ResultsPassTheContract` | `Spec => []ResultIsValid` |
| `ResultAssemblyProofs` | `ResultIsTyped` | `Spec => []TypeOK` |
| | `LossesAreTold` | `Spec => []NothingIsLostUnseen` |
| | `ResultKeepsEssentials` | `Spec => []EssentialsAreKept` |
| | `PassesShed` | `Spec => EachPassSheds` |
| `OrderFeesProofs` | `BuysStayWithinCommitment` | `Spec => []SpendingIsCovered` |
| | `SpendingStaysBounded` | `Spec => []SpendingInvariant` |
| | `TriedPricesSuffice` | `Spec => []FewPricesSuffice` |
| | `NoRoundingIsLost` | `Spec => []RoundingIsKept` |
| | `FeesNeverPayOut` | `Spec => NoFeeIsNegative` |
| | `FeesAreTyped` | `Spec => []TypeOK` |
| `DecisionInputsProofs` | `InputsAreTyped` | `Spec => []TypeOK` |
| | `PacketsStayDeliverable` | `Spec => []CapturedStaysDeliverable` |
| | `AcceptedIsCurrent` | `Spec => []AcceptedStaysCurrent` |
| | `StationShowsTheOwners` | `Spec => []ShownIsTheOwners` |
| | `WindowsFollowBooks` | `Spec => []WindowIsOfTheBook` |
| | `SummariesFollowMinutes` | `Spec => []SummariesTellTheMinutes` |
| | `IndexIsWhole` | `Spec => []IndexReadsAreWhole` |
| | `NowcastIsClosed` | `Spec => []NowcastFailsClosed` |
| | `NowcastIsWhole` | `Spec => []NowcastReadsAreWhole` |
| | `AdmittedInputsStay` | `Spec => InputsStayValid` |

*Assumptions.* `CommandsAssumption` (places, cancels and cancel-alls are disjoint,
finite sets), `LimitsAssumption` (the limits are naturals, the ones the code counts up
to positive), `HostAssumption` of each module, `DeliveryAssumption` (a command takes some of
the room, and no more than there is), `PlanAssumption` (the limit on plan rows
leaves room for one cancel and, in paper, for a cancel-all at the cap: true of 512 and
192), `ContextsAssumption` (the contexts are contexts), `UnitsAssumption` (the units of
fees are positive), `AssemblyAssumption` (bounds and sizes are naturals, at least one entry is
shed at a time, the decoder charges no entry less than its size, and the notes and the order
updates' evidence leave the room the code sets aside: two diagnostics). Of the inputs: `TimesAssumption` (bounds and leads are naturals, the
first time is before the last, the length of an hour is positive), `IndexAssumption`,
`NowcastAssumption`, `StationAssumption` and `MarketAssumption` (bounds are naturals,
identifiers and values are of numbers; the stations of the city and the markets in scope are
numbered from 1, a first price is 1; a city has a member), `InputsAssumption`, and
`IndexNoneAssumption`, `StationNoneAssumption`, `MarketNoneAssumption` (the value that stands
for an absent `Option` is no record or list, which TLC can compare but a prover cannot
know). The runs evaluate them all.

*Fill accounting.* `FillsAccounted` is not inductive: that an entry agrees with the
books says nothing of an order that is *adopted*, whose books date from an earlier
life, nor of one that comes back in a stale view. `FillInvariant` adds

- `HistoryOK`: over the Broker's history fills only grow, a final order never
  moves, receipts stay, and no command has both an order and a receipt;
- `ToldByThen`: what was told of an order is its fill at *some revision the section
  has compared*, so it is at most what any newer view shows;
- for closed orders, that the order was final *by a revision the section has
  compared* (`FinalByThen`) or was refused, so a view that shows it open is older than
  `newest` and cannot be adopted from;

and all three of the saved checkpoint too, since a crash goes back to it. The step is
proved per action; for a decision, entry by entry from what `compare` does to it
(`ToldAfter`, `EntriesAfter`, `DecisionKeepsSound`), then carried over the longer
history (`SoundLasts`).

*Acknowledgements.* `AckInvariant` relates the two checkpoints: the saved one is never
ahead of the current one, and an acknowledged command's outcome was in by the newest
revision the *saved* section has compared. Then a view that shows an acknowledged order
open is older than every checkpoint's newest revision, and nothing adopts it. That an
acknowledged order was *told* needs the converse, that no command drops out of sight:
by `KnownInvariant` each command the Broker has an order or a receipt of is tracked, or
closed, or dropped, or from before the runner and never adopted, or needs no news. A
terminal order that is neither tracked nor dropped is then closed, and closed orders are
told in full.

*The section can be read again.* `SectionIsReadable` is inductive together with `TypeOK`: what
bounds the entries is that adoption leaves room for what is held back, that the host counts
live entries as it issues commands, and that tombstones are evicted to their bound last; the
proof counts the union of these sets (`CountOfUnion`).

*The refinement.* `NextIsNext` maps each step under `FillInvariant`: `OrderMoves` to a
`Fill` (of the fills an order has had: `FillsOfOneMore`), a decision, with the Broker's
admission of its commands in the same step, to a `Report` or a stutter (`DecisionIsReport`,
from `BooksGrow` and `ClosedIsLastFill`), a crash to `Recover`. `AdmissionFillsNothing` is
why one step may do both.

*The delivery loop.* The order is by rank: `PrecedesIsTotal` shows that `Precedes` orders a
decision's updates totally, and `RanksAreDense` that in such an order the number of elements
before an element numbers them without gaps, so the list that puts each at its rank exists
and is sorted (`DeliveriesInOrder`). No sort is run, and no induction needed. From there
`DeliveryInvariant` says of each state of the loop what is undelivered (each update once,
none of them failed, targets first, the most deferred first), why each failed update failed
(`FailedOK`), and what the kernel has handled, now or in the snapshot a failure goes back to
(`HasHandled`). `HandledExactlyOnce` is about committed kernels, so its step is `Completes`:
what the loop handled is gone from the section, and what failed stays with a counter below
its limit or is abandoned (`EndsKeepsInvariant`). `LoopEndsAsAssumed` ties the two models of
a decision together: the outcomes that `RunnerSection` chooses from include every one the
loop reaches, so its theorems hold of the loop. Deferral needs most care: a deferred update
had another before it in the decision, and a cancel that is held for its target is never
deferred out (`CancelsOutwaitDeferrals`).

*The host.* `HostInvariant` says the running plan count knows exactly the open orders
of the context as long as no command was issued, and bounds the runner entries by the
live ones plus those a failed update may bring back. `ResultInvariant` says that the
decision so far, and the one a failed update goes back to, are `Good`: what the host keeps
follows its commands (`FollowsCommands`), and each rule of the contract's check holds of the
commands so far. A call is the relation `Calls` (one command appended, the rest as the call
leaves it); a lemma per rule shows that it keeps the rule, and a lemma per action that the
action is such a call. `CheckpointInvariant` holds the rest of the check: the checkpoint is
the context's until the decision completes and is then made of the context, what failed and
the commands, and no place has the id of an order of the context or of a tombstone
(`NextCheckpoint`). The entries of a completed decision are within the section's bound,
since what is brought back or kept was held before and a command is only issued with
room for all of it (`SectionStaysBounded`); an id is there twice just if a place has the id
of a reinstated refused one (`SectionIdsAreUnique`). Both directions of `ResultIsValid`
follow (`TransitionIsValid`). The recount `PlanOf` is a recursive function over the commands; that
every list can be counted follows from the least number of commands that could not be
(`CountExists`, from `LeastNumber`), and that one more command is one more step from
`PlanOfAppended`.

*The result.* Neither property is inductive. What the lists of a result are is decided by
`Assemble` in one step, and that a pass of `fit_result` keeps it needs to be known of every
entry, also between the passes. `AssemblyInvariant` says while the result is settled
(`Settled`) which codes each list may have, that the outputs in the lists and the lost ones
are accounted for (`Accounted`), that the notes, evidence and errors it was assembled with are
there (`Carries`), and that the lists have no more entries than their bounds; and what holds
of a result that was given up.

- *Assembly.* The lists are what a recursive function builds of the outputs. That it exists
  follows from the least number of outputs for which it would not (`FoldExists`, from
  `LeastNumber`), and that each output keeps what was so (`TakenKeeps`) gives it of all, the
  same way (`AppendedKeeps`). The two diagnostics that the outputs leave free are what the
  kernel's error and the overflow take, so that an assembled result always validates: the
  branch of `Assemble` that fails is one no state reaches.
- *Shedding.* What telemetry loses is its end (`TelemetryIsShed`), what diagnostics and evidence
  lose are logs alone, as many as were asked for (`LogsAreShed`), and each is an output
  that the count of the lost grows by (`ShedIsCounted`). The overflow is told after the one of
  the pass before was taken out, so there is never more than one and it is last
  (`OverflowIsTold`).
- *Giving up.* When nothing is left to shed, all entries left are notes, order updates, update
  errors, the kernel's error and the overflow, each of one unit, so that the size of the lists
  is their number (`TotalOfUnits`, `RestIsCounted`). That is the inequality of
  `EssentialsAreKept` for a result given up.
- *The loop.* `PassesShed` is what makes it end: `Sheddable` is a natural number that becomes
  less with each pass that goes on (`PassSheds`, from `SharesAreSome`: a share of something is
  something). `AResultIsReached` follows from it by an argument about fairness that only TLC
  makes here.

*Fees.* A fill's cost depends on the accumulator, so `SpendingIsCovered` is not inductive.
`SpendingInvariant` is: in parts of a microdollar, what was spent is at most the parts
filled at the worst cost, plus what the accumulator holds up to less than a unit of the
grid (`Capped`). A fill keeps it in one of two ways (`PostingOnGrid`). If fee and
rounding are less than a unit, nothing is rebated and the cash is the principal rounded
up to the grid, at most the parts at the rounded-up cap (`SmallFeeIsCovered`). Otherwise
the cash is principal and trade fee plus the accumulator's change, and what the
accumulator holds beyond the cap can only shrink; principal and fee are within the parts
at the worst cost (`FeeIsCovered`), as a fill's fee is at most its parts' fees one by
one (`FeeByParts`). The worst cost is over the prices tried only: that these suffice
(`PricesSuffice`) is the parabola's slope (`Slope`, `CostRisesToThePeak`,
`CostFallsFromThePeak`) and that rounding keeps the order of two prices a whole number
of parts apart (`RoundingKeepsOrder`).

*The inputs.* `InputInvariant` is a conjunction of one invariant per part, and a step changes
one part (`OneAtATime`).

- *Lists.* The elements of a list at some places are numbered by rank (`PlacesAreInOrder`),
  so what a fold keeps, splices or cuts is known element by element (`SplicedElements`). A
  list that is checked pair by pair is in order throughout (`NeighboursOrderAll`), so the
  first element a look-up finds is the only one.
- *What the check alone gives.* `NowcastFailsClosed`, `WindowIsOfTheBook` and most of the two
  whole-read properties follow from types and the check, whatever the fold did. The types
  are what takes the work: every fold, with each of its slips, has to leave lists of the
  contract's records. Two reads need more, since the check compares the *lengths* of aligned
  arrays only: an array as long as its steps or levels is the array of these steps or levels
  (`WholeForecasts`, `WholeStations`), which the folds keep.
- *The station.* `CapturedStaysDeliverable` and `AcceptedStaysCurrent` are inductive in
  `StationInvariant`, together with: no counter is 0 (`CountersStarted`); the originals beside
  the reports are of a report the owner has, and of its value if of its revision
  (`OriginalsAreOfReports`); the daily original is one of the REST endpoint, and the owner has a
  running high beside it (`DailyIsOriginal`). A
  packet is compared with the station at delivery by `NotAhead`, so what matters is that each
  step either advances the counters or starts a generation over (`Follows`): then a packet
  that was deliverable stays so, and a winner stays admissible.
- *What is shown.* `ShownIsTheOwners` has a lemma per clause. Rounding moves a temperature by
  less than half a milli-degree (`RoundedIsNear`), and the rule of the projection allows one
  milli-degree more, hence 13 ninths (`HighIsCurrent`); a report's original of the owner's
  revision rounds to the owner's value in each unit (`OriginalTells`); the table found in the
  owner's rank is the owner's or an original in its place, as the check has the owner's own
  among them and each rank once (`OracleIsCurrent`).
- *Time.* The limits of a later decision are no earlier (`LimitsGoOn`, with the saturation
  at the end of time), and every rule bounds times from above or by constants
  (`IndexStaysValid`, `NowcastStaysValid`): hence `InputsStayValid`.

*Only model-checked.* The three liveness properties, `OutcomesAreAcknowledged`,
`EveryUpdateSettles` and `AResultIsReached`: a proof that an action which fairness names is
enabled is out of TLAPS's reach. Every other property of the passing runs is a theorem.
Induction over data is avoided rather than done: the recursive functions here (`PlanOf`,
`Appended`, `Total`) are over numbers, and what is to be shown of all of them is shown from
the least number at which it would fail.

## 5. Findings

1. *Contenders can starve* (`MCDeliveryStarves`). `updates.rs:223` abandons an update
   at its eighth deferral, whoever took the room. Nine updates that each need a
   whole decision's room are handled one per decision, and the ninth is abandoned, its
   fill lost to the kernel (it is reported as lost). docs/decision-v6-open-points.md:186:
   "so contenders for the same room take turns and none starves".
2. *A cancel-all does not always fit* (`MCHostCancelAll`). docs/decision-v6.md:118-121
   counts open context orders plus the decision's places against one cap, "so a
   cancel-all over every open order always fits the decision plan in either mode". The
   places' own rows count first (5 each): with 166 open orders and 2 places, a later
   cancel-all is refused. It always fits as the first command (`CancelAllComesFirst`).
3. *A reused id invalidates the decision* (`MCHostReuse`). A place's client order id is
   looked up in the derived entries only (kernel_v6.rs:1176). The entry of a place whose
   refusal is being reported is gone from them, and comes back when that update fails.
   A trigger that reuses the id then gets a section with the id twice, which
   `validate_runner_section` rejects: the whole decision fails, and again in each retry.
   `ResultIsValid` shows that no other kind of decision fails the check so.
   docs/decision-v6.md:375-377 promises a local error for an id that "is already used by an
   order in the context, the runner section or this decision", and docs/decision-v6.md:30 has "A
   kernel error on one order update does not reject the decision."

## 6. Not modelled, and why

- *Native run*: the same comparison over a section kept in memory, without snapshot,
  rollback, durable write or crash, so that its steps are those of `OrderUpdates`. What is
  its own, an error that leaves the section taken (native.rs:69), is answered by the host,
  which has to discard the instance: the code keeps nothing that would show whether it did.
- *Broker data validation and identities*: field by field checks of one message, and digests.
  They narrow which views arrive; `RunnerSection` lets all arrive that could pass.
- *Decimals, climate days, station tables*: pure conversions and data, with corpora of
  their own in the repository. The rounding of temperatures is in `StationFeed`, that of fees
  in `OrderFees`.
- *Canonical JSON, digests, SHA-256, Decision V4*: encodings without state, better served by
  the repository's golden corpora. The V4 station and market records are modelled as the types
  of `StationFeed` and `MarketBook`.
- *Of the projection*: order and timer events, oracle scores, hourly forecast points and
  identity texts, which are copied.
- *Hazards without a property*, where the code has no rule that a property could hold it to.
  Strikes of two units are compared by nothing (decision_v6.rs:1223). The rows of an oracle
  table's original are compared with no table's (current_v6.rs:94), and decision-v6.md:395-397
  has originals shown first, so that a superseded one shown is nothing the repository
  excludes. One rule the code does not keep as its comment has it
  (projection.rs:294 shows an original beside a derived observation of the same *time*,
  whatever its value, where projection.rs:280-284 asks for the same value) has none either, as
  the repository does not tell whether an owner ever keeps an original across such a
  correction.
- *Of the decision host*: the terms of orders, financial reads, the byte budget of commands.
- *The host, the Broker, the durable store, the feeds' owners, the kernels*: outside `src/`;
  external definitions, as weak as the code's use of them allows.

## 7. The plan

Done: the comparison with its abstract specification, the delivery loop, the host's calls,
the result's assembly, fees, and the inputs of a decision; and the theorems of section 4, which
state every safety and action property of the passing runs. Left:

1. Timers and external requests across decisions (scheduled, fired, answered, cancelled).
2. The delivery loop and the host's calls as one module: the room of a deferral is one number
   in `UpdateDelivery` and several counts in `DecisionHost`.
3. The terms of orders: cash reserved by a decision's places, with the commitments of
   `OrderFees`.
