# A verification of CargoResQ in TLA+

CargoResQ rescues loads. When a truck breaks down, its company (the *owner*)
reports an incident; the matching engine finds idle trucks of other companies
(*carriers*); offers are fanned out to them; a rescue is bound when one carrier
and the owner have both agreed; the owner's money is then held in escrow and
released against the cargo's recorded temperatures. Drivers in danger raise an
SOS, which can be turned into an incident.

All of this runs in FastAPI handlers over one relational database. A handler
has an `AsyncSession` of its own (`shared/database.py:57-62`): it loads rows,
decides, and commits. No row is locked or versioned (there is neither a
`with_for_update` nor a `version_id_col` in the repository) and
`expire_on_commit=False` keeps loaded rows as they were. So a decision may be
stale when it is written, and several handlers need more than one commit. That
is what the modules are about.

- [1 Inventory](#1-inventory) -- the parts of the system and what makes each correct
- [2 Modules](#2-modules) -- which module models what, and how
- [3 Runs](#3-runs) -- what TLC checks, within which bounds
- [4 Proofs](#4-proofs) -- what TLAPS proves, and along which argument
- [5 Where code and documentation disagree](#5-where-code-and-documentation-disagree)
- [6 Not modelled](#6-not-modelled)
- [7 What is left](#7-what-is-left)

To run a model or check a proof, from this directory:

    tlc -workers 2 -config Rescue_rounds.cfg MCRescue
    tlapm SosProofs.tla

## 1 Inventory

Paths are below `src/services/` unless they start with `src/`. *Hard* names what
a test hardly reaches; `PROJECT.json` lists these hazards line by line, with the
properties that cover each.

### Escrow ledger -- `escrow_ledger/app`
- **State**: an `escrows` row (state, amount, payout, platform fee), append-only
  double-entry `escrow_ledger` rows, the condition log it is judged by.
- **Operations**: `create_escrow` (opens at INITIATED, and with the hold at
  ACCEPTED), `transition` (one edge of `VALID_TRANSITIONS`, with its posting),
  `evaluate_temperature_log`, and the endpoints `/transition` and `/verify`.
- **Interacts**: opened by `_try_bind`, cancelled by `cancel_bound_offer` and
  `stand_down_incident`, walked by `sync_escrow_to_incident`; `/verify` reports
  back to the incident in a second commit.
- **Hard**: two sessions that decide on the same row; readings that arrive during
  a verification; long sequences that must post each movement once.
- **Correct when** the books of an escrow balance at every commit, the ledger
  says what the state says, money is taken once and leaves once, a dispute
  freezes it, and nobody is paid without evidence.

### Incident lifecycle and dispatch -- `orchestrator/app` (`models`, `orchestrator`, `dispatch`, `router`, `stand_down`)
- **State**: `incidents` (state, assigned truck), the audit log.
- **Operations**: `create_incident`, `advance`, `/advance` (a second commit moves
  the escrow), `record_settlement_on_incident`, `stand_down_incident`.
- **Hard**: two-commit handlers and what another request, or a restart, does in
  the gap; an incident moved by hand under a running rescue; standing down while
  a rescue binds.
- **Correct when** a rescue on its way has exactly the carrier that agreed, a
  truck is assigned by both parties, and what the ledger concluded reaches the
  incident.

### Offer handshake -- `orchestrator/app` (`offer_models`, `offer_service`, `offers_router`)
- **State**: `rescue_offers` (state, two timestamps of agreement, deadline,
  escrow), under two partial unique indexes.
- **Operations**: `create_offer_round`, `carrier_accept`, `owner_confirm`,
  `_try_bind`, `carrier_decline`, `owner_withdraw`, `expire_due_offers`,
  `cancel_bound_offer`.
- **Hard**: both yeses at once; a yes against the deadline, the sweep, a refusal;
  the second round; two incidents that want one truck; a hold that can no longer
  be reversed.
- **Correct when** a rescue is bound if and only if both agreed, at most one per
  incident, and the escrow and truck it commits are there exactly as long.

### SOS -- `sos/app`
- **State**: `sos_alerts` (status, counters, escalation deadline, incident),
  `sos_responses`, `sos_broadcasts` (also the authorisation record), `sos_events`.
- **Operations**: `raise_sos`, `acknowledge`, `respond`, `set_status`, `cancel`
  (with duress), `escalate_unanswered`, `escalate_to_incident`; contacts, medical
  sharing and notifier adapters.
- **Hard**: repeated taps; counters incremented in Python; cancellation under
  duress against whatever was under way; four commits from alert to incident.
- **Correct when** one emergency is one alert, no answer is lost, an alert is
  cancelled only on record, an attempt under duress is never undone, and an
  escalated alert names an incident that carriers can be offered.

### Telemetry -- `telemetry/app`
- **State**: `telemetry_pings`, `cargo_readings`, `truck_live_state`, the position in
  the truck's own row, `telemetry_alerts` (episodes under a partial unique index).
- **Operations**: `ingest_pings`, `ingest_readings`, the detectors, `record_finding`,
  `auto_resolve`, the worker's sweep for stale and dwelling trucks, acknowledging
  and resolving an alert.
- **Hard**: batches that are late, repeated or out of order; two uploads, and the
  worker, on one row; an episode that ends while it is being opened.
- **Correct when** a ping counts once, the rows describe one fix, an open episode is
  of the condition the row shows, and silence is noticed.

### Rescue screens -- `orchestrator/app` (`router`, `offers_router`, `counterpart`), `matching_engine/app/repository.py`, the audience in `sos_service.py`, the pages of `telemetry/app/router.py`
- **State**: none; eight queries over the rows of telemetry and offers.
- **Hard**: each decides in its own words which position a truck has and whether it
  is live.
- **Correct when** what one calls live is what all show.

### Realtime gateway -- `realtime_gateway/app`, `core_api/app/events/producer.py`, `src/main.py`
- **State**: sockets, their rooms, and the inverse map; in memory only.
- **Operations**: `register`, `subscribe`, `unsubscribe`, `disconnect`,
  `send_to_room` (which awaits each send); the room rules of `rooms.py`, the
  audiences of `projections.py`, the bridge from `publish` to the rooms.
- **Hard**: sockets that join, leave or die while a broadcast, or the database, is
  awaited.
- **Correct when** both maps agree, a dead socket is in no room, nobody is passed
  over, and an event reaches only companies it concerns.

### Core API and shared library -- `core_api/app`, `src/shared`
- **State**: companies, trucks, drivers, shipments; `processed_events`.
- **Operations**: breakdown reports (through `process_once`), the driver's own
  endpoints, accounts and fleets, the simulation.
- **Hard**: a report takes three commits, and its marker is written last.
- **Correct when** a report that was answered has its incident.

### Matching, pricing, relay, reputation -- `matching_engine/app`, `pricing_engine/app`, `orchestrator/app/relay*.py`, `reputation*.py`
- **State**: reputation rows; the facility a load is relayed to.
- **Operations**: the candidate search and its ranking, the split of a load over
  several trucks, Dijkstra over a road graph, the price; choosing and committing
  a relay to a storage facility; scores of carriers.
- **Hard**: caps, floors, clamps and roundings that follow one another; a heap with
  bettered entries; a list cut after it is sorted; a fleet that changes between two
  reads of one answer.
- **Correct when** a carrier's pay covers the run, hurry is never cheaper, a split
  carries the load, the route is the fastest, storage that helps is shown first, and
  giving up a rescue costs something.

### Clients -- `src/desktop_app`, `src/android_app`
- **State**: what the console's board shows; the driver app's queue of fixes (at most
  2000, oldest dropped first), its session, and uploads under way.
- **Operations**: refreshes by a timer, by events and after an action; recording,
  uploading, putting back a failed batch, renewing a token, ending the service.
- **Hard**: refreshes that overlap; a batch put back in front of newer fixes; an
  answer that comes when nobody waits for it any more.
- **Correct when** the board catches up with the record, and every fix is in one
  place and, unless it is rejected or given up, on the server in the end.

### Schema migrations and demo data -- `src/migrations`, `src/scripts`
- Run once. The constraints they create are modelled where they bite.

## 2 Modules

| Module | Models | State |
|---|---|---|
| `EscrowStates` | the escrow's transition table and the walk `sync_escrow_to_incident` takes along it, as data and functions | none |
| `EscrowLedger` | the escrow ledger, with overlapping sessions | state, books and condition log of each escrow; what each session decided |
| `Custody` | abstract: what an escrow promises about money | the books, and whether they are final |
| `Lifecycle` | the incident's and the offer's transition tables, and the sets derived from them | none |
| `Rescue` | incidents, offers, escrows and trucks together, one step per transaction | the rows, and the second commits still owed |
| `Agreement` | abstract: the two-party agreement | who said yes to what; what is bound |
| `Handshake` | one round of offers answered by overlapping sessions | the rows of the round; what each session loaded |
| `RescueHistory` | `Rescue` with history variables | trucks named in `/advance`, escrows handed in by hand, trucks freed under a bound rescue, what a restart dropped |
| `Reopening` | `Handshake` with history variables | whether the search was reopened over a hold; holds the owner ended by hand |
| `Sos` | emergency alerts with overlapping sessions, and their escalation | alerts, incidents; what each session loaded |
| `SosHistory` | `Sos` with a history variable | incidents over which a stale `/advance` was written |
| `Telemetry` | what the server knows of one truck | fixes, live row, the truck's row, episodes; what each upload and the sweep loaded |
| `Screens` | the eight places that show it | none of its own |
| `Uplink` | the phone that sends the fixes | queue, uploads under way, service, session, network, what the server stored |
| `Gateway` | the live feed | sockets, both maps of rooms, broadcasts under way |
| `Breakdowns` | from a report to an incident | shipment, incidents, markers; where each request stands |
| `Console` | a company's board beside `Breakdowns` | board, refreshes under way |
| `Pricing`, `Matching`, `Splitting`, `Relay`, `Routes`, `Reputation` | the price, the search and ranking, the split, storage, the road graph, scores of carriers | none: operators |
| `Planning` | the answers about a load that are computed with these | fleet, load, pasts, reputation rows, the open question |
| `MC...` | instances for TLC | |
| `...Proofs` | theorems and their proofs | |

How they are composed:

- `EscrowLedger`, `Rescue` and `Handshake` extend `EscrowStates`; `Rescue`, `Handshake`, `Sos`
  and `Screens` extend `Lifecycle`.
- `EscrowLedger` implements `Custody`, and `Rescue` implements `Agreement`, by refinement
  mappings stated in the modules (`CustodyKept`, `PactKept`). `Handshake`, where a request is
  a load and a commit, implements `Agreement` too, as long as requests do not overlap.
- `Screens` reads the state of `Telemetry`; `Console` runs beside `Breakdowns`, whose
  records it shows; `Planning` draws on the six modules of rules.
- `Uplink` ends where `Telemetry` begins, at the upload; `Console` takes any sequence of
  events from the feed, of which `Gateway` has the server's side.

### Two granularities

`Rescue` takes one transaction as one step. That is what a server does whose
requests do not overlap, and it still leaves what happens *between* the commits
of one handler: `/advance` owes the escrow a sync (`syncing`), `/verify` owes the
incident its outcome together with the incident it loaded before (`settling`),
and `Crash` drops what is owed. The module is about what the components do to
each other: several incidents, rounds, trucks, escrows and owners.

`EscrowLedger`, `Handshake`, `Sos` and `Telemetry` split a transaction in two: `Load...` is the
read and the decision, `Commit...` the write. Between them any other session may
commit. A commit writes only the columns that the session changed -- SQLAlchemy's
unit of work -- over whatever stands there by then, and what it reads after its
first write is current, because that write holds the row. `Abandon` is a request
that is refused, rolled back, or gone with its process. With one element in
`Session` these modules are servers that handle one request at a time; with two
they have every race of two requests.

### EscrowLedger

`state[e]` is the column (`"NONE"`: no row), `balance[e]` sums the ledger entries
of `e` by account, `readings[e]` is which kinds of temperature the condition log
contains. `OpenAndHold` is `create_escrow` as `_try_bind` calls it. A session
decides by `Decide(s, e, to)`, reached from `LoadTransition` (the owner's endpoint),
`LoadSync` (the walk of `dispatch.py`, including where it stops) and `LoadVerify`
(the verdict of the log it read); `Commit` writes the state and posts what
`PostingOf` says for that edge. Amounts are constants of an escrow, written once
when the rescue binds.

### Rescue

An offer is `<<incident, truck, round>>`, which is a key of the table
(`uq_offer_incident_truck_round`). `accepted` and `confirmed` stand for the two
timestamps; `lapsed` holds the rounds whose shared deadline has passed. An escrow
carries the name of the offer that opened it, and `latest[i]` is the one
`sync_escrow_to_incident` finds. The actions are the functions of
`offer_service.py`, `orchestrator.py`, `dispatch.py` and `stand_down.py` by name.
Which idle trucks the matching engine picks is a free choice (`FanOut`), and so is
the verdict of a verification (`EscrowLedger` has it in detail). Three constants
say what owners do by hand: `ByHand` is what they ask `/advance` for,
`NamedTrucks` the trucks they name in its metadata (the endpoint assigns them
unchecked), `ManualTargets` what they ask `/escrow/{id}/transition` for.

`RescueHistory` adds what the promises of a rescue depend on besides its rows. `named` is the
truck `/advance` has named for an incident since its rescue was bound; `handedIn` the escrows
an owner moved to PENDING_VERIFICATION over the escrow's own endpoint; `undercut` the bound
offers whose truck another rescue's end has set idle; `unsynced` and `unrecorded` the second
commits a restart has dropped. The variables record and restrain nothing, and the properties
that name them say by them exactly in which case the code does not keep the promise.

### Handshake

One round on one incident that has reached RESCUE_OFFERED. A session is a request: a yes
with the row it loaded (`Yeses`), a no (`Nos`), the cancellation of a bound offer with the
escrow it belongs to (`Cancel`), one about all offers of the incident (`Many`: the sweep,
standing down), or the owner's `/advance` (`Owners`), which commits the state it decided on a
row loaded earlier (`LoadAdvance`, `CommitAdvance`) and then owes the incident's latest escrow
a sync (`SyncEscrow`); one that gives up in between owes it for ever. `Clear` is the search
`owner_confirm` makes for another confirmed offer -- a read of its own, which two sessions can
both pass. `CommitBinding` is `_try_bind`: the offer's row is written first, under the two
partial unique indexes (`UniqueBound`, `UniqueConfirmed`), then escrow, other offers, truck and
incident. `TransitionEscrow` and `Verify` are the owner's calls of the escrow's own endpoints;
each is one step, as overlapping ones are the subject of `EscrowLedger`. Escrows are numbered per
offer, so that a second hold is visible (`held`: the owner's money is in custody, in dispute
also). The read with which `/advance` refreshes the incident after its commit is taken
together with the commit.

`Reopening` adds two history variables. `reopened` is whether the owner has moved the incident
back to seeking help by `/advance` while money was held for it, and says up to when
`HeldOnceUntilReopened` is claimed; `ended` are the holds that the owner reversed or had
released by the escrow's endpoints, the exception in `BoundIsFunded`.

### Sos

An alert is the tap that created it; `RequestOf` is the `client_request_id` its
device sends (a tap without an id behaves like one with an id of its own).
`LoadEdit`/`CommitEdit` are all requests that load one alert and write it:
`acknowledge`, `respond` (EN_ROUTE, ON_SCENE), `set_status`, `cancel` with the right
and with a wrong PIN. `count` is what the two counters say, `answers` the rows that
were inserted. `LoadEscalate`, three `EscalateIncident` and `CommitEscalate` are
`escalate_to_incident`: create the incident, TRIAGING, MATCHING, and the alert as it
was loaded at the start. `LoadMove` and `CommitMove` are another request's `/advance` on that
incident: it writes the state its table allowed from the one it had loaded, over whatever the
incident has become. `SosHistory` remembers the incidents this has happened to
(`overwritten`): MATCHING may be put back to TRIAGING so after the alert is linked.
`Sweeping` says whether somebody runs `escalate_unanswered`: nothing in the
repository does.

### Telemetry and Screens

One truck on a line; two places more than one apart are more than
`DWELL_BREAK_DISTANCE_M` apart. An upload is three steps: `Receive` loads the truck
and commits the fixes of the batch (a retried fix is ignored by the insert, one
older than `BackfillTicks` goes no further), `LoadRow` reads the live row, `WriteRow`
commits the columns that differ from what it read (`Written`), the truck's own
position, and the episodes it closes. `Die` is a process that ends in between. `RaiseSos` is
what an SOS does to its driver's truck, in one transaction (`Pinned`). The sweep is `LoadPass` and `CommitPass`; a pass that would open an episode twice fails
as a whole. `Acknowledge` and `Resolve` ask nothing of the status they replace, as in
the code. `sure` is a history bit of an episode: whether the row its finding was
drawn from has changed unseen.

`Screens` has the eight queries as operators. `OwnersScreen` and `CarriersScreen` show the
last fix however old and say whether it is live; `DriversScreen` shows a fix only
while it is live and the registered position otherwise, and looks at the truck's
last bound rescue alone; `Matched` does the same with its own window; `Nearby`, by which the
audience of an SOS is chosen (`Told`), and `FleetMap` call live whatever was ever seen.
`TruckPage` and `Track` are one truck's page and its trail, for its company and for the
owner it is bound to rescue (`MayRead`).

### Uplink

The queue of `TelemetryService.kt`, with the uploads that its loop and each recorded
fix make. An upload is `SENT`, then `STORED`, or `REFUSED` for an expired token, renewed
and `RESENT`; `Confirm` and `Fail` are its ends. `heard` is whether its coroutine is
still there: `Start`, `Stop`, `SignOut` and `Destroy` cancel coroutines, not requests. The
limit is applied by `Enqueue` both when a fix is recorded and when a batch comes
back. The server answers 200 also for fixes that it rejects (`Ingest`), and the phone reads
no more than that it went well. An expired token is refused (`Refuse`) and renewed, unless the
server no longer takes the refresh token (`Lapse`: it ran out, or the driver's account was
closed -- which the code asks about, though nothing in the repository closes one); then only a
sign-in helps. `fate` is a history variable: what became of a fix that is not stored --
rejected by the server, dropped by overflow or with the service, or aboard a failed upload
whose coroutine had been cancelled, in which case nobody puts it back.

### Gateway

A socket's endpoint stands at `handler[s]`; `wire[s]` is whether the connection is up,
which the server learns only by reading or sending. `Publish` starts a task that
works off the deliveries of `Audience` room by room: `NextRoom` disconnects the dead of
the last room and takes the snapshot of the next, `Send` is one awaited send. `Ask` and
`Grant` are the two sides of the lookup a subscription awaits. A payload is known by
the class of keys it is built from: what the owner, the carrier, or anybody may see. There
is one operator for each projector, named for its audience; a topic without a projector
has none.

### Breakdowns and Console

A report is `Find`, `Look` (the marker of `process_once`), `Flag` (first commit),
`Create` (second), `Mark` (third). `Crash` leaves what is committed. `Console` adds
refreshes -- `List` reads the newest incidents and the fleet, `Apply` the offers of the first few
of that list that are open, and draws all of it -- and a feed that is any sequence of events:
`Interesting` starts a refresh, `Patch` moves a truck on the board to any position it ever
had. `ListLimit` and `AskLimit` are the two cuts: the client lists fifty incidents
(`api_client.py:111`) and asks for the offers of the first eight of them, closed ones counted
(`app.py:581`). What lies beyond is not on the board however often it refreshes, and
`CaughtUp` speaks of what lies within.

### Planning and its rules

`Pricing` works in whole rupees up to the floor, and in paise from there; `Matching`
in kilometres and tenths of minutes; `Splitting` in hundredths of a cubic metre and
tenths of a kilogram, to which the code rounds. A sort is the set of sequences it may
produce (`Listings`), as ties fall in the order of rows; the ranking alone is stable, as
Python's sort is (`Ranking`). `Splitting` loads one truck after the other (`Loading`) and gives
what rounding left over to the largest leg (`Settled`). `Routes` runs the heap as the
code does, one entry at a time (`Turns`), with ties by choice, against the set of all
paths (`PathsTo`); what is known of a place (`best`) is known only once it was reached, as in
the code's dictionary. `Planning` opens one question at a time: `Search` reads the fleet, the
road service answers or fails for each candidate (`Rank`), `AskSplit` and `Divide` are
the two searches of a split plan; in between trucks are taken and freed, fixes age,
and carriers make their name. `AskRoute` and `Turn` run the search of `dijkstra.py`, which
is only called by its tests: no handler asks for a route, and where the road service fails
`get_road_eta` falls back to a straight line.

## 3 Runs

`PROJECT.json` lists the properties of each run, and for each property a
plausible defect of the code (a *mutant*: a dropped guard, a swapped order, a
missing reset) that TLC finds with that property under the same configuration.

| Run | Instance | Distinct states | What it shows |
|---|---|---:|---|
| `ledger_serial` | 2 escrows, 1 session | 1,440 | with requests one at a time the ledger says what the state says, and implements `Custody` |
| `ledger_overlap` | 2 escrows, 2 sessions | 74,776 | however they overlap, the books balance and a release rests on evidence |
| `rescue_two_incidents` | 2 incidents, 1 truck, 1 round, 1 restart, escrows moved by hand | 523,182 | money and trucks stay tied to bound rescues, and a bound truck stays taken but for a competitor's end; `Agreement` is implemented |
| `rescue_rounds` | 1 incident, 2 trucks, 2 rounds, both trucks named by `/advance` | 556,266 | a rescue on its way has the carrier that agreed, or the truck named last |
| `rescue_settlement` | 1 incident, 2 trucks, 1 restart, escrows moved and handed in by hand, fair | 53,897 | the second commits happen and reach their goal unless the restart drops them; what is unwound is paid back unless it was handed in and stood down |
| `handshake_overlap` | 2 offers, 2 sessions, 1 escrow an offer, the owner reopens the search, cancels, and moves escrows | 1,091,303 | one offer bound by the index alone, no binding without both yeses, one hold until the search is reopened, no bound offer unfunded but by the owner's own hand |
| `sos_overlap` | 2 taps of one request, 2 sessions, 1 incident, moved by hand from stale rows | 1,280,991 | no answer lost, cancellations on record, duress heeded, a linked incident is ready unless it was overwritten |
| `telemetry_live` | 2 positions (fixes, or a fix and an SOS), 2 uploads, 1 sweep, clock to 2, fair | 509,469 | all screens agree on what is live; open episodes are of what the row shows; torn rows are mended; silence is reported |
| `uplink_outage` | 2 fixes, 2 drivers, 2 uploads, batches and queue of 1, 1 expiry, 2 starts, fair | 571,684 | every fix in one place, none vanishes unless rejected or given up, none changes its driver, the queue drains |
| `gateway_rooms` | 2 companies, 2 sockets, 2 broadcasts of 7 kinds of event, fair | 364,488 | the two maps stay one, nothing leaves its audience, nobody is passed over, broken sockets go |
| `console_live` | 1 event reported twice, 2 incidents of which 1 is asked about, 2 refreshes, 1 restart, fair | 966,740 | an answered report has its incident; the board catches up as far as it reaches |
| `planning_answers` | 4 trucks, 3 facilities, 5 places, 3 loads, 2 pasts | 184,944 | pay, hurry, split, storage, route and record, from a fleet that changes meanwhile |

**Bounds.** Two sessions give every race of two requests, and the races the code
is exposed to are of two: a decision and the commit that makes it stale. A third
request is not out of the picture, because a session is free again after its
commit. Two escrows differ in what a posting depends on: one carries limited
cargo and leaves a fee, the other neither (`MCEscrowLedger`). Two incidents and
one truck are the least with competition; two rounds and two trucks the least in
which a second round can meet an offer of the first. `MaxCrash` 1 drops what is
owed at any point once. `MaxAnswer` 2 lets a counter lose an update.
`ByHand` in `rescue_rounds` has what starts, overtakes or reopens a rescue, and so do the moves
of the handshake and SOS runs; the other two rescue runs have every state. The two trucks may
both be named there; escrows are moved by hand in the other two, of which `rescue_settlement`
has the hand-in for verification.

`MaxEscrow` 1 in the handshake run gives two holds, one for each offer, which is what
`HeldOnceUntilReopened` takes to be violated; the properties hold as well with 2 (2,640,548
states), where an offer would be funded a second time. `ManualTargets` is CANCELLED alone: it takes the
money from under a binding, and PENDING_VERIFICATION, from where `Verify` does, is reached by
`/advance` CANCELLED, which walks the escrow there.

In `telemetry_live` two fixes at two places are the least for a batch that is late and
for rows torn between two uploads, and two ticks the least for each window to close:
`LiveTicks` 0 and `MatchTicks` 1 keep the order of the two windows (10 and 30 minutes), and
every threshold is reached. `uplink_outage` has a queue of one, so that both places
that enforce the limit overflow, and two uploads, so that a failed batch meets a
newer fix. In `console_live` two incidents can be on record, as the event is reported twice
and the handler may be repeated; the offers of one of them are asked for, so that the
other is beyond `AskLimit` while it is listed. `MaxOffer` 1 is one change to the offers of either. Two broadcasts and two sockets let a socket die under one broadcast while
the other has it in its snapshot. In `planning_answers` the loads are one that is
bulky, one heavy and cold, and one small, of a value that caps the price of a far
truck below its cost and that of a near one only in a hurry; so caps, floor and both
scarcities of a split occur; one place is out of the graph's reach;
one reefer and one facility have no temperature on file; and one carrier is far above
the best score. What two elements leave open the theorems of section 4 close, for
any number, where there are any.

**Symmetry** is declared for incidents, trucks, offers, taps and sessions in the runs of
`Rescue` (but for `rescue_settlement`), `Handshake` and `Sos`, whose properties are
invariants and `PactKept` and name no element. Runs that check liveness have none.

**Deadlock** is checked but for the runs of `Rescue`, `Handshake` and `Sos`. There the
bounded system may really stop: an incident ends in a terminal state, its rounds are
used up, an alert is closed.

**Fairness** is weak, and each part of it is something the code does by itself.

| Module | Fair | Because |
|---|---|---|
| `RescueHistory` (`FairHistorySpec`) | `SyncEscrow`, `RecordSettlement` | second halves of handlers that have committed their first; nothing comes between but the death of the process, which the run has and the properties name |
| `Telemetry` | the sweep's two steps | `run_sweeper` loops for ever, and a failed pass does not end it (`worker.py`) |
| `Uplink` | the loop takes a batch; an upload under way goes on | the five-second loop comes round whatever an upload did, and a request ends by an answer or a timeout |
| `Gateway` | `Grant` or `Notice` of a socket | a lookup ends, and reading from a broken socket raises; nothing is assumed of a broadcast |
| `Console` | the timer fires; one of the refreshes under way ends | `_auto_refresh` re-arms itself, and each call has a timeout; nothing is assumed of which refresh ends first |

Nothing is assumed of owners, carriers, drivers or the feed, nor of
`escalate_unanswered`, which nothing in the repository schedules. Three liveness
properties state what else they need: `SilenceIsReported` that the company does not
reopen episodes for ever (each reopening may make a pass fail); `DrainsWhenOnline`
that from some time on there are a network, the service, and a session whose renewal the
server does not refuse;
`BoardCatchesUp` that the API answers and events have ceased to move the truck.

**Exceptions.** Six properties name a case in which the code does not keep what it promises,
by a history variable or by a limit, and claim the rest without any assumption on owners:

| Property | But for |
|---|---|
| `EnRouteIsBound` | a truck the owner named in the metadata of `/advance`, which assigns it unchecked |
| `UnwoundMeansReturned` | an escrow handed in for verification by hand, whose incident is stood down: `stand_down.py:118-127` logs what it cannot reverse |
| `BoundTruckIsTaken` | a truck that two incidents have bound -- `_try_bind` writes its status without reading it -- once the first of the rescues ends and marks it idle under the second |
| `BoundIsFunded` | a hold the owner reversed by `/escrow/{id}/transition`, or had judged by `/verify`, while the offer is bound |
| `LinkedIncidentIsReady` | an incident over which an `/advance` was written that had loaded another state |
| `BoardCatchesUp` | incidents beyond the limits of the list and of the offers asked for |

`NothingVanishes`, `DeliveryReachesEscrow` and `SettlementReachesIncident` name theirs in the
same way: what the server rejects and the phone gives up, and what a restart drops.

## 4 Proofs

TLAPS proves the following for every value of the constants: any number of
escrows, sessions, incidents, trucks, rounds, restarts, taps, sockets, broadcasts, fixes,
uploads, reports, refreshes, facilities, pasts and places, any loads and fleets, and any job
that is priced. Every safety property that a run checks is proved. An assumption
below is part of the statement of the theorem; besides, each module's named
assumptions on its constants (`RescueAssumption`, `PlanningAssumption`, ...) are used, which TLC
evaluates in the runs.

| Module | Theorem | Shows | Assumes |
|---|---|---|---|
| `EscrowLedgerProofs` | `TypeCorrect`, `BooksBalance`, `ReleaseHasEvidence` | types; the trial balance is zero; what is released had a limit and an in-spec reading | |
| | `LedgerIsExact`, `CustodyIsKept` | books are those the state calls for; `Custody` is implemented | `OneAtATime`: sessions do not overlap |
| `RescueProofs` | `TypeCorrect`, `BoundMeansBothAgreed`, `OwnerConfirmsOnce`, `AtMostOneBound` | types; the handshake's three promises | |
| | `AgreementKept` | `Agreement` is implemented | |
| | `OfferMovesLegal`, `MoneyHasRescue`, `DispatchedTruckHasRescue` | offers keep to their table; money and trucks are committed to a bound rescue | |
| | `EnRouteHasCarrier`, `AssignmentNeedsBothOrAName` | the incident's truck is the one agreed on, or the one the owner named last | |
| | `UnwoundIsReturned` | a rescue that fell through has given the money back, but for one handed in and stood down | |
| | `BoundTruckStaysTaken` | the truck of a bound rescue is marked as taken, until a rescue that shares it ends | |
| `HandshakeProofs` | `TypeCorrect`, `ConsentSurvivesRaces`, `AtMostOneBoundEver`, `OwnerYesStandsOnce` | types; consent and the indexes under any overlap | |
| | `BoundIsAlwaysFunded` | a bound offer has its money, unless the owner's own call of the escrow's endpoints took it | |
| | `MoneyHeldOnce` | one hold at a time, until the search is reopened over a hold | |
| | `AgreementKeptOneAtATime`, `TwoYesesBindOneAtATime`, `BoundStaysOneAtATime` | loads and commits implement `Agreement`; nobody is left waiting with two yeses; a bound offer is only ever cancelled | `OneAtATime` |
| `SosProofs` | `TypeCorrect`, `OneAlertForOneEmergency`, `CancellationIsOnRecord`, `DuressIsAlwaysHeeded`, `NoAnswerIsLost`, `LinkedMeansReady` | types; the promises of an alert under any overlap | |
| `TelemetryProofs` | `TypeCorrect`, `TornRowsAreMended`, `OpenEpisodesAreCurrent`, `LiveMeansOneTruth` | types; rows, episodes and screens under any overlap of uploads, sweeps and an SOS | |
| `DriverProofs` | `UplinkTypes`, `EachFixIsOnce`, `NoFixVanishes`, `FixIsStoredForGood` | types; the queue of fixes and its uploads | |
| | `AnsweredReportsAreRegistered`, `BoardsAreTyped` | who is told "registered" or "duplicate" has an incident, beside a console that looks on; types of that console | |
| `GatewayProofs` | `Types`, `RoomsNeverDisagree`, `NobodyOverhears`, `NobodyIsPassedOver` | types; the three safety promises of the live feed | |
| `PlanningProofs` | `EveryRunIsCovered`, `HurryIsNeverCheaper` | of any job: the payout covers the subtotal and the fee is not negative; less time never lowers the total | a job of natural numbers |
| | `PayAlwaysCovers`, `HurryAlwaysCosts`, `ReachableAlwaysFirst`, `GivenUpShows` | the same of whatever is on an owner's desk; which storage comes first; that each rescue a stored row counts as given up costs points matching and pricing read | |
| | `PlanAlwaysCarries` | a split carries the load, to the roundings, and overloads nobody | |
| | `RouteAlwaysFastest` | the search finds a fastest path, and none only where there is none | |

`OneAtATime` says that `Session` has at most one element. `DriverProofs` holds an instance of
`Console` (`Desk`, with a network of its own), so that its two theorems about reports and boards
are about that module's specification; `DeskOnlyLooks` is the step from there to the records
alone.

### The arguments

*Ledger.* That the books balance needs no invariant besides types: every posting
sums to zero (`PostingBalances`). That the ledger is exact is not inductive. A
session may hold a decision, and the write that follows must post what lies
between the state it saw and the one it goes to; so `SerialInv` adds that a
waiting write starts from the state as it stands (`WritesAreFresh`), which is just
what a second session breaks and why the theorem assumes one, and that no row
stays INITIATED (`NeverLeftInitiated`). From that invariant every step maps to a
step of `Custody`. That a release rests on evidence needs no such assumption: evidence is
never taken away, so what held when the verdict was decided holds when it is written
(`EvidenceInHand`); the rest of `EvidenceInv` keeps rows and decisions out of INITIATED, so
that the walk is one of those the lemmas are about. What the walk of `dispatch.py` may do at all are the
lemmas on `Follow`, which the rescue proofs use as well.

*Rescue.* `TypeInv` adds that the escrow an incident follows is one that was
opened (`EscrowsOpen`), for otherwise a sync would walk from "NONE".
`HandshakeInv` is `AnsweredExists /\ BoundIffBothAgreed /\ OneConfirmedOffer`: the
exclusion of a second bound offer follows from the last two, since a bound offer
is a confirmed one. Steps are divided once into those that answer nothing and the
two answers (`StepKinds`), and each promise is proved for these three kinds.
`OfferMovesLegal` needs besides that an offer with a yes is not PENDING
(`PendingIsUnanswered`), because binding is decided on the timestamps and not on
the state. Money, dispatched trucks and the carrier en route each have a lemma
that says what a step must leave alone, and one case per action.
`NamesAfter` says what the history makes of each of the four ways a truck is assigned: by a
binding, by name, by neither, or freed. `UnwoundIsReturned` rests on `Late`, a set of states
that no move leads out of: an escrow that can no longer be reversed under a bound offer belongs
to an incident in it, or was handed in (`GoneMeansLate`), and a sync that is still owed takes
money out of reach for such an incident only (`SyncsWhenLate`). Since an escrow may be handed in
early, `/verify` may conclude early too and be recorded on an incident as it was loaded before;
`SeenArrived` says that where it was loaded as arrived, it has not been cancelled since.
`BoundTruckStaysTaken` is the converse of `DispatchedTruckHasRescue` in one step each: what sets
a truck idle ends a bound rescue that has it, which is what `undercut` remembers.

*Handshake.* A session acts on what it saw, so the invariant must say what a
stale row is still good for: consent is never taken back, hence a yes in a row
seen is a yes given (`SessionsSeeConsent`). States of stale rows are good for
nothing, and no theorem rests on them; `IndexInv` is carried by the two indexes
alone, and the hold by the current incident that a binding reads after its first
write: money held means that the incident is past seeking (`MoneyInv`), and only an `/advance`
that commits a seeking state leads back, which is what `reopened` remembers. Only a binding
takes money (`HeldShrinks`); that a bound offer has its own is proved per action, and only the
owner's two endpoints need the history (`FundedStep`).
The last three theorems say what overlapping takes away. Where no two requests overlap,
a row that was loaded stays as it is until its request commits (`NothingStale`: only the
clock and the escrow's endpoints come between, and neither writes an offer). Then each step is
one of five kinds (`OneAtATimeKinds`): it moves nothing, records a first yes, binds on the second,
ends live offers, or unwinds the one bound rescue. `SerialInv` adds that two yeses are settled
(`AgreedIsSettled`); from it each kind maps to a step of `Agreement` or none. Section 5 has the
claims that two overlapping requests break.

*SOS.* `NeverOvercounted` with `SessionsCount` bounds what a session has read by
the answers given so far, which carries `NoAnswerIsLost` through lost updates.
`AlertInv` says of every session what it may rely on at its commit (`Sound`): the
alerts it works on exist, and if it found an attempt under duress nothing to
escalate then the alert broadcasts no more. `EscalationInv` follows the incident
through the four commits. From the states past TRIAGING no edge leads back (`ReadyIsKept`); so
whoever writes TRIAGING over one of them had loaded another, which `overwritten` remembers.

*Gateway.* The rooms are explained first, without any broadcast: `RoomsInv` is types,
`RoomsAgree`, and that whoever is in a room was authorised for it (`Access`). It needs the
second conjunct of `RoomsAgree`, that a socket with rooms has a session, to survive a
lookup that ends after the socket is gone. The broadcasts rest on it: `Planned` says
that each delivery still to be made fits whoever may be authorised for its room
(`AudienceIsFit`, from the projectors), so that the snapshot taken of a room's members
is within the audience; `NobodyLost` is `EveryMemberIsTried` at every moment of a
broadcast and not only at its end.

*Telemetry and screens.* `TypeInv` says more than `TypeOK` of a session: what it needs at
the step it stands at, as the fixes of its batch are stored. Episodes: an upload closes, in
the commit that changes the row, what its change ends, and a pass opens what it found in
the row it loaded (`FoundInRow`); where the row has changed since, the episode is not
`sure`. Screens: `ScreenInv` says that the live row is accounted for, by a stored fix or by
the SOS (`Backed`). It is not inductive alone, because an upload writes only the columns
that differ from the row it saw, and may so combine its own time with another's
place; `FreshRow` says that whatever changed under it was heard of in the same tick, so
that the combination is accounted for too. That all screens agree follows, as
`LiveTicks <= MatchTicks`.

*Uplink.* The batches aboard and the queue are distinct and disjoint (`OnceInv`), which is
lemmas about sequences without repetitions: appended to, joined, cut at either end
(`KeptOfQueue`, `FrontAndRest`). `HereInv` adds to the first half of `NothingVanishes` that what an upload that has been
answered carried is settled, for a confirmed batch is forgotten: stored, or rejected
(`IngestSettles`). The second half is `ListenedInv`: until the service is started again or
stopped, every upload still has the coroutine that listens to its answer.

*Reports.* `CausedInv`: a marker, and a report past its second commit, has its incident.
The handler's order -- marker last -- is what makes it inductive. A refresh that ends leaves
the others in their order (`OneEnds`), which is all the types of a console need.

*Planning.* The price rests on one lemma, that scaling and rounding preserves order
(`ScaledGrows`). The cap of the total does not depend on time and the floor lies above
the subtotal, so that both results follow through the caps. `DeskTypes` says that what is
on the desk was computed from rows of the tables, hence that `Jobs` are jobs. Storage:
a sequence of `Cardinality(S)` different elements of `S` lists all of `S`
(`ListingIsComplete`, by the pigeonhole principle), so a good option that is not first has an
option before it that does not come after it. Records: what a score can gain and lose
is bounded (`EarnedBound`, `ScoreBound`, `QuotientBound`), from the tables' own constraint that
stars are at most five; one rescue kept in place of one given up is worth more than the whole
point that trust is cut to (`AbandoningCosts`), as long as the score is not at its floor.

*Routes.* A search in progress must say what its heap and `best` are good for (`Sound`). What is
in the heap is a path from the start with its duration, and no place on it is known to be
farther (`IsEntry`); every place that was reached has an entry that is as good as what is
known of it (`Open`), or its edges were followed, so that each neighbour is known to be no
farther than over it (`Closed`). From that, `NothingIsFaster`: walk along any path to the
destination, which is never closed. As long as its time is below the least entry's, the
place it has come to is closed, and the next is known to be no farther than the path says; so
the path does not arrive before the least entry does. `ContinuedIsSound` is one turn of the loop. A
bettered entry breaks nothing when it is passed over, as a better one for the same place was
pushed and is either in the heap or followed already.

*Splits.* After `i` trucks, what is left and what the legs carry add up to the load in both
measures, each leg fits its truck to a rounding, and each truck has one leg at most
(`MoreTaken`, `AllTaken`). `StageType` bounds what is left from below, because a leg that is
scaled and rounded may take a hundredth more than there is. `LegFits` is why a leg rounded up
still fits: rounding does not lead past a whole number (`ScaledBound`). Giving what is left to
the largest leg makes up the volume and can overload it by a hundredth at most; of the
weight a tenth may stay behind (`SettledLegs`).

*Recursion.* The prover has the recursive functions of these two -- a sum (`Summed`), the
stages of a loading (`Loaded`) -- as a CHOOSE of a function with the recursive equation, and no
induction rule it could apply to it. Both are proved from the order of the natural numbers:
a non-empty set of them has a least element (`LeastNumber`, from the library's theorem
that the order is well-founded), which gives induction up to a bound for the set of
numbers a claim fails for (`UpTo`), and with it that the equation has a solution
(`Iteration`). The lemmas on `Summed` follow: of an empty sequence, of one more element, of a
part, of one element changed.

### What the proofs found in the models

Each was corrected, and the runs repeated.

- `Telemetry.DwellFrom` had two CASE guards that overlap. TLC takes the first; the language
  leaves open which.
- `Screens.LiveIsLiveEverywhere` had `UNION S \ T`, which TLC and the prover parsed
  differently; it is parenthesised now.
- `Planning.Rank` sorted with a library operator that is defined for orders without ties
  only, while scores may tie. `Ranking` states Python's stable order.
- `HeldOnce`, the claim before `HeldOnceUntilReopened`, needed "no `MATCHING` in `ByHand`" to be
  proved. It is false without; the history variable says exactly when it ends.
- The score of a past is bounded only if stars are at most five a rating: a constraint of
  the schema that the model had left out (`Record`).
- `Routes` had a number, `Never`, for "not reached", as large as no path of the instance. For other
  distances there are longer paths, and the search would not have taken them. `best` is
  now a function on the places that were reached, as the code's dictionary is.
- `PlanCarriesTheLoad` allowed the weight to be off either way and a leg to be a tenth heavier
  than its truck. The proof gave less room: of the weight at most a tenth is missing, none is
  added, and no leg is heavier than its truck may carry.

- `NothingVanishes` was first proved of a server that stores whatever it accepts. With the answers
  of `ingest.py` that reject fixes, and with coroutines that are cancelled under an upload, the
  induction needed to know what an answer means (`IngestSettles`) and who still listens to it
  (`ListenedInv`), and the property says so now.
- `EnRouteIsBound`, `UnwoundMeansReturned`, `BoundTruckIsTaken` and `LinkedIncidentIsReady` held
  by hypotheses on what owners ask for. Their exceptions are history variables now, and what the
  variable may hold in each step is part of the invariants (`NamesAfter`, `GoneMeansLate`,
  `TakenStep`, `EscalationInv`).

### Model-checked only

Liveness under fairness is beyond the prover: `DeliveryReachesEscrow`,
`SettlementReachesIncident`, `SilenceIsReported`, `DrainsWhenOnline`, `BrokenMeansGone`,
`BoardCatchesUp`. Nothing else is model-checked only.

Two limits of the prover have shaped the modules: induction needs the detour described
above, and no recursive operator may occur in a module that is proved about. So the walk
along the escrow's table is a function of finitely many steps (`WalkForward`), offers that
are written wholesale are sets, and sums and loadings are functions of a number.

## 5 Where code and documentation disagree

The modules state these claims of the repository as definitions, next to the
properties that hold. None of them is part of a run; `BothAgreedBinds` and `BoundDoesNotRevert` are proved for
requests that do not overlap. To see one fail, put it in the place of the properties of a copy
of the configuration named, without `SYMMETRY` if it is a PROPERTY.

| Definition | Configuration | Claim | What the code does |
|---|---|---|---|
| `DisputePaysNobody` | `EscrowLedger_overlap` | `tests/test_escrow_ledger.py:125`, "temperature breach disputes and pays nobody" | Two verifications overlap and a breach is recorded between their reads. The first pays the carrier; the second overwrites RELEASED with DISPUTED (`escrow_service.py:159-171`). |
| `OnlyPostedHoldsAreReversed` | `EscrowLedger_overlap` | `escrow_service.py:186`, only a hold that was posted is reversed | Two overlapping cancellations both post the reversal: the platform owes what it never took. |
| `CancelledMeansReversed` | `Rescue_two_incidents` | `dispatch.py:20`, "incident CANCELLED -> escrow CANCELLED (hold reversed)" | Cancelled by `/advance`, the incident has its escrow walked to PENDING_VERIFICATION first (`dispatch.py:111`), from where it cannot be cancelled: the hold stays. |
| `ReleasedOnlyByEscrow` | `Rescue_two_incidents` | `dispatch.py:22`, `25-28`: ESCROW_RELEASED is what the escrow concluded | `/advance` walks an incident there without any escrow having concluded it. |
| `LaggingIncidentStillBinds` | `Rescue_two_incidents` | `offer_service.py:334-337`, a rescue must not fail to bind because the incident lags | The owner moves the incident to TRIAGING by hand, and the matching yes is refused: TRIAGING is stepped up to RESCUE_OFFERED, an edge the table does not have. |
| `AssignedByBothParties` | `Rescue_rounds` | `router.py`, no single party assigns a truck | `/advance` assigns the truck its metadata names. |
| `BothAgreedBinds` | `Handshake_overlap` | `offer_service.py:285`, "bind the rescue if and only if both parties have agreed" | A carrier's and an owner's yes overlap: each request sees one, neither binds (`offer_service.py:292`). |
| `BoundDoesNotRevert` (PROPERTY) | `Handshake_overlap` | `offer_models.py:86-87`, a bound rescue "cannot quietly revert to an offer" | A request that loaded the offer PENDING writes CARRIER_ACCEPTED over BOUND (`offer_service.py:236`); the sweep does so with EXPIRED (`513`). |
| `StoodDownMeansUnwound` | `Handshake_overlap` | `stand_down.py:18-21`, everything is unwound in one transaction | Standing down logs a hold it cannot reverse, because the escrow was handed in for verification, and unwinds the rest (`stand_down.py:118-127`); a binding that overlaps a stand-down commits an escrow and a truck to a cancelled incident; cancelling by `/advance` unwinds nothing. |
| `EscalatedOnce` | `Sos_overlap` with `Incident = {n1, n2}` | `sos/app/router.py:413`, escalating twice returns the incident already created | Two overlapping escalations of one alert create an incident each. |
| `SweptIsUnanswered` (PROPERTY) | `Sos_overlap` | `sos_service.py:782`, what is swept nobody has acknowledged | The sweep writes UNANSWERED over an acknowledgement committed since it looked. |
| `ResponderMaySetOut` | `Sos_overlap` | `sos_service.py:620-624` admits EN_ROUTE from BROADCASTING and UNANSWERED | `SOS_TRANSITIONS` does not. |
| `OncePerEvent` | `Console_live` | `shared/idempotency.py:3`, "Guarantees deduplication across Kafka at-least-once deliveries and repeated client requests" | The handler commits before the marker: a second delivery, or a retry after a restart, creates a second incident. |
| `StrandedHasIncident` | `Console_live` | | A restart after the first commit leaves the flag alone, and the driver's next report is refused. |
| `BothHalvesShown` (PROPERTY) | `Console_live` | `app.py:578`, "so the console can show both halves of the handshake" | The offers of an incident that is not among the first eight listed are never asked for (`app.py:581`), closed ones counted; nor is any incident listed beyond fifty (`api_client.py:111`). |
| `NumbersMatch` | `Telemetry_live` | `counterpart.py:42-43`, the driver's numbers match the dispatcher's | Once a fix is old each screen picks its own row, and two overlapping uploads leave these at different places. |
| `NearbyMeansNow` | `Telemetry_live` | `sos_service.py:265-266`, "nearby" means where a truck actually is | A carrier is told where its truck was last seen or, never seen, where it was registered, and `positionIsLive` is true for a fix of any age. |
| `StaleLooksStale` | `Telemetry_live` | `telemetry/app/router.py:289-290`, "The map should show a stale position differently from a live one" | `positionIsLive` is whether there ever was a fix. |
| `OldFixIsUnknown` | `Telemetry_live` | `repository.py:27-28`, a position beyond the window is unknown | The truck's own row is used then, and ingest has put the same fix there (`ingest.py:232`); `repository.py:10`, that no code path ever updates it, is out of date. |

Others show in the models without a definition of their own:

- `/advance` assigns whatever truck its metadata names, two incidents may bind one truck, and
  an owner may take the money from under a bound rescue: the exceptions of section 3.
- A restart between the two commits of `/verify` leaves the incident at VERIFICATION, and one
  between those of `/advance` the escrow behind; nothing repeats the second.
- "So nothing is lost to a transient outage" (`TelemetryService.kt:401`): the batch of an upload
  whose coroutine was cancelled by a second start or a stop is not put back when the upload
  fails, and a fix that the server rejects -- the driver has no truck, or the phone's clock is
  ahead -- is discarded with the answer 200 (`ingest.py:68-89`, `TelemetryService.kt:396`).
- The last commit of an escalation writes ESCALATED over whatever the alert has become,
  CANCELLED included, and `cancel` writes CANCELLED from every open status without asking
  the table.
- An SOS ends a truck's silence without resolving its GPS_STALE episode, which the next
  fix does (`EpisodesAreCurrent` names the exception).
- The window of a live position is 10 minutes on the screens and 30 in the matching,
  although `counterpart.py:34-36` means them to be one.
- `truck_track` sorts by time and cuts at its limit (`telemetry/app/router.py:252-253`): of a
  window with more fixes it shows the oldest, and the trail ends before the truck.
- The temperature detector is told of no start of an excursion (`ingest_readings`), so each hot
  reading opens an episode of its own, although `detectors.py:6` has "one episode, one alert".
- A driver is shown the counterpart of the truck's *last* bound rescue only.
- `split.py:18-21` and `56`: a two-way split does not always beat a three-way one (largest
  first is greedy), and a plan is refused when the largest `MAX_TRUCKS_IN_SPLIT` trucks have
  not the room between them.
- `pricing/router.py:88-91`: a price "never exceeds" the caps -- but the floor is applied
  after them, and wins. The payout is then at least 1.038 times the subtotal, less than
  the margin the comment at `pricing.py:75` names.
- A facility with no temperature on file is refused by the relay, a reefer with none is
  accepted by the matching. What is free at a facility is never taken away.
- `explain_no_match` counts by the trucks' own rows, the search by the live ones.
- `get_reputation` computes a row that is missing and never again (`reputation.py:290-300`).
  A carrier whose only bound rescue is given up is new again, at the baseline
  (`reputation.py:162`), and its first rescue may lower its score. Once a row is there, giving up a
  rescue changes nothing in it, although `offers_router.py:79-80` has the reason go "on the
  record and into reputation"; `GivenUpIsHeldAgainst` is about the rows there are.
- The driver app's queue outlives the session: fixes of one driver may be stored under
  the next, which is why `StoredForGood` speaks of who stored a fix first.

## 6 Not modelled

| Part | Why |
|---|---|
| Core API: accounts, fleets, simulation | reads and writes of single rows, decided by nobody else |
| SOS: broadcast records and what may be seen by them, responder board, medical sharing, contacts, notifiers, views | records of who was told, and read-only views; nothing else decides by them but who may look |
| Telemetry: other detectors, cargo readings, notifications, the cold-chain view | found and recorded like those modelled; a reading's effect on an escrow is `RecordReading` of `EscrowLedger` |
| Gateway: contents of projections, the Redis relay between processes | a payload is a class of keys; one process is modelled |
| Reputation: writing of ratings, `trust.py`, the SLA view | a past is what their rows add up to |
| Clients: widgets, dialogues, forms, the location provider | they draw and ask; the console's other lists are fetched like those modelled |
| Kafka, the road service, the database, notifiers | external; the database is modelled from how it is used: a commit is atomic, a unique index is checked at the write, a row that was written is held until the commit; the road service answers or fails |
| Migrations, demo data, build files | no behaviour of their own |

Within the modelled parts these are left out, because no decision of the code reads
them: the audit log, prices and scores of offers once they are out, SLA times, the
shipment's status in `Rescue`, the records of who was told of an alert, medical details. Trucks
that a company registers as `dispatched_rescue` from the start (`core_api/app/api/trucks.py:21`)
are left out too: `Rescue` begins with idle trucks, so that a dispatched one has a rescue.
Clocks are abstract: a deadline passes at some step, or time goes by in ticks. The
condition log is the set of kinds of reading it contains, and amounts are constants
of an escrow. In `Planning` a road is straight or twice as long, the heading of a truck
(`aligned`) is given and not computed from a destination, and prices are rounded to
rupees where the code computes in floating point and rounds at the end.

## 7 What is left

1. **SOS audience**: what each company that is told of an alert may see of it and
   answers; composed with `Gateway`.
2. **Composition of `Uplink` and `Telemetry`**: batches as the phone's queue makes them,
   in place of any subset of the fixes.
