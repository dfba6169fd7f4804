# Verification of store-intelligence

TLA+ models of the store-intelligence system under `src/store-intelligence/`:
a detection pipeline (`pipeline/`) that turns the videos of a store's cameras
into visitor events, and an HTTP service (`app/`) that turns the events into
visitor sessions, POS conversions and metrics.  TLC checks the models on small
instances; TLAPS proves the properties of the session store, of ingestion, of
conversions and replays, of the line detector, the queue tracker, the staff
classifier and the behaviour machine, of the identity manager, of the way of the
events from the cameras to the sessions, of the zone cache and of the dashboard for
every value of the constants.

Paths below are relative to `src/store-intelligence/`.

## 1. The system and its components

### The API service (`app/`)

| Component | State | Operations | Correct when |
|---|---|---|---|
| Session store and sessionizer (`sessionizer.py`, `models.py`) | list of sessions per store, open session per visitor, re-entry count per visitor | `process_event` → one handler per event type; `put_active`, `close_session` | the table of open sessions is exactly the sessions without an end; closed sessions do not change; re-entries are neither lost nor repeated |
| Event store and ingestion (`ingestion.py`) | append-only log, set of ids seen | `ingest_batch`: validate, deduplicate, append, sessionize, each raw event on its own | an event is stored once; a malformed event costs no other; what the sessions say is what the log holds |
| POS correlation (`correlation.py`) | transactions per store, converted sessions | `load_csv`, `correlate` | a conversion is justified by a transaction, stays justified, and none is missing when a request is answered, unless the correlation raised over a POS file before it came to the store |
| Endpoints and projections (`main.py`, `projections.py`) | none of their own | ingest + correlate; replay; metrics, funnel, heatmap, anomalies computed on request | the funnel narrows; a resent batch changes nothing |
| Replay engine (`replay.py`) | a flag | reset everything, sort the events, ingest them again | reproducible; rebuilds what the live system had; never leaves a mix of two runs |
| Session verifier (`verifier.py`) | last sight, last exit and confidence per visitor, recent staff flags per store, warnings capped at 1000 | `verify_event`, the check for doubled sessions after a batch, `clear` | the warnings are those the event log justifies, none missing, none left from before a replay |
| Audit timeline (`audit.py`) | records per visitor | append by the sessionizer's handlers and by warnings, `clear` | it tells the stored events in their order, and each record names a session of its visitor |
| Calibration engine (`calibration.py`) | bounded observations and thresholds per store | observe, recompute every 200 events | thresholds stay in their clamps, trust in a camera errs on the cautious side |
| Event binding (`event_binding.py`) | none | look-ups from zone roles | not modelled: no state |

How they interact: FastAPI runs the handlers on one asyncio event loop.  The
handlers are declared `async` and await nothing while they work, so that a
request, or a replay, runs from its begin to its end before another starts.
`ingest_events` calls `ingest_batch`, which for every accepted event calls the
event store and then the sessionizer, which writes the audit timeline, and then
observes the event for the calibration and has it verified; after the batch it runs the correlation
over all sessions of all stores and only then answers.  The GET endpoints
compute projections from the sessions and the converted set.  The replay engine
shares the event store, the session store and the correlation engine and feeds
an ingestion pipeline of its own.  All state is in memory.

### The detection pipeline (`pipeline/`)

| Component | State | Operations | Correct when |
|---|---|---|---|
| Camera processor, zone dwell (`detect.py`) | per camera: zone of each visitor, dwell clocks, queue tracker, entry detector | `process_frame` for each frame; the flush at the end of a video; the round robin of `run_pipeline` | no clock outlives its stay; no time in a zone is lost on the way to the API |
| Entry and exit detector (`entry_exit.py`) | committed side and frame counter per track | `update` | crossings alternate and are debounced |
| Billing queue tracker (`billing_queue.py`) | visitors in the zone, candidates for an abandonment | `update` | every abandonment is owed to one stay, none is missed, candidates do not pile up |
| Event emitter (`events.py`) | ids written, output file | `emit`, `emit_*` | the order of the file is the order of the calls |
| Identity manager (`tracker.py`) | passports: active by track, suspended and expired by visitor | `resolve`, `mark_lost`, `mark_exited`, `purge_stale_*` | one passport per visitor; exits are never forgotten; nobody is recognised by a guess or after their window |
| Consensus, courtroom, evidence, store graph, occlusion, ghosts (`consensus.py`, `courtroom.py`, `evidence.py`, `store_graph.py`, `occlusion.py`, `ghost.py`) | evidence per visitor, ghosts, both bounded | score, adjudicate, record, create and remove (the method that would let a ghost expire has no caller) | a change of track is backed by evidence; no ghost of someone who is followed |
| Behaviour state machine (`behavior.py`) | a state per visitor | `update` with every event | it follows crossings and zones of all cameras |
| Staff classifier (`staff.py`) | frames, zones, cameras, clothing scores, area per visitor | `update`, `is_staff` | a verdict rests on evidence and empties the queue of staff |
| Zone mapper, calibration studio (`zone_mapper.py`, `calibrate_zones.py`, `zones.py`) | calibration file, cache with hot reload | read, reload, save | no half-written file is used, every finished save is picked up, with all its shapes if they are well formed |
| GUI server (`gui_server.py`) | log of events, totals, one bounded queue per browser | `push_event`, broadcast, event socket, `/api/state` | events reach a browser in order and once, totals cover what was shown, dashboards settle |
| Wizard (`wizard_backend.py`) | running flag, camera slots, session file | start of an analysis, forms, uploads | no analysis is refused because of one that is over |
| Memory, DNA, shadows, groups, health, camera reputation, system auditor, calibration verifier | histories and scores | - | not modelled: section 5 |
| Configuration, scripts, packaging | constants | - | constants of the modules |

How they interact: `run_pipeline` is a single thread that takes one frame of
every camera in turn (the design document speaks of a thread per camera; the
code has none).  `process_frame` resolves each detection to a visitor, classifies
staff, feeds the entry detector (entry camera), the zone logic (every camera)
and, after the loop, the queue tracker (billing camera); each writes its events
through the emitter to `events.jsonl`, tells the behaviour machine, and pushes
them to the dashboard of the same process, whose event loop is another thread.  Nothing in the repository posts that
file to the API: it reaches the API by a replay or by a client.

### What is hard in this code

* Events reach the sessionizer in any order: zone and queue events before the
  ENTRY (the line crossing is confirmed frames after the visitor is inside) or
  after the EXIT (the late ABANDON, the ZONE_EXIT after the clocks are cleared).
* Clients resend batches, a batch may hold malformed events, an event of an
  accepted batch may make the sessionizer raise.
* The correlation runs between requests, so that batching decides what it sees.  It
  goes through all stores, and a POS time that does not parse makes it raise half-way:
  the request is answered 503 after its events were stored.
* A replay resets five structures of four components; it may fail half-way; the
  process may crash and everything is in memory.
* The cameras miss frames, lose tracks and end at different times; each keeps
  its own idea of where a visitor is.
* Abandonments are timers: they fire when the visitor may be gone or back.
* Views overlap: a visitor may queue before the entry camera has confirmed the
  crossing, and may have a passport of each of two cameras.
* A visitor's identity is a chain of recognitions: tracks are lost and found, two
  cameras may follow one visitor, people look alike, and windows run out.
* Verdicts on a visitor (staff, behaviour) change while other parts keep what an
  earlier frame said.
* Real threads share state in two places: pipeline threads and the event loop in
  `gui_server.py`, and readers of the zone geometry with the studio's writes,
  which may be half done or of any structure when they are read.

`PROJECT.json` lists each hazard at its line with the properties that watch it.

## 2. The modules

```
 Sessionizer --+-- EventStore -- Ingestion -- StoreApi -- Replay
               |   Correlation ------------------+          |
               |   ReplayOrder -----------------------------+
               +-- EventDetail -- AuditTimeline, SessionVerifier, Calibration
               |                        |
               |                  ObservedIngest (with EventStore, ReplayOrder)
               +-- VisitToApi -- (C) Camera --+-- EntryExit ---- LineCrossing
                                     |        +-- QueueTracker -- BillingQueue
                                  Journey -- Behavior, StaffClassifier, LineCrossing

 Consensus -- IdentityManager -- (implements) VisitorLedger
 SharedState -- Console
 ZoneMapper
```

Every `MC...` module instantiates the module of its name for TLC; every
`...Proofs` module extends its module with theorems.  `StoreApiProofs` holds those of
`Ingestion`, `StoreApi`, `Replay` and `ObservedIngest`, `JourneyProofs` those of `LineCrossing` as well,
`ThreadProofs` those of `Console` and `ZoneMapper`, the two components that real
threads share.  `ListLemmas` has the induction and the facts about lists that most of
them need.

| Module | Models | State and actions |
|---|---|---|
| `Sessionizer` | `app/sessionizer.py`, `VisitorSession` | `sessions` is the list of all sessions in the order of `put_active`; `active[v]` the position of the open session of `v`; `reentryCounts` the ledger. One action per handler; `process_event` holds the lock for the whole handler, so that a handler is one step. `HandleExit` has two actions: the visitor has an open session or a stub is made. |
| `EventStore` | the event store of `app/ingestion.py` | `log`, `seen`; `AppendEvent` |
| `Ingestion` | `app/ingestion.py` | the event store; `busy`, `batch`, `response` (the request). One step per raw event: `RejectEvent`, `SkipDuplicate`, `AcceptEvent`, `AcceptUnprocessed` (the sessionizer raises and the error is swallowed). |
| `Correlation` | `app/correlation.py` | `transactions`, `converted`; `Correlate` is one run over all stores in the order of their first sessions. A transaction time may be one that does not parse (`Unparsed`); at the first store with such a time (`Unreadable`) the run raises, and what it did for the stores before it (`Reached`) stays. |
| `StoreApi` | the endpoint of `app/main.py`, the funnel and counts of `app/projections.py` | Ingestion and Correlation composed: `FinishRequest` ends the batch and correlates in one step, and `Raises` says that the answer is a 503: the events are stored and sessionized either way. |
| `ReplayOrder` | the stable sort by time of `app/replay.py` | operators: `Sorted` and the key of an event |
| `Ranks` | what Python's `sorted`, list comprehensions and percentiles come to | operators: `Smallest`, `Picked` |
| `Replay` | `app/replay.py` | StoreApi with replays from the file and from memory, the failing sort, crashes. A replay takes the place of a request. |
| `EventDetail` | the fields of an event that only the observers read | constants only |
| `AuditTimeline` | `app/audit.py` and the records the sessionizer's handlers write | `timelines`; `HandlerRecords(e)` per event type |
| `SessionVerifier` | `app/verifier.py` | the tables of sights, exits, confidences and staff flags, `warnings`; one operator per check, `Remember` for the tables, `VerifierClear` |
| `Calibration` | `app/calibration.py` | `profiles` per store: windows, trust, thresholds; `WithEvent` observes and every `CalibrateEvery` events recomputes |
| `ObservedIngest` | how `ingest_batch` and the replay drive these three | `Request`, `BeginReplay`, `IngestNext`; an accepted event is one step |
| `EntryExit`, `LineCrossing` | `pipeline/entry_exit.py` | `side`, `counter`; one action per branch of `update`. LineCrossing feeds it any sightings and keeps the latest ones. |
| `QueueTracker`, `BillingQueue` | `pipeline/billing_queue.py` | `inZone`, `exited`; `UpdateQueue` is `update`. BillingQueue feeds it any frames, keeps their history, and lets visitors pay. |
| `Camera` | `process_frame`, `ZoneDwellTracker` and the loop of `run_pipeline` (`pipeline/detect.py`), the emitter (`pipeline/events.py`) | per camera the zones and clocks, the frame being processed (`inFrame`, `todo`, `billingPresent`), the events written (`outbox`). One step per detection, one for the rest of the frame, one for the end of a video. |
| `VisitToApi` | the way of the events from the cameras to the sessions | people walk, cameras with overlapping views see or miss them, the sessionizer processes the file in order. `OtherPassport`: of a visitor with passports of two cameras, `get_passport` finds the one that has the exit or the other. |
| `Behavior` | `pipeline/behavior.py` | `Transition` and the fold of it over the events of a detection |
| `StaffClassifier` | `pipeline/staff.py` | `Observed`: the profile after a sighting; `IsStaff`: the verdict, with window, percentile and composite score |
| `Journey` | `Camera` with the staff classifier and the behaviour machine in its loop | `Role` is the calibration's role of each zone. `JudgeNext` classifies, crosses, zones and tells the behaviour, per detection; `CloseFrame`, `FlushVideo` |
| `Consensus` | `consensus.py`, `courtroom.py`, the transition scores of `store_graph.py`, `occlusion.py`, the signals of `_match_suspended` | operators: `Signals`, `IdentityScore`, `Associates`, `Band`, `CourtroomMatches`, `Occlusion` |
| `IdentityManager` | `pipeline/tracker.py`, `ghost.py`, `evidence.py`, driven by `detect.py` | `Sight` resolves one detection (known track, shared with an overlapping camera, recognised, new) and reports an exit at the entry camera; `EndFrame` is the loss loop, the purge and the next camera |
| `VisitorLedger` | the abstract promise of the identity manager | `Admit`, `Recognise`, `Share`, `Release` over owner, released and issued ids |
| `SharedState` | `pipeline/gui_server.py` | `push_event` in three steps (`LogEvent`, `CountEvent`, `SendEvent`), the callbacks of the loop (`Broadcast`, `Deliver`, `Heartbeat`), `/api/state` in two (`StateRequest` under the lock, `StateReply` after it) |
| `Console` | the start and end of an analysis in `pipeline/wizard_backend.py` | `StartAnalysis` tests the flag, `ThreadBegins` sets it, `AnalysisOver` resets it; composed with SharedState |
| `ZoneMapper` | `pipeline/zone_mapper.py` against the save of `calibrate_zones.py` | per thread `Check` (outside the lock), `Stat`, `Load` (under the lock: `LoadSkips` or `LoadTakes`); the studio's `Truncate` and `Dump`, of a file that may be misshapen (`file.sound`); `complete`: all its shapes are in the table |

Definitions preceded by the comment "Mutated X" are plausible bugs of `X`; no
specification uses them.  Each property is shown to fail when the mutated
definition takes the place of the right one (`PROJECT.json`, "mutants").

Abstractions worth knowing:

* A session's `zones` and `queue` are sets: their readers ask for membership,
  emptiness and the latest time only.  `confidence` and metadata are left out.
  The audit, verifier and calibration calls change no session; `ObservedIngest`
  adds them to the sessionizer and leaves the batches and the correlation to
  `StoreApi`.
* Sessions are named by their position; the code names them by a fresh id.  The
  code does not clear the converted ids on a replay, but no new session has one
  of them; in the model `converted` is reset instead.
* Times are natural numbers (seconds); the order of time stamps is all the code
  uses, except the windows and the dwell, which are differences.
* In `Camera` all cameras run at one frame per time unit and share the clock;
  an owner per track stands for the identity manager.  Zones come from the place a
  visitor stands in.  In `VisitToApi` the views may overlap: a place may be in view
  of any number of cameras.  Whom two neighbouring cameras follow has two passports
  there (`Shared`), and the exit count that tells ENTRY from REENTRY changes at will
  once an EXIT was reported, as it depends on the passport that is found
  (`tracker.py` 562-592).  `VisitAssumption` says what the layouts have in common:
  the entry camera is not that of the queue, and nobody queues outside the line.
* In `IdentityManager` an embedding is the look of a person and cosine similarity
  a table; scores are integers, the vote multiplied by the sum of the weights.  A
  detection is what a camera shows of a person, under the track it had or a new
  one; the tracker of the detector (external) does not exchange two tracks.
* In `Journey` and `VisitToApi` the classifier's colour analysis of a crop is an
  input: any score of `Clothing` at every look.
* In `Console` the events of an analysis are numbered and typed by `Script`; the
  entries and the number of events stand for all totals, which are updated in the
  same critical section.  A browser that leaves is noticed at the next send.
* The roles of the zones decide who is staff: `staff.py` 139-147 makes staff of
  whoever was in a shape with the role `billing_counter` or `staff_area`, while
  `docs/CALIBRATION.md` 55 and 77 offer `billing_counter` as a role for the customers'
  queue.  `Journey` follows the code (`StaffZones`), and `JourneyAssumption` lets the
  queue have that role; the run `Journey` gives it `queue_area`, the run
  `StaffCounter` `billing_counter`.
* In `ZoneMapper` the contents of the file are the number of the save that wrote
  them, and whether they are of the structure `_load` expects: the studio saves any
  JSON object it is sent (`calibrate_zones.py` 159-175).  A load of a misshapen file
  leaves out shapes (`complete`).  What a reader does for a camera without shapes, the
  legacy zones of `zones.py` 222, is not modelled.  Two saves are assumed further apart than the resolution of the file time;
  the truncation and the writing of one save need not be.

## 3. What each run checks

| Run | Question | Properties |
|---|---|---|
| `Ingestion` | A visit with two re-entries at two stores in every order and repeated; in the batches a malformed event, one rejected for a time, one without a zone, one on which the sessionizer raises, ids used twice | `TypeOK`; `ActiveMatchesOpen`: the table of open sessions is exact; `ReentryLedger`: no re-entry lost, none twice; `SessionsMatchLog`: dwell and re-entries of a visitor's sessions are those of the log, each counted once, the queue events the same, and every ENTRY begins and every EXIT ends a session of its own; `StoredOnce`; `PartialSuccess` (liveness): a valid event of a batch is stored whatever else is in it; `SessionizerRefined`: ingestion implements `SessionSpec` |
| `StoreApi` | The endpoint with correlation: a customer, a cashier of another store, POS files of two times and perhaps one that does not parse, all batchings | `ConvertedJustified`, `CandidateJustified`, `FunnelNarrows`, `CorrelationSettled`: between requests no session is due to be converted but those of stores that the correlation did not come to, because it raised for one before; `ClosedOnlyPromoted`, `ResendChangesNothing` |
| `Replay` | A visit to the till that a transaction converts and POS files that may not parse; live requests, replays of file and memory, failing replays, crashes | `ReplayRebuildsSessions`, `ReplayReproducible`, `ConsistentAcrossResets` |
| `ObservedIngest` | Ingestion in every order with verifier, timeline and calibration, then a replay of a store | `WarningsFollowLog`: the warnings are the newest of those that the checks the verifier makes find in the log, none is missing and none left from before a replay; `TimelineTellsLog`: the timeline tells every stored event of a visitor in order; `WatchConsistent`: no doubled session, every record names the right session, thresholds within their clamps; `TrustIsCautious` |
| `BillingQueue` | Two visitors, long and short stays, hidden frames, returns within the window, any order of detection | `QueueEventsMatchFrames`: one JOIN per arrival with the depth counted then, one ABANDON per long enough stay and none else; `CandidatesFlushed` |
| `VisitToApi` | A visitor walks between street, doorway, queue and till, is missed in any frame, changes tracks; two cameras whose views overlap in the queue, and the API | `ClockMatchesZone`: at most the clock of the zone a camera holds a visitor to be in runs; `VisitMatchesSession`: who is inside has an open session, who queues has one after the round, which is a candidate unless the first ENTRY was reported after the JOIN and took its place, who went out is none; `NoDwellLost`: the time spent in a zone is on the sessions or on the clock of one camera; `ReentriesFollowExits` |
| `Journey` | A visitor in any clothes walks between street, hall, queue and counter in view of two cameras with overlapping views, missed in any frame | `CrossingsAlternate`, `DebouncedOnLine`; `BehaviorFollowsVisitor`: EXITED exactly since the exit, DWELLING only in a zone; `StaffVerdictSound`: no staff by behaviour alone, staff of the counters and staff areas for good, and the queue rid of staff after every frame |
| `Identity` | Two people who look alike come, leave, are lost and found by two overlapping cameras, and fall out of their windows | `KeepsLedger`: the manager implements `VisitorLedger`; `IdentityConsistent`: one passport per visitor, no ghost of someone followed, evidence for every recognition; `ExitsRemembered`; `RecognisedSafely`: within the window, and never one of two who could be exchanged |
| `Console` | Two analyses, which the wizard may start both, a browser that comes, lags, asks for the state and leaves | `StreamFaithful`: per analysis in order, once, and without a gap unless the queue overflowed; `ConsoleConsistent`: totals cover what a browser or an answer shows, the running flag is never left up; `DashboardsSettle` (liveness): again and again a browser is gone for the server too or has the final totals |
| `ZoneReload` | Three threads read while the studio, which may die in between, saves up to four times, well formed or not | `CachedIsCurrent`: a remembered time means the geometry of the file, with all shapes of a well formed one; `GeometryForward`: it never goes back; `ReloadSettles` (liveness): a finished save is picked up |

Runs that TLC finds violated, each checking a sentence of the repository's own
documents or comments (`PROJECT.json`, "findings", quotes it):

| Run | The sentence says | The code does |
|---|---|---|
| `QueuePaid` | no abandonment when there is a transaction | the tracker is never told of a purchase |
| `StaffCounter` | role `billing_counter` is the customers' queue, `staff_area` the place of staff | whoever was in either is staff for good and joins no queue |

Further sentences that differ from the code, met while modelling and not given a
run of their own; a property named here says what the code does instead:

* `models.py:209` "True if a BILLING_QUEUE_JOIN was ever recorded", of a purchase
  candidate, and `sessionizer.py:23` one visitor, one session: where views overlap
  (`tracker.py:432`) an ENTRY may be confirmed while the visitor queues; it closes the
  session that has the JOIN and opens one without (`sessionizer.py:220`), and the queue
  tracker writes no other JOIN during the stay.  `QueueingIsCandidate` says who is a
  candidate.
* `models.py:222` "total dwell_ms" per zone: every ZONE_DWELL and the ZONE_EXIT carry
  the time since the zone was entered (`detect.py:226`) and the sessionizer adds them up
  (`sessionizer.py:367`).  `NoDwellLost` says that none is missing, not that none is
  counted twice.
* `main.py:253` "Event storage is temporarily unavailable" and `docs/DESIGN.md:355`
  "storage failure → HTTP 503": `load_csv` takes the `timestamp` column as it stands
  (`correlation.py:55-56`), and a time that does not parse (`correlation.py:208`) makes
  the correlation raise, so that the answer is 503 (`main.py:249`) for a batch that is
  stored and sessionized, at every request until the file is mended.
  `CorrelationSettled` says which sessions are left unconverted.
* `verifier.py:12-22` lists EXIT_WITHOUT_ENTRY, SIMULTANEOUS_CAMERAS and
  VISITOR_TELEPORT among the "Checks implemented": nothing raises any of the three.
  `docs/DESIGN.md:308` "`REENTRY` within 30s of `EXIT`" is too fast: within 10 s
  (`verifier.py:49`, as `verifier.py:21` has it).  `WarningsFollowLog` is about the
  checks that are made, with the 10 s.
* `entry_exit.py:41` "how many consecutive frames on new side": a frame off the line's
  span returns before the counter is touched (`entry_exit.py:117`), so that sightings
  far apart add up to a crossing.  `DebouncedOnLine` is about tracks that stay on it.
* `wizard_backend.py:256` "Already running": the request tests the flag, but only the
  thread it starts sets it (`wizard_backend.py:272`), so that two starts in a row may both
  pass, and two analyses of the same clips feed one dashboard.  `FlagNotStuck`,
  `StreamFaithful` and `DashboardsSettle` hold all the same.
* `zone_mapper.py:140` "Returns True if actually reloaded": over a file of valid JSON
  and unexpected structure `_load` raises after `_data`, `_mtime` and an empty table of
  shapes were set (`zone_mapper.py:158`), and returns False; shapes are left out, and the
  file is not looked at again before the next save.  `CachedIsCurrent` and
  `ReloadSettles` hold with such files.
* `correlation.py:5` a visitor "who was in the BILLING zone in the 5-minute window
  BEFORE a POS transaction" converts: the engine keeps one billing time per session
  (`correlation.py:255`), so that a later JOIN or zone event hides an earlier one
  that was in the window.
* `models.py:206` "A REENTRY event ... does NOT create a second session": without an
  open session it creates one (`sessionizer.py:277`), which is every REENTRY that
  follows an EXIT.
* `replay.py:23` "replayed metrics are identical to live metrics": the replay
  correlates once at its end, the live system after every request
  (`replay.py:240`); `ReplayRebuildsSessions` says what is the same.
* `docs/CHOICES.md:142` the API "recovers its full state" by
  `POST /stores/{id}/replay`: each replay resets all stores (`replay.py:207`), so
  that with two stores only the last one replayed is there.  The calibration is not
  reset, so that a replay feeds it the same events again.
* `audit.py:158` "The Sessionizer calls record_*() methods after every state
  change": closing an orphaned session (`sessionizer.py:223`) and opening an
  implicit one (`sessionizer.py:474`) leave no record; `TimelineTellsLog` and
  `WatchConsistent` say what the timeline does tell.
* `docs/DESIGN.md:211` "Staff classification flips only when evidence is sustained
  across multiple frames": it takes several frames, but the clothes are looked at in
  the first and every fifteenth, so that one look can decide; `StaffVerdictSound`
  says what a verdict rests on.
* `behavior.py:21` "QUEUEING → PURCHASE_CANDIDATE after extended queue time": only
  `tick` makes that transition, and nothing calls `tick`.
* `courtroom.py:91` reads a `physics` or `store_graph` signal, which the consensus
  never writes; its default counts as a teleport, so that the courtroom rejects every
  ambiguous match it is asked about.
* `pipeline/audit.py:219` "Flag same visitor_id active in two distant cameras": the
  map it is given has one camera per visitor (`detect.py:1075`).
* `detect.py:672` "late-connecting browsers get frames immediately": a frame goes to
  the queues that are registered when it is pushed; `latest_frames`
  (`gui_server.py:60`) is written and never read.
* `wizard_backend.py:285` `pipeline_done` is set at the end of an analysis and never
  reset, so that during a second one the status says both running and done.
* `wizard_backend.py:77` the number of a new camera is the number of cameras of its
  role plus one, so that an id repeats after a camera was deleted.
* `sessionizer.py:71` "Sessions are never mutated once closed": the correlation
  promotes closed sessions to purchase candidates (`correlation.py:229`); what
  does hold is `ClosedOnlyPromoted`.
* `sessionizer.py:262` "is_staff propagates from the event": not to a session
  that is open when the REENTRY arrives; nor does a later classification of a
  visitor as staff reach a session that is open.
* `projections.py:59` abandonment counts sessions "with ABANDON but no JOIN": the
  code counts every session with an ABANDON (`projections.py:104`).
* `projections.py:146` "PURCHASE - correlated with a POS transaction": a JOIN
  alone counts (`projections.py:177`).
* `billing_queue.py:8` the depth counts "others already waiting": arrivals are
  counted before the departures of the same frame are removed
  (`billing_queue.py:96`); `JoinsMatchArrivals` says what is counted.

### Bounds, and why they are enough

* `MCIngestion` has the events of one visitor (handlers of different visitors
  share nothing but the list; the theorems are for any number), who has up to
  three sessions at two stores, and batches of one and three.  The ids are finite,
  so that the log is: no state constraint is used anywhere in the project.
* `MCStoreApi` places the transactions inside and outside the window of each event,
  one that does not parse among them, at two stores whose first sessions come in
  either order, so that the correlation raises before and after it reached the other.
* `MCReplay` has one purchase that the stay at the till converts, and POS files with
  and without a row that does not parse, of that store or another; three stores let a
  replay fail, succeed and be empty.
* `MCObservedIngest` has seven events chosen so that every check of the verifier
  fires and is silent: too fast a camera change, a late and an early re-entry, a
  jump of confidence, staff in a window, a depth below zero, an entry away from the
  door.  `WarningCap = 3` and the windows of 2 and 3 make lists overflow, and
  `CalibrateEvery = 2` makes recalibrations happen between all of them.  The check
  for duplicates runs after every event there, in the code after every batch; it
  reads the sessions only.
* `MCBillingQueue` scales the minimum stay to 2 and the window to 3, so that a
  visitor can leave, return and leave again within a window; `MaxTime` bounds the
  video and `MaxSales` the transactions, which change nothing the passing run
  looks at.
* `MCVisitToApi` has one visitor, who may be missed in any frame, and two tracks,
  which may be exchanged (a symmetry: only their owner matters);
  `MaxTime = 6` rounds are enough to enter, queue, leave and have the abandonment
  fire after the exit.  The queue is in view of both cameras, and one step from the
  hall, so that the crossing may be confirmed after the JOIN.
* `MCJourney` scales the classifier down: a look every second frame, three scores
  kept, two frames for a first verdict, and three kinds of clothes, which are
  below, just below and above the share of black that decides alone; the weights
  are those of the code.  `MinCrossFrames = 2` leaves room for a crossing, a return
  and another crossing in five rounds.  The two views overlap, so that a visitor is
  in a zone of either camera at the same time.  The roles are those of a counter apart
  from the queue, and in `StaffCounter` of a queue drawn as a counter.
* `MCIdentity` has two people, two overlapping cameras, two tracks per camera and
  three ids, more than the people, so that a person can be taken for a new visitor.
  A round takes five seconds, so that a track not shown is lost in the next round;
  the windows are those of the code, of which the shorter (boundary, 8 s) runs out
  within the three rounds.  Ghosts and evidence are capped at two.
* `MCConsole` has two analyses of two events, one browser with a queue of one and a
  log of two: the queue overflows, the log forgets, the browser may lag behind both.
* `MCZoneMapper` has three threads, so that one may load between the two looks at
  the time of another, and four saves, each well formed or misshapen.

Videos, scripts and saves end in `BillingQueue`, `VisitToApi`, `Journey`,
`Identity`, `Console`, `ZoneReload`, and so do the events of `ObservedIngest`: these runs do not
check for deadlock.

### Fairness

* `MCIngestion`: `FairSpec` is `Spec` with weak fairness of `Next` while a request
  is under way.  A handler that has started runs to its end because the event loop
  is not preempted and nothing in it awaits; no fairness makes a client send a
  request, nor decides in which order they come.
* `Console`: weak fairness of the steps of each pipeline thread (the operating
  system runs threads that can go on; the lock is held for two steps only), of the
  broadcasts and the answer in hand (the event loop runs its callbacks in order),
  and of the socket handler of each browser.  Nothing makes a browser come or go, a
  request arrive or an analysis begin or end.  Browsers may come and go for ever,
  which is why `DashboardsSettle` says "again and again".
* `ZoneMapper`: weak fairness of `ReadGeometry(t)` for each thread: the cameras ask
  for their zones in every frame.  The studio may stop between truncating and
  writing the file and never go on.

## 4. What is proved

`SessionizerProofs` (for every `SessionSpec`, from `SessionizerAssumption`: the
billing queue is a zone, `NoZone` is not, `NoTime` is not a number, the events
are events):

* `SessionInvariant`: `LedgerInv` is inductive.  It joins `SessionInv` (types,
  `ActiveMatchesOpen`, and `LatestIsActive`: the open session of a visitor is
  the last of that visitor's sessions) with `ReentryLedger` and
  `ReentryOrdered`.  `ActiveMatchesOpen` alone is inductive only with the types;
  the order of the re-entry counts is not inductive without `LatestIsActive`,
  since a count written to an earlier session would overtake a later one.
* `SessionsTyped`, `StoreConsistent`, `LedgerAgrees`, `LedgerOrdered`: the parts.
* `ClosedFrozen`: no event changes a session that has ended.

The argument reduces the nine handlers to four shapes (`HandlerShapes`: the open
session is enriched, replaced, closed, or a stub is added) and these to one
(`HandlerPlaces`: session `s` is put at position `p`, the end or the open one);
the invariants are then proved once for `Placed`.

`StoreApiProofs` has four parts.  Ingestion (from `IngestionAssumption` as well):

* `IngestionRefinesSessionizer`: every step of `Spec` is a step of the
  sessionizer or leaves it alone; with it `IngestionKeepsStoreConsistent` and
  `IngestionFreezesClosed` follow from the theorems above.
* `IngestionTyped`, and `EventsStoredOnce`: an id is in the log at most once and
  the ids seen are those of the log.
* `SessionsMatchTheLog` (`SessionsMatchLog`): what the sessions of a visitor hold is
  what the log holds of that visitor, except for events whose processing raised.  The
  dwell of every zone and the re-entries are counted once; the queue events are the
  same, as sets of type and time.  Per time stamp, every ENTRY has a session of its own
  that begins then and every EXIT one that ends then; no more sessions begin than the
  visitor has events, and no more end than there are EXITs and ENTRYs (an ENTRY ends
  an orphaned session).  Other events are counted at most once.

The endpoint with its correlation (from `CorrelationAssumption` as well):

* `ApiInvariant`: `ApiInv` is inductive.  It joins `SessionInv` with
  `CandidateJustified` and `CandidateVisited` (a candidate has visited a zone),
  the fact that ties the stages of the funnel together.  The argument has two
  parts: a handler only lets a session grow (`HandlerGrows`: it takes no zone, no
  JOIN and no candidate flag back, and gives the flag with a JOIN only), and the
  correlation only promotes (`Promotes`, `ConvertedVisited`).
* `ApiKeepsStoreConsistent`, `CandidatesJustified`, `FunnelDoesNarrow` follow, and
  `ClosedPromotedOnly`: nothing but its conversion changes a session that has
  ended.
* `ConversionsJustified`, from `ConversionInv`, which adds that a session with
  JOINs was in a billing zone and that one of its JOINs is the last, so that the
  moment the correlation chooses is one of the session's.  It holds if queue
  events name a billing zone or none (`BillingJoins`): the pipeline sends
  `ZONE_BILLING_QUEUE` only (`pipeline/events.py` 319-323), but the API does not
  check it.
* `ConversionsSettle` (`CorrelationSettled`): what `correlate` reads of a session,
  `correlate` does not change, so that after a run nothing is due but in the stores
  that the run did not come to, because it raised for one before.  Such a store's first
  session is later than one of an unreadable store, and stays so: sessions are only
  appended.

Replays and crashes: this is carried through resets.  `ReplayInv` joins `ConversionInv`,
`LedgerInv` and `StoredOnce`; every reset, of a replay, of a replay whose sort
raises or of a restart, leads to the empty stores, where it holds.
`StoresStayConsistent`, `ReplayedConversionsJustified` and
`ConsistencySurvivesResets` (all of `ConsistentAcrossResets`) follow.

* `ResendingIsSafe` (`ResendChangesNothing`): a request all of whose events are
  known accepts none of them, so that sessions, log and conversions are at its end
  what they were at its begin.  The invariant keeps, for such a request, that what
  is left of the batch is known and that the stores are those of its begin; the
  correlation at its end changes nothing because it is settled.
* `StoresExplained`: the stores are a function of what they were fed.  `Sessionized`
  and `Fed` state the handlers as functions of (log, sessions, table of active
  sessions), conversions left out; a `Feeding` is the sequence of stores that a list of
  events leads through.  `RunInv` says that the log explains the stores, that a replay
  has come as far in its events as every feeding of them has at that place, and that
  what a replay of a file left is what the file comes to.  That a feeding exists and
  that all agree so far is carried step by step in the invariant, so that no induction
  over the log is needed.
* `ReplayDoesRebuild` (`ReplayRebuildsSessions`): the stable sort of a chronological
  log is the log (`SortedAlready`), so that both stores are what the same list comes to.
  `ReplaysAreReproducible` (`ReplayReproducible`): fresh sessions are converted by their
  last billing and the transactions alone (`FinishCorrelates`), so that two results for
  a file are the outcome of the same feeding.

These three assume `Skewed = {}`, as the run does: an event of the future is refused when
it is sent early and accepted when the same file is replayed a minute later
(`models.py:135`), so that a replay then need not rebuild what it replays.

What watches the ingestion (from `WatchAssumption`: the windows, the cap and the
calibration interval are positive, the details of an event are numbers), for any order
of events and any replays:

* `WatchInvariant`: `WatchInv` is inductive.  It joins `SessionInv` and the types with
  `Tells` (every record names a session of its visitor, an end is told once, by the
  record of its EXIT) and `ProfileOK` (windows within their bounds, thresholds between
  their clamps).  A threshold is a rank in a window, so that the proof needs that the
  k-th smallest of a list exists (`Smallest` is a `CHOOSE`).
  `WatchStaysConsistent` (`WatchConsistent`) follows; no session is doubled because
  `active` is exact.
* `CalibrationIsCautious` (`TrustIsCautious`): fewer scores of a list lie below its k-th
  smallest than k, and k is a quarter of the window.
* `LogInvariant`: `LogInv` is inductive.  `WarningsFollowLog` alone is not, since what
  an event warns of depends on the tables, which it does not mention.  `LogInv` says
  what each table is of the log: the last sight and the last exit of a visitor, the
  events of a store that none since has pushed out of the window; with these, the
  warnings raised by an event are those that the log makes due at its position, and the
  newest of the warnings so far are the newest of them all.  A reset clears log, tables,
  warnings and timelines in one step.  `WarningsDoFollowLog` (`WarningsFollowLog`) and
  `TimelineDoesTellLog` (`TimelineTellsLog`) follow.  How cuts, selections and
  concatenations of lists change when the lists grow at their ends is in `ListLemmas`.

`JourneyProofs` has two parts.

* The detector alone (from `MinCrossFramesAssumption`): `CrossInvariant`, with
  `ReportedSide`: the committed side of a track is the one its latest crossing led
  to.  `CrossTyped`, `CrossingsDoAlternate` and `CrossingsAreDebounced` follow; the
  last needs that the counter of a track never exceeds the number of its latest
  sightings on the other side, without one off the line among them.
* The frames of all cameras (from `JourneyAssumption`, `StaffAssumption` and
  `BehaviorAssumption`): `JourneyInv` is inductive.  Its parts are the frame in work
  (`FrameTypeOK`, `OnceInFrame`: a visitor is judged once per frame;
  `CustomersInQueue`, `StaffLeaveQueue`), the verdict (`VerdictOnProfile`) and the
  behaviour (`ExitedSinceExit`, `DwellingInZone`).  `StaffVerdictHolds` and
  `BehaviorDoesFollow` follow, for any roles of the zones: the verdict is that of
  `staff.py`, with the counter a place of staff.  A composite score that reaches its bound without
  clothes would need more than the weights of frames, zones and cameras give; a
  percentile of the clothes that reaches its bound needs a quarter of the scores kept
  to reach it.
* `JourneyCrossesLine`: `JourneySpec => CrossSpec`, so that what holds of the
  detector for any sightings holds of it in the pipeline.

`IdentityProofs` (from `IdentityAssumption` and `ConsensusAssumption`: similarities,
transition scores and the bell curve are percentages): `IdentityInvariant`.
`IdentityInv` joins the types with `UnissuedUnknown` (no passport, ghost or exit
carries an id that was not given out), `OnePlace` (a visitor has one passport: active,
suspended or expired), `NoGhostOfActive`, `FollowsCounted` and `ExitsCounted`.  A
detection is reduced to what it takes (`Takes`) and to four kinds: a track that is
known, one found again, one shared with another camera, one admitted as new.  The end
of a frame is reduced to a loss of each old track, one after the other; the purge of
ghosts is a loop whose states stay parts of the list it started from.

* `IdentityStaysConsistent`, `ExitsAreRemembered`: the parts that the run checks.
* `RecognitionIsSafe` (`RecognisedSafely`): a recognition is within its window, and
  never one of two visitors who could be exchanged.  Two who can be exchanged differ in
  their scores by at most the bonus of the shorter absence, which is less than the gap
  that makes the second a rival (560 < 575 of 11500); the courtroom then hears the
  match and rejects it, since a prosecution that has no physics to go by starts at 80.
* `ManagerKeepsLedger` (`KeepsLedger`): `IdentityManager` implements `VisitorLedger`;
  each kind of detection is an `Admit`, a `Recognise` or a `Share`, each end of a frame
  a `Release`, or a stutter.

`ThreadProofs`, the zone cache (from `MapperAssumption`, for any number of threads and saves):
`MapperInvariant`: `MapperInv` is inductive.  It ties the times that are around to
the contents they stand for: no time the mapper or a thread knows is later than the
file's, a torn file is younger than the cache, the geometry in use is of no
later save than the file, and it is complete when it is of a well formed file that the
remembered time belongs to.  `CachedIsCurrent` alone is not inductive, since a save
must make the remembered time old.  `CachedIsAlwaysCurrent` and
`GeometryNeverBack` follow.

`ThreadProofs`, the dashboard (from `SharedStateAssumption`, for any number of analyses and
browsers, any script and any queue bound): `StreamIsFaithful`, from the invariant
`StreamInv`.  It follows one event on its way: it is sent, then under way in a
broadcast, then in the queue of a connection, then heard, and the numbers of one
analysis grow against this direction.  `StreamFaithful` alone is not inductive,
since what comes next may still be in a queue or in a broadcast the event loop has
not begun; the order of the broadcasts (`CallsInOrder`) has to be part of it.  As
long as nothing was dropped for a connection, no number is left out either.
`ConsoleStaysConsistent`: the lock, the log and the totals agree.  A total is a count
over the events sent, which the proof takes as the size of a set that grows by one; an
answer of `/api/state` that is under way holds totals no later than the present ones.
`FlagFollowsThreads`: the flag is up only while an analysis runs.

`BillingQueueProofs` (from `QueueAssumption` and `BillingAssumption`: the visitors are
finitely many and the gaps between frames are naturals, so that time does not run
backwards): `QueueTyped`, and `CandidatesDoFlush`, from `EnteredBefore`: nobody in the
zone entered in the future.  `QueueEventsDoMatch` (`QueueEventsMatchFrames`) rests on
the history of the frames: `EventsInv` gives each JOIN the frame of its arrival and its
rank among the arrivals of that frame, and each ABANDON the stay it is owed to, one
of its own, by a function that no two abandonments share; the stays not yet accounted for
are those still in `_exited` or just settled.

`VisitToApiProofs` (from `VisitAssumption` and `SessionizerAssumption`), on the way from
the shop floor to the sessions, for any places, paths, cameras, tracks, visitors that
frames may miss and ends of the videos, overlapping views included:

* `VisitInvariant`: `VisitInv` is inductive.  Since events wait in the outbox between
  the camera that wrote them and the session they change, each of its parts says where
  a fact is: at the API, or in the outbox and in which order.  Somebody inside has an
  open session with no EXIT under way, or an ENTRY waits that no EXIT follows
  (`EnteredWillHave`); somebody outside since the EXIT has an EXIT under way or is no
  candidate, and no JOIN waits (`LeftDoNotQueue`); a visitor in the queue is a candidate
  or has a JOIN under way, unless the first ENTRY was reported
  while the visitor queued (`late`) or the billing camera is still to miss the visitor in
  this round (`QueueWillBeCandidate`); the re-entries counted and waiting are those of
  the exits reported (`ReentriesExplained`), in one direction only for a visitor with
  passports of two cameras, whose return may be reported as an ENTRY.  What orders the outbox are
  `CrossingAtEntry` and `JoinsComeLast`: crossings come from one camera, JOINs from
  another and after its detections.  `VisitMatchesSession` is not inductive: it speaks
  of an empty outbox only.
* `SessionsFollowTheVisitors` (`VisitMatchesSession`), `ReentriesAreExplained`
  (`ReentriesFollowExits`) and `NoClockOutlivesTheStay` (`ClockMatchesZone`) follow.
  What `VisitMatchesSession` says of who was reported to enter while queueing, that the
  new session is no candidate, needs that no JOIN comes for such a visitor before the
  stay ends (`LateIsNoCandidate`).
* `DwellIsKept` (`NoDwellLost`), for each camera but that of the entry, whose clocks an
  EXIT clears; from `DwellInvariant`.  `DwellKept` says that the time
  spent is on the sessions, in the outbox or on a clock, and that between two rounds the
  clocks are one ahead of it; `NoticedClock` that whoever was noticed has a clock, or is
  still to be looked at in the frame.  The events of a camera move time from its clock to
  the outbox, a delivery moves it from the outbox to one session; both sums are sizes of
  disjoint unions.

Two tools recur.  Where a model runs a loop over a list (`update` over its arrivals,
the classifier over its scores, the loss of tracks), the loop is a recursive function
and its run is shown to exist by `NatSetInduction`, which is derived from the
well-founded ordering of finite sets: the library's own induction takes an operator as
a parameter, which the provers cannot instantiate.  Where a property is about a sum or
a count, the sum is taken as the size of a disjoint union (`SessionsMatchTheLog`: the
sessions with JOINs, re-entries or closings against the events of the log).

Only model-checked: `PartialSuccess`, `DashboardsSettle`, `ReloadSettles` (liveness
under fairness is out of this prover's reach).  Every other property of a passing run
is stated by a theorem.

## 5. Not modelled, and why

* Pixels, embeddings, colour histograms and other floating-point inputs: the models
  take their result (a zone, a side of the line, a look, a score of the clothes) as
  an input that may be anything the place of the visitor allows.
* Memory and visitor DNA (`memory.py`, `visitor_dna.py`): histories in floating
  point; the consensus is given 0.5 for trajectory and DNA whatever they hold.
* Shadows, groups, health (`shadow.py`, `group.py`, `health.py`): no decision depends
  on them.  A shadow needs a velocity, which the tracker never passes; the group
  boost is asked for with an empty set; health has weight 0 (`config.py:113`).
* Camera reputation: the pipeline seeds its priors and never asks for them.  System
  auditor (`pipeline/audit.py`): counters in sliding windows that only report alarms.
* Calibration verifier (`pipeline/verifier.py`): a pure function over polygons.
* Event binding (`event_binding.py`): look-ups in a file that is read once.
* Store graph: the shortest paths, the learning of travel times and the checks that
  no decision reads; of `store_graph.py` only the transition scores are modelled.
* The heatmap, anomaly and health projections: arithmetic over one snapshot.
* The frames of the dashboard, its look-ups and pages, the camera slots, uploads and
  `session.json` of the wizard: file and form handling of one request each.
* The pacing of a replay sleeps inside the handler and changes no state.
* YOLO, drawing, OCR of timestamps and start-up of `detect.py`; scripts and
  packaging.

The handlers of the API are coroutines of one event loop that await nothing, so that
the locks of the event store and the sessionizer are never contended: interleaving
two requests would explore states that the program cannot reach.

## 6. Plan

Done: the session store, ingestion, correlation and replay; the detectors and the
way of their events to the sessions; the observers of ingestion; identity,
behaviour and staff; the dashboard, the start of analyses and the zone cache; the
proofs of section 4.

Left, in the order of what they would add:

1. `Journey` over the identities of `IdentityManager` in place of an owner per track.
2. The wizard's `session.json`, which is written by the wizard while the studio may
   read it, and the frames of the dashboard.
