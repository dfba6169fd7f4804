--------------------------- MODULE ObservedIngest ---------------------------
(***************************************************************************)
(* The ingest endpoint of app/main.py with the layers that watch it: the   *)
(* Sessionizer writes the audit timeline and feeds the calibration engine, *)
(* then the verifier looks at every event and, after the request, at the   *)
(* sessions.  A replay clears the stores, the timeline and the verifier,   *)
(* but not the calibration, and ingests the events of a store again.       *)
(*                                                                         *)
(* The handlers run on one event loop and await nothing.  A request here   *)
(* has one event; one with more checks the sessions only at its end.       *)
(* Validation and the errors of a request are in Ingestion.                *)
(***************************************************************************)
EXTENDS EventStore, ReplayOrder, AuditTimeline, SessionVerifier, Calibration

CONSTANT
  MaxReplays        \* bound on the replays

VARIABLES
  toReplay,         \* the events that the replay has still to ingest
  replays

watchVars == <<sessionVars, storeVars, timelines, verifierVars, profiles, toReplay, replays>>

\* What the metadata of an event can say (app/models.py: a confidence and a dwell
\* are validated, a queue depth and a score are not).
EventDetails == [camera : Cameras, conf : Nat, depth : {NoValue} \cup Int,
                 reid : {NoValue} \cup Int]

ASSUME WatchAssumption ==
  /\ MaxReplays \in Nat
  /\ WarningCap \in Nat \ {0}
  /\ CalibrateEvery \in Nat \ {0}
  /\ {Window, Needed} \subseteq [{"conf", "reid", "queue", "zone"} -> Nat \ {0}]
  /\ EntryCameras \subseteq Cameras
  /\ NoValue \notin Int
  /\ \A e \in Events : Detail[e.id] \in EventDetails

WatchInit ==
  /\ SessionInit
  /\ AuditInit
  /\ VerifierInit
  /\ CalibrationInit
  /\ log = << >>
  /\ seen = {}
  /\ toReplay = << >>
  /\ replays = 0

-----------------------------------------------------------------------------

\* The TRACKING records of the warnings ws, with the session that is open now.
TrackingRecords(ws, session) ==
  [i \in DOMAIN ws |-> AuditRecord("TRACKING", ws[i].code, ws[i].time, session)]

\* The event is new: it is stored, sessionized, recorded, observed, verified.
Ingest(e) ==
  /\ e.id \notin seen
  /\ AppendEvent(e)
  /\ ProcessEvent(e)
  /\ profiles' = [profiles EXCEPT ![e.store] = WithEvent(profiles[e.store], e)]
  /\ Remember(e)
  /\ timelines' = [timelines EXCEPT ![e.visitor] =
       timelines[e.visitor] \o HandlerRecords(e)
       \o TrackingRecords(RaisedBy(e), active'[e.visitor])]
  /\ warnings' = Capped(Capped(warnings \o RaisedBy(e)) \o DuplicateSessions(sessions'))

\* A client sends event e.
Request(e) ==
  /\ toReplay = << >>
  /\ Ingest(e)
  /\ UNCHANGED <<toReplay, replays>>

\* Mutated ResetStores: the timelines are not cleared.
ResetKeepsTimelines ==
  /\ log' = << >>
  /\ seen' = {}
  /\ sessions' = << >>
  /\ active' = [v \in Visitors |-> None]
  /\ reentryCounts' = [v \in Visitors |-> 0]
  /\ VerifierClear
  /\ UNCHANGED timelines

\* _reset_all_state
ResetStores ==
  /\ log' = << >>
  /\ seen' = {}
  /\ sessions' = << >>
  /\ active' = [v \in Visitors |-> None]
  /\ reentryCounts' = [v \in Visitors |-> 0]
  /\ timelines' = [v \in Visitors |-> << >>]
  /\ VerifierClear

\* replay_store: the stored events of store s, in the order of their timestamps.
BeginReplay(s) ==
  /\ toReplay = << >>
  /\ replays < MaxReplays
  /\ Stored(s) # {}
  /\ toReplay' = Sorted(log, Stored(s))
  /\ replays' = replays + 1
  /\ ResetStores
  /\ UNCHANGED profiles

\* The replay ingests its next event. It verifies the sessions only at its end,
\* which adds nothing unless a session is doubled.
IngestNext ==
  /\ toReplay # << >>
  /\ Ingest(Head(toReplay))
  /\ toReplay' = Tail(toReplay)
  /\ UNCHANGED replays

WatchNext ==
  \/ \E e \in Events : Request(e)
  \/ \E s \in Stores : BeginReplay(s)
  \/ IngestNext

WatchSpec == WatchInit /\ [][WatchNext]_watchVars

-----------------------------------------------------------------------------
(***************************************************************************)
(* Properties                                                              *)
(***************************************************************************)

WatchTypeOK ==
  /\ SessionTypeOK
  /\ ToSet(log) \subseteq Events
  /\ ToSet(toReplay) \subseteq Events
  /\ Len(warnings) <= WarningCap
  /\ \A s \in Stores :
       /\ profiles[s].reidThreshold \in Lowest.reid .. Highest.reid
       /\ profiles[s].queueThreshold \in Lowest.queue .. Highest.queue
       /\ profiles[s].dwellThreshold \in Lowest.dwell .. Highest.dwell
       /\ \A c \in Cameras : /\ profiles[s].trust[c] \in Lowest.trust .. Highest.trust
                             /\ Len(profiles[s].conf[c]) <= Window.conf

\* What the verifier should have known of the event at position i of a log lg:
\* the event before it and the exit before it of the same visitor.
EarlierOf(lg, i) == {j \in 1 .. i - 1 : lg[j].visitor = lg[i].visitor}

SightBefore(lg, i) ==
  IF EarlierOf(lg, i) = {} THEN NoSight
  ELSE LET e == lg[Max(EarlierOf(lg, i))]
       IN  [camera |-> Detail[e.id].camera, time |-> e.time, conf |-> Detail[e.id].conf]

ExitBefore(lg, i) ==
  LET exits == {j \in EarlierOf(lg, i) : lg[j].type = "EXIT"}
  IN  IF exits = {} THEN NoTime ELSE lg[Max(exits)].time

\* The events of store s up to position n of lg that no event since has pushed out
\* of the window.
RecentAt(lg, n, s) ==
  LET ofStore == {j \in 1 .. n : lg[j].store = s}
  IN  {j \in ofStore : \A k \in ofStore : j <= k => lg[j].time > lg[k].time - StaffWindow}

BucketAt(lg, n, s) ==
  LET lines == Picked(lg, RecentAt(lg, n, s))
  IN  [i \in DOMAIN lines |-> [staff |-> lines[i].staff, time |-> lines[i].time]]

\* The warnings that the log lg justifies.
WarningsDue(lg) ==
  FlattenSeq([i \in DOMAIN lg |-> WarningsOf(lg[i], SightBefore(lg, i), ExitBefore(lg, i),
                                             BucketAt(lg, i, lg[i].store))])

\* The warnings are the newest of those that the checks verify_event makes find
\* in the event log, none is missing and none is left from before a replay: the
\* tables the verifier keeps between events say what the log says (verifier.py
\* 126-165). The three checks that its docstring lists and that it does not make
\* (lines 13, 14 and 20) are not among them: an EXIT without ENTRY warns of
\* nothing; and a re-entry is too fast within the 10 s of line 49, not the 30 s of
\* docs/DESIGN.md 308.
WarningsFollowLog ==
  LET due == WarningsDue(log)
      dropped == IF Len(due) > WarningCap THEN Len(due) - WarningCap ELSE 0
  IN  warnings = SubSeq(due, dropped + 1, Len(due))

\* The verifier never finds two open sessions of one visitor (the deduplication
\* bug that verifier.py 332-358 looks for).
NeverDuplicateSession ==
  \A i \in DOMAIN warnings : warnings[i].code # "DUPLICATE_ACTIVE_SESSION"

\* What event e leaves in the timeline: a record, or two for an ENTRY.
TraceOf(e) ==
  LET mark == <<e.type, e.time>>
  IN  IF e.type \in {"ZONE_ENTER", "ZONE_EXIT", "ZONE_DWELL"} /\ e.zone = NoZone THEN << >>
      ELSE IF e.type = "ENTRY" THEN <<mark, mark>> ELSE <<mark>>

\* What a log lg leaves in the timeline of visitor v.
TraceOfLog(lg, v) ==
  FlattenSeq([i \in DOMAIN lg |-> IF lg[i].visitor = v THEN TraceOf(lg[i]) ELSE << >>])

\* What a timeline tells of the events, without the verifier's records.
Told(timeline) ==
  LET told == Picked(timeline, {i \in DOMAIN timeline : timeline[i].category # "TRACKING"})
  IN  [i \in DOMAIN told |-> <<told[i].type, told[i].time>>]

\* The timeline of a visitor tells the visitor's stored events in the order in
\* which they came, every one of them, also after a replay (audit.py 153-155).
TimelineTellsLog == \A v \in Visitors : Told(timelines[v]) = TraceOfLog(log, v)

\* Every record names a session of its visitor; that of an EXIT has ended then,
\* and ends once; that of an ENTRY began then.
RecordsNameSessions ==
  \A v \in Visitors : \A i \in DOMAIN timelines[v] :
    LET r == timelines[v][i]
    IN  /\ r.category # "TRACKING" => r.session \in Index
        /\ r.session # None =>
             /\ sessions[r.session].visitor = v
             /\ r.category = "EXIT" => sessions[r.session].end = r.time
             /\ r.category = "SESSION" => sessions[r.session].start = r.time
        /\ \A j \in DOMAIN timelines[v] :
             r.category = "EXIT" /\ timelines[v][j].category = "EXIT"
             /\ r.session = timelines[v][j].session => i = j

\* What watches the ingestion agrees with the sessions it watches.
WatchConsistent == WatchTypeOK /\ NeverDuplicateSession /\ RecordsNameSessions

\* When a calibration moves the trust of a camera, at most a quarter of the
\* confidences it was computed from lie below it, unless it is at its least.
TrustIsCautious ==
  [][\A s \in Stores, c \in Cameras :
       profiles'[s].trust[c] # profiles[s].trust[c] /\ profiles'[s].trust[c] > Lowest.trust =>
         LET f == profiles'[s]
             below == {i \in DOMAIN f.conf[c] : f.conf[c][i] < f.trust[c]}
         IN  4 * Cardinality(below) <= Len(f.conf[c])]_profiles

=============================================================================
