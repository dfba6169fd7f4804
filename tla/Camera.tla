------------------------------- MODULE Camera -------------------------------
(***************************************************************************)
(* pipeline/detect.py: CameraProcessor.process_frame for every camera of a *)
(* store and the round robin of run_pipeline that calls it, with the       *)
(* entry/exit detector of the entry camera, the queue tracker of the       *)
(* billing camera, the ZoneDwellTracker of each, and the events they hand  *)
(* to the EventEmitter (pipeline/events.py).                               *)
(*                                                                         *)
(* A detection is a track with the zone its centroid is in, its side of    *)
(* the entry line and the staff classification after the frame.  Which     *)
(* visitor a track belongs to is the identity manager's answer; here it is *)
(* the constant TrackOwner, and the passports of one visitor at several    *)
(* cameras are one.  Pixels, confidences, session_seq and the behaviour    *)
(* state written into the metadata are left out.                           *)
(*                                                                         *)
(* One round of the loop is one time unit: all cameras have one frame per  *)
(* round, with the same wall_time.                                         *)
(***************************************************************************)
EXTENDS EntryExit, QueueTracker

CONSTANTS
  CameraOrder,     \* the cameras, in the order of the processors
  EntryCamera,     \* the camera with the role "entry"
  BillingCamera,   \* the camera with the role "billing"
  Zones,
  NoZone,          \* outside every zone
  QueueZone,       \* the zone of the billing camera that is the queue
  BillingQueue,    \* "ZONE_BILLING_QUEUE", the zone of the queue events
  TrackOwner,      \* the visitor of a track
  DwellInterval    \* DWELL_INTERVAL_MS, 30 s in the code

Cameras == ToSet(CameraOrder)

Detection == [track : Tracks, zone : Zones \cup {NoZone}, side : Side,
              staff : BOOLEAN]

VARIABLES
  now,             \* wall_time of the current round
  turn,            \* the camera of the round that is next or in process_frame
  inFrame,         \* process_frame runs
  todo,            \* the detections of the frame still to be looked at
  billingPresent,  \* billing_present
  currentZone,     \* _visitor_zones of each camera, NoZone when absent
  clocks,          \* dwell_tracker._state of each camera
  exitCount,       \* exit_count of the visitors' passports
  staff,           \* staff_tracker.is_staff
  ended,           \* exhausted_cameras
  outbox           \* events written to events.jsonl that nobody has read yet

frameVars  == <<now, turn, inFrame, todo, billingPresent, ended>>
zoneVars   == <<currentZone, clocks>>
cameraVars == <<frameVars, zoneVars, exitCount, staff, outbox, lineVars, queueVars>>

Clock == [enter : Nat, last : Nat]

CameraInit ==
  /\ LineInit
  /\ QueueInit
  /\ now = 0
  /\ turn = 1
  /\ inFrame = FALSE
  /\ todo = << >>
  /\ billingPresent = << >>
  /\ currentZone = [c \in Cameras |-> [v \in Visitors |-> NoZone]]
  /\ clocks = [c \in Cameras |-> [v \in Visitors |-> [z \in Zones |-> Away]]]
  /\ exitCount = [v \in Visitors |-> 0]
  /\ staff = [v \in Visitors |-> FALSE]
  /\ ended = {}
  /\ outbox = << >>

camera == CameraOrder[turn]

-----------------------------------------------------------------------------

\* An event as emit writes it; event_id is a fresh uuid, so that the test for
\* a duplicate never succeeds, and store_id is the emitter's.
StoreEvent(type, v, zone, dwell, isStaff) ==
  [type |-> type, visitor |-> v, time |-> now, zone |-> zone, dwell |-> dwell,
   staff |-> isStaff]

\* ZoneDwellTracker.exit and clear_visitor: the time since the visitor entered
\* the zone, 0 for a zone without a clock.
DwellSince(clock) == IF clock = Away THEN 0 ELSE now - clock.enter

\* The events of a line crossing: EXIT is preceded by a ZONE_EXIT for every
\* zone with a running clock.
CrossingEvents(v, crossing, isStaff) ==
  LET running == {z \in Zones : clocks[camera][v][z] # Away}
  IN  CASE crossing = "ENTRY" ->
             << StoreEvent(IF exitCount[v] > 0 THEN "REENTRY" ELSE "ENTRY",
                           v, NoZone, 0, isStaff) >>
        [] crossing = "EXIT" ->
             [i \in 1 .. Cardinality(running) |->
                LET z == SetToSeq(running)[i]
                IN  StoreEvent("ZONE_EXIT", v, z, DwellSince(clocks[camera][v][z]),
                               isStaff)]
             \o << StoreEvent("EXIT", v, NoZone, 0, isStaff) >>
        [] OTHER -> << >>

\* clear_visitor
ClocksAfterCrossing(v, crossing) ==
  IF crossing = "EXIT" THEN [z \in Zones |-> Away] ELSE clocks[camera][v]

\* ZoneDwellTracker.tick
TickDue(clock) == clock # Away /\ now - clock.last >= DwellInterval

\* The events of a detection of v in `zone`, with its clocks in `running`.
ZoneEvents(v, zone, running, isStaff) ==
  LET prev == currentZone[camera][v]
  IN  IF zone = prev
      THEN IF zone # NoZone /\ TickDue(running[zone])
           THEN << StoreEvent("ZONE_DWELL", v, zone, DwellSince(running[zone]), isStaff) >>
           ELSE << >>
      ELSE (IF prev = NoZone THEN << >>
            ELSE << StoreEvent("ZONE_EXIT", v, prev, DwellSince(running[prev]), isStaff) >>)
           \o
           (IF zone = NoZone THEN << >>
            ELSE << StoreEvent("ZONE_ENTER", v, zone, 0, isStaff) >>)

\* Mutated ZoneClocks: the clock of the zone that was left is kept.
ZoneClocksKept(v, zone, running) ==
  [z \in Zones |->
     CASE z = zone /\ running[z] = Away -> [enter |-> now, last |-> now]
       [] z = zone /\ currentZone[camera][v] = z /\ TickDue(running[z]) ->
            [running[z] EXCEPT !.last = now]
       [] OTHER -> running[z]]

\* The clocks of v after the detection.
ZoneClocks(v, zone, running) ==
  LET prev == currentZone[camera][v]
  IN  [z \in Zones |->
         CASE zone = prev ->
                IF z = zone /\ TickDue(running[z])
                THEN [running[z] EXCEPT !.last = now] ELSE running[z]
           [] zone # prev /\ z = prev -> Away
           [] zone # prev /\ z = zone /\ running[z] = Away -> [enter |-> now, last |-> now]
           [] OTHER -> running[z]]

\* Mutated ExitCount: the exit is not recorded on the passport.
ExitUncounted(v, crossing) == exitCount[v]

\* mark_exited
ExitCount(v, crossing) ==
  IF crossing = "EXIT" THEN exitCount[v] + 1 ELSE exitCount[v]

\* In the queue zone of the billing camera, and not staff.
InQueue(d) == camera = BillingCamera /\ d.zone = QueueZone /\ ~d.staff

-----------------------------------------------------------------------------

\* process_frame is called with a frame that shows the detections ds.
NewFrame(ds) ==
  /\ ~inFrame
  /\ camera \notin ended
  /\ inFrame' = TRUE
  /\ todo' = ds
  /\ billingPresent' = << >>
  /\ UNCHANGED <<now, turn, ended, zoneVars, exitCount, staff, lineVars, queueVars>>

StartFrame(ds) == NewFrame(ds) /\ UNCHANGED outbox

\* What the loop does with the detection d. A visitor with two tracks in one
\* frame is in billing_present twice; the second time changes nothing.
See(d) ==
  LET v        == TrackOwner[d.track]
      atLine   == camera = EntryCamera
      crossing == IF atLine THEN Crossing(d.track, d.side) ELSE "none"
      running  == ClocksAfterCrossing(v, crossing)
  IN  /\ IF atLine THEN UpdateLine(d.track, d.side) ELSE UNCHANGED lineVars
      /\ staff' = [staff EXCEPT ![v] = d.staff]
      /\ outbox' = outbox \o CrossingEvents(v, crossing, d.staff)
                          \o ZoneEvents(v, d.zone, running, d.staff)
      /\ exitCount' = [exitCount EXCEPT ![v] = ExitCount(v, crossing)]
      /\ clocks' = [clocks EXCEPT ![camera][v] = ZoneClocks(v, d.zone, running)]
      /\ currentZone' = [currentZone EXCEPT ![camera][v] = d.zone]
      /\ billingPresent' = IF InQueue(d) /\ v \notin ToSet(billingPresent)
                           THEN Append(billingPresent, v) ELSE billingPresent

\* The body of the loop over the detections, for the next of them.
NextDetection ==
  /\ inFrame
  /\ todo # << >>
  /\ todo' = Tail(todo)
  /\ UNCHANGED <<now, turn, inFrame, ended, queueVars>>

Detect == NextDetection /\ See(Head(todo))

\* The loop of run_pipeline goes on to the next camera, or the next round.
NextCamera ==
  /\ turn' = IF turn = Len(CameraOrder) THEN 1 ELSE turn + 1
  /\ now'  = IF turn = Len(CameraOrder) THEN now + 1 ELSE now

\* The events of QueueTracker.update; the emitter writes "ZONE_BILLING_QUEUE" in
\* both kinds, whatever the zone is called.
QueueEvents ==
  LET joins    == Joins(billingPresent)
      watched  == Watched(billingPresent, now)
      abandons == SetToSeq(AgedOut(watched, now))
  IN  [i \in DOMAIN joins |->
         StoreEvent("BILLING_QUEUE_JOIN", joins[i].visitor, BillingQueue, 0, FALSE)]
      \o
      [i \in DOMAIN abandons |->
         StoreEvent("BILLING_QUEUE_ABANDON", abandons[i], BillingQueue,
                    watched[abandons[i]].exit - watched[abandons[i]].enter, FALSE)]

\* The rest of process_frame: the queue tracker of the billing camera.
EndFrame ==
  /\ inFrame
  /\ todo = << >>
  /\ inFrame' = FALSE
  /\ IF camera = BillingCamera
     THEN UpdateQueue(billingPresent, now) /\ outbox' = outbox \o QueueEvents
     ELSE UNCHANGED <<queueVars, outbox>>
  /\ NextCamera
  /\ UNCHANGED <<todo, billingPresent, ended, zoneVars, exitCount, staff, lineVars>>

\* Mutated FlushEvents: the zones are forgotten.
FlushNothing == << >>

\* One ZONE_EXIT for every visitor the camera holds to be in a zone.
FlushEvents ==
  LET inside == SetToSeq({v \in Visitors : currentZone[camera][v] # NoZone})
  IN  [i \in DOMAIN inside |->
         LET v == inside[i]
             z == currentZone[camera][v]
         IN  StoreEvent("ZONE_EXIT", v, z, DwellSince(clocks[camera][v][z]), staff[v])]

\* The video of a camera is over: its queue tracker is not called again.
EndVideo ==
  /\ ~inFrame
  /\ camera \notin ended
  /\ outbox' = outbox \o FlushEvents
  /\ clocks' = [clocks EXCEPT ![camera] =
       [v \in Visitors |-> [z \in Zones |->
          IF z = currentZone[camera][v] THEN Away ELSE clocks[camera][v][z]]]]
  /\ currentZone' = [currentZone EXCEPT ![camera] = [v \in Visitors |-> NoZone]]
  /\ ended' = ended \cup {camera}
  /\ NextCamera
  /\ UNCHANGED <<inFrame, todo, billingPresent, exitCount, staff, lineVars, queueVars>>

\* A camera whose video is over has no part in the round.
SkipEnded ==
  /\ ~inFrame
  /\ camera \in ended
  /\ ended # Cameras
  /\ NextCamera
  /\ UNCHANGED <<inFrame, todo, billingPresent, ended, zoneVars, exitCount, staff,
                 outbox, lineVars, queueVars>>

=============================================================================
