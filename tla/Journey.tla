------------------------------ MODULE Journey ------------------------------
(***************************************************************************)
(* The judgement the cameras pass on a visitor: the frame loop of Camera   *)
(* with the staff classifier, which every sighting feeds and which decides *)
(* who counts as a customer in the queue, and with the behaviour state     *)
(* machine, which follows the events of all cameras.  One track of the     *)
(* entry camera per visitor; a visitor may be in view of several cameras.  *)
(*                                                                         *)
(* place is where a visitor stands and recent and reported observe the     *)
(* entry line (LineCrossing). The file of events is not kept: what the     *)
(* cameras write in a step is in outbox until the next frame begins.       *)
(***************************************************************************)
EXTENDS Camera, LineCrossing, Behavior, StaffClassifier

CONSTANTS
  Role,            \* the role of the shape of a zone in the calibration
  ClothingEvery,   \* frames between two looks at the clothes, 15 in the code
  Places,          \* where a visitor may stand
  View,            \* what a camera sees of a place: a zone and a side, or Hidden
  Hidden,
  Paths,           \* the pairs of neighbouring places
  Outside,         \* the place where everybody begins
  MaxTime          \* bound on the number of rounds

ASSUME JourneyAssumption ==
  /\ Role \in [Zones -> {"zone", "queue_area", "billing_counter", "staff_area"}]
  /\ \A z \in Zones : Role[z] = "queue_area" => z = QueueZone
  /\ ClothingEvery \in Nat \ {0}
  /\ Outside \in Places
  /\ Paths \subseteq Places \X Places
  /\ \A v \in Visitors : \E t \in Tracks : {u \in Tracks : TrackOwner[u] = v} = {t}
  /\ TrackOwner \in [Tracks -> Visitors]
  /\ IsFiniteSet(Visitors) /\ IsFiniteSet(Zones)
  /\ CameraOrder \in Seq(Cameras) /\ CameraOrder # << >>
  /\ View \in [Places -> [Cameras -> [zone : Zones \cup {NoZone}, side : Side] \cup {Hidden}]]
  /\ Hidden \notin [zone : Zones \cup {NoZone}, side : Side]
  /\ NoZone \notin Zones
  /\ Away \notin Clock

VARIABLES
  behavior,        \* BehaviorStateMachine._states
  profile,         \* the dictionaries of StaffBehaviourTracker
  place            \* where each visitor stands

journeyVars == <<cameraVars, recent, reported, behavior, profile, place>>

JourneyInit ==
  /\ CameraInit
  /\ CrossInit
  /\ behavior = [v \in Visitors |-> "UNKNOWN"]
  /\ profile = [v \in Visitors |-> Nobody]
  /\ place = [v \in Visitors |-> Outside]

-----------------------------------------------------------------------------

\* The zones whose occupants are taken for staff (staff.py 146). The queue zone is
\* one of them when its shape has the id of the queue and the role billing_counter.
StaffZones == {z \in Zones : Role[z] \in {"billing_counter", "staff_area"}}

\* Before the first camera of a round every visitor stays or takes a step.
Walks ==
  IF turn # 1 THEN {place}
  ELSE {w \in [Visitors -> Places] :
          \A v \in Visitors : w[v] = place[v] \/ <<place[v], w[v]>> \in Paths}

\* The frames of the camera when the visitors stand as in w: any of them may be
\* missed. The classification is made later, in Judged.
Frames(w) ==
  LET inView == {v \in Visitors : View[w[v]][camera] # Hidden}
      shown(v) == [track |-> CHOOSE t \in Tracks : TrackOwner[t] = v,
                   zone  |-> View[w[v]][camera].zone,
                   side  |-> View[w[v]][camera].side,
                   staff |-> staff[v]]
  IN  {SetToSeq({shown(v) : v \in S}) : S \in SUBSET inView}

BeginFrame ==
  /\ now < MaxTime
  /\ \E w \in Walks : \E ds \in Frames(w) : NewFrame(ds) /\ place' = w
  /\ outbox' = << >>
  /\ UNCHANGED <<recent, reported, behavior, profile>>

\* The clothes are looked at when the visitor is new and in every
\* ClothingEvery-th frame of the camera.
ClothesLookedAt(v) == profile[v].frames = 0 \/ now % ClothingEvery = 0

\* The profiles the sighting d may leave.
Judged(d) ==
  LET v     == TrackOwner[d.track]
      looks == IF ClothesLookedAt(v) THEN {<<c>> : c \in Clothing} ELSE {<< >>}
  IN  {Observed(profile[v], camera, {d.zone} \ {NoZone}, d.zone \in StaffZones, look) :
         look \in looks}

\* The calls of BehaviorStateMachine.update for a detection: EXIT comes before
\* the zones it ends, whose events are written first.
BehaviorEvents(d, isStaff) ==
  LET v        == TrackOwner[d.track]
      crossing == IF camera = EntryCamera THEN Crossing(d.track, d.side) ELSE "none"
      passed   == CrossingEvents(v, crossing, isStaff)
      line     == CASE crossing = "ENTRY" -> << StoreEvent("ENTRY", v, NoZone, 0, isStaff) >>
                    [] crossing = "EXIT"  -> <<Last(passed)>> \o Front(passed)
                    [] OTHER              -> << >>
  IN  line \o ZoneEvents(v, d.zone, ClocksAfterCrossing(v, crossing), isStaff)

\* The body of the loop over the detections: classification, crossing, zones
\* and queue, with the behaviour told of every event.
JudgeNext ==
  /\ NextDetection
  /\ LET d == Head(todo)
         v == TrackOwner[d.track]
         c == IF camera = EntryCamera THEN Crossing(d.track, d.side) ELSE "none"
     IN  /\ \E p \in Judged(d) :
              /\ profile' = [profile EXCEPT ![v] = p]
              /\ See([d EXCEPT !.staff = IsStaff(p)])
              /\ behavior' = [behavior EXCEPT ![v] = Updated(v, @, BehaviorEvents(d, IsStaff(p)))]
         /\ IF camera = EntryCamera
            THEN /\ recent' = [recent EXCEPT ![d.track] = Remember(@, d.side)]
                 /\ reported' = [reported EXCEPT ![d.track] = IF c = "none" THEN @ ELSE c]
            ELSE UNCHANGED <<recent, reported>>
  /\ UNCHANGED place

\* The rest of process_frame; the queue events of each visitor reach its
\* behaviour in the order they are written.
CloseFrame ==
  /\ EndFrame
  /\ behavior' = IF camera # BillingCamera THEN behavior
       ELSE [v \in Visitors |-> Updated(v, behavior[v], QueueEvents)]
  /\ UNCHANGED <<recent, reported, profile, place>>

\* The video of a camera is over. The ZONE_EXITs of the flush are not told to
\* the behaviour.
FlushVideo ==
  /\ EndVideo
  /\ UNCHANGED <<recent, reported, behavior, profile, place>>

SkipCamera ==
  /\ now < MaxTime
  /\ SkipEnded
  /\ UNCHANGED <<recent, reported, behavior, profile, place>>

JourneyNext ==
  \/ BeginFrame
  \/ JudgeNext
  \/ CloseFrame
  \/ FlushVideo
  \/ SkipCamera

JourneySpec == JourneyInit /\ [][JourneyNext]_journeyVars

-----------------------------------------------------------------------------
(***************************************************************************)
(* Properties                                                              *)
(***************************************************************************)

JourneyTypeOK ==
  /\ behavior \in [Visitors -> BehaviorState]
  /\ \A v \in Visitors :
       /\ profile[v].scores \in Seq(Clothing)
       /\ Len(profile[v].scores) <= ScoreWindow
       /\ profile[v].cameras \subseteq Cameras
       /\ profile[v].zones \subseteq Zones
  /\ staff \in [Visitors -> BOOLEAN]

\* The behaviour state of a visitor is EXITED from the EXIT at the line to the
\* next ENTRY: the zone and queue events that other cameras and the abandonment
\* window bring later never move a visitor who has left.
ExitedSinceExit ==
  \A t \in Tracks : behavior[TrackOwner[t]] = "EXITED" <=> reported[t] = "EXIT"

\* A visitor is DWELLING only while a camera has had the visitor in one zone for
\* MinBrowseDwell: what another camera sees of the visitor, a crossing or the
\* queue, does not leave the state behind. The end of a video does, as its flush
\* bypasses the state machine (detect.py 1029).
DwellingInZone ==
  ended = {} => \A v \in Visitors : behavior[v] = "DWELLING" =>
    \E c \in Cameras : LET z == currentZone[c][v] IN
      z # NoZone /\ clocks[c][v][z] # Away /\ now - clocks[c][v][z].enter >= MinBrowseDwell

\* After every frame of the billing camera the queue holds nobody who has been
\* classified as staff, although the classification changes while they wait.
StaffLeaveQueue ==
  LET latest == CameraOrder[IF turn = 1 THEN Len(CameraOrder) ELSE turn - 1]
  IN  (~inFrame /\ latest = BillingCamera /\ BillingCamera \notin ended) =>
        \A v \in Visitors : inZone[v] # Away => ~staff[v]

\* A score at which the longest presence in the most zones and cameras reaches
\* the threshold.
DarkEnough(c) ==
  \/ c >= BlackShare
  \/ Weight.black * c + 100 * (Weight.presence + Weight.zones + Weight.cameras)
       >= 100 * Threshold

\* FewFrames sightings and dark clothes in a quarter of the looks kept.
ClothesOfStaff(p) ==
  /\ p.frames >= FewFrames
  /\ p.scores # << >>
  /\ 4 * Cardinality({i \in DOMAIN p.scores : DarkEnough(p.scores[i])}) >= Len(p.scores)

\* Nobody becomes staff by behaviour alone: outside the counters and staff areas
\* it takes the clothes (staff.py 170-205).
StaffShowEvidence ==
  \A v \in Visitors : (staff[v] /\ ~profile[v].area) => ClothesOfStaff(profile[v])

\* The behaviour state follows the reported crossings and the zones of all
\* cameras, in whatever order their events fall.
BehaviorFollowsVisitor == ExitedSinceExit /\ DwellingInZone

\* Who was seen in a zone with the role billing_counter or staff_area is staff in
\* every later event, whatever is worn: the verdict never goes back to customer.
\* That is what staff.py:139 says; for the counter CALIBRATION.md says otherwise,
\* see CounterIsForCustomers.
AreaIsStaff == \A v \in Visitors : profile[v].area => staff[v]

\* The verdict on a visitor rests on evidence, and the queue follows it.
StaffVerdictSound ==
  JourneyTypeOK /\ StaffLeaveQueue /\ StaffShowEvidence /\ AreaIsStaff

\* What CALIBRATION.md:55 and 56 say of the roles: billing_counter, like queue_area,
\* is "the billing queue boundary" whose "non-staff visitors" are counted, and it is
\* in a staff_area that visitors are "unconditionally classified as staff". Whoever
\* is not dressed as staff and was in no staff_area is a customer, then.
CounterIsForCustomers ==
  \A v \in Visitors : staff[v] =>
    \/ ClothesOfStaff(profile[v])
    \/ \E z \in profile[v].zones : Role[z] = "staff_area"

=============================================================================
