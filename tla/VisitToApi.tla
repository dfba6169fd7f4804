----------------------------- MODULE VisitToApi -----------------------------
(***************************************************************************)
(* From the shop floor to the sessions: visitors walk through the store,   *)
(* the cameras see them or miss them (Camera), and the sessionizer of the  *)
(* API processes the events of events.jsonl in the order of the file       *)
(* (Sessionizer).  The event ids are fresh and nothing is resent, so that  *)
(* the ingest pipeline accepts every event; a replay of the file delivers  *)
(* the same events in the same order, their times never decrease.          *)
(*                                                                         *)
(* The views of the cameras may overlap: a visitor may be in the frames of *)
(* several.  A visitor whom two neighbouring cameras follow has a passport *)
(* of each (IdentityManager); which of them an exit is counted on, and     *)
(* asked for, is left open.                                                *)
(*                                                                         *)
(* place is where a visitor stands; noticed, spent, met, crossed, exits,   *)
(* left and late are history.                                              *)
(***************************************************************************)
EXTENDS Sessionizer, SequencesExt

CONSTANTS
  Tracks, MinCrossFrames, MinQueueDwell, PosWindow, Away,
  CameraOrder, EntryCamera, BillingCamera, QueueZone, TrackOwner, DwellInterval,
  Places,          \* where a visitor may stand
  View,            \* what a camera sees of a place: a zone and a side, or Hidden
  Hidden,
  Adjacent,        \* pairs of overlapping cameras, CAMERA_ADJACENCY
  Paths,           \* the pairs of neighbouring places
  Outside,         \* the place where everybody begins
  Missable,        \* the visitors a frame may miss
  StaffFlags,      \* the answers of the staff classifier
  Store,           \* the store_id of the pipeline
  MaxTime          \* bound on the number of rounds

VARIABLES
  side, counter, inZone, exited, now, turn, inFrame, todo, billingPresent,
  currentZone, clocks, exitCount, staff, ended, outbox,
  place,           \* where each visitor stands
  noticed,         \* the cameras that detected a visitor since the visitor came
                   \* to the place
  spent,           \* rounds of the video of a camera that a visitor has spent in
                   \* a zone since the camera noticed it
  met,             \* the cameras that ever detected a visitor
  crossed,         \* the crossing the entry camera reported last
  exits,           \* the visitors whose EXIT was ever reported
  left,            \* those who are outside since their latest EXIT
  late             \* those in the queue whose ENTRY was reported after they joined

C == INSTANCE Camera

Shot == [zone : Zones \cup {NoZone}, side : C!Side]

\* At place p camera c has a visitor in zone z.
InZone(p, c, z) == View[p][c] # Hidden /\ View[p][c].zone = z

\* Place p is outside for the entry camera.
AtDoor(p) == View[p][EntryCamera] # Hidden /\ View[p][EntryCamera].side = "outside"

\* Place p is in the queue zone of the billing camera.
AtQueue(p) == InZone(p, BillingCamera, QueueZone)

ASSUME VisitAssumption ==
  /\ CameraOrder \in Seq(C!Cameras)
  /\ {EntryCamera, BillingCamera} \subseteq C!Cameras
  /\ EntryCamera # BillingCamera
  /\ QueueZone \in Zones
  /\ TrackOwner \in [Tracks -> Visitors]
  /\ Outside \in Places
  /\ Paths \subseteq Places \X Places
  /\ View \in [Places -> [C!Cameras -> Shot \cup {Hidden}]]
  /\ Hidden \notin Shot
  /\ \A p \in Places : ~(AtDoor(p) /\ AtQueue(p))    \* nobody queues outside
  /\ IsFiniteSet(Visitors) /\ IsFiniteSet(Zones)
  /\ StaffFlags \subseteq BOOLEAN
  /\ Away \notin Nat \cup C!Clock \cup C!Stay
  /\ {MinCrossFrames, DwellInterval} \subseteq Nat \ {0}
  /\ {MinQueueDwell, PosWindow} \subseteq Nat
  /\ Store \in Stores

\* The cameras' own state, everything but the file they write.
cameraOnlyVars ==
  <<side, counter, inZone, exited, now, turn, inFrame, todo, billingPresent,
    currentZone, clocks, exitCount, staff, ended>>

walkVars == <<place, noticed, spent, met, crossed, exits, left, late>>
allVars  == <<sessionVars, cameraOnlyVars, outbox, walkVars>>

VisitInit ==
  /\ SessionInit
  /\ C!CameraInit
  /\ place = [v \in Visitors |-> Outside]
  /\ noticed = {}
  /\ spent = [c \in C!Cameras |-> [v \in Visitors |-> [z \in Zones |-> 0]]]
  /\ met = {}
  /\ crossed = [v \in Visitors |-> "none"]
  /\ exits = {}
  /\ left = {}
  /\ late = {}

-----------------------------------------------------------------------------

\* Before the first camera of a round every visitor stays or takes a step.
Walks ==
  IF turn # 1 THEN {place}
  ELSE {w \in [Visitors -> Places] :
          \A v \in Visitors : w[v] = place[v] \/ <<place[v], w[v]>> \in Paths}

\* The frames of the camera when the visitors stand as in w: it may miss some.
Sightings(w) ==
  LET view(v) == View[w[v]][C!camera]
      inView == {v \in Visitors : view(v) # Hidden}
      seen   == {S \in SUBSET inView : inView \ S \subseteq Missable}
      shown  == {D \in UNION {[S -> C!Detection] : S \in seen} :
                   \A v \in DOMAIN D :
                     /\ TrackOwner[D[v].track] = v
                     /\ D[v].zone = view(v).zone
                     /\ D[v].side = view(v).side
                     /\ D[v].staff \in StaffFlags}
  IN  {SetToSeq({D[v] : v \in DOMAIN D}) : D \in shown}

\* A round begins or goes on: the visitors walk and the next camera has its
\* frame.
Frame ==
  /\ outbox = << >>
  /\ now < MaxTime
  /\ \E w \in Walks : \E ds \in Sightings(w) :
       /\ C!StartFrame(ds)
       /\ place' = w
       /\ noticed' = {n \in noticed : w[n[2]] = place[n[2]]}
                      \cup {<<C!camera, TrackOwner[d.track]>> : d \in ToSet(ds)}
       /\ left' = {v \in left : AtDoor(w[v])}
       /\ spent' = [c \in C!Cameras |-> [v \in Visitors |-> [z \in Zones |->
            IF /\ turn = 1
               /\ <<c, v>> \in noticed
               /\ w[v] = place[v]
               /\ InZone(w[v], c, z)
               /\ c \notin ended
            THEN spent[c][v][z] + 1 ELSE spent[c][v][z]]]]
  /\ UNCHANGED <<sessionVars, met, crossed, exits, late>>

\* Those with passports of two cameras.
Shared ==
  {v \in Visitors : \E c, d \in C!Cameras :
     /\ <<c, d>> \in Adjacent
     /\ <<c, v>> \in met
     /\ <<d, v>> \in met}

\* get_passport finds another passport than the last time: one with an exit, or
\* one without.
OtherPassport ==
  /\ inFrame
  /\ todo # << >>
  /\ C!camera = EntryCamera
  /\ LET v == TrackOwner[Head(todo).track]
     IN  /\ v \in Shared \cap exits
         /\ exitCount' = [exitCount EXCEPT ![v] = IF @ = 0 THEN 1 ELSE 0]
  /\ UNCHANGED <<sessionVars, side, counter, inZone, exited, now, turn, inFrame, todo,
                 billingPresent, currentZone, clocks, staff, ended, outbox, walkVars>>

Detect ==
  /\ C!Detect
  /\ LET d == Head(todo)
         c == IF C!camera = EntryCamera THEN C!Crossing(d.track, d.side) ELSE "none"
         v == TrackOwner[d.track]
         gone == IF c = "EXIT" THEN {v} ELSE {}
     IN  /\ crossed' = [crossed EXCEPT ![v] = IF c = "none" THEN @ ELSE c]
         /\ met' = met \cup {<<C!camera, v>>}
         /\ exits' = exits \cup gone
         /\ left' = left \cup gone
         /\ late' = IF c = "ENTRY" /\ exitCount[v] = 0 /\ inZone[v] # Away
                    THEN late \cup {v} ELSE late
  /\ UNCHANGED <<sessionVars, place, noticed, spent>>

EndFrame ==
  /\ C!EndFrame
  /\ late' = {v \in late : inZone'[v] # Away}
  /\ UNCHANGED <<sessionVars, place, noticed, spent, met, crossed, exits, left>>

EndVideo ==
  /\ outbox = << >>
  /\ C!EndVideo
  /\ UNCHANGED <<sessionVars, walkVars>>

SkipEnded ==
  /\ now < MaxTime
  /\ C!SkipEnded
  /\ UNCHANGED <<sessionVars, walkVars>>

\* The next line of events.jsonl reaches the sessionizer.
Deliver ==
  /\ ~inFrame
  /\ outbox # << >>
  /\ LET e == Head(outbox)
     IN  ProcessEvent([id |-> 0, store |-> Store, type |-> e.type, visitor |-> e.visitor,
                       time |-> e.time, zone |-> e.zone, dwell |-> e.dwell,
                       staff |-> e.staff])
  /\ outbox' = Tail(outbox)
  /\ UNCHANGED <<cameraOnlyVars, walkVars>>

VisitNext ==
  \/ Frame
  \/ OtherPassport
  \/ Detect
  \/ EndFrame
  \/ EndVideo
  \/ SkipEnded
  \/ Deliver

VisitSpec == VisitInit /\ [][VisitNext]_allVars

-----------------------------------------------------------------------------
(***************************************************************************)
(* Properties                                                              *)
(***************************************************************************)

\* The API has all events of the cameras.
Delivered == outbox = << >> /\ ~inFrame

\* At most one dwell clock of a visitor runs per camera, and it is that of the
\* zone the camera holds the visitor to be in: no clock outlives the stay.
ClockMatchesZone ==
  \A c \in C!Cameras, v \in Visitors, z \in Zones :
    clocks[c][v][z] # Away => currentZone[c][v] = z

\* A visitor who crossed the line inwards has an open session at the API,
\* whatever the zone and queue events around the crossing did: no later event
\* than the EXIT closes it.
InsideHasSession ==
  Delivered => \A v \in Visitors : crossed[v] = "ENTRY" => active[v] # None

\* After a round, a visitor in the billing queue has an open session at the API, and
\* it is marked as a purchase candidate, whatever crossings and zone events came
\* between, but for one case: an ENTRY reported after the visitor had joined, when
\* views overlap, replaces the session that has the JOIN (sessionizer.py 220-232),
\* no other JOIN follows during the stay, and the visitor queues as no candidate.
\* models.py:209 has it otherwise: "True if a BILLING_QUEUE_JOIN was ever recorded".
QueueingIsCandidate ==
  (Delivered /\ turn = 1 /\ BillingCamera \notin ended) => \A v \in Visitors :
    inZone[v] # Away =>
      /\ active[v] # None
      /\ sessions[active[v]].candidate <=> v \notin late

\* The dwell time of visitor v in zone z over all sessions.
ApiDwell(v, z) == SumOver(DwellIn(z), SessionsOf(v))

\* No time in a zone of a camera away from the doorway is lost between the camera
\* and the API: it is on the sessions, or on the running clock of the camera.
NoDwellLost ==
  Delivered => \A c \in C!Cameras \ {EntryCamera}, v \in Visitors, z \in Zones :
    ApiDwell(v, z) + C!DwellSince(clocks[c][v][z]) >= spent[c][v][z]

\* Of the visitors inside, the API holds only those to have re-entered who were
\* reported to leave before, and all of them but those with passports of two
\* cameras: no EXIT is forgotten between the passport of the identity layer and
\* the ledger of the API, and none is invented.
ReentriesFollowExits ==
  Delivered => \A v \in Visitors : crossed[v] = "ENTRY" =>
    /\ reentryCounts[v] > 0 => v \in exits
    /\ v \in exits => reentryCounts[v] > 0 \/ v \in Shared

\* An open session of a visitor who is outside since the EXIT was opened by a
\* late event of a camera, and is never a purchase candidate: a late ABANDON
\* or a ZONE_EXIT does not make the visitor a customer who queues.
LeftoverNoCandidate ==
  Delivered => \A v \in Visitors :
    (v \in left /\ active[v] # None) => ~sessions[active[v]].candidate

\* Where the cameras have a visitor and what the API holds of the visitor
\* agree: inside, in the queue and after the EXIT.
VisitMatchesSession == InsideHasSession /\ QueueingIsCandidate /\ LeftoverNoCandidate

=============================================================================
