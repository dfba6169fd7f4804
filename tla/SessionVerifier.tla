-------------------------- MODULE SessionVerifier --------------------------
(***************************************************************************)
(* app/verifier.py: the VerifierEngine, called with every event the        *)
(* Sessionizer has handled and with the sessions of every store after      *)
(* every request.                                                          *)
(*                                                                         *)
(* Confidences are percentages, times seconds.                             *)
(***************************************************************************)
EXTENDS EventDetail, Ranks

CONSTANTS
  CamNumber,        \* _cam_number, 0 when there is none: 0 is falsy as well
  EntryCameras,     \* the cameras with a prefix of ENTRY_CAMERA_PREFIXES
  StaffMin,         \* events in the window before the staff are counted, 10
  WarningCap,       \* the warnings kept, 1000
  NoSight           \* a visitor the verifier has not seen

ConfidenceCliff == 40
MinReentryGap   == 10
StaffWindow     == 300

VARIABLES
  lastSight,        \* _last_camera and _last_conf, which change together
  lastExit,         \* _last_exit
  staffBuckets,     \* _staff_buckets
  warnings          \* _warnings

verifierVars == <<lastSight, lastExit, staffBuckets, warnings>>

VerifierInit ==
  /\ lastSight = [v \in Visitors |-> NoSight]
  /\ lastExit = [v \in Visitors |-> NoTime]
  /\ staffBuckets = [s \in Stores |-> << >>]
  /\ warnings = << >>

\* The warning w when p holds.
When(p, w) == IF p THEN <<w>> ELSE << >>

Warning(code, e) ==
  [code |-> code, store |-> e.store, time |-> e.time, visitors |-> {e.visitor}]

-----------------------------------------------------------------------------

\* _check_queue_depth
NegativeDepth(e) == Detail[e.id].depth # NoValue /\ Detail[e.id].depth < 0

\* _check_confidence_cliff, after the event `sight`
ConfidenceDropped(sight, e) ==
  sight # NoSight /\ sight.conf - Detail[e.id].conf > ConfidenceCliff

Distance(a, b) == IF a > b THEN a - b ELSE b - a

Hops(from, to) ==
  IF CamNumber[from] = 0 \/ CamNumber[to] = 0 THEN 1
  ELSE Distance(CamNumber[from], CamNumber[to])

\* _check_camera_transition: one and a half hops per second, and one at least.
CameraJumped(sight, e) ==
  /\ sight # NoSight
  /\ sight.camera # Detail[e.id].camera
  /\ e.time > sight.time
  /\ LET hops == Hops(sight.camera, Detail[e.id].camera)
     IN  2 * hops > 3 * (e.time - sight.time) /\ hops > 1

\* _check_entry_camera
EntryElsewhere(e) == e.type = "ENTRY" /\ Detail[e.id].camera \notin EntryCameras

\* _check_reentry_speed, after the exit at time `exit`
ReentryTooFast(exit, e) ==
  /\ e.type = "REENTRY"
  /\ exit # NoTime
  /\ e.time > exit
  /\ e.time - exit < MinReentryGap

\* _check_staff_explosion: more than half of the bucket.
StaffExploded(bucket) ==
  /\ Len(bucket) >= StaffMin
  /\ 2 * Cardinality({i \in DOMAIN bucket : bucket[i].staff}) > Len(bucket)

\* The bucket of e's store with e in it, without what lies five minutes before e.
BucketWith(e) ==
  LET bucket == Append(staffBuckets[e.store], [staff |-> e.staff, time |-> e.time])
  IN  Picked(bucket, {i \in DOMAIN bucket : bucket[i].time > e.time - StaffWindow})

\* The checks of verify_event, in order.
WarningsOf(e, sight, exit, bucket) ==
  When(NegativeDepth(e), Warning("QUEUE_DEPTH_NEGATIVE", e))
  \o When(ConfidenceDropped(sight, e), Warning("CONFIDENCE_CLIFF", e))
  \o When(CameraJumped(sight, e), Warning("IMPOSSIBLE_CAMERA_TRANSITION", e))
  \o When(EntryElsewhere(e), Warning("ENTRY_WITHOUT_DOORWAY", e))
  \o When(ReentryTooFast(exit, e), Warning("REENTRY_TOO_FAST", e))
  \o When(StaffExploded(bucket),
          [Warning("STAFF_COUNT_EXPLOSION", e) EXCEPT !.visitors = {}])

RaisedBy(e) == WarningsOf(e, lastSight[e.visitor], lastExit[e.visitor], BucketWith(e))

\* _emit_all: the newest warnings are kept.
Capped(ws) ==
  IF Len(ws) <= WarningCap THEN ws ELSE SubSeq(ws, Len(ws) - WarningCap + 1, Len(ws))

\* The state verify_event keeps of e for the events after it.
Remember(e) ==
  /\ lastSight' = [lastSight EXCEPT ![e.visitor] =
       [camera |-> Detail[e.id].camera, time |-> e.time, conf |-> Detail[e.id].conf]]
  /\ lastExit' = IF e.type = "EXIT" THEN [lastExit EXCEPT ![e.visitor] = e.time]
                                    ELSE lastExit
  /\ staffBuckets' = [staffBuckets EXCEPT ![e.store] = BucketWith(e)]

\* verify_active_sessions over the sessions ss, for every store after a request.
DuplicateSessions(ss) ==
  LET open(s, v) == {i \in DOMAIN ss : ss[i].visitor = v /\ ss[i].store = s /\ IsOpen(ss[i])}
      twice == SetToSeq({p \in Stores \X Visitors : \E i, j \in open(p[1], p[2]) : i # j})
  IN  [k \in DOMAIN twice |->
         [code |-> "DUPLICATE_ACTIVE_SESSION", store |-> twice[k][1], time |-> NoTime,
          visitors |-> {twice[k][2]}]]

\* Mutated VerifierClear: the exits are not forgotten.
ClearKeepsExits ==
  /\ lastSight' = [v \in Visitors |-> NoSight]
  /\ staffBuckets' = [s \in Stores |-> << >>]
  /\ warnings' = << >>
  /\ UNCHANGED lastExit

\* clear
VerifierClear ==
  /\ lastSight' = [v \in Visitors |-> NoSight]
  /\ lastExit' = [v \in Visitors |-> NoTime]
  /\ staffBuckets' = [s \in Stores |-> << >>]
  /\ warnings' = << >>

=============================================================================
