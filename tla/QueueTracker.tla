---------------------------- MODULE QueueTracker ----------------------------
(***************************************************************************)
(* pipeline/billing_queue.py: QueueTracker, the visitors in the queue zone *)
(* of the billing camera and those who left it and may have abandoned.     *)
(*                                                                         *)
(* `present` is the list of visitors in the zone in one frame; its caller, *)
(* CameraProcessor.process_frame, never puts staff on it (detect.py 606),  *)
(* so that the branches of update for staff are not reached.  _purchased   *)
(* is filled by mark_purchased alone, which nothing calls: it stays empty  *)
(* and is left out.                                                        *)
(***************************************************************************)
EXTENDS Integers, Sequences, FiniteSets, SequencesExt

CONSTANTS
  Visitors,        \* visitor ids
  MinQueueDwell,   \* MIN_QUEUE_DWELL_SEC, 5 s in the code
  PosWindow,       \* POS_CORRELATION_WINDOW_SEC, 45 s in the code
  Away             \* not in the dictionary

ASSUME QueueAssumption ==
  /\ MinQueueDwell \in Nat
  /\ PosWindow \in Nat
  /\ Away \notin Nat
  /\ Away \notin [enter : Nat, exit : Nat]

VARIABLES
  inZone,          \* _in_zone: the enter_time of a visitor in the zone, or Away
  exited           \* _exited: enter_time and exit_time of a visitor who left

queueVars == <<inZone, exited>>

Stay == [enter : Nat, exit : Nat]

QueueInit ==
  /\ inZone = [v \in Visitors |-> Away]
  /\ exited = [v \in Visitors |-> Away]

\* The queue depth: all visitors in the zone.
CurrentQueueDepth == Cardinality({v \in Visitors : inZone[v] # Away})

\* The JOINs of a frame, in the order of the detections, each with the depth
\* found when it is the arrival's turn.
Joins(present) ==
  LET joins[i \in 0 .. Len(present)] ==
        IF i = 0 THEN << >>
        ELSE IF inZone[present[i]] # Away THEN joins[i - 1]
        ELSE Append(joins[i - 1], [visitor |-> present[i],
                                   depth |-> CurrentQueueDepth + Len(joins[i - 1])])
  IN  joins[Len(present)]

Departed(present) ==
  {v \in Visitors \ ToSet(present) : inZone[v] # Away}

\* _exited after the departures of a frame: those who stayed long enough are
\* watched for a purchase. A second departure replaces the first.
Watched(present, time) ==
  [v \in Visitors |->
     IF v \in Departed(present) /\ time - inZone[v] >= MinQueueDwell
     THEN [enter |-> inZone[v], exit |-> time] ELSE exited[v]]

\* The candidates whose window has passed: each gets a BILLING_QUEUE_ABANDON.
AgedOut(watched, time) ==
  {v \in Visitors : watched[v] # Away /\ time - watched[v].exit >= PosWindow}

\* Mutated UpdateQueue: a flagged candidate is kept.
UpdateKeepsAged(present, time) ==
  /\ inZone' = [v \in Visitors |->
       IF v \notin ToSet(present) THEN Away
       ELSE IF inZone[v] = Away THEN time ELSE inZone[v]]
  /\ exited' = Watched(present, time)

\* Mutated UpdateQueue: the enter time of a visitor follows the frames.
UpdateRestartsStay(present, time) ==
  /\ inZone' = [v \in Visitors |-> IF v \in ToSet(present) THEN time ELSE Away]
  /\ exited' = LET watched == Watched(present, time) IN
       [v \in Visitors |->
          IF v \in AgedOut(watched, time) THEN Away ELSE watched[v]]

\* update
UpdateQueue(present, time) ==
  LET watched == Watched(present, time)
  IN  /\ inZone' = [v \in Visitors |->
           IF v \notin ToSet(present) THEN Away
           ELSE IF inZone[v] = Away THEN time ELSE inZone[v]]
      /\ exited' = [v \in Visitors |->
           IF v \in AgedOut(watched, time) THEN Away ELSE watched[v]]

=============================================================================
