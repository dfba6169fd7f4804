-------------------------- MODULE MCObservedIngest --------------------------
(***************************************************************************)
(* A day at one door and one floor: a visitor who enters, leaves and comes *)
(* back within seconds, is taken for staff, and is seen at a camera too    *)
(* far away; a late event of another store; a queue depth below zero.      *)
(***************************************************************************)
EXTENDS ObservedIngest

Ev(id, type, store, visitor, time, zone, dwell, staff) ==
  [id |-> id, type |-> type, store |-> store, visitor |-> visitor, time |-> time,
   zone |-> zone, dwell |-> dwell, staff |-> staff]

MCEvents == {
  Ev(1, "ENTRY", "s1", "v", 0, NoZone, 0, FALSE),
  Ev(2, "EXIT", "s1", "v", 20, NoZone, 0, FALSE),
  Ev(3, "REENTRY", "s1", "v", 24, NoZone, 0, FALSE),
  Ev(4, "ENTRY", "s1", "v", 400, NoZone, 0, TRUE),
  Ev(5, "ZONE_DWELL", "s1", "v", 25, "shelf", 12000, TRUE),
  Ev(6, "EXIT", "s2", "w", 22, NoZone, 0, FALSE),
  Ev(7, "BILLING_QUEUE_JOIN", "s1", "w", 30, "queue", 4000, FALSE)}

Of(camera, conf, depth, reid) ==
  [camera |-> camera, conf |-> conf, depth |-> depth, reid |-> reid]

MCDetail == <<
  Of("door", 90, NoValue, NoValue), Of("door", 80, NoValue, NoValue),
  Of("door", 85, NoValue, 70),      Of("floor", 40, NoValue, NoValue),
  Of("floor", 88, NoValue, NoValue), Of("door", 60, NoValue, NoValue),
  Of("queue", 75, -1, NoValue)>>

MCCamNumber == [c \in {"door", "floor", "queue"} |->
  CASE c = "door" -> 1 [] c = "floor" -> 5 [] c = "queue" -> 0]

MCWindow == [conf |-> 3, reid |-> 2, queue |-> 2, zone |-> 2]
MCNeeded == [conf |-> 2, reid |-> 1, queue |-> 1, zone |-> 1]
=============================================================================
