----------------------------- MODULE MCJourney -----------------------------
(***************************************************************************)
(* A store whose entry camera also sees the queue from afar and whose      *)
(* billing camera sees into the hall: a visitor can be in a zone of both   *)
(* cameras, or behind the counter, which is the billing camera's.          *)
(***************************************************************************)
EXTENDS Journey

CONSTANTS v1, t1

MCOrder == <<"entry", "billing">>
MCZones == {"promo", "queue", "counter"}
MCOwner == [t \in Tracks |-> v1]
MCWeight == [black |-> 75, presence |-> 15, zones |-> 5, cameras |-> 5]

\* The counter behind the till, apart from the queue.
MCRole == [promo |-> "zone", queue |-> "queue_area", counter |-> "billing_counter"]

\* The queue as step B.4 of CALIBRATION.md (line 77) lets the user draw it.
MCQueueAtCounter ==
  [promo |-> "zone", queue |-> "billing_counter", counter |-> "staff_area"]

At(z, s) == [zone |-> z, side |-> s]

MCPlaces == {"street", "hall", "queue", "counter"}

MCView ==
  [p \in MCPlaces |->
     CASE p = "street"  -> [entry |-> At(NoZone, "outside"), billing |-> Hidden]
       [] p = "hall"    -> [entry |-> At("promo", "inside"), billing |-> At(NoZone, "off")]
       [] p = "queue"   -> [entry |-> At("promo", "off"),    billing |-> At("queue", "off")]
       [] p = "counter" -> [entry |-> Hidden,                billing |-> At("counter", "off")]]

Steps == {<<"street", "hall">>, <<"hall", "queue">>, <<"hall", "counter">>}

MCPaths == Steps \cup {<<s[2], s[1]>> : s \in Steps}
=============================================================================
