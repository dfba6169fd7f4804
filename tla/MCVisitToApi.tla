---------------------------- MODULE MCVisitToApi ----------------------------
(***************************************************************************)
(* A store with an entry camera and a billing camera.  The promotion zone  *)
(* spans the doorway, so that a visitor may cross the line inside it; the  *)
(* queue is the billing camera's and begins in view of the entry camera,   *)
(* the till is the billing camera's alone.                                 *)
(***************************************************************************)
EXTENDS VisitToApi

CONSTANTS v1, t1, t2, s1

MCPlaces == {"street", "porch", "hall", "queue", "till"}

At(z, s) == [zone |-> z, side |-> s]

MCView ==
  [p \in MCPlaces |->
     CASE p = "street" -> [entry |-> At(NoZone, "outside"), billing |-> Hidden]
       [] p = "porch"  -> [entry |-> At("promo", "outside"), billing |-> Hidden]
       [] p = "hall"   -> [entry |-> At("promo", "inside"), billing |-> Hidden]
       [] p = "queue"  -> [entry |-> At(NoZone, "inside"), billing |-> At("queue", "off")]
       [] p = "till"   -> [entry |-> Hidden, billing |-> At(NoZone, "off")]]

Steps == {<<"street", "porch">>, <<"porch", "hall">>, <<"street", "hall">>,
          <<"hall", "queue">>, <<"queue", "till">>, <<"till", "hall">>}

MCPaths == Steps \cup {<<s[2], s[1]>> : s \in Steps}

MCZones == {"promo", "queue"}
MCOrder == <<"entry", "billing">>
MCAdjacent == {<<"entry", "billing">>}
MCOwner == [t \in Tracks |-> v1]
MCSymmetry == Permutations(Tracks)
=============================================================================
