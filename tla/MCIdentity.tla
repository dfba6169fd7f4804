----------------------------- MODULE MCIdentity -----------------------------
(***************************************************************************)
(* A floor camera and the entry camera, which overlap; two people who look *)
(* much alike.                                                             *)
(***************************************************************************)
EXTENDS IdentityManager

MCOrder == <<"floor", "door">>

MCSpot == [c \in {"floor", "door"} |->
  IF c = "floor" THEN [zone |-> "shelf", edge |-> FALSE, det |-> 90]
                 ELSE [zone |-> NoZone,  edge |-> TRUE,  det |-> 80]]

MCPeople == {"ann", "bob"}
MCLookOf == [p \in MCPeople |-> p]
MCSimilarity == [a, b \in MCPeople |-> IF a = b THEN 97 ELSE 93]
MCZoneTransition == [z, y \in {"shelf"} |-> 0]
MCCameraTransition ==
  {[from |-> c, to |-> e, prob |-> 85, expected |-> 3, tolerance |-> 4] :
     c, e \in {"floor", "door"}}
\* exp(-e^2/32) for errors of 0 to 4 seconds
MCBell == [e \in 0 .. 4, t \in {4} |-> <<100, 96, 88, 75, 60>>[e + 1]]
MCRetain == [o \in OcclusionType |->
  CASE o = "exit" -> 60 [] o = "boundary" -> 8 [] o = "crowd" -> 15
    [] o = "shelf" -> 20 [] o = "unknown" -> 15]
MCAdjacent == {<<"floor", "door">>}
=============================================================================
