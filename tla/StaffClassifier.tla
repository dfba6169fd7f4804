-------------------------- MODULE StaffClassifier --------------------------
(***************************************************************************)
(* pipeline/staff.py: StaffBehaviourTracker, which decides from the colour *)
(* of the clothes and the ways of a visitor whether it is one of the       *)
(* staff.  Scores are percentages; the colour analysis of a crop is        *)
(* abstracted to its result.  The confidence that comes with a verdict is  *)
(* left out, and so is _is_staff_cache, which nothing reads.               *)
(* StaffBehaviorProfile is used by no other file.                          *)
(***************************************************************************)
EXTENDS Ranks

CONSTANTS
  Clothing,        \* the results of black_clothing_score, 0 .. 100
  ScoreWindow,     \* maxlen of _black_scores, 30 in the code
  FewFrames,       \* frames before which nobody is judged, 5 in the code
  BlackShare,      \* the percentile that is enough on its own, 55 in the code
  Threshold,       \* STAFF_SCORE_THRESHOLD, 65 in the code
  Weight,          \* STAFF_W_*: black 75, presence 15, zones 5, cameras 5
  ManyFrames,      \* frames of full presence, 500 in the code
  ManyZones,       \* zones of full diversity, 6 in the code
  ManyCameras      \* further cameras of full diversity, 3 in the code

ASSUME StaffAssumption ==
  /\ Clothing \subseteq 0 .. 100
  /\ {ScoreWindow, FewFrames, ManyFrames, ManyZones, ManyCameras} \subseteq Nat \ {0}
  /\ {BlackShare, Threshold} \subseteq 0 .. 100
  /\ Weight \in [black : Nat, presence : Nat, zones : Nat, cameras : Nat]

Nobody == [frames |-> 0, zones |-> {}, cameras |-> {}, scores |-> << >>, area |-> FALSE]

\* A frame shows a visitor: update. `zones` has the zone it stands in, if any,
\* `area` says whether that is a billing counter or a staff area, and `scores`
\* has the clothing score unless the frame skips it.
Observed(p, camera, zones, area, scores) ==
  [frames  |-> p.frames + 1,
   zones   |-> p.zones \cup zones,
   cameras |-> p.cameras \cup {camera},
   scores  |-> LET all == p.scores \o scores
               IN  IF Len(all) > ScoreWindow THEN Tail(all) ELSE all,
   area    |-> p.area \/ area]

\* Four times the 75th percentile, interpolated as numpy does; 0 without scores.
BlackP75(p) ==
  LET at   == 3 * (Len(p.scores) - 1)
      low  == at \div 4 + 1
      rest == at % 4
  IN  IF p.scores = << >> THEN 0
      ELSE IF rest = 0 THEN 4 * Smallest(p.scores, low)
      ELSE (4 - rest) * Smallest(p.scores, low) + rest * Smallest(p.scores, low + 1)

Capped(n, full) == IF n < full THEN n ELSE full

\* The composite score reaches the threshold; both sides are multiplied by
\* 400 * ManyFrames * ManyZones * ManyCameras.
CompositeReached(p) ==
  LET black    == Weight.black * BlackP75(p) * ManyFrames * ManyZones * ManyCameras
      presence == 400 * Weight.presence * Capped(p.frames, ManyFrames) * ManyZones * ManyCameras
      zones    == 400 * Weight.zones * ManyFrames * Capped(Cardinality(p.zones), ManyZones) * ManyCameras
      cameras  == 400 * Weight.cameras * ManyFrames * ManyZones
                  * Capped(Cardinality(p.cameras) - 1, ManyCameras)
  IN  black + presence + zones + cameras
        >= 400 * Threshold * ManyFrames * ManyZones * ManyCameras

\* Mutated IsStaff: the few frames are not waited for.
IsStaffAtOnce(p) ==
  p.area \/ BlackP75(p) >= 4 * BlackShare \/ CompositeReached(p)

\* is_staff
IsStaff(p) ==
  \/ p.area
  \/ /\ p.frames >= FewFrames
     /\ BlackP75(p) >= 4 * BlackShare \/ CompositeReached(p)

=============================================================================
