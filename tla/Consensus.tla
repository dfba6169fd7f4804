----------------------------- MODULE Consensus -----------------------------
(***************************************************************************)
(* The scores behind a re-association: the signals of _match_suspended     *)
(* (pipeline/tracker.py), the transition scores of the store graph         *)
(* (store_graph.py), the weighted vote and its bands (consensus.py), the   *)
(* courtroom (courtroom.py) and the retention windows (occlusion.py).      *)
(*                                                                         *)
(* Signals are percentages. The weights are those of config.py, 115 in     *)
(* all as group and DNA came on top of the original hundred; the engine    *)
(* divides by their sum, here the threshold and the gap are multiplied by  *)
(* it instead. Time is in seconds.                                         *)
(***************************************************************************)
EXTENDS Integers, FiniteSets

CONSTANTS
  Zones,
  NoZone,           \* zone_id None
  ProductZones,     \* the zones that are not entrance, billing or staff
  Looks,            \* what an appearance embedding tells apart
  NoLook,           \* no embedding
  Similarity,       \* cosine similarity of two looks, in percent
  ZoneTransition,   \* ZONE_TRANSITIONS, in percent, 0 for a missing pair
  CameraTransition, \* CAMERA_TRANSITIONS: a set of [from, to, prob, expected, tolerance]
  Bell,             \* exp(-e^2 / 2 t^2) in percent, for error e and tolerance t
  Retain            \* the retention window of every occlusion type

OcclusionType == {"exit", "boundary", "crowd", "shelf", "unknown"}

ASSUME ConsensusAssumption ==
  /\ \A a, b \in Looks : Similarity[<<a, b>>] \in 0 .. 100
  /\ \A z, y \in Zones : ZoneTransition[<<z, y>>] \in 0 .. 100
  /\ \A t \in CameraTransition :
       /\ {t.prob, t.expected, t.tolerance} \subseteq Nat
       /\ \A e \in 0 .. t.tolerance : Bell[<<e, t.tolerance>>] \in 0 .. 100
  /\ Retain \in [OcclusionType -> Nat]

TotalWeight == 115
Threshold   == 65 * TotalWeight   \* CONSENSUS_THRESHOLD
HighBand    == 85 * TotalWeight
RivalGap    == 5 * TotalWeight    \* a second candidate within 0.05 competes
ReidHardMin == 40                 \* CONSENSUS_REID_HARD_MIN
ShareMin    == 70                 \* REID_THRESHOLD + REID_OVERLAP_BONUS
CrossWindow == 5                  \* CROSS_CAM_TIME_WINDOW_SEC
Neutral     == 50                 \* a signal that nobody supplies

\* cosine_similarity: 0 without an embedding.
LookAlike(a, b) ==
  IF a = NoLook \/ b = NoLook THEN 0 ELSE Similarity[<<a, b>>]

\* max(0, 1 - age / retain), the window at least one second
TemporalScore(age, retain) ==
  LET window == IF retain > 1 THEN retain ELSE 1
  IN  IF age >= window THEN 0 ELSE 100 - (100 * age) \div window

\* camera_transition_probability
CameraScore(from, to, age) ==
  LET known == {t \in CameraTransition : t.from = from /\ t.to = to}
      late  == 100 - (100 * age) \div 30
      t     == CHOOSE x \in known : TRUE
      error == IF age > t.expected THEN age - t.expected ELSE t.expected - age
  IN  IF from = to
      THEN IF age < 5 THEN 90 ELSE IF late > 40 THEN late ELSE 40
      ELSE IF known = {} THEN 10
      ELSE (t.prob * (IF error <= t.tolerance THEN Bell[<<error, t.tolerance>>] ELSE 5)) \div 100

\* transition_probability of two zones: the reverse of a known pair counts
\* four fifths, an unknown one is unlikely.
ZoneScore(from, to) ==
  IF from = NoZone \/ to = NoZone THEN Neutral
  ELSE IF from = to THEN 100
  ELSE IF ZoneTransition[<<from, to>>] > 0 THEN ZoneTransition[<<from, to>>]
  ELSE IF ZoneTransition[<<to, from>>] > 0 THEN (ZoneTransition[<<to, from>>] * 4) \div 5
  ELSE 10

\* The signals of the passport p of a lost visitor for a detection d of camera
\* c at time t. Fingerprint, trajectory and DNA are never supplied; nobody is
\* ever told to be near, so that the group adds nothing; health and staff
\* reputation have no weight.
Signals(p, d, c, t) ==
  [reid     |-> LookAlike(p.look, d.look),
   temporal |-> TemporalScore(t - p.seen, p.retain),
   camera   |-> CameraScore(p.cam, c, t - p.seen),
   zone     |-> ZoneScore(p.zone, d.zone),
   det      |-> p.det]

\* The identity score of decide, times TotalWeight.
IdentityScore(s) ==
  35 * s.reid + 5 * Neutral + 20 * Neutral + 15 * s.temporal + 15 * s.camera
  + 10 * s.zone + 5 * s.det + 5 * Neutral

\* decide: the hard gate on the appearance, then the vote.
Associates(s) == s.reid >= ReidHardMin /\ IdentityScore(s) >= Threshold

\* The band of a candidate that associates, LOW when another one competes.
Band(s, competing) ==
  IF competing THEN "LOW" ELSE IF IdentityScore(s) >= HighBand THEN "HIGH" ELSE "MEDIUM"

\* adjudicate reads a "physics" or "store_graph" signal that decide never
\* writes: its default of 0.0 counts as a teleport.
Physics == 0

Prosecution(s) ==
  (IF 0 < s.reid /\ s.reid < 40 THEN 30 ELSE 0)
  + (IF Physics < 10 THEN 80 ELSE 0)
  + (IF s.temporal < 20 THEN 20 ELSE 0)

Defence(s) ==
  (IF s.reid > 80 THEN 40 ELSE 0) + (IF Physics > 80 THEN 20 ELSE 0)

\* adjudicate, for the bands it is activated for: veto, a weak defence, a
\* defence that outweighs, or inconclusive evidence.
CourtroomMatches(s) ==
  /\ Prosecution(s) < 70
  /\ Defence(s) >= 30
  /\ 2 * Defence(s) > 3 * Prosecution(s)

\* Mutated Upheld: the courtroom is never convened.
UpheldUntried(s, competing) == TRUE

Upheld(s, competing) == Band(s, competing) \in {"LOW", "REJECT"} => CourtroomMatches(s)

\* OcclusionReasoner.classify
Occlusion(exited, edge, nearby, zone) ==
  IF exited THEN "exit"
  ELSE IF edge THEN "boundary"
  ELSE IF nearby >= 3 THEN "crowd"
  ELSE IF zone \in ProductZones THEN "shelf"
  ELSE "unknown"

=============================================================================
