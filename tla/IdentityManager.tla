-------------------------- MODULE IdentityManager --------------------------
(***************************************************************************)
(* pipeline/tracker.py: VisitorIdentityManager, as run_pipeline and        *)
(* process_frame (pipeline/detect.py) drive it: every camera in turn has a *)
(* frame, every detection of the frame is resolved to a visitor, then the  *)
(* tracks of the camera that the frame does not show are lost and, every   *)
(* few frames, the visitors who were lost for too long expire.  The ghost  *)
(* layer and the evidence ledger are kept along.                           *)
(*                                                                         *)
(* The detector's tracker (external) shows a person under the track it had *)
(* at this camera or under a new one; it does not give one person's track  *)
(* to another.  Shadows are left out: create_shadow is always called with  *)
(* velocity 0 and then creates none.  Shared, follows and reported are     *)
(* history.                                                                *)
(***************************************************************************)
EXTENDS Consensus, SequencesExt

CONSTANTS
  CameraOrder,      \* the cameras, in the order of the processors
  EntryCamera,      \* the camera that sees people leave
  Adjacent,         \* pairs of overlapping cameras, CAMERA_ADJACENCY
  Spot,             \* what a camera shows: zone, edge of the frame, det_conf
  People,
  LookOf,           \* the look of a person
  MaxTrack,         \* bound on the track ids of a camera
  MaxVisitor,       \* bound on the visitor ids
  MaxRound,         \* bound on the rounds
  Step,             \* seconds of video per round, more than the grace of 5 frames
  PurgeEvery,       \* rounds between two purges, 150 frames in the code
  GhostMax,         \* GHOST_MAX_COUNT
  EvidenceMax,      \* EVIDENCE_MAX_HISTORY
  MaxExits,         \* bound on the exits of a visitor
  NoPassport,
  NoOne

Cameras  == ToSet(CameraOrder)
Tracks   == 1 .. MaxTrack
Keys     == Tracks \X Cameras
Visitors == 1 .. MaxVisitor

\* The VisitorPassport fields that a decision reads.
Passport ==
  [visitor : Visitors, cam : Cameras, seen : Nat, look : Looks \cup {NoLook},
   zone : Zones \cup {NoZone}, edge : BOOLEAN, det : Nat, reid : Nat,
   retain : Nat, exits : Nat]

ASSUME IdentityAssumption ==
  /\ CameraOrder \in Seq(STRING) \ {<< >>}
  /\ Step \in Nat \ {0}
  /\ {GhostMax, PurgeEvery} \subseteq Nat \ {0}
  /\ {EvidenceMax, MaxVisitor} \subseteq Nat
  /\ NoOne \notin Visitors
  /\ NoPassport \notin Passport
  /\ Spot \in [Cameras -> [zone : Zones \cup {NoZone}, edge : BOOLEAN, det : 0 .. 100]]
  /\ LookOf \in [People -> Looks \cup {NoLook}]

VARIABLES
  active,           \* _active: the passport of every followed track
  order,            \* the keys of _active in the order of the dict
  suspended,        \* _suspended, by visitor
  expired,          \* _expired, by visitor
  issued,           \* the ids uuid4 has drawn
  ghosts,           \* _ghosts._ghosts, oldest first
  evidence,         \* the snapshots of _evidence per visitor
  visitorZones,     \* _visitor_zones of every camera
  round, turn,      \* the camera that has its frame
  shown,            \* seen_track_ids of the frame
  trackOf,          \* the tracker's track of a person at a camera, 0 if none
  lastTrack,        \* the last track id of a camera
  shared,           \* the visitors two cameras followed at once
  follows,          \* how often a track became a visitor's
  reported          \* the exits reported of a visitor

managerVars == <<active, order, suspended, expired, issued, ghosts, evidence, visitorZones>>
trackerVars == <<round, turn, shown, trackOf, lastTrack>>
historyVars == <<shared, follows, reported>>
identityVars == <<managerVars, trackerVars, historyVars>>

camera == CameraOrder[turn]
now    == round * Step

IdentityInit ==
  /\ active = [k \in Keys |-> NoPassport]
  /\ order = << >>
  /\ suspended = << >>
  /\ expired = << >>
  /\ issued = {}
  /\ ghosts = << >>
  /\ evidence = [v \in Visitors |-> 0]
  /\ visitorZones = [c \in Cameras |-> [v \in Visitors |-> NoZone]]
  /\ round = 0
  /\ turn = 1
  /\ shown = {}
  /\ trackOf = [c \in Cameras |-> [p \in People |-> 0]]
  /\ lastTrack = [c \in Cameras |-> 0]
  /\ shared = {}
  /\ follows = [v \in Visitors |-> 0]
  /\ reported = [v \in Visitors |-> 0]

-----------------------------------------------------------------------------

Followed(k) == active[k] # NoPassport

\* The members of list s that are in set T, in the order of s.
Only(s, T) ==
  LET kept[i \in 0 .. Len(s)] ==
        IF i = 0 THEN << >>
        ELSE IF s[i] \in T THEN Append(kept[i - 1], s[i]) ELSE kept[i - 1]
  IN  kept[Len(s)]

Without(s, x) == Only(s, ToSet(s) \ {x})

\* The followed tracks of visitor v, in the order of the dict.
TracksOf(v) == {k \in Keys : Followed(k) /\ active[k].visitor = v}
KeysOf(v)   == Only(order, TracksOf(v))

\* get_passport: the first active passport, then the suspended one, then the
\* archive.
PassportOf(v) ==
  IF KeysOf(v) # << >> THEN active[KeysOf(v)[1]]
  ELSE IF v \in DOMAIN suspended THEN suspended[v]
  ELSE IF v \in DOMAIN expired THEN expired[v]
  ELSE NoPassport

\* exit_count
ExitCount(v) == IF PassportOf(v) = NoPassport THEN 0 ELSE PassportOf(v).exits

\* The passport after detection d: the position, the time and the confidences
\* are those of the frame, an embedding replaces the old one.
Sighted(p, d, reid) ==
  [p EXCEPT !.cam = camera, !.seen = now, !.edge = d.edge, !.det = d.det,
            !.reid = reid, !.look = IF d.look = NoLook THEN p.look ELSE d.look]

\* The zone logic of process_frame: the passport learns the zone when it is not
\* the one this camera saw the visitor in last.
Zoned(p, d) ==
  IF d.zone = visitorZones[camera][p.visitor] THEN p ELSE [p EXCEPT !.zone = d.zone]

\* Mutated Exited: the exit of a visitor found again is not counted.
ExitedFirstTrack(p, d) ==
  IF d.leaves /\ p.reid = 100 THEN [p EXCEPT !.exits = p.exits + 1] ELSE p

\* mark_exited on the passport itself.
Exited(p, d) == IF d.leaves THEN [p EXCEPT !.exits = p.exits + 1] ELSE p

\* The passport p is put under key k and the rest of process_frame's loop body
\* runs for detection d. mark_exited takes the first passport of the visitor,
\* which may be that of another camera.
Follow(k, p, d) ==
  LET first  == Only(order, TracksOf(p.visitor) \ {k})
      before == first # << >> /\ (~Followed(k) \/ \E i, j \in DOMAIN order :
                                      i < j /\ order[i] = first[1] /\ order[j] = k)
      other  == IF before THEN first[1] ELSE k
      mine   == Zoned(p, d)
  IN  /\ active' = IF other = k
                   THEN [active EXCEPT ![k] = Exited(mine, d)]
                   ELSE [active EXCEPT ![k] = mine, ![other] = Exited(active[other], d)]
      /\ order' = IF Followed(k) THEN order ELSE Append(order, k)
      /\ visitorZones' = [visitorZones EXCEPT ![camera][p.visitor] = d.zone]
      /\ follows' = [follows EXCEPT ![p.visitor] =
                       IF Followed(k) THEN follows[p.visitor] ELSE follows[p.visitor] + 1]
      /\ reported' = [reported EXCEPT ![p.visitor] =
                        IF d.leaves THEN reported[p.visitor] + 1 ELSE reported[p.visitor]]

-----------------------------------------------------------------------------
(***************************************************************************)
(* resolve                                                                 *)
(***************************************************************************)

\* The track is followed already.
SeeAgain(k, d) ==
  /\ Followed(k)
  /\ Follow(k, Sighted(active[k], d, 100), d)
  /\ UNCHANGED <<suspended, expired, issued, ghosts, evidence, shared>>

\* The suspended passport p may be recognised now: its own window, and the
\* shorter one across cameras.
InWindow(p) ==
  /\ now - p.seen <= p.retain
  /\ p.cam = camera \/ now - p.seen <= CrossWindow

SignalsOf(v, d) == Signals(suspended[v], d, camera, now)

\* The suspended visitors the vote accepts for detection d.
Candidates(d) ==
  {v \in DOMAIN suspended : InWindow(suspended[v]) /\ Associates(SignalsOf(v, d))}

\* decide_batch and the courtroom: v has the best score, and the verdict stands.
Matches(v, d) ==
  LET score(w) == IdentityScore(SignalsOf(w, d))
      rivals   == Candidates(d) \ {v}
  IN  /\ v \in Candidates(d)
      /\ \A w \in rivals : score(w) <= score(v)
      /\ Upheld(SignalsOf(v, d), \E w \in rivals : score(v) - score(w) < RivalGap)

\* _match_suspended returns nobody.
NoMatch(d) == \A v \in DOMAIN suspended : ~Matches(v, d)

\* Mutated FoundAgain: the visitor stays suspended.
StaysSuspended(v) == suspended

\* The suspended passports once v is found.
FoundAgain(v) == [w \in DOMAIN suspended \ {v} |-> suspended[w]]

\* remove_ghost
WithoutGhost(v) == Without(ghosts, v)

\* record_from_consensus: the deque keeps the last EvidenceMax.
RecordEvidence(v) == IF evidence[v] < EvidenceMax THEN evidence[v] + 1 ELSE EvidenceMax

\* A new track is the best suspended match.
Recognise(k, d) ==
  /\ ~Followed(k)
  /\ \E v \in DOMAIN suspended :
       /\ Matches(v, d)
       /\ Follow(k, Sighted(suspended[v], d,
                            IdentityScore(SignalsOf(v, d)) \div TotalWeight), d)
       /\ suspended' = FoundAgain(v)
       /\ ghosts' = WithoutGhost(v)
       /\ evidence' = [evidence EXCEPT ![v] = RecordEvidence(v)]
  /\ UNCHANGED <<expired, issued, shared>>

Overlap(c, e) == <<c, e>> \in Adjacent \/ <<e, c>> \in Adjacent

\* The followed tracks of overlapping cameras that look like d.
Twins(d) ==
  {j \in Keys : /\ Followed(j)
                /\ j[2] # camera
                /\ Overlap(j[2], camera)
                /\ LookAlike(active[j].look, d.look) >= ShareMin}

\* The twins that look most like d; of equals, the first in the dict is taken.
Closest(d) ==
  {j \in Twins(d) : \A i \in Twins(d) :
      LookAlike(active[i].look, d.look) <= LookAlike(active[j].look, d.look)}

NewPassport(v, d) ==
  [visitor |-> v, cam |-> camera, seen |-> now, look |-> d.look, zone |-> NoZone,
   edge |-> d.edge, det |-> d.det, reid |-> 100, retain |-> Retain["unknown"], exits |-> 0]

\* Nobody was lost who fits, but another camera follows this visitor: a second
\* passport with a copy of the counts.
Share(k, d) ==
  /\ ~Followed(k)
  /\ NoMatch(d)
  /\ \E j \in Closest(d) :
       LET source == active[j]
       IN  /\ j = Only(order, Closest(d))[1]
           /\ Follow(k, [NewPassport(source.visitor, d) EXCEPT
                           !.exits = PassportOf(source.visitor).exits,
                           !.reid = LookAlike(source.look, d.look)], d)
           /\ shared' = shared \cup {source.visitor}
  /\ UNCHANGED <<suspended, expired, issued, ghosts, evidence>>

\* Nobody fits: a new visitor.
Admit(k, d) ==
  /\ ~Followed(k)
  /\ NoMatch(d)
  /\ Twins(d) = {}
  /\ \E v \in Visitors \ issued :
       /\ \A w \in Visitors \ issued : v <= w
       /\ Follow(k, NewPassport(v, d), d)
       /\ issued' = issued \cup {v}
  /\ UNCHANGED <<suspended, expired, ghosts, evidence, shared>>

Resolve(k, d) == SeeAgain(k, d) \/ Recognise(k, d) \/ Share(k, d) \/ Admit(k, d)

-----------------------------------------------------------------------------

\* What the camera shows of a person under a track.
Detection(p, leaves) ==
  [look |-> LookOf[p], zone |-> Spot[camera].zone,
   edge |-> Spot[camera].edge, det |-> Spot[camera].det, leaves |-> leaves]

\* A person is in the frame, under the old track or a new one, perhaps crossing
\* the entry line outwards.
Sight(p, t, leaves) ==
  /\ round < MaxRound
  /\ t \in {trackOf[camera][p], lastTrack[camera] + 1} \ {0}
  /\ t \in Tracks
  /\ t \notin shown
  /\ trackOf[camera][p] \notin shown
  /\ leaves => camera = EntryCamera
  /\ Resolve(<<t, camera>>, Detection(p, leaves))
  /\ \A v \in Visitors : reported'[v] <= MaxExits
  /\ shown' = shown \cup {t}
  /\ trackOf' = [trackOf EXCEPT ![camera][p] = t]
  /\ lastTrack' = [lastTrack EXCEPT ![camera] =
                     IF t > lastTrack[camera] THEN t ELSE lastTrack[camera]]
  /\ UNCHANGED <<round, turn>>

\* Mutated Lost: the tracks of every camera are compared with the frame.
LostAnywhere == {k \in Keys : Followed(k) /\ k[1] \notin shown /\ active[k].seen < now}

\* The tracks of the camera that the frame does not show, after the grace.
Lost == {k \in Keys : /\ Followed(k)
                      /\ k[2] = camera
                      /\ k[1] \notin shown
                      /\ active[k].seen < now}

\* mark_lost: process_frame never says that the track left through the door or
\* that others are near.
LostPassport(k) ==
  [active[k] EXCEPT !.retain = Retain[Occlusion(FALSE, active[k].edge, 0, active[k].zone)]]

LostOrder == Only(order, Lost)

\* The suspended passports after the sweep: of two tracks of one visitor the
\* later one wins.
SweptSuspended ==
  LET lost == {active[k].visitor : k \in Lost}
      keyOf(v) == LET ks == Only(LostOrder, TracksOf(v))
                  IN  ks[Len(ks)]
  IN  [v \in DOMAIN suspended \cup lost |->
         IF v \in lost THEN LostPassport(keyOf(v)) ELSE suspended[v]]

\* create_ghost: none for an unsure passport; at the cap the oldest goes first.
WithNewGhost(gs, p) ==
  LET kept == IF Len(gs) >= GhostMax THEN Tail(gs) ELSE gs
  IN  IF p.det * 80 * p.reid < 400000 THEN gs
      ELSE Append(Without(kept, p.visitor), p.visitor)

\* The ghosts after the sweep.
SweptGhosts ==
  LET after[i \in 0 .. Len(LostOrder)] ==
        IF i = 0 THEN ghosts
        ELSE WithNewGhost(after[i - 1], LostPassport(LostOrder[i]))
  IN  after[Len(LostOrder)]

\* purge_stale_suspended, in the frames whose index is a multiple of 150.
Stale(p) == round % PurgeEvery = 0 /\ now - p.seen > p.retain

\* The end of process_frame: the lost tracks, the purge, and the next camera.
EndFrame ==
  /\ round < MaxRound
  /\ LET swept == SweptSuspended
         old   == {v \in DOMAIN swept : Stale(swept[v])}
     IN  /\ suspended' = [v \in DOMAIN swept \ old |-> swept[v]]
         /\ expired' = [v \in DOMAIN expired \cup old |->
                          IF v \in old THEN swept[v] ELSE expired[v]]
  /\ active' = [k \in Keys |-> IF k \in Lost THEN NoPassport ELSE active[k]]
  /\ order' = Only(order, Keys \ Lost)
  /\ ghosts' = SweptGhosts
  /\ shown' = {}
  /\ turn' = IF turn = Len(CameraOrder) THEN 1 ELSE turn + 1
  /\ round' = IF turn = Len(CameraOrder) THEN round + 1 ELSE round
  /\ UNCHANGED <<issued, evidence, visitorZones, trackOf, lastTrack, historyVars>>

IdentityNext ==
  \/ \E p \in People, t \in Tracks, leaves \in BOOLEAN : Sight(p, t, leaves)
  \/ EndFrame

IdentitySpec == IdentityInit /\ [][IdentityNext]_identityVars

-----------------------------------------------------------------------------
(***************************************************************************)
(* Properties                                                              *)
(***************************************************************************)

IdentityTypeOK ==
  /\ active \in [Keys -> Passport \cup {NoPassport}]
  /\ DOMAIN suspended \subseteq issued
  /\ \A v \in DOMAIN suspended : suspended[v] \in Passport /\ suspended[v].visitor = v
  /\ DOMAIN expired \subseteq issued
  /\ \A v \in DOMAIN expired : expired[v] \in Passport /\ expired[v].visitor = v
  /\ issued \subseteq Visitors
  /\ Len(ghosts) <= GhostMax
  /\ ToSet(ghosts) \subseteq issued

ActiveVisitors == {active[k].visitor : k \in {j \in Keys : Followed(j)}}

\* Every visitor whom a single camera followed at a time has one passport: it is
\* active, suspended or archived, never two of them, so that no count of the
\* visitor can fork (the lifecycle of tracker.py:278-281).
OnePassport ==
  \A v \in issued \ shared :
    Cardinality(TracksOf(v))
    + (IF v \in DOMAIN suspended THEN 1 ELSE 0)
    + (IF v \in DOMAIN expired THEN 1 ELSE 0) = 1

\* The exits that the camera asks for to tell a re-entry from an entry are those
\* that were reported, through every loss and recognition of the visitor; a
\* visitor followed by two cameras may have fewer, never more.
ExitsRemembered ==
  \A v \in issued : /\ ExitCount(v) <= reported[v]
                    /\ v \notin shared => ExitCount(v) = reported[v]

\* Nobody who is followed is shown as a ghost, unless a second camera lost them.
NoGhostOfActive == ToSet(ghosts) \cap ActiveVisitors \subseteq shared

\* Every time a visitor who was lost is found is backed by a snapshot in the
\* evidence ledger (evidence.py:4-6), unless cameras shared the visitor.
EvidenceExplains ==
  \A v \in issued \ shared :
    LET changes == follows[v] - 1
    IN  evidence[v] = IF changes > EvidenceMax THEN EvidenceMax ELSE changes

\* The passports, ghosts and evidence kept for a visitor agree with each other,
\* in every order of losses, recognitions and purges.
IdentityConsistent == IdentityTypeOK /\ OnePassport /\ NoGhostOfActive /\ EvidenceExplains

\* Two lost visitors whom only their looks tell apart, and those by less than
\* the gap of decide_batch; the vote accepts both or neither.
Interchangeable(p, q) ==
  /\ <<p.cam, p.seen, p.retain, p.zone, p.det>> = <<q.cam, q.seen, q.retain, q.zone, q.det>>
  /\ \A l \in Looks : /\ LookAlike(p.look, l) - LookAlike(q.look, l) <= 16
                      /\ LookAlike(q.look, l) - LookAlike(p.look, l) <= 16
  /\ \A r \in People :
       LET d == Detection(r, FALSE)
       IN  Associates(Signals(p, d, camera, now)) <=> Associates(Signals(q, d, camera, now))

\* A visitor is recognised only within the window of the way they disappeared,
\* and never by a guess between two who could be exchanged: both then count as
\* new (the courtroom upholds no ambiguous match).
RecognisedSafely ==
  [][\A v \in DOMAIN suspended \ (DOMAIN suspended' \cup DOMAIN expired') :
       /\ now - suspended[v].seen <= suspended[v].retain
       /\ \A w \in DOMAIN suspended \ {v} :
            ~Interchangeable(suspended[v], suspended[w])]_suspended

\* The manager keeps the promise of the ledger.
SameCamera(j, k) == j[2] = k[2]
OwnerOf == [k \in Keys |-> IF Followed(k) THEN active[k].visitor ELSE NoOne]

Ledger == INSTANCE VisitorLedger
            WITH owner <- OwnerOf, released <- DOMAIN suspended

KeepsLedger == Ledger!LedgerSpec

=============================================================================
