--------------------------- MODULE IdentityProofs ---------------------------
(***************************************************************************)
(* Theorems about the identity manager, for any people, cameras, looks,    *)
(* overlaps, weights of the store graph and retention windows.             *)
(***************************************************************************)
EXTENDS IdentityManager, ListLemmas

-----------------------------------------------------------------------------
(***************************************************************************)
(* What Only keeps of a list.                                              *)
(***************************************************************************)

\* Only keeps the members of the list that are in the set.
LEMMA OnlyKeeps ==
  ASSUME NEW S, NEW s \in Seq(S), NEW T
  PROVE  /\ Only(s, T) \in Seq(S)
         /\ ToSet(Only(s, T)) = ToSet(s) \cap T
         /\ Len(Only(s, T)) <= Len(s)
<1> DEFINE n == Len(s)
           Q == Seq(S)
           Next1(x, i) == IF s[i] \in T THEN Append(x, s[i]) ELSE x
           step == [x \in Q \X (1 .. n) |-> Next1(x[1], x[2])]
           kept[i \in 0 .. n] ==
             IF i = 0 THEN << >>
             ELSE IF s[i] \in T THEN Append(kept[i - 1], s[i]) ELSE kept[i - 1]
<1>1. n \in Nat /\ \A i \in 1 .. n : s[i] \in S
  OBVIOUS
<1>2. ASSUME NEW x \in Q, NEW i \in 1 .. n
      PROVE  Next1(x, i) \in Q
  BY <1>1
<1>3. step \in StepFunctions(Q, n)
  BY <1>2 DEF StepFunctions
<1>4. \A x \in Q, i \in 1 .. n : step[<<x, i>>] = Next1(x, i)
  OBVIOUS
<1>5. << >> \in Q
  OBVIOUS
<1>6. Only(s, T) = kept[n]
  BY DEF Only
<1> HIDE DEF Q, step
<1>7. PICK g \in [0 .. n -> Q] :
        /\ g[0] = << >>
        /\ \A i \in 1 .. n : g[i] = step[<<g[i - 1], i>>]
  <2> HIDE DEF n
  <2>1. Runs(Q, n, << >>, step) # {}
    BY <1>1, <1>3, <1>5, RunExists
  <2>2. QED
    BY <2>1 DEF Runs
<1>8. ASSUME NEW i \in 1 .. n
      PROVE  g[i] = IF s[i] \in T THEN Append(g[i - 1], s[i]) ELSE g[i - 1]
  <2>1. i - 1 \in 0 .. n
    BY <1>1
  <2>2. g[i - 1] \in Q
    BY <1>7, <2>1
  <2>3. g[i] = step[<<g[i - 1], i>>]
    BY <1>7
  <2>4. QED
    BY <1>4, <2>2, <2>3
<1>9. g = [i \in 0 .. n |->
             IF i = 0 THEN << >>
             ELSE IF s[i] \in T THEN Append(g[i - 1], s[i]) ELSE g[i - 1]]
  <2>1. ASSUME NEW i \in 0 .. n
        PROVE  g[i] = IF i = 0 THEN << >>
                      ELSE IF s[i] \in T THEN Append(g[i - 1], s[i]) ELSE g[i - 1]
    <3>1. CASE i = 0
      BY <1>7, <3>1
    <3>2. CASE i # 0
      <4>1. i \in 1 .. n
        BY <1>1, <3>2
      <4> HIDE DEF n
      <4>2. QED
        BY <1>8, <3>2, <4>1
    <3>3. QED
      BY <3>1, <3>2
  <2>2. g = [i \in 0 .. n |-> g[i]]
    BY <1>7
  <2>3. QED
    BY <2>1, <2>2, Zenon
<1>10. kept = [i \in 0 .. n |->
             IF i = 0 THEN << >>
             ELSE IF s[i] \in T THEN Append(kept[i - 1], s[i]) ELSE kept[i - 1]]
  BY <1>9, Zenon
<1> HIDE DEF kept, n
<1> DEFINE K == {k \in Nat : k <= n => /\ kept[k] \in Q
                                       /\ Len(kept[k]) <= k
                                       /\ ToSet(kept[k]) = {s[l] : l \in 1 .. k} \cap T}
<1>11. 0 \in K
  <2>1. kept[0] = << >>
    BY <1>1, <1>10
  <2>2. ToSet(kept[0]) = {}
    BY <2>1 DEF ToSet
  <2>3. QED
    BY <1>5, <2>1, <2>2
<1>12. ASSUME NEW k \in K
       PROVE  k + 1 \in K
  <2> DEFINE i == k + 1
  <2>1. CASE i <= n
    <3>1. /\ i \in 1 .. n
          /\ i \in 0 .. n
          /\ i # 0
          /\ i - 1 = k
          /\ k \in Nat
          /\ k <= n
          /\ 1 .. i = (1 .. k) \cup {i}
      BY <1>1, <2>1
    <3>2. /\ kept[k] \in Seq(S)
          /\ Len(kept[k]) <= k
          /\ ToSet(kept[k]) = {s[l] : l \in 1 .. k} \cap T
      BY <1>12, <3>1 DEF Q
    <3> HIDE DEF i
    <3>3. kept[i] = IF s[i] \in T THEN Append(kept[k], s[i]) ELSE kept[k]
      BY <1>10, <3>1
    <3>4. s[i] \in S
      BY <1>1, <3>1
    <3>5. {s[l] : l \in 1 .. i} = {s[l] : l \in 1 .. k} \cup {s[i]}
      BY <3>1
    <3>6. CASE s[i] \in T
      <4>1. kept[i] = Append(kept[k], s[i])
        BY <3>3, <3>6
      <4>2. /\ kept[i] \in Q
            /\ Len(kept[i]) = Len(kept[k]) + 1
            /\ ToSet(kept[i]) = ToSet(kept[k]) \cup {s[i]}
        BY <3>2, <3>4, <4>1, AppendedElements DEF Q
      <4>3. Len(kept[k]) \in Nat
        BY <3>2
      <4>4. Len(kept[i]) <= i
        BY <3>1, <3>2, <4>2, <4>3
      <4>5. QED
        BY <3>1, <3>2, <3>5, <3>6, <4>2, <4>4 DEF i
    <3>7. CASE s[i] \notin T
      <4>1. kept[i] = kept[k]
        BY <3>3, <3>7
      <4>2. Len(kept[k]) \in Nat
        BY <3>2
      <4>3. Len(kept[i]) <= i
        BY <3>1, <3>2, <4>1, <4>2
      <4>4. QED
        BY <3>1, <3>2, <3>5, <3>7, <4>1, <4>3 DEF i, Q
    <3>8. QED
      BY <3>6, <3>7
  <2>2. CASE ~(i <= n)
    BY <2>2
  <2>3. QED
    BY <2>1, <2>2
<1>13. K = Nat
  <2>1. K \in SUBSET Nat
    OBVIOUS
  <2> HIDE DEF K
  <2>2. QED
    BY <1>11, <1>12, <2>1, NatSetInduction
<1>14. /\ kept[n] \in Q
       /\ Len(kept[n]) <= n
       /\ ToSet(kept[n]) = {s[l] : l \in 1 .. n} \cap T
  <2>1. n \in K
    BY <1>1, <1>13, Zenon
  <2>2. n <= n
    BY <1>1
  <2>3. QED
    BY <2>1, <2>2
<1>15. ToSet(s) = {s[l] : l \in 1 .. n}
  BY DEF ToSet, n
<1>16. QED
  BY <1>6, <1>14, <1>15 DEF Q, n

-----------------------------------------------------------------------------
(***************************************************************************)
(* What a camera shows, and the scores of the vote.                        *)
(***************************************************************************)

Shown == [look : Looks \cup {NoLook}, zone : Zones \cup {NoZone}, edge : BOOLEAN,
          det : 0 .. 100, leaves : BOOLEAN]

\* A detection has the fields the manager reads.
LEMMA DetectionShown ==
  ASSUME NEW p \in People, NEW leaves \in BOOLEAN, camera \in Cameras
  PROVE  Detection(p, leaves) \in Shown
<1>1. /\ Spot[camera] \in [zone : Zones \cup {NoZone}, edge : BOOLEAN, det : 0 .. 100]
      /\ LookOf[p] \in Looks \cup {NoLook}
  BY IdentityAssumption
<1>2. /\ Spot[camera].zone \in Zones \cup {NoZone}
      /\ Spot[camera].edge \in BOOLEAN
      /\ Spot[camera].det \in 0 .. 100
  BY <1>1
<1>3. QED
  BY <1>1, <1>2 DEF Detection, Shown

\* Looks are compared in percent.
LEMMA LooksCompare ==
  ASSUME NEW a \in Looks \cup {NoLook}, NEW b \in Looks \cup {NoLook}
  PROVE  LookAlike(a, b) \in 0 .. 100
<1>1. CASE a = NoLook \/ b = NoLook
  BY <1>1 DEF LookAlike
<1>2. CASE a \in Looks /\ b \in Looks
  BY <1>2, ConsensusAssumption DEF LookAlike
<1>3. QED
  BY <1>1, <1>2

\* The scores of the store graph and of the time are numbers.
LEMMA ScoresAreNumbers ==
  ASSUME NEW age \in Int, NEW retain \in Nat, NEW from, NEW to,
         NEW z \in Zones \cup {NoZone}, NEW y \in Zones \cup {NoZone}
  PROVE  /\ TemporalScore(age, retain) \in Int
         /\ CameraScore(from, to, age) \in Int
         /\ ZoneScore(z, y) \in Int
<1>1. \A a \in Int, b \in Nat \ {0} : a \div b \in Int
  OBVIOUS
<1>2. TemporalScore(age, retain) \in Int
  <2> DEFINE window == IF retain > 1 THEN retain ELSE 1
  <2>1. window \in Nat \ {0} /\ 100 * age \in Int
    OBVIOUS
  <2> HIDE DEF window
  <2>2. (100 * age) \div window \in Int
    BY <1>1, <2>1
  <2>3. TemporalScore(age, retain) = IF age >= window THEN 0 ELSE 100 - ((100 * age) \div window)
    BY DEF TemporalScore, window
  <2>4. QED
    BY <2>2, <2>3
<1>3. CameraScore(from, to, age) \in Int
  <2> DEFINE known == {t \in CameraTransition : t.from = from /\ t.to = to}
             late  == 100 - ((100 * age) \div 30)
             t     == CHOOSE x \in known : TRUE
             error == IF age > t.expected THEN age - t.expected ELSE t.expected - age
             bell  == IF error <= t.tolerance THEN Bell[<<error, t.tolerance>>] ELSE 5
  <2>1. CameraScore(from, to, age) =
          IF from = to
          THEN IF age < 5 THEN 90 ELSE IF late > 40 THEN late ELSE 40
          ELSE IF known = {} THEN 10 ELSE (t.prob * bell) \div 100
    BY DEF CameraScore
  <2>2. late \in Int
    <3>1. 100 * age \in Int /\ 30 \in Nat \ {0}
      OBVIOUS
    <3>2. (100 * age) \div 30 \in Int
      BY <1>1, <3>1
    <3>3. QED
      BY <3>2
  <2>3. CASE known # {}
    <3>1. t \in CameraTransition
      BY <2>3
    <3> HIDE DEF t
    <3>2. /\ t.prob \in Nat
          /\ t.expected \in Nat
          /\ t.tolerance \in Nat
          /\ \A e \in 0 .. t.tolerance : Bell[<<e, t.tolerance>>] \in 0 .. 100
      BY <3>1, ConsensusAssumption
    <3>3. error \in Nat
      BY <3>2
    <3> HIDE DEF error
    <3>4. bell \in Nat
      <4>1. CASE error <= t.tolerance
        <5>1. error \in 0 .. t.tolerance
          BY <3>2, <3>3, <4>1
        <5>2. Bell[<<error, t.tolerance>>] \in 0 .. 100
          BY <3>2, <5>1
        <5>3. QED
          BY <4>1, <5>2
      <4>2. CASE ~(error <= t.tolerance)
        BY <4>2
      <4>3. QED
        BY <4>1, <4>2
    <3> HIDE DEF bell
    <3>5. t.prob * bell \in Int
      BY <3>2, <3>4
    <3>6. (t.prob * bell) \div 100 \in Int
      BY <1>1, <3>5
    <3> HIDE DEF late
    <3>7. QED
      BY <2>1, <2>2, <3>6
  <2>4. CASE known = {}
    <3> HIDE DEF late, known, bell
    <3>1. QED
      BY <2>1, <2>2, <2>4
  <2>5. QED
    BY <2>3, <2>4
<1>4. ZoneScore(z, y) \in Int
  <2>1. CASE z = NoZone \/ y = NoZone
    BY <2>1 DEF ZoneScore, Neutral
  <2>2. CASE z # NoZone /\ y # NoZone
    <3>1. ZoneTransition[<<z, y>>] \in 0 .. 100 /\ ZoneTransition[<<y, z>>] \in 0 .. 100
      BY <2>2, ConsensusAssumption
    <3> DEFINE a == ZoneTransition[<<z, y>>]
               b == ZoneTransition[<<y, z>>]
    <3>2. a \in Int /\ b * 4 \in Int
      BY <3>1
    <3>3. (b * 4) \div 5 \in Int
      BY <1>1, <3>2
    <3>4. ZoneScore(z, y) = IF z = y THEN 100 ELSE IF a > 0 THEN a
                            ELSE IF b > 0 THEN (b * 4) \div 5 ELSE 10
      BY <2>2 DEF ZoneScore
    <3> HIDE DEF a, b
    <3>5. QED
      BY <3>2, <3>3, <3>4
  <2>3. QED
    BY <2>1, <2>2
<1>5. QED
  BY <1>2, <1>3, <1>4

\* The score of a candidate is a number; only the looks and what the passport
\* and the detection say otherwise enter it.
LEMMA ScoreParts ==
  ASSUME NEW p \in Passport, NEW d \in Shown, NEW c, NEW t \in Int
  PROVE  LET s == Signals(p, d, c, t) IN
         /\ s.reid = LookAlike(p.look, d.look)
         /\ s.reid \in 0 .. 100
         /\ \E rest \in Int :
              /\ rest = 30 * Neutral + 15 * s.temporal + 15 * s.camera + 10 * s.zone + 5 * s.det
              /\ IdentityScore(s) = 35 * s.reid + rest
<1> DEFINE s == Signals(p, d, c, t)
<1>1. /\ p.look \in Looks \cup {NoLook}
      /\ d.look \in Looks \cup {NoLook}
      /\ p.seen \in Nat
      /\ p.retain \in Nat
      /\ p.zone \in Zones \cup {NoZone}
      /\ d.zone \in Zones \cup {NoZone}
      /\ p.det \in Nat
  BY DEF Passport, Shown
<1>2. /\ s.reid = LookAlike(p.look, d.look)
      /\ s.temporal = TemporalScore(t - p.seen, p.retain)
      /\ s.camera = CameraScore(p.cam, c, t - p.seen)
      /\ s.zone = ZoneScore(p.zone, d.zone)
      /\ s.det = p.det
  BY DEF Signals
<1>3. s.reid \in 0 .. 100
  BY <1>1, <1>2, LooksCompare
<1>4. t - p.seen \in Int
  BY <1>1
<1>5. s.temporal \in Int /\ s.camera \in Int /\ s.zone \in Int /\ s.det \in Int
  <2>1. /\ TemporalScore(t - p.seen, p.retain) \in Int
        /\ CameraScore(p.cam, c, t - p.seen) \in Int
        /\ ZoneScore(p.zone, d.zone) \in Int
    BY <1>1, <1>4, ScoresAreNumbers
  <2> HIDE DEF s
  <2>2. QED
    BY <1>1, <1>2, <2>1
<1> HIDE DEF s
<1> DEFINE rest == 30 * Neutral + 15 * s.temporal + 15 * s.camera + 10 * s.zone + 5 * s.det
<1>6. rest \in Int
  BY <1>5 DEF Neutral
<1>7. IdentityScore(s) = 35 * s.reid + rest
  <2>1. \A a, b, e, f, g \in Int :
          35 * a + 5 * 50 + 20 * 50 + 15 * b + 15 * e + 10 * f + 5 * g + 5 * 50 =
          35 * a + (30 * 50 + 15 * b + 15 * e + 10 * f + 5 * g)
    OBVIOUS
  <2>2. s.reid \in Int
    BY <1>3
  <2>3. QED
    BY <1>5, <2>1, <2>2 DEF IdentityScore, Neutral
<1>8. QED
  BY <1>2, <1>3, <1>6, <1>7 DEF s

\* The courtroom never upholds a match: no signal it reads is ever supplied.
LEMMA CourtroomNeverMatches ==
  ASSUME NEW s, s.reid \in 0 .. 100
  PROVE  ~CourtroomMatches(s)
<1>1. Prosecution(s) >= 80
  <2> DEFINE a == IF 0 < s.reid /\ s.reid < 40 THEN 30 ELSE 0
             c == IF s.temporal < 20 THEN 20 ELSE 0
  <2>1. Physics < 10
    BY DEF Physics
  <2>2. Prosecution(s) = a + 80 + c
    BY <2>1 DEF Prosecution
  <2>3. a \in Nat /\ c \in Nat
    OBVIOUS
  <2> HIDE DEF a, c
  <2>4. QED
    BY <2>2, <2>3
<1>2. Prosecution(s) \in Nat
  BY DEF Prosecution, Physics
<1>3. QED
  BY <1>1, <1>2 DEF CourtroomMatches

-----------------------------------------------------------------------------
(***************************************************************************)
(* The invariant.                                                          *)
(***************************************************************************)

\* The types of what the manager keeps; the dict of the active tracks and its
\* order agree.
ManagerTyped ==
  /\ IdentityTypeOK
  /\ turn \in 1 .. Len(CameraOrder)
  /\ round \in Nat
  /\ order \in Seq(Keys)
  /\ ToSet(order) = {k \in Keys : Followed(k)}
  /\ ghosts \in Seq(Visitors)
  /\ evidence \in [Visitors -> Nat]
  /\ follows \in [Visitors -> Nat]
  /\ reported \in [Visitors -> Nat]
  /\ visitorZones \in [Cameras -> [Visitors -> Zones \cup {NoZone}]]
  /\ shared \subseteq issued
  /\ ActiveVisitors \subseteq issued

\* Nothing is known of an id before it is issued.
UnissuedUnknown ==
  \A v \in Visitors \ issued : follows[v] = 0 /\ evidence[v] = 0 /\ reported[v] = 0

\* The passport of v is active under one key, suspended or archived.
InOnePlace(v) ==
  \/ /\ \E k \in Keys : TracksOf(v) = {k}
     /\ v \notin DOMAIN suspended
     /\ v \notin DOMAIN expired
  \/ /\ TracksOf(v) = {}
     /\ v \in DOMAIN suspended
     /\ v \notin DOMAIN expired
  \/ /\ TracksOf(v) = {}
     /\ v \notin DOMAIN suspended
     /\ v \in DOMAIN expired

OnePlace == \A v \in issued \ shared : InOnePlace(v)

\* Every time a track became the visitor's but the first left a snapshot.
FollowsCounted ==
  \A v \in issued \ shared :
    /\ follows[v] >= 1
    /\ evidence[v] = IF follows[v] - 1 > EvidenceMax THEN EvidenceMax ELSE follows[v] - 1

\* A passport counts the exits reported of its visitor; when cameras shared the
\* visitor it may have missed some.
CountsExits(p) ==
  /\ p.exits <= reported[p.visitor]
  /\ p.visitor \notin shared => p.exits = reported[p.visitor]

ExitsCounted ==
  /\ \A k \in Keys : Followed(k) => CountsExits(active[k])
  /\ \A v \in DOMAIN suspended : CountsExits(suspended[v])
  /\ \A v \in DOMAIN expired : CountsExits(expired[v])

IdentityInv ==
  /\ ManagerTyped
  /\ UnissuedUnknown
  /\ OnePlace
  /\ NoGhostOfActive
  /\ FollowsCounted
  /\ ExitsCounted

\* The camera of a frame is one of the cameras, its time a number.
LEMMA CameraAndTime ==
  ASSUME ManagerTyped
  PROVE  camera \in Cameras /\ now \in Nat
<1>1. CameraOrder \in Seq(STRING) /\ Step \in Nat
  BY IdentityAssumption
<1>2. turn \in DOMAIN CameraOrder
  BY <1>1 DEF ManagerTyped
<1>3. camera \in Cameras
  BY <1>2 DEF camera, Cameras, ToSet
<1>4. \A a, b \in Nat : a * b \in Nat
  OBVIOUS
<1>5. now \in Nat
  BY <1>1, <1>4 DEF now, ManagerTyped
<1>6. QED
  BY <1>3, <1>5

\* A followed track has a passport of a visitor who was issued.
LEMMA FollowedTyped ==
  ASSUME ManagerTyped, NEW k \in Keys, Followed(k)
  PROVE  /\ active[k] \in Passport
         /\ active[k].visitor \in issued
         /\ active[k].visitor \in Visitors
         /\ active[k].exits \in Nat
         /\ k \in TracksOf(active[k].visitor)
<1>1. active[k] \in Passport
  BY DEF ManagerTyped, IdentityTypeOK, Followed
<1>2. active[k].visitor \in issued
  BY DEF ManagerTyped, ActiveVisitors
<1>3. QED
  BY <1>1, <1>2 DEF Passport, TracksOf

\* The tracks of a visitor are in the dict, in their order.
LEMMA TracksListed ==
  ASSUME ManagerTyped, NEW v, NEW K \in SUBSET TracksOf(v)
  PROVE  /\ Only(order, K) \in Seq(Keys)
         /\ ToSet(Only(order, K)) = K
         /\ Only(order, K) # << >> => Only(order, K)[1] \in K
         /\ Only(order, K) = << >> => K = {}
<1>1. order \in Seq(Keys) /\ K \subseteq ToSet(order)
  BY DEF ManagerTyped, TracksOf
<1>2. /\ Only(order, K) \in Seq(Keys)
      /\ ToSet(Only(order, K)) = K
  <2>1. /\ Only(order, K) \in Seq(Keys)
        /\ ToSet(Only(order, K)) = ToSet(order) \cap K
    BY <1>1, OnlyKeeps
  <2>2. ToSet(order) \cap K = K
    BY <1>1
  <2>3. QED
    BY <2>1, <2>2
<1>3. QED
  BY <1>2, ListEnds

\* A passport that is found where get_passport looks is one of the visitor's.
LEMMA PassportFound ==
  ASSUME ManagerTyped, NEW v
  PROVE  \/ \E k \in TracksOf(v) : PassportOf(v) = active[k]
         \/ TracksOf(v) = {} /\ v \in DOMAIN suspended /\ PassportOf(v) = suspended[v]
         \/ TracksOf(v) = {} /\ v \in DOMAIN expired /\ PassportOf(v) = expired[v]
         \/ /\ TracksOf(v) = {}
            /\ v \notin DOMAIN suspended
            /\ v \notin DOMAIN expired
            /\ PassportOf(v) = NoPassport
<1>1. /\ KeysOf(v) # << >> => KeysOf(v)[1] \in TracksOf(v)
      /\ KeysOf(v) = << >> => TracksOf(v) = {}
  BY TracksListed DEF KeysOf
<1>2. QED
  BY <1>1 DEF PassportOf

-----------------------------------------------------------------------------
(***************************************************************************)
(* A detection: its key becomes the visitor's.                             *)
(***************************************************************************)

One(leaves) == IF leaves THEN 1 ELSE 0

\* Key k is a track of v after the step, with a passport that counted n exits
\* before it; v leaves or not.
Takes(k, v, n, leaves) ==
  /\ Followed(k) => active[k].visitor = v
  /\ active' \in [Keys -> Passport \cup {NoPassport}]
  /\ active'[k] \in Passport
  /\ active'[k].visitor = v
  /\ active'[k].exits \in {n, n + One(leaves)}
  /\ TracksOf(v) \subseteq {k} => active'[k].exits = n + One(leaves)
  /\ \A j \in Keys \ {k} :
       IF j \in TracksOf(v)
       THEN /\ active'[j] \in Passport
            /\ active'[j].visitor = v
            /\ active'[j].exits \in {active[j].exits, active[j].exits + One(leaves)}
       ELSE active'[j] = active[j]
  /\ order' \in Seq(Keys)
  /\ ToSet(order') = ToSet(order) \cup {k}
  /\ visitorZones' \in [Cameras -> [Visitors -> Zones \cup {NoZone}]]
  /\ follows' = [follows EXCEPT ![v] =
                   IF Followed(k) THEN follows[v] ELSE follows[v] + 1]
  /\ reported' = [reported EXCEPT ![v] = reported[v] + One(leaves)]

\* mark_exited adds the exit to the passport.
LEMMA ExitedPassport ==
  ASSUME NEW p \in Passport, NEW d \in Shown
  PROVE  /\ Exited(p, d) \in Passport
         /\ Exited(p, d).visitor = p.visitor
         /\ Exited(p, d).exits = p.exits + One(d.leaves)
<1>1. p.exits \in Nat
  BY DEF Passport
<1>2. CASE d.leaves
  BY <1>1, <1>2 DEF Exited, One, Passport
<1>3. CASE ~d.leaves
  BY <1>1, <1>3 DEF Exited, One
<1>4. QED
  BY <1>2, <1>3

\* Whatever passport is put under a key, the key becomes its visitor's.
LEMMA FollowTakes ==
  ASSUME ManagerTyped, NEW k \in Keys, NEW p \in Passport, NEW d \in Shown,
         Followed(k) => active[k].visitor = p.visitor,
         Follow(k, p, d)
  PROVE  Takes(k, p.visitor, p.exits, d.leaves)
<1> DEFINE v      == p.visitor
           first  == Only(order, TracksOf(v) \ {k})
           before == first # << >> /\ (~Followed(k) \/ \E i, j \in DOMAIN order :
                                          i < j /\ order[i] = first[1] /\ order[j] = k)
           other  == IF before THEN first[1] ELSE k
           mine   == Zoned(p, d)
<1>1. first # << >> => first[1] \in TracksOf(v) \ {k}
  BY TracksListed
<1>2. other = k \/ other \in TracksOf(v) \ {k}
  BY <1>1
<1>3. /\ active' = IF other = k
                   THEN [active EXCEPT ![k] = Exited(mine, d)]
                   ELSE [active EXCEPT ![k] = mine, ![other] = Exited(active[other], d)]
      /\ order' = IF Followed(k) THEN order ELSE Append(order, k)
      /\ visitorZones' = [visitorZones EXCEPT ![camera][v] = d.zone]
      /\ follows' = [follows EXCEPT ![v] = IF Followed(k) THEN follows[v] ELSE follows[v] + 1]
      /\ reported' = [reported EXCEPT ![v] = IF d.leaves THEN reported[v] + 1 ELSE reported[v]]
  BY DEF Follow
<1> HIDE DEF first, before, other
<1>4. mine \in Passport /\ mine.visitor = v /\ mine.exits = p.exits
  BY DEF Zoned, Passport, Shown
<1>5. /\ v \in Visitors
      /\ p.exits \in Nat
      /\ d.zone \in Zones \cup {NoZone}
      /\ camera \in Cameras
  BY CameraAndTime DEF Passport, Shown
<1> HIDE DEF mine
<1> DEFINE x == Exited(mine, d)
<1>6. x \in Passport /\ x.visitor = v /\ x.exits = p.exits + One(d.leaves)
  BY <1>4, ExitedPassport
<1> HIDE DEF x
<1>7. active \in [Keys -> Passport \cup {NoPassport}]
  BY DEF ManagerTyped, IdentityTypeOK
<1>8. \A j \in TracksOf(v) : /\ j \in Keys
                             /\ active[j] \in Passport
                             /\ active[j].visitor = v
  BY FollowedTyped DEF TracksOf
<1>9. /\ active' \in [Keys -> Passport \cup {NoPassport}]
      /\ active'[k] \in Passport
      /\ active'[k].visitor = v
      /\ active'[k].exits \in {p.exits, p.exits + One(d.leaves)}
      /\ TracksOf(v) \subseteq {k} => active'[k].exits = p.exits + One(d.leaves)
      /\ \A j \in Keys \ {k} :
           IF j \in TracksOf(v)
           THEN /\ active'[j] \in Passport
                /\ active'[j].visitor = v
                /\ active'[j].exits \in {active[j].exits, active[j].exits + One(d.leaves)}
           ELSE active'[j] = active[j]
  <2>1. CASE other = k
    <3>1. active' = [active EXCEPT ![k] = x]
      BY <1>3, <2>1 DEF x
    <3>2. active'[k] = x /\ \A j \in Keys \ {k} : active'[j] = active[j]
      BY <1>7, <3>1
    <3>3. active' \in [Keys -> Passport \cup {NoPassport}]
      BY <1>6, <1>7, <3>1
    <3>4. QED
      BY <1>6, <1>8, <3>2, <3>3
  <2>2. CASE other # k
    <3>1. other \in TracksOf(v) \ {k}
      BY <1>2, <2>2
    <3> DEFINE y == Exited(active[other], d)
    <3>2. /\ y \in Passport
          /\ y.visitor = v
          /\ y.exits = active[other].exits + One(d.leaves)
      BY <1>8, <3>1, ExitedPassport
    <3>3. active' = [active EXCEPT ![k] = mine, ![other] = y]
      BY <1>3, <2>2
    <3> HIDE DEF y
    <3>4. /\ active'[k] = mine
          /\ active'[other] = y
          /\ \A j \in Keys \ {k, other} : active'[j] = active[j]
      BY <1>7, <1>8, <3>1, <3>3
    <3>5. active' \in [Keys -> Passport \cup {NoPassport}]
      BY <1>4, <1>7, <1>8, <3>1, <3>2, <3>3
    <3>6. ASSUME NEW j \in Keys \ {k}
          PROVE  IF j \in TracksOf(v)
                 THEN /\ active'[j] \in Passport
                      /\ active'[j].visitor = v
                      /\ active'[j].exits \in {active[j].exits, active[j].exits + One(d.leaves)}
                 ELSE active'[j] = active[j]
      BY <1>8, <3>1, <3>2, <3>4
    <3>7. QED
      BY <1>4, <3>1, <3>4, <3>5, <3>6
  <2>3. QED
    BY <2>1, <2>2
<1>10. order' \in Seq(Keys) /\ ToSet(order') = ToSet(order) \cup {k}
  <2>1. order \in Seq(Keys) /\ ToSet(order) = {j \in Keys : Followed(j)}
    BY DEF ManagerTyped
  <2>2. CASE Followed(k)
    BY <1>3, <2>1, <2>2
  <2>3. CASE ~Followed(k)
    BY <1>3, <2>1, <2>3, AppendedElements
  <2>4. QED
    BY <2>2, <2>3
<1>11. visitorZones' \in [Cameras -> [Visitors -> Zones \cup {NoZone}]]
  <2>1. visitorZones \in [Cameras -> [Visitors -> Zones \cup {NoZone}]]
    BY DEF ManagerTyped
  <2>2. [visitorZones[camera] EXCEPT ![v] = d.zone] \in [Visitors -> Zones \cup {NoZone}]
    BY <1>5, <2>1
  <2>3. QED
    BY <1>3, <1>5, <2>1, <2>2
<1>12. reported' = [reported EXCEPT ![v] = reported[v] + One(d.leaves)]
  <2>1. reported[v] \in Nat
    BY <1>5 DEF ManagerTyped
  <2>2. (IF d.leaves THEN reported[v] + 1 ELSE reported[v]) = reported[v] + One(d.leaves)
    BY <2>1 DEF One
  <2>3. QED
    BY <1>3, <2>2
<1>13. QED
  BY <1>3, <1>9, <1>10, <1>11, <1>12 DEF Takes

-----------------------------------------------------------------------------
(***************************************************************************)
(* The four ways in which a detection is resolved.                         *)
(***************************************************************************)

\* A track that is followed.
Sees(k, v, leaves) ==
  /\ Followed(k)
  /\ Takes(k, v, active[k].exits, leaves)
  /\ UNCHANGED <<suspended, expired, issued, ghosts, evidence, shared>>

\* A visitor who was lost.
Finds(k, v, leaves) ==
  /\ ~Followed(k)
  /\ v \in DOMAIN suspended
  /\ Takes(k, v, suspended[v].exits, leaves)
  /\ suspended' = FoundAgain(v)
  /\ ghosts' = WithoutGhost(v)
  /\ evidence' = [evidence EXCEPT ![v] = RecordEvidence(v)]
  /\ UNCHANGED <<expired, issued, shared>>

\* A visitor whom another camera follows.
Shares(k, v, leaves) ==
  /\ ~Followed(k)
  /\ \E j \in TracksOf(v) : ~SameCamera(j, k)
  /\ Takes(k, v, PassportOf(v).exits, leaves)
  /\ shared' = shared \cup {v}
  /\ UNCHANGED <<suspended, expired, issued, ghosts, evidence>>

\* A new visitor.
Admits(k, v, leaves) ==
  /\ ~Followed(k)
  /\ v \notin issued
  /\ Takes(k, v, 0, leaves)
  /\ issued' = issued \cup {v}
  /\ UNCHANGED <<suspended, expired, ghosts, evidence, shared>>

\* The passport of a visitor who is seen.
LEMMA SightedPassport ==
  ASSUME ManagerTyped, NEW p \in Passport, NEW d \in Shown, NEW reid \in Nat
  PROVE  /\ Sighted(p, d, reid) \in Passport
         /\ Sighted(p, d, reid).visitor = p.visitor
         /\ Sighted(p, d, reid).exits = p.exits
<1>1. camera \in Cameras /\ now \in Nat
  BY CameraAndTime
<1>2. /\ d.edge \in BOOLEAN
      /\ d.det \in Nat
      /\ d.look \in Looks \cup {NoLook}
  BY DEF Shown
<1>3. (IF d.look = NoLook THEN p.look ELSE d.look) \in Looks \cup {NoLook}
  BY <1>2 DEF Passport
<1>4. QED
  BY <1>1, <1>2, <1>3 DEF Sighted, Passport

\* The passport of a new visitor.
LEMMA NewPassportTyped ==
  ASSUME ManagerTyped, NEW v \in Visitors, NEW d \in Shown
  PROVE  /\ NewPassport(v, d) \in Passport
         /\ NewPassport(v, d).visitor = v
         /\ NewPassport(v, d).exits = 0
<1>1. camera \in Cameras /\ now \in Nat
  BY CameraAndTime
<1>2. /\ d.edge \in BOOLEAN
      /\ d.det \in Nat
      /\ d.look \in Looks \cup {NoLook}
      /\ Retain["unknown"] \in Nat
  BY ConsensusAssumption DEF Shown, OcclusionType
<1>3. QED
  BY <1>1, <1>2 DEF NewPassport, Passport

\* A suspended passport that matches has a score of at least the threshold.
LEMMA MatchedScore ==
  ASSUME ManagerTyped, NEW d \in Shown, NEW v, Matches(v, d)
  PROVE  /\ v \in DOMAIN suspended
         /\ suspended[v] \in Passport
         /\ suspended[v].visitor = v
         /\ IdentityScore(SignalsOf(v, d)) \div TotalWeight \in Nat
<1>1. v \in DOMAIN suspended /\ Associates(SignalsOf(v, d))
  BY DEF Matches, Candidates
<1>2. suspended[v] \in Passport /\ suspended[v].visitor = v
  BY <1>1 DEF ManagerTyped, IdentityTypeOK
<1>3. IdentityScore(SignalsOf(v, d)) \in Int
  <2>1. now \in Int
    BY CameraAndTime
  <2>2. QED
    BY <1>2, <2>1, ScoreParts DEF SignalsOf
<1>4. IdentityScore(SignalsOf(v, d)) >= 7475
  BY <1>1 DEF Associates, Threshold, TotalWeight
<1>5. \A a \in Int : a >= 7475 => a \div 115 \in Nat
  OBVIOUS
<1>6. QED
  BY <1>1, <1>2, <1>3, <1>4, <1>5 DEF TotalWeight

\* A detection is resolved in one of the four ways.
LEMMA ResolveKinds ==
  ASSUME ManagerTyped, NEW k \in Keys, k[2] = camera, NEW d \in Shown, Resolve(k, d)
  PROVE  \E v \in Visitors :
           \/ Sees(k, v, d.leaves)
           \/ Finds(k, v, d.leaves) /\ Matches(v, d)
           \/ Shares(k, v, d.leaves)
           \/ Admits(k, v, d.leaves)
<1>1. CASE SeeAgain(k, d)
  <2>1. /\ Followed(k)
        /\ Follow(k, Sighted(active[k], d, 100), d)
        /\ UNCHANGED <<suspended, expired, issued, ghosts, evidence, shared>>
    BY <1>1 DEF SeeAgain
  <2> DEFINE p == Sighted(active[k], d, 100)
             v == active[k].visitor
  <2>2. active[k] \in Passport /\ v \in Visitors
    BY <2>1, FollowedTyped
  <2>3. p \in Passport /\ p.visitor = v /\ p.exits = active[k].exits
    BY <2>2, SightedPassport
  <2>4. Follow(k, p, d)
    BY <2>1
  <2> HIDE DEF p
  <2>5. Takes(k, p.visitor, p.exits, d.leaves)
    BY <2>3, <2>4, FollowTakes
  <2>6. Sees(k, v, d.leaves)
    BY <2>1, <2>3, <2>5 DEF Sees
  <2>7. QED
    BY <2>2, <2>6
<1>2. CASE Recognise(k, d)
  <2>1. ~Followed(k) /\ UNCHANGED <<expired, issued, shared>>
    BY <1>2 DEF Recognise
  <2>2. PICK v \in DOMAIN suspended :
          /\ Matches(v, d)
          /\ Follow(k, Sighted(suspended[v], d,
                               IdentityScore(SignalsOf(v, d)) \div TotalWeight), d)
          /\ suspended' = FoundAgain(v)
          /\ ghosts' = WithoutGhost(v)
          /\ evidence' = [evidence EXCEPT ![v] = RecordEvidence(v)]
    BY <1>2 DEF Recognise
  <2> DEFINE reid == IdentityScore(SignalsOf(v, d)) \div TotalWeight
             p == Sighted(suspended[v], d, reid)
  <2>3. suspended[v] \in Passport /\ suspended[v].visitor = v /\ reid \in Nat
    BY <2>2, MatchedScore
  <2>4. Follow(k, p, d)
    BY <2>2
  <2> HIDE DEF reid
  <2>5. p \in Passport /\ p.visitor = v /\ p.exits = suspended[v].exits
    BY <2>3, SightedPassport
  <2> HIDE DEF p
  <2>6. Takes(k, p.visitor, p.exits, d.leaves)
    BY <2>1, <2>4, <2>5, FollowTakes
  <2>7. Finds(k, v, d.leaves)
    BY <2>1, <2>2, <2>5, <2>6 DEF Finds
  <2>8. v \in Visitors
    BY <2>5 DEF Passport
  <2>9. QED
    BY <2>2, <2>7, <2>8
<1>3. CASE Share(k, d)
  <2>1. ~Followed(k) /\ UNCHANGED <<suspended, expired, issued, ghosts, evidence>>
    BY <1>3 DEF Share
  <2>2. PICK j \in Closest(d) :
          /\ Follow(k, [NewPassport(active[j].visitor, d) EXCEPT
                          !.exits = PassportOf(active[j].visitor).exits,
                          !.reid = LookAlike(active[j].look, d.look)], d)
          /\ shared' = shared \cup {active[j].visitor}
    BY <1>3 DEF Share
  <2> DEFINE v == active[j].visitor
             n == PassportOf(v).exits
             r == LookAlike(active[j].look, d.look)
             p == [NewPassport(v, d) EXCEPT !.exits = n, !.reid = r]
  <2>3. j \in Keys /\ Followed(j) /\ j[2] # camera
    BY DEF Closest, Twins
  <2>4. active[j] \in Passport /\ v \in Visitors /\ j \in TracksOf(v)
    BY <2>3, FollowedTyped
  <2>5. n \in Nat
    <3>1. PICK i \in TracksOf(v) : PassportOf(v) = active[i]
      BY <2>4, PassportFound
    <3>2. QED
      BY <3>1, FollowedTyped DEF TracksOf
  <2>6. r \in Nat
    <3>1. active[j].look \in Looks \cup {NoLook} /\ d.look \in Looks \cup {NoLook}
      BY <2>4 DEF Passport, Shown
    <3>2. QED
      BY <3>1, LooksCompare
  <2>7. Follow(k, p, d) /\ shared' = shared \cup {v}
    BY <2>2
  <2>8. p \in Passport /\ p.visitor = v /\ p.exits = n
    <3> HIDE DEF n, r, v
    <3>1. NewPassport(v, d) \in Passport /\ NewPassport(v, d).visitor = v
      BY <2>4, NewPassportTyped
    <3>2. QED
      BY <2>5, <2>6, <3>1 DEF Passport
  <2> HIDE DEF p, n, r, v
  <2>9. Takes(k, p.visitor, p.exits, d.leaves)
    BY <2>1, <2>7, <2>8, FollowTakes
  <2>10. Shares(k, v, d.leaves)
    BY <2>1, <2>3, <2>4, <2>7, <2>8, <2>9 DEF Shares, SameCamera, n
  <2>11. QED
    BY <2>4, <2>10
<1>4. CASE Admit(k, d)
  <2>1. ~Followed(k) /\ UNCHANGED <<suspended, expired, ghosts, evidence, shared>>
    BY <1>4 DEF Admit
  <2>2. PICK v \in Visitors \ issued :
          /\ Follow(k, NewPassport(v, d), d)
          /\ issued' = issued \cup {v}
    BY <1>4 DEF Admit
  <2> DEFINE p == NewPassport(v, d)
  <2>3. p \in Passport /\ p.visitor = v /\ p.exits = 0
    BY NewPassportTyped
  <2>4. Follow(k, p, d)
    BY <2>2
  <2> HIDE DEF p
  <2>5. Takes(k, p.visitor, p.exits, d.leaves)
    BY <2>1, <2>3, <2>4, FollowTakes
  <2>6. Admits(k, v, d.leaves)
    BY <2>1, <2>2, <2>3, <2>5 DEF Admits
  <2>7. QED
    BY <2>6
<1>5. QED
  BY <1>1, <1>2, <1>3, <1>4 DEF Resolve

\* Whose tracks are which, after one of them was taken.
LEMMA TakenTracks ==
  ASSUME ManagerTyped, NEW k \in Keys, NEW v \in Visitors, NEW n, NEW leaves,
         Takes(k, v, n, leaves)
  PROVE  /\ \A j \in Keys : Followed(j)' <=> Followed(j) \/ j = k
         /\ \A w : TracksOf(w)' = IF w = v THEN TracksOf(w) \cup {k} ELSE TracksOf(w)
         /\ ActiveVisitors' = ActiveVisitors \cup {v}
         /\ order' \in Seq(Keys)
         /\ ToSet(order') = {j \in Keys : Followed(j)'}
<1>1. NoPassport \notin Passport
  BY IdentityAssumption
<1>2. ASSUME NEW j \in Keys
      PROVE  /\ active'[j] # NoPassport <=> Followed(j) \/ j = k
             /\ j # k /\ Followed(j) => active'[j].visitor = active[j].visitor
  <2>1. CASE j = k
    BY <1>1, <2>1 DEF Takes
  <2>2. CASE j # k /\ j \in TracksOf(v)
    BY <1>1, <2>2 DEF Takes, TracksOf
  <2>3. CASE j # k /\ j \notin TracksOf(v)
    BY <2>3 DEF Takes, Followed
  <2>4. QED
    BY <2>1, <2>2, <2>3
<1>3. \A j \in Keys : Followed(j)' <=> Followed(j) \/ j = k
  BY <1>2 DEF Followed
<1>4. active'[k].visitor = v /\ (Followed(k) => active[k].visitor = v)
  BY DEF Takes
<1>5. ASSUME NEW w
      PROVE  TracksOf(w)' = IF w = v THEN TracksOf(w) \cup {k} ELSE TracksOf(w)
  <2>1. TracksOf(w)' = {j \in Keys : Followed(j)' /\ active'[j].visitor = w}
    BY DEF TracksOf
  <2>2. QED
    BY <1>2, <1>3, <1>4, <2>1 DEF TracksOf
<1>6. ActiveVisitors' = ActiveVisitors \cup {v}
  <2>1. ActiveVisitors' = {active'[j].visitor : j \in {i \in Keys : Followed(i)'}}
    BY DEF ActiveVisitors
  <2>2. \A j \in Keys : Followed(j)' => active'[j].visitor = IF j = k THEN v ELSE active[j].visitor
    BY <1>2, <1>3, <1>4
  <2>3. QED
    BY <1>3, <1>4, <2>1, <2>2 DEF ActiveVisitors
<1>7. order' \in Seq(Keys) /\ ToSet(order') = {j \in Keys : Followed(j)'}
  BY <1>3 DEF Takes, ManagerTyped
<1>8. QED
  BY <1>3, <1>5, <1>6, <1>7

-----------------------------------------------------------------------------
(***************************************************************************)
(* A detection keeps the invariant.                                        *)
(***************************************************************************)

\* The evidence that n takings of a track leave.
Snapshots(n) == IF n - 1 > EvidenceMax THEN EvidenceMax ELSE n - 1

\* What the four ways have in common: key k becomes v's, and v, if no cameras
\* shared it, is there and nowhere else, with all its exits and its evidence.
Settles(k, v, n, leaves) ==
  /\ Takes(k, v, n, leaves)
  /\ n \in Nat
  /\ n <= reported[v]
  /\ issued' = issued \cup {v}
  /\ expired' = expired
  /\ DOMAIN suspended' \subseteq DOMAIN suspended
  /\ DOMAIN suspended \ {v} \subseteq DOMAIN suspended'
  /\ \A w \in DOMAIN suspended' : suspended'[w] = suspended[w]
  /\ shared \subseteq shared'
  /\ shared' \subseteq shared \cup {v}
  /\ ghosts' \in Seq(Visitors)
  /\ Len(ghosts') <= GhostMax
  /\ ToSet(ghosts') \subseteq ToSet(ghosts)
  /\ evidence' \in [Visitors -> Nat]
  /\ \A w \in Visitors \ {v} : evidence'[w] = evidence[w]
  /\ v \notin shared' =>
       /\ n = reported[v]
       /\ TracksOf(v) \subseteq {k}
       /\ v \notin DOMAIN suspended'
       /\ v \notin DOMAIN expired
       /\ v \notin ToSet(ghosts')
       /\ follows'[v] >= 1
       /\ evidence'[v] = Snapshots(follows'[v])

\* The counts after a track was taken.
LEMMA TakenCounts ==
  ASSUME ManagerTyped, NEW k \in Keys, NEW v \in Visitors, NEW n, NEW leaves,
         Takes(k, v, n, leaves)
  PROVE  /\ follows' \in [Visitors -> Nat]
         /\ reported' \in [Visitors -> Nat]
         /\ \A w \in Visitors \ {v} : follows'[w] = follows[w] /\ reported'[w] = reported[w]
         /\ follows'[v] = IF Followed(k) THEN follows[v] ELSE follows[v] + 1
         /\ reported'[v] = reported[v] + One(leaves)
         /\ follows[v] \in Nat
         /\ reported[v] \in Nat
         /\ One(leaves) \in Nat
<1>1. follows \in [Visitors -> Nat] /\ reported \in [Visitors -> Nat]
  BY DEF ManagerTyped
<1>2. One(leaves) \in Nat
  BY DEF One
<1>3. /\ follows' = [follows EXCEPT ![v] = IF Followed(k) THEN follows[v] ELSE follows[v] + 1]
      /\ reported' = [reported EXCEPT ![v] = reported[v] + One(leaves)]
  BY DEF Takes
<1>4. /\ (IF Followed(k) THEN follows[v] ELSE follows[v] + 1) \in Nat
      /\ reported[v] + One(leaves) \in Nat
  BY <1>1, <1>2
<1>5. QED
  BY <1>1, <1>2, <1>3, <1>4

\* A visitor no cameras shared who has a track has that track only.
LEMMA OnlyTrack ==
  ASSUME OnePlace, NEW v \in issued \ shared, NEW k \in TracksOf(v)
  PROVE  TracksOf(v) = {k} /\ v \notin DOMAIN suspended /\ v \notin DOMAIN expired
<1>1. InOnePlace(v)
  BY DEF OnePlace
<1>2. QED
  BY <1>1 DEF InOnePlace

\* A track that is followed goes on.
LEMMA SeesSettles ==
  ASSUME IdentityInv, NEW k \in Keys, NEW v \in Visitors, NEW leaves, Sees(k, v, leaves)
  PROVE  Settles(k, v, active[k].exits, leaves)
<1> DEFINE n == active[k].exits
<1>1. /\ Followed(k)
      /\ Takes(k, v, n, leaves)
      /\ UNCHANGED <<suspended, expired, issued, ghosts, evidence, shared>>
  BY DEF Sees
<1>2. ManagerTyped
  BY DEF IdentityInv
<1>3. active[k].visitor = v
  BY <1>1 DEF Takes
<1>4. v \in issued /\ n \in Nat /\ k \in TracksOf(v)
  BY <1>1, <1>2, <1>3, FollowedTyped
<1>5. CountsExits(active[k])
  BY <1>1 DEF IdentityInv, ExitsCounted
<1>6. n <= reported[v] /\ (v \notin shared => n = reported[v])
  BY <1>3, <1>5 DEF CountsExits
<1>7. /\ ghosts \in Seq(Visitors)
      /\ Len(ghosts) <= GhostMax
      /\ evidence \in [Visitors -> Nat]
  BY <1>2 DEF ManagerTyped, IdentityTypeOK
<1>8. ASSUME v \notin shared
      PROVE  /\ TracksOf(v) \subseteq {k}
             /\ v \notin DOMAIN suspended
             /\ v \notin DOMAIN expired
             /\ v \notin ToSet(ghosts)
             /\ follows'[v] >= 1
             /\ evidence[v] = Snapshots(follows'[v])
  <2>1. OnePlace /\ NoGhostOfActive /\ FollowsCounted
    BY DEF IdentityInv
  <2>2. TracksOf(v) = {k} /\ v \notin DOMAIN suspended /\ v \notin DOMAIN expired
    BY <1>4, <1>8, <2>1, OnlyTrack
  <2>3. v \in ActiveVisitors
    BY <1>1, <1>3 DEF ActiveVisitors
  <2>4. v \notin ToSet(ghosts)
    BY <1>8, <2>1, <2>3 DEF NoGhostOfActive
  <2>5. follows'[v] = follows[v]
    BY <1>1, <1>2, TakenCounts
  <2>6. follows[v] >= 1 /\ evidence[v] = Snapshots(follows[v])
    BY <1>4, <1>8, <2>1 DEF FollowsCounted, Snapshots
  <2>7. QED
    BY <2>2, <2>4, <2>5, <2>6
<1>9. v \in issued => issued = issued \cup {v}
  OBVIOUS
<1> HIDE DEF n
<1>10. QED
  BY <1>1, <1>4, <1>6, <1>7, <1>8, <1>9 DEF Settles, n

\* A lost visitor who is found is no longer suspended nor a ghost, and a
\* snapshot is taken.
LEMMA FindsSettles ==
  ASSUME IdentityInv, NEW k \in Keys, NEW v \in Visitors, NEW leaves, Finds(k, v, leaves)
  PROVE  Settles(k, v, suspended[v].exits, leaves)
<1> DEFINE n == suspended[v].exits
<1>1. /\ ~Followed(k)
      /\ v \in DOMAIN suspended
      /\ Takes(k, v, n, leaves)
      /\ suspended' = FoundAgain(v)
      /\ ghosts' = WithoutGhost(v)
      /\ evidence' = [evidence EXCEPT ![v] = RecordEvidence(v)]
      /\ UNCHANGED <<expired, issued, shared>>
  BY DEF Finds
<1>2. ManagerTyped
  BY DEF IdentityInv
<1>3. suspended[v] \in Passport /\ suspended[v].visitor = v /\ v \in issued
  BY <1>1, <1>2 DEF ManagerTyped, IdentityTypeOK
<1>4. n \in Nat
  BY <1>3 DEF Passport
<1>5. CountsExits(suspended[v])
  BY <1>1 DEF IdentityInv, ExitsCounted
<1>6. n <= reported[v] /\ (v \notin shared => n = reported[v])
  BY <1>3, <1>5 DEF CountsExits
<1>7. /\ DOMAIN suspended' = DOMAIN suspended \ {v}
      /\ \A w \in DOMAIN suspended' : suspended'[w] = suspended[w]
  BY <1>1 DEF FoundAgain
<1>8. /\ ghosts' \in Seq(Visitors)
      /\ Len(ghosts') <= GhostMax
      /\ ToSet(ghosts') \subseteq ToSet(ghosts)
      /\ v \notin ToSet(ghosts')
  <2>1. ghosts \in Seq(Visitors) /\ Len(ghosts) <= GhostMax /\ GhostMax \in Nat
    BY <1>2, IdentityAssumption DEF ManagerTyped, IdentityTypeOK
  <2> DEFINE T == ToSet(ghosts) \ {v}
  <2>2. ghosts' = Only(ghosts, T)
    BY <1>1 DEF WithoutGhost, Without
  <2>3. /\ ghosts' \in Seq(Visitors)
        /\ ToSet(ghosts') = ToSet(ghosts) \cap T
        /\ Len(ghosts') <= Len(ghosts)
    BY <2>1, <2>2, OnlyKeeps
  <2>4. Len(ghosts) \in Nat /\ Len(ghosts') \in Nat
    BY <2>1, <2>3
  <2>5. Len(ghosts') <= GhostMax
    BY <2>1, <2>3, <2>4
  <2>6. QED
    BY <2>3, <2>5
<1>9. /\ evidence' \in [Visitors -> Nat]
      /\ \A w \in Visitors \ {v} : evidence'[w] = evidence[w]
      /\ evidence'[v] = RecordEvidence(v)
      /\ evidence[v] \in Nat
  <2>1. evidence \in [Visitors -> Nat] /\ EvidenceMax \in Nat
    BY <1>2, IdentityAssumption DEF ManagerTyped
  <2>2. RecordEvidence(v) \in Nat
    BY <2>1 DEF RecordEvidence
  <2>3. QED
    BY <1>1, <2>1, <2>2
<1>10. ASSUME v \notin shared
       PROVE  /\ TracksOf(v) \subseteq {k}
              /\ v \notin DOMAIN expired
              /\ follows'[v] >= 1
              /\ evidence'[v] = Snapshots(follows'[v])
  <2>1. OnePlace /\ FollowsCounted
    BY DEF IdentityInv
  <2>2. TracksOf(v) = {} /\ v \notin DOMAIN expired
    BY <1>1, <1>3, <1>10, <2>1 DEF OnePlace, InOnePlace
  <2>3. follows'[v] = follows[v] + 1 /\ follows[v] \in Nat
    BY <1>1, <1>2, TakenCounts
  <2>4. /\ follows[v] >= 1
        /\ evidence[v] = IF follows[v] - 1 > EvidenceMax THEN EvidenceMax ELSE follows[v] - 1
    BY <1>3, <1>10, <2>1 DEF FollowsCounted
  <2>5. \A f, e, m \in Nat :
          f >= 1 /\ e = (IF f - 1 > m THEN m ELSE f - 1)
            => (IF e < m THEN e + 1 ELSE m) = IF (f + 1) - 1 > m THEN m ELSE (f + 1) - 1
    OBVIOUS
  <2>6. EvidenceMax \in Nat
    BY IdentityAssumption
  <2>7. RecordEvidence(v) = Snapshots(follows[v] + 1)
    BY <1>9, <2>3, <2>4, <2>5, <2>6 DEF RecordEvidence, Snapshots
  <2>8. QED
    BY <1>9, <2>2, <2>3, <2>4, <2>7
<1>11. issued' = issued \cup {v}
  BY <1>1, <1>3
<1> HIDE DEF n
<1>12. QED
  BY <1>1, <1>4, <1>6, <1>7, <1>8, <1>9, <1>10, <1>11 DEF Settles, n

\* A second passport has no more exits than the first.
LEMMA SharesSettles ==
  ASSUME IdentityInv, NEW k \in Keys, NEW v \in Visitors, NEW leaves, Shares(k, v, leaves)
  PROVE  Settles(k, v, PassportOf(v).exits, leaves)
<1> DEFINE n == PassportOf(v).exits
<1>1. /\ ~Followed(k)
      /\ TracksOf(v) # {}
      /\ Takes(k, v, n, leaves)
      /\ shared' = shared \cup {v}
      /\ UNCHANGED <<suspended, expired, issued, ghosts, evidence>>
  BY DEF Shares
<1>2. ManagerTyped
  BY DEF IdentityInv
<1>3. PICK j \in TracksOf(v) : PassportOf(v) = active[j]
  BY <1>1, <1>2, PassportFound
<1>4. j \in Keys /\ Followed(j) /\ active[j].visitor = v
  BY DEF TracksOf
<1>5. v \in issued /\ n \in Nat
  BY <1>2, <1>3, <1>4, FollowedTyped
<1>6. CountsExits(active[j])
  BY <1>4 DEF IdentityInv, ExitsCounted
<1>7. n <= reported[v]
  BY <1>3, <1>4, <1>6 DEF CountsExits
<1>8. /\ ghosts \in Seq(Visitors)
      /\ Len(ghosts) <= GhostMax
      /\ evidence \in [Visitors -> Nat]
  BY <1>2 DEF ManagerTyped, IdentityTypeOK
<1>9. issued' = issued \cup {v}
  BY <1>1, <1>5
<1> HIDE DEF n
<1>10. QED
  BY <1>1, <1>5, <1>7, <1>8, <1>9 DEF Settles, n

\* Nothing was known of a new visitor.
LEMMA AdmitsSettles ==
  ASSUME IdentityInv, NEW k \in Keys, NEW v \in Visitors, NEW leaves, Admits(k, v, leaves)
  PROVE  Settles(k, v, 0, leaves)
<1>1. /\ ~Followed(k)
      /\ v \notin issued
      /\ Takes(k, v, 0, leaves)
      /\ issued' = issued \cup {v}
      /\ UNCHANGED <<suspended, expired, ghosts, evidence, shared>>
  BY DEF Admits
<1>2. ManagerTyped /\ UnissuedUnknown
  BY DEF IdentityInv
<1>3. /\ ghosts \in Seq(Visitors)
      /\ Len(ghosts) <= GhostMax
      /\ evidence \in [Visitors -> Nat]
      /\ DOMAIN suspended \subseteq issued
      /\ DOMAIN expired \subseteq issued
      /\ ToSet(ghosts) \subseteq issued
      /\ ActiveVisitors \subseteq issued
  BY <1>2 DEF ManagerTyped, IdentityTypeOK
<1>4. follows[v] = 0 /\ evidence[v] = 0 /\ reported[v] = 0
  BY <1>1, <1>2 DEF UnissuedUnknown
<1>5. TracksOf(v) = {}
  BY <1>1, <1>3 DEF TracksOf, ActiveVisitors
<1>6. follows'[v] = 1
  BY <1>1, <1>2, <1>4, TakenCounts
<1>7. Snapshots(1) = 0
  BY IdentityAssumption DEF Snapshots
<1>8. 0 <= reported[v] /\ 0 \in Nat
  BY <1>4
<1>9. evidence'[v] = Snapshots(follows'[v]) /\ follows'[v] >= 1
  BY <1>1, <1>4, <1>6, <1>7
<1>10. QED
  BY <1>1, <1>3, <1>4, <1>5, <1>8, <1>9 DEF Settles

\* A visitor who settles leaves everything consistent.
LEMMA SettlesKeeps ==
  ASSUME IdentityInv, NEW k \in Keys, NEW v \in Visitors, NEW n, NEW leaves,
         Settles(k, v, n, leaves), UNCHANGED <<round, turn>>
  PROVE  IdentityInv'
<1>1. /\ ManagerTyped
      /\ UnissuedUnknown
      /\ OnePlace
      /\ NoGhostOfActive
      /\ FollowsCounted
      /\ ExitsCounted
  BY DEF IdentityInv
<1>2. Takes(k, v, n, leaves)
  BY DEF Settles
<1>3. /\ \A j \in Keys : Followed(j)' <=> Followed(j) \/ j = k
      /\ \A w : TracksOf(w)' = IF w = v THEN TracksOf(w) \cup {k} ELSE TracksOf(w)
      /\ ActiveVisitors' = ActiveVisitors \cup {v}
      /\ order' \in Seq(Keys)
      /\ ToSet(order') = {j \in Keys : Followed(j)'}
  BY <1>1, <1>2, TakenTracks
<1>4. /\ follows' \in [Visitors -> Nat]
      /\ reported' \in [Visitors -> Nat]
      /\ \A w \in Visitors \ {v} : follows'[w] = follows[w] /\ reported'[w] = reported[w]
      /\ reported'[v] = reported[v] + One(leaves)
      /\ reported[v] \in Nat
      /\ One(leaves) \in Nat
  BY <1>1, <1>2, TakenCounts
<1>5. IdentityTypeOK'
  <2>1. /\ IdentityTypeOK
        /\ ToSet(ghosts') \subseteq issued
    BY <1>1 DEF Settles, ManagerTyped, IdentityTypeOK
  <2>2. active' \in [Keys -> Passport \cup {NoPassport}]
    BY <1>2 DEF Takes
  <2>3. /\ DOMAIN suspended' \subseteq issued'
        /\ \A w \in DOMAIN suspended' : suspended'[w] \in Passport /\ suspended'[w].visitor = w
    BY <2>1 DEF Settles, IdentityTypeOK
  <2>4. /\ DOMAIN expired' \subseteq issued'
        /\ \A w \in DOMAIN expired' : expired'[w] \in Passport /\ expired'[w].visitor = w
    BY <2>1 DEF Settles, IdentityTypeOK
  <2>5. issued' \subseteq Visitors
    BY <2>1 DEF Settles, IdentityTypeOK
  <2>6. Len(ghosts') <= GhostMax /\ ToSet(ghosts') \subseteq issued'
    BY <2>1 DEF Settles
  <2>7. QED
    BY <2>2, <2>3, <2>4, <2>5, <2>6 DEF IdentityTypeOK
<1>6. ManagerTyped'
  <2>1. turn' \in 1 .. Len(CameraOrder) /\ round' \in Nat
    BY <1>1 DEF ManagerTyped
  <2>2. ghosts' \in Seq(Visitors) /\ evidence' \in [Visitors -> Nat]
    BY DEF Settles
  <2>3. visitorZones' \in [Cameras -> [Visitors -> Zones \cup {NoZone}]]
    BY <1>2 DEF Takes
  <2>4. shared' \subseteq issued' /\ ActiveVisitors' \subseteq issued'
    BY <1>1, <1>3 DEF Settles, ManagerTyped
  <2>5. ToSet(order)' = {j \in Keys : Followed(j)}'
    BY <1>3
  <2>6. QED
    BY <1>3, <1>4, <1>5, <2>1, <2>2, <2>3, <2>4, <2>5 DEF ManagerTyped
<1>7. UnissuedUnknown'
  <2>1. ASSUME NEW w \in Visitors \ issued'
        PROVE  follows'[w] = 0 /\ evidence'[w] = 0 /\ reported'[w] = 0
    <3>1. w # v /\ w \in Visitors \ issued
      BY DEF Settles
    <3>2. follows[w] = 0 /\ evidence[w] = 0 /\ reported[w] = 0
      BY <1>1, <3>1 DEF UnissuedUnknown
    <3>3. evidence'[w] = evidence[w]
      BY <3>1 DEF Settles
    <3>4. QED
      BY <1>4, <3>1, <3>2, <3>3
  <2>2. QED
    BY <2>1 DEF UnissuedUnknown
<1>8. OnePlace'
  <2>1. ASSUME NEW w \in issued' \ shared'
        PROVE  InOnePlace(w)'
    <3>1. CASE w = v
      <4>1. TracksOf(w)' = {k} /\ w \notin DOMAIN suspended' /\ w \notin DOMAIN expired'
        BY <1>3, <2>1, <3>1 DEF Settles
      <4>2. QED
        BY <4>1 DEF InOnePlace
    <3>2. CASE w # v
      <4>1. w \in issued \ shared
        BY <2>1, <3>2 DEF Settles
      <4>2. InOnePlace(w)
        BY <1>1, <4>1 DEF OnePlace
      <4>3. /\ TracksOf(w)' = TracksOf(w)
            /\ (w \in DOMAIN suspended') = (w \in DOMAIN suspended)
            /\ DOMAIN expired' = DOMAIN expired
        BY <1>3, <3>2 DEF Settles
      <4>4. QED
        BY <4>2, <4>3 DEF InOnePlace
    <3>3. QED
      BY <3>1, <3>2
  <2>2. QED
    BY <2>1 DEF OnePlace
<1>9. NoGhostOfActive'
  <2>1. ASSUME NEW w \in ToSet(ghosts'), w \in ActiveVisitors', w \notin shared'
        PROVE  FALSE
    <3>1. w \in ToSet(ghosts) /\ w # v /\ w \notin shared
      BY <2>1 DEF Settles
    <3>2. w \in ActiveVisitors
      BY <1>3, <2>1, <3>1
    <3>3. QED
      BY <1>1, <3>1, <3>2 DEF NoGhostOfActive
  <2>2. QED
    BY <2>1 DEF NoGhostOfActive
<1>10. FollowsCounted'
  <2>1. ASSUME NEW w \in issued' \ shared'
        PROVE  follows'[w] >= 1 /\ evidence'[w] = Snapshots(follows'[w])
    <3>1. CASE w = v
      BY <2>1, <3>1 DEF Settles
    <3>2. CASE w # v
      <4>1. w \in issued \ shared /\ w \in Visitors
        BY <1>1, <2>1, <3>2 DEF Settles, ManagerTyped, IdentityTypeOK
      <4>2. follows[w] >= 1 /\ evidence[w] = Snapshots(follows[w])
        BY <1>1, <4>1 DEF FollowsCounted, Snapshots
      <4>3. follows'[w] = follows[w] /\ evidence'[w] = evidence[w]
        BY <1>4, <3>2, <4>1 DEF Settles
      <4>4. QED
        BY <4>2, <4>3
    <3>3. QED
      BY <3>1, <3>2
  <2>2. QED
    BY <2>1 DEF FollowsCounted, Snapshots
<1>11. ExitsCounted'
  <2>1. ASSUME NEW p \in Passport, CountsExits(p), p.visitor # v \/ v \in shared'
        PROVE  /\ p.exits <= reported'[p.visitor]
               /\ p.visitor \notin shared' => p.exits = reported'[p.visitor]
    <3>1. CASE p.visitor # v
      <4>1. reported'[p.visitor] = reported[p.visitor]
        BY <1>4, <3>1 DEF Passport
      <4>2. p.visitor \notin shared' => p.visitor \notin shared
        BY DEF Settles
      <4>3. QED
        BY <2>1, <4>1, <4>2 DEF CountsExits
    <3>2. CASE p.visitor = v /\ v \in shared'
      <4>1. p.exits <= reported[v] /\ p.exits \in Nat
        BY <2>1, <3>2 DEF CountsExits, Passport
      <4>2. p.exits <= reported'[v]
        BY <1>4, <4>1
      <4>3. QED
        BY <3>2, <4>2
    <3>3. QED
      BY <2>1, <3>1, <3>2
  <2>2. ASSUME NEW j \in Keys, Followed(j)'
        PROVE  CountsExits(active[j])'
    <3>1. CASE j = k
      <4>1. /\ active'[k].visitor = v
            /\ active'[k].exits \in {n, n + One(leaves)}
            /\ TracksOf(v) \subseteq {k} => active'[k].exits = n + One(leaves)
        BY <1>2 DEF Takes
      <4>2. n \in Nat /\ n <= reported[v]
        BY DEF Settles
      <4>3. active'[k].exits <= reported'[v]
        BY <1>4, <4>1, <4>2
      <4>4. v \notin shared' => active'[k].exits = reported'[v]
        BY <1>4, <4>1 DEF Settles
      <4>5. QED
        BY <3>1, <4>1, <4>3, <4>4 DEF CountsExits
    <3>2. CASE j # k /\ j \in TracksOf(v)
      <4>1. v \in shared'
        BY <3>2 DEF Settles
      <4>2. /\ active'[j].visitor = v
            /\ active'[j].exits \in {active[j].exits, active[j].exits + One(leaves)}
        BY <1>2, <3>2 DEF Takes
      <4>3. Followed(j) /\ active[j].visitor = v /\ CountsExits(active[j])
        BY <1>1, <3>2 DEF TracksOf, ExitsCounted
      <4>4. active[j].exits \in Nat /\ active[j].exits <= reported[v]
        BY <1>1, <4>3, FollowedTyped DEF CountsExits
      <4>5. active'[j].exits <= reported'[v]
        BY <1>4, <4>2, <4>4
      <4>6. QED
        BY <4>1, <4>2, <4>5 DEF CountsExits
    <3>3. CASE j # k /\ j \notin TracksOf(v)
      <4>1. active'[j] = active[j] /\ Followed(j)
        BY <1>2, <1>3, <2>2, <3>3 DEF Takes
      <4>2. active[j] \in Passport /\ active[j].visitor # v
        BY <1>1, <3>3, <4>1, FollowedTyped DEF TracksOf
      <4>3. CountsExits(active[j])
        BY <1>1, <4>1 DEF ExitsCounted
      <4>4. /\ active[j].exits <= reported'[active[j].visitor]
            /\ active[j].visitor \notin shared' => active[j].exits = reported'[active[j].visitor]
        BY <2>1, <4>2, <4>3
      <4>5. QED
        BY <4>1, <4>4 DEF CountsExits
    <3>4. QED
      BY <3>1, <3>2, <3>3
  <2>3. ASSUME NEW w \in DOMAIN suspended'
        PROVE  CountsExits(suspended[w])'
    <3>1. w \in DOMAIN suspended /\ suspended'[w] = suspended[w]
      BY DEF Settles
    <3>2. suspended[w] \in Passport /\ suspended[w].visitor = w /\ CountsExits(suspended[w])
      BY <1>1, <3>1 DEF ManagerTyped, IdentityTypeOK, ExitsCounted
    <3>3. w # v \/ v \in shared'
      BY DEF Settles
    <3>4. /\ suspended[w].exits <= reported'[w]
          /\ w \notin shared' => suspended[w].exits = reported'[w]
      BY <2>1, <3>2, <3>3
    <3>5. QED
      BY <3>1, <3>2, <3>4 DEF CountsExits
  <2>4. ASSUME NEW w \in DOMAIN expired'
        PROVE  CountsExits(expired[w])'
    <3>1. w \in DOMAIN expired /\ expired'[w] = expired[w]
      BY DEF Settles
    <3>2. expired[w] \in Passport /\ expired[w].visitor = w /\ CountsExits(expired[w])
      BY <1>1, <3>1 DEF ManagerTyped, IdentityTypeOK, ExitsCounted
    <3>3. w # v \/ v \in shared'
      BY <3>1 DEF Settles
    <3>4. /\ expired[w].exits <= reported'[w]
          /\ w \notin shared' => expired[w].exits = reported'[w]
      BY <2>1, <3>2, <3>3
    <3>5. QED
      BY <3>1, <3>2, <3>4 DEF CountsExits
  <2>5. QED
    BY <2>2, <2>3, <2>4 DEF ExitsCounted
<1>12. QED
  BY <1>6, <1>7, <1>8, <1>9, <1>10, <1>11 DEF IdentityInv

-----------------------------------------------------------------------------
(***************************************************************************)
(* The end of a frame: tracks are lost, lost visitors expire.              *)
(***************************************************************************)

LostVisitors == {active[k].visitor : k \in Lost}

\* The tracks that are lost are followed; their visitors were issued.
LEMMA LostTracks ==
  ASSUME ManagerTyped, NEW k \in Lost
  PROVE  /\ k \in Keys
         /\ Followed(k)
         /\ active[k].visitor \in LostVisitors
         /\ active[k].visitor \in issued
         /\ k \in TracksOf(active[k].visitor)
<1>1. k \in Keys /\ Followed(k)
  BY DEF Lost
<1>2. QED
  BY <1>1, FollowedTyped DEF LostVisitors

\* A lost passport only changes its window.
LEMMA LostPassportTyped ==
  ASSUME ManagerTyped, NEW k \in Lost
  PROVE  /\ LostPassport(k) \in Passport
         /\ LostPassport(k).visitor = active[k].visitor
         /\ LostPassport(k).exits = active[k].exits
<1>1. active[k] \in Passport
  BY LostTracks, FollowedTyped
<1> DEFINE o == Occlusion(FALSE, active[k].edge, 0, active[k].zone)
<1>2. o \in OcclusionType
  BY DEF Occlusion, OcclusionType
<1>3. Retain[o] \in Nat
  BY <1>2, ConsensusAssumption
<1>4. LostPassport(k) = [active[k] EXCEPT !.retain = Retain[o]]
  BY DEF LostPassport
<1> HIDE DEF o
<1>5. QED
  BY <1>1, <1>3, <1>4 DEF Passport

\* The lost tracks in the order of the dict.
LEMMA LostListed ==
  ASSUME ManagerTyped
  PROVE  LostOrder \in Seq(Keys) /\ ToSet(LostOrder) = Lost
<1>1. order \in Seq(Keys) /\ Lost \subseteq ToSet(order)
  BY LostTracks DEF ManagerTyped
<1>2. /\ Only(order, Lost) \in Seq(Keys)
      /\ ToSet(Only(order, Lost)) = ToSet(order) \cap Lost
  BY <1>1, OnlyKeeps
<1>3. ToSet(order) \cap Lost = Lost
  BY <1>1
<1>4. QED
  BY <1>2, <1>3 DEF LostOrder

\* Every lost visitor is suspended with the passport of a lost track.
LEMMA SweptPassports ==
  ASSUME ManagerTyped
  PROVE  /\ DOMAIN SweptSuspended = DOMAIN suspended \cup LostVisitors
         /\ \A v \in LostVisitors :
              \E k \in Lost \cap TracksOf(v) : SweptSuspended[v] = LostPassport(k)
         /\ \A v \in DOMAIN suspended \ LostVisitors : SweptSuspended[v] = suspended[v]
<1> DEFINE ks(v)    == Only(LostOrder, TracksOf(v))
           keyOf(v) == ks(v)[Len(ks(v))]
<1>1. SweptSuspended =
        [v \in DOMAIN suspended \cup LostVisitors |->
           IF v \in LostVisitors THEN LostPassport(keyOf(v)) ELSE suspended[v]]
  BY DEF SweptSuspended, LostVisitors
<1>2. ASSUME NEW v \in LostVisitors
      PROVE  keyOf(v) \in Lost \cap TracksOf(v)
  <2>1. LostOrder \in Seq(Keys) /\ ToSet(LostOrder) = Lost
    BY LostListed
  <2>2. ks(v) \in Seq(Keys) /\ ToSet(ks(v)) = Lost \cap TracksOf(v)
    BY <2>1, OnlyKeeps
  <2>3. PICK k \in Lost : active[k].visitor = v
    BY DEF LostVisitors
  <2>4. k \in Lost \cap TracksOf(v)
    BY <2>3, LostTracks
  <2> DEFINE s == ks(v)
  <2>5. s \in Seq(Keys) /\ ToSet(s) # {} /\ ToSet(s) = Lost \cap TracksOf(v)
    BY <2>2, <2>4
  <2> HIDE DEF s
  <2>6. s[Len(s)] \in ToSet(s)
    BY <2>5, ListEnds
  <2>7. QED
    BY <2>5, <2>6 DEF s
<1> HIDE DEF ks
<1> HIDE DEF keyOf
<1>3. \A v \in LostVisitors :
        keyOf(v) \in Lost \cap TracksOf(v) /\ SweptSuspended[v] = LostPassport(keyOf(v))
  BY <1>1, <1>2
<1>4. QED
  BY <1>1, <1>3

\* The ghosts a list may hold after the frame.
GhostLists ==
  {gs \in Seq(Visitors) : /\ Len(gs) <= GhostMax
                          /\ ToSet(gs) \subseteq ToSet(ghosts) \cup LostVisitors}

\* A new ghost: the cap is kept.
LEMMA NewGhostKept ==
  ASSUME NEW gs \in GhostLists, NEW p \in Passport, p.visitor \in LostVisitors
  PROVE  WithNewGhost(gs, p) \in GhostLists
<1>1. /\ gs \in Seq(Visitors)
      /\ Len(gs) <= GhostMax
      /\ ToSet(gs) \subseteq ToSet(ghosts) \cup LostVisitors
      /\ GhostMax \in Nat \ {0}
      /\ p.visitor \in Visitors
  BY IdentityAssumption DEF GhostLists, Passport
<1> DEFINE kept == IF Len(gs) >= GhostMax THEN Tail(gs) ELSE gs
           rest == Without(kept, p.visitor)
<1>2. /\ kept \in Seq(Visitors)
      /\ Len(kept) < GhostMax
      /\ ToSet(kept) \subseteq ToSet(gs)
  <2>1. CASE Len(gs) >= GhostMax
    <3>1. gs # << >> /\ Len(gs) \in Nat /\ Len(gs) = GhostMax
      BY <1>1, <2>1
    <3>2. /\ Tail(gs) \in Seq(Visitors)
          /\ Len(Tail(gs)) = Len(gs) - 1
          /\ \A i \in 1 .. Len(gs) - 1 : Tail(gs)[i] = gs[i + 1] /\ i + 1 \in 1 .. Len(gs)
      BY <1>1, <3>1
    <3>3. ToSet(Tail(gs)) \subseteq ToSet(gs)
      <4>1. DOMAIN Tail(gs) = 1 .. Len(gs) - 1 /\ DOMAIN gs = 1 .. Len(gs)
        BY <1>1, <3>1, <3>2
      <4>2. QED
        BY <3>2, <4>1 DEF ToSet
    <3>4. QED
      BY <1>1, <2>1, <3>1, <3>2, <3>3
  <2>2. CASE ~(Len(gs) >= GhostMax)
    BY <1>1, <2>2
  <2>3. QED
    BY <2>1, <2>2
<1> HIDE DEF kept
<1>3. /\ rest \in Seq(Visitors)
      /\ Len(rest) <= Len(kept)
      /\ ToSet(rest) \subseteq ToSet(kept)
  BY <1>2, OnlyKeeps DEF Without
<1> HIDE DEF rest
<1> DEFINE new == Append(rest, p.visitor)
<1>4. /\ new \in Seq(Visitors)
      /\ Len(new) = Len(rest) + 1
      /\ ToSet(new) = ToSet(rest) \cup {p.visitor}
  BY <1>1, <1>3, AppendedElements
<1>5. WithNewGhost(gs, p) = gs \/ WithNewGhost(gs, p) = new
  BY DEF WithNewGhost, kept, rest
<1> HIDE DEF new
<1>6. Len(new) <= GhostMax
  <2>1. Len(rest) \in Nat /\ Len(kept) \in Nat
    BY <1>2, <1>3
  <2>2. QED
    BY <1>1, <1>2, <1>3, <1>4, <2>1
<1>7. new \in GhostLists
  BY <1>1, <1>2, <1>3, <1>4, <1>6 DEF GhostLists
<1>8. QED
  BY <1>5, <1>7

\* The ghosts after the sweep: never more than the cap, and of nobody but the
\* old ghosts and the lost.
LEMMA SweptGhostsKept ==
  ASSUME ManagerTyped
  PROVE  SweptGhosts \in GhostLists
<1> DEFINE n == Len(LostOrder)
           Q == GhostLists
           Next1(x, i) == WithNewGhost(x, LostPassport(LostOrder[i]))
           step == [x \in Q \X (1 .. n) |-> Next1(x[1], x[2])]
           after[i \in 0 .. n] ==
             IF i = 0 THEN ghosts
             ELSE WithNewGhost(after[i - 1], LostPassport(LostOrder[i]))
<1>1. n \in Nat /\ \A i \in 1 .. n : LostOrder[i] \in Lost
  <2>1. LostOrder \in Seq(Keys) /\ ToSet(LostOrder) = Lost
    BY LostListed
  <2>2. QED
    BY <2>1 DEF ToSet
<1>2. ASSUME NEW x \in Q, NEW i \in 1 .. n
      PROVE  Next1(x, i) \in Q
  <2> DEFINE p == LostPassport(LostOrder[i])
  <2>1. p \in Passport /\ p.visitor \in LostVisitors
    BY <1>1, LostPassportTyped, LostTracks
  <2> HIDE DEF p
  <2>2. WithNewGhost(x, p) \in GhostLists
    BY <2>1, NewGhostKept
  <2>3. QED
    BY <2>2 DEF p
<1>3. step \in StepFunctions(Q, n)
  <2> HIDE DEF Q, n, Next1
  <2>1. QED
    BY <1>2 DEF StepFunctions
<1>4. \A x \in Q, i \in 1 .. n : step[<<x, i>>] = WithNewGhost(x, LostPassport(LostOrder[i]))
  OBVIOUS
<1>5. ghosts \in Q
  BY DEF GhostLists, ManagerTyped, IdentityTypeOK
<1>6. SweptGhosts = after[n]
  BY DEF SweptGhosts
<1> HIDE DEF Q, step, Next1
<1>7. PICK g \in [0 .. n -> Q] :
        /\ g[0] = ghosts
        /\ \A i \in 1 .. n : g[i] = step[<<g[i - 1], i>>]
  <2> HIDE DEF n
  <2>1. Runs(Q, n, ghosts, step) # {}
    BY <1>1, <1>3, <1>5, RunExists
  <2>2. QED
    BY <2>1 DEF Runs
<1>8. ASSUME NEW i \in 1 .. n
      PROVE  g[i] = WithNewGhost(g[i - 1], LostPassport(LostOrder[i]))
  <2>1. i - 1 \in 0 .. n
    BY <1>1
  <2>2. g[i - 1] \in Q
    BY <1>7, <2>1
  <2>3. g[i] = step[<<g[i - 1], i>>]
    BY <1>7
  <2>4. QED
    BY <1>4, <2>2, <2>3
<1>9. g = [i \in 0 .. n |->
             IF i = 0 THEN ghosts
             ELSE WithNewGhost(g[i - 1], LostPassport(LostOrder[i]))]
  <2>1. ASSUME NEW i \in 0 .. n
        PROVE  g[i] = IF i = 0 THEN ghosts
                      ELSE WithNewGhost(g[i - 1], LostPassport(LostOrder[i]))
    <3>1. CASE i = 0
      BY <1>7, <3>1
    <3>2. CASE i # 0
      <4>1. i \in 1 .. n
        BY <1>1, <3>2
      <4> HIDE DEF n
      <4>2. QED
        BY <1>8, <3>2, <4>1
    <3>3. QED
      BY <3>1, <3>2
  <2>2. g = [i \in 0 .. n |-> g[i]]
    BY <1>7
  <2>3. QED
    BY <2>1, <2>2, Zenon
<1>10. after = [i \in 0 .. n |->
             IF i = 0 THEN ghosts
             ELSE WithNewGhost(after[i - 1], LostPassport(LostOrder[i]))]
  BY <1>9, Zenon
<1> HIDE DEF after, n
<1> DEFINE K == {k \in Nat : k <= n => after[k] \in Q}
<1>11. 0 \in K
  <2>1. after[0] = ghosts
    BY <1>1, <1>10
  <2>2. QED
    BY <1>5, <2>1
<1>12. ASSUME NEW k \in K
       PROVE  k + 1 \in K
  <2> DEFINE i == k + 1
  <2>1. CASE i <= n
    <3>1. /\ i \in 1 .. n
          /\ i \in 0 .. n
          /\ i # 0
          /\ i - 1 = k
          /\ k <= n
      BY <1>1, <2>1
    <3>2. after[k] \in Q
      BY <1>12, <3>1
    <3> HIDE DEF i
    <3>3. after[i] = WithNewGhost(after[k], LostPassport(LostOrder[i]))
      BY <1>10, <3>1
    <3>4. after[i] \in Q
      BY <1>2, <3>1, <3>2, <3>3 DEF Next1
    <3>5. QED
      BY <3>4 DEF i
  <2>2. CASE ~(i <= n)
    BY <2>2
  <2>3. QED
    BY <2>1, <2>2
<1>13. K = Nat
  <2>1. K \in SUBSET Nat
    OBVIOUS
  <2> HIDE DEF K
  <2>2. QED
    BY <1>11, <1>12, <2>1, NatSetInduction
<1>14. after[n] \in Q
  <2>1. n \in K
    BY <1>1, <1>13, Zenon
  <2>2. n <= n
    BY <1>1
  <2>3. QED
    BY <2>1, <2>2
<1>15. QED
  BY <1>6, <1>14 DEF Q, n

\* The end of a frame, told by what becomes of the lost and of the stale.
Loses(old) ==
  /\ DOMAIN suspended' = (DOMAIN suspended \cup LostVisitors) \ old
  /\ DOMAIN expired' = DOMAIN expired \cup old
  /\ old \subseteq DOMAIN suspended \cup LostVisitors
  /\ \A v \in DOMAIN suspended' : suspended'[v] = SweptSuspended[v]
  /\ \A v \in old : expired'[v] = SweptSuspended[v]
  /\ \A v \in DOMAIN expired \ old : expired'[v] = expired[v]
  /\ active' = [k \in Keys |-> IF k \in Lost THEN NoPassport ELSE active[k]]
  /\ order' = Only(order, Keys \ Lost)
  /\ ghosts' = SweptGhosts
  /\ turn' \in 1 .. Len(CameraOrder)
  /\ round' \in Nat
  /\ UNCHANGED <<issued, evidence, visitorZones, shared, follows, reported>>

\* The end of a frame is such a step.
LEMMA EndFrameLoses ==
  ASSUME ManagerTyped, EndFrame
  PROVE  \E old \in SUBSET Visitors : Loses(old)
<1> DEFINE swept == SweptSuspended
           old   == {v \in DOMAIN swept : Stale(swept[v])}
<1>1. DOMAIN swept = DOMAIN suspended \cup LostVisitors
  BY SweptPassports
<1>2. /\ suspended' = [v \in DOMAIN swept \ old |-> swept[v]]
      /\ expired' = [v \in DOMAIN expired \cup old |->
                       IF v \in old THEN swept[v] ELSE expired[v]]
  BY DEF EndFrame
<1>3. old \subseteq DOMAIN swept
  OBVIOUS
<1>4. DOMAIN swept \subseteq Visitors
  <2>1. DOMAIN suspended \subseteq Visitors
    BY DEF ManagerTyped, IdentityTypeOK
  <2>2. LostVisitors \subseteq Visitors
    BY LostTracks DEF LostVisitors, ManagerTyped, IdentityTypeOK
  <2>3. QED
    BY <1>1, <2>1, <2>2
<1> HIDE DEF old
<1>5. /\ DOMAIN suspended' = (DOMAIN suspended \cup LostVisitors) \ old
      /\ DOMAIN expired' = DOMAIN expired \cup old
      /\ \A v \in DOMAIN suspended' : suspended'[v] = swept[v]
      /\ \A v \in old : expired'[v] = swept[v]
      /\ \A v \in DOMAIN expired \ old : expired'[v] = expired[v]
  BY <1>1, <1>2
<1>6. turn' \in 1 .. Len(CameraOrder) /\ round' \in Nat
  <2>1. /\ turn \in 1 .. Len(CameraOrder)
        /\ round \in Nat
        /\ Len(CameraOrder) \in Nat
    BY IdentityAssumption DEF ManagerTyped
  <2>2. /\ turn' = IF turn = Len(CameraOrder) THEN 1 ELSE turn + 1
        /\ round' = IF turn = Len(CameraOrder) THEN round + 1 ELSE round
    BY DEF EndFrame
  <2>3. QED
    BY <2>1, <2>2
<1>7. /\ active' = [k \in Keys |-> IF k \in Lost THEN NoPassport ELSE active[k]]
      /\ order' = Only(order, Keys \ Lost)
      /\ ghosts' = SweptGhosts
      /\ UNCHANGED <<issued, evidence, visitorZones, shared, follows, reported>>
  BY DEF EndFrame, historyVars
<1>8. QED
  BY <1>1, <1>3, <1>4, <1>5, <1>6, <1>7 DEF Loses

\* Whose tracks are which, after some were lost.
LEMMA TracksAfterLoss ==
  ASSUME ManagerTyped, active' = [k \in Keys |-> IF k \in Lost THEN NoPassport ELSE active[k]]
  PROVE  /\ \A k \in Keys : Followed(k)' <=> Followed(k) /\ k \notin Lost
         /\ \A k \in Keys \ Lost : active'[k] = active[k]
         /\ \A v : TracksOf(v)' = TracksOf(v) \ Lost
         /\ \A v \in ActiveVisitors' : TracksOf(v) \ Lost # {} /\ v \in ActiveVisitors
<1>1. \A k \in Keys : active'[k] = IF k \in Lost THEN NoPassport ELSE active[k]
  OBVIOUS
<1>2. \A k \in Keys : Followed(k)' <=> Followed(k) /\ k \notin Lost
  BY <1>1 DEF Followed
<1>3. ASSUME NEW v
      PROVE  TracksOf(v)' = TracksOf(v) \ Lost
  <2>1. TracksOf(v)' = {k \in Keys : Followed(k)' /\ active'[k].visitor = v}
    BY DEF TracksOf
  <2>2. QED
    BY <1>1, <1>2, <2>1 DEF TracksOf
<1>4. ASSUME NEW v \in ActiveVisitors'
      PROVE  TracksOf(v) \ Lost # {} /\ v \in ActiveVisitors
  <2>1. ActiveVisitors' = {active'[k].visitor : k \in {j \in Keys : Followed(j)'}}
    BY DEF ActiveVisitors
  <2>2. PICK k \in Keys : Followed(k)' /\ active'[k].visitor = v
    BY <1>4, <2>1
  <2>3. Followed(k) /\ k \notin Lost /\ active[k].visitor = v
    BY <1>1, <1>2, <2>2
  <2>4. QED
    BY <2>3 DEF TracksOf, ActiveVisitors
<1>5. QED
  BY <1>1, <1>2, <1>3, <1>4

\* The sweep and the purge leave everything consistent.
LEMMA LosesKeeps ==
  ASSUME IdentityInv, NEW old \in SUBSET Visitors, Loses(old)
  PROVE  IdentityInv'
<1>1. /\ ManagerTyped
      /\ UnissuedUnknown
      /\ OnePlace
      /\ NoGhostOfActive
      /\ FollowsCounted
      /\ ExitsCounted
      /\ IdentityTypeOK
  BY DEF IdentityInv, ManagerTyped
<1>2. /\ \A k \in Keys : Followed(k)' <=> Followed(k) /\ k \notin Lost
      /\ \A k \in Keys \ Lost : active'[k] = active[k]
      /\ \A v : TracksOf(v)' = TracksOf(v) \ Lost
      /\ \A v \in ActiveVisitors' : TracksOf(v) \ Lost # {} /\ v \in ActiveVisitors
  <2>1. active' = [k \in Keys |-> IF k \in Lost THEN NoPassport ELSE active[k]]
    BY DEF Loses
  <2>2. QED
    BY <1>1, <2>1, TracksAfterLoss
<1>3. LostVisitors \subseteq issued
  BY <1>1, LostTracks DEF LostVisitors
<1>4. ASSUME NEW v \in DOMAIN suspended \cup LostVisitors
      PROVE  /\ SweptSuspended[v] \in Passport
             /\ SweptSuspended[v].visitor = v
             /\ CountsExits(SweptSuspended[v])
  <2>1. CASE v \in LostVisitors
    <3>1. PICK k \in Lost \cap TracksOf(v) : SweptSuspended[v] = LostPassport(k)
      BY <1>1, <2>1, SweptPassports
    <3>2. Followed(k) /\ k \in Keys /\ active[k].visitor = v
      BY DEF TracksOf
    <3>3. /\ LostPassport(k) \in Passport
          /\ LostPassport(k).visitor = active[k].visitor
          /\ LostPassport(k).exits = active[k].exits
      BY <1>1, LostPassportTyped
    <3>4. CountsExits(active[k])
      BY <1>1, <3>2 DEF ExitsCounted
    <3>5. QED
      BY <3>1, <3>2, <3>3, <3>4 DEF CountsExits
  <2>2. CASE v \notin LostVisitors
    <3>1. v \in DOMAIN suspended /\ SweptSuspended[v] = suspended[v]
      BY <1>1, <2>2, SweptPassports
    <3>2. QED
      BY <1>1, <3>1 DEF IdentityTypeOK, ExitsCounted
  <2>3. QED
    BY <2>1, <2>2
<1>5. /\ ghosts' \in Seq(Visitors)
      /\ Len(ghosts') <= GhostMax
      /\ ToSet(ghosts') \subseteq ToSet(ghosts) \cup LostVisitors
  BY <1>1, SweptGhostsKept DEF Loses, GhostLists
<1>6. IdentityTypeOK'
  <2>1. active' \in [Keys -> Passport \cup {NoPassport}]
    <3>1. active \in [Keys -> Passport \cup {NoPassport}]
      BY <1>1 DEF IdentityTypeOK
    <3>2. active' = [k \in Keys |-> IF k \in Lost THEN NoPassport ELSE active[k]]
      BY DEF Loses
    <3>3. QED
      BY <3>1, <3>2
  <2>2. /\ DOMAIN suspended' \subseteq issued'
        /\ \A v \in DOMAIN suspended' : suspended'[v] \in Passport /\ suspended'[v].visitor = v
    BY <1>1, <1>3, <1>4 DEF Loses, IdentityTypeOK
  <2>3. /\ DOMAIN expired' \subseteq issued'
        /\ \A v \in DOMAIN expired' : expired'[v] \in Passport /\ expired'[v].visitor = v
    <3>1. DOMAIN expired' \subseteq issued'
      BY <1>1, <1>3 DEF Loses, IdentityTypeOK
    <3>2. ASSUME NEW v \in DOMAIN expired'
          PROVE  expired'[v] \in Passport /\ expired'[v].visitor = v
      <4>1. CASE v \in old
        <5>1. expired'[v] = SweptSuspended[v] /\ v \in DOMAIN suspended \cup LostVisitors
          BY <4>1 DEF Loses
        <5>2. QED
          BY <1>4, <5>1
      <4>2. CASE v \notin old
        <5>1. v \in DOMAIN expired /\ expired'[v] = expired[v]
          BY <4>2 DEF Loses
        <5>2. QED
          BY <1>1, <5>1 DEF IdentityTypeOK
      <4>3. QED
        BY <4>1, <4>2
    <3>3. QED
      BY <3>1, <3>2
  <2>4. issued' \subseteq Visitors
    BY <1>1 DEF Loses, IdentityTypeOK
  <2>5. Len(ghosts') <= GhostMax /\ ToSet(ghosts') \subseteq issued'
    BY <1>1, <1>3, <1>5 DEF Loses, IdentityTypeOK
  <2>6. QED
    BY <2>1, <2>2, <2>3, <2>4, <2>5 DEF IdentityTypeOK
<1>7. ManagerTyped'
  <2>1. /\ turn' \in 1 .. Len(CameraOrder)
        /\ round' \in Nat
        /\ evidence' \in [Visitors -> Nat]
        /\ follows' \in [Visitors -> Nat]
        /\ reported' \in [Visitors -> Nat]
        /\ visitorZones' \in [Cameras -> [Visitors -> Zones \cup {NoZone}]]
        /\ shared' \subseteq issued'
    BY <1>1 DEF Loses, ManagerTyped
  <2>2. ActiveVisitors' \subseteq issued'
    BY <1>1, <1>2 DEF Loses, ManagerTyped
  <2>3. order' \in Seq(Keys) /\ ToSet(order') = {k \in Keys : Followed(k)'}
    <3>1. order \in Seq(Keys) /\ ToSet(order) = {k \in Keys : Followed(k)}
      BY <1>1 DEF ManagerTyped
    <3>2. order' = Only(order, Keys \ Lost)
      BY DEF Loses
    <3>3. order' \in Seq(Keys) /\ ToSet(order') = ToSet(order) \cap (Keys \ Lost)
      BY <3>1, <3>2, OnlyKeeps
    <3>4. QED
      BY <1>2, <3>1, <3>3
  <2>4. ToSet(order)' = {k \in Keys : Followed(k)}'
    BY <2>3
  <2>5. QED
    BY <1>5, <1>6, <2>1, <2>2, <2>3, <2>4 DEF ManagerTyped
<1>8. UnissuedUnknown'
  BY <1>1 DEF UnissuedUnknown, Loses
<1>9. OnePlace'
  <2>1. ASSUME NEW v \in issued \ shared
        PROVE  InOnePlace(v)'
    <3>1. /\ TracksOf(v)' = TracksOf(v) \ Lost
          /\ v \in DOMAIN suspended' <=> v \in DOMAIN suspended \cup LostVisitors /\ v \notin old
          /\ v \in DOMAIN expired' <=> v \in DOMAIN expired \/ v \in old
          /\ v \in old => v \in DOMAIN suspended \cup LostVisitors
      BY <1>2 DEF Loses
    <3>2. v \in LostVisitors <=> TracksOf(v) \cap Lost # {}
      <4>1. \A k \in Lost : active[k].visitor = v <=> k \in TracksOf(v)
        BY <1>1, LostTracks DEF TracksOf
      <4>2. QED
        BY <4>1 DEF LostVisitors
    <3>3. InOnePlace(v)
      BY <1>1 DEF OnePlace
    <3>4. CASE /\ \E k \in Keys : TracksOf(v) = {k}
               /\ v \notin DOMAIN suspended
               /\ v \notin DOMAIN expired
      <4>1. PICK k \in Keys : TracksOf(v) = {k}
        BY <3>4
      <4>2. CASE k \in Lost
        <5>1. v \in LostVisitors /\ TracksOf(v)' = {}
          BY <3>1, <3>2, <4>1, <4>2
        <5>2. QED
          BY <3>1, <3>4, <5>1 DEF InOnePlace
      <4>3. CASE k \notin Lost
        <5>1. v \notin LostVisitors /\ TracksOf(v)' = {k}
          BY <3>1, <3>2, <4>1, <4>3
        <5>2. QED
          BY <3>1, <3>4, <5>1 DEF InOnePlace
      <4>4. QED
        BY <4>2, <4>3
    <3>5. CASE TracksOf(v) = {} /\ v \in DOMAIN suspended /\ v \notin DOMAIN expired
      <4>1. TracksOf(v)' = {}
        BY <3>1, <3>5
      <4>2. QED
        BY <3>1, <3>5, <4>1 DEF InOnePlace
    <3>6. CASE TracksOf(v) = {} /\ v \notin DOMAIN suspended /\ v \in DOMAIN expired
      <4>1. TracksOf(v)' = {} /\ v \notin LostVisitors
        BY <3>1, <3>2, <3>6
      <4>2. QED
        BY <3>1, <3>6, <4>1 DEF InOnePlace
    <3>7. QED
      BY <3>3, <3>4, <3>5, <3>6 DEF InOnePlace
  <2>2. issued' = issued /\ shared' = shared
    BY DEF Loses
  <2>3. QED
    BY <2>1, <2>2 DEF OnePlace
<1>10. NoGhostOfActive'
  <2>1. ASSUME NEW v \in ToSet(ghosts'), v \in ActiveVisitors', v \notin shared
        PROVE  FALSE
    <3>1. v \in ActiveVisitors /\ TracksOf(v) \ Lost # {}
      BY <1>2, <2>1
    <3>2. v \in LostVisitors
      BY <1>1, <1>5, <2>1, <3>1 DEF NoGhostOfActive
    <3>3. PICK k \in Lost : active[k].visitor = v
      BY <3>2 DEF LostVisitors
    <3>4. k \in TracksOf(v) /\ v \in issued
      BY <1>1, <3>3, LostTracks
    <3>5. TracksOf(v) = {k}
      BY <1>1, <2>1, <3>4, OnlyTrack
    <3>6. QED
      BY <3>1, <3>5
  <2>2. shared' = shared
    BY DEF Loses
  <2>3. QED
    BY <2>1, <2>2 DEF NoGhostOfActive
<1>11. FollowsCounted'
  BY <1>1 DEF FollowsCounted, Loses
<1>12. ExitsCounted'
  <2>1. reported' = reported /\ shared' = shared
    BY DEF Loses
  <2>2. ASSUME NEW k \in Keys, Followed(k)'
        PROVE  CountsExits(active[k])'
    <3>1. Followed(k) /\ active'[k] = active[k]
      BY <1>2, <2>2
    <3>2. CountsExits(active[k])
      BY <1>1, <3>1 DEF ExitsCounted
    <3>3. QED
      BY <2>1, <3>1, <3>2 DEF CountsExits
  <2>3. ASSUME NEW v \in DOMAIN suspended'
        PROVE  CountsExits(suspended[v])'
    <3>1. v \in DOMAIN suspended \cup LostVisitors /\ suspended'[v] = SweptSuspended[v]
      BY DEF Loses
    <3>2. CountsExits(SweptSuspended[v])
      BY <1>4, <3>1
    <3>3. QED
      BY <2>1, <3>1, <3>2 DEF CountsExits
  <2>4. ASSUME NEW v \in DOMAIN expired'
        PROVE  CountsExits(expired[v])'
    <3>1. CASE v \in old
      <4>1. v \in DOMAIN suspended \cup LostVisitors /\ expired'[v] = SweptSuspended[v]
        BY <3>1 DEF Loses
      <4>2. CountsExits(SweptSuspended[v])
        BY <1>4, <4>1
      <4>3. QED
        BY <2>1, <4>1, <4>2 DEF CountsExits
    <3>2. CASE v \notin old
      <4>1. v \in DOMAIN expired /\ expired'[v] = expired[v]
        BY <3>2 DEF Loses
      <4>2. CountsExits(expired[v])
        BY <1>1, <4>1 DEF ExitsCounted
      <4>3. QED
        BY <2>1, <4>1, <4>2 DEF CountsExits
    <3>3. QED
      BY <3>1, <3>2
  <2>5. QED
    BY <2>2, <2>3, <2>4 DEF ExitsCounted
<1>13. QED
  BY <1>7, <1>8, <1>9, <1>10, <1>11, <1>12 DEF IdentityInv

-----------------------------------------------------------------------------
(***************************************************************************)
(* The invariant of the specification.                                     *)
(***************************************************************************)

\* Before the first frame nobody is known.
LEMMA IdentityInitInv == IdentityInit => IdentityInv
<1> SUFFICES ASSUME IdentityInit
             PROVE  IdentityInv
  OBVIOUS
<1>1. /\ active = [k \in Keys |-> NoPassport]
      /\ order = << >>
      /\ suspended = << >>
      /\ expired = << >>
      /\ issued = {}
      /\ ghosts = << >>
      /\ evidence = [v \in Visitors |-> 0]
      /\ visitorZones = [c \in Cameras |-> [v \in Visitors |-> NoZone]]
      /\ round = 0
      /\ turn = 1
      /\ shared = {}
      /\ follows = [v \in Visitors |-> 0]
      /\ reported = [v \in Visitors |-> 0]
  BY DEF IdentityInit
<1>2. \A k \in Keys : ~Followed(k)
  BY <1>1 DEF Followed
<1>3. ActiveVisitors = {}
  BY <1>2 DEF ActiveVisitors
<1>4. DOMAIN suspended = {} /\ DOMAIN expired = {} /\ ToSet(ghosts) = {} /\ ToSet(order) = {}
  BY <1>1 DEF ToSet
<1>5. IdentityTypeOK
  <2>1. Len(ghosts) = 0 /\ GhostMax \in Nat
    BY <1>1, IdentityAssumption
  <2>2. QED
    BY <1>1, <1>4, <2>1 DEF IdentityTypeOK
<1>6. ManagerTyped
  <2>1. turn \in 1 .. Len(CameraOrder)
    <3>1. CameraOrder \in Seq(STRING) /\ CameraOrder # << >>
      BY IdentityAssumption
    <3>2. Len(CameraOrder) \in Nat /\ Len(CameraOrder) # 0
      BY <3>1
    <3>3. QED
      BY <1>1, <3>2
  <2>2. order \in Seq(Keys) /\ ghosts \in Seq(Visitors)
    BY <1>1
  <2>3. ToSet(order) = {k \in Keys : Followed(k)}
    BY <1>2, <1>4
  <2>4. visitorZones \in [Cameras -> [Visitors -> Zones \cup {NoZone}]]
    BY <1>1
  <2>5. QED
    BY <1>1, <1>3, <1>5, <2>1, <2>2, <2>3, <2>4 DEF ManagerTyped
<1>7. UnissuedUnknown
  BY <1>1 DEF UnissuedUnknown
<1>8. OnePlace /\ FollowsCounted
  BY <1>1 DEF OnePlace, FollowsCounted
<1>9. NoGhostOfActive
  BY <1>4 DEF NoGhostOfActive
<1>10. ExitsCounted
  BY <1>2, <1>4 DEF ExitsCounted
<1>11. QED
  BY <1>6, <1>7, <1>8, <1>9, <1>10 DEF IdentityInv

\* The four ways in which a person who is seen becomes the owner of a track.
Resolves(k, v, d) ==
  \/ Sees(k, v, d.leaves)
  \/ Finds(k, v, d.leaves) /\ Matches(v, d)
  \/ Shares(k, v, d.leaves)
  \/ Admits(k, v, d.leaves)

\* A person who is seen is resolved in one of the four ways.
LEMMA SightResolves ==
  ASSUME ManagerTyped, NEW p \in People, NEW t \in Tracks, NEW leaves \in BOOLEAN,
         Sight(p, t, leaves)
  PROVE  /\ <<t, camera>> \in Keys
         /\ Detection(p, leaves) \in Shown
         /\ UNCHANGED <<round, turn>>
         /\ \E v \in Visitors : Resolves(<<t, camera>>, v, Detection(p, leaves))
<1> DEFINE k == <<t, camera>>
           d == Detection(p, leaves)
<1>1. camera \in Cameras
  BY CameraAndTime
<1>2. k \in Keys /\ k[2] = camera
  BY <1>1 DEF Keys
<1>3. d \in Shown
  BY <1>1, DetectionShown
<1>4. Resolve(k, d) /\ UNCHANGED <<round, turn>>
  BY DEF Sight
<1> HIDE DEF k, d
<1>5. \E v \in Visitors : Resolves(k, v, d)
  BY <1>2, <1>3, <1>4, ResolveKinds DEF Resolves
<1>6. QED
  BY <1>2, <1>3, <1>4, <1>5 DEF k, d

\* Every step keeps the invariant.
LEMMA IdentityStep == IdentityInv /\ [IdentityNext]_identityVars => IdentityInv'
<1> SUFFICES ASSUME IdentityInv, [IdentityNext]_identityVars
             PROVE  IdentityInv'
  OBVIOUS
<1>1. ManagerTyped
  BY DEF IdentityInv
<1>2. ASSUME NEW p \in People, NEW t \in Tracks, NEW leaves \in BOOLEAN, Sight(p, t, leaves)
      PROVE  IdentityInv'
  <2> DEFINE k == <<t, camera>>
             d == Detection(p, leaves)
  <2>1. k \in Keys /\ UNCHANGED <<round, turn>>
    BY <1>1, <1>2, SightResolves
  <2>2. PICK v \in Visitors : Resolves(k, v, d)
    BY <1>1, <1>2, SightResolves
  <2> HIDE DEF k, d
  <2>3. \E n : Settles(k, v, n, d.leaves)
    <3>1. CASE Sees(k, v, d.leaves)
      <4>1. Settles(k, v, active[k].exits, d.leaves)
        BY <2>1, <3>1, SeesSettles
      <4>2. QED
        BY <4>1
    <3>2. CASE Finds(k, v, d.leaves)
      <4>1. Settles(k, v, suspended[v].exits, d.leaves)
        BY <2>1, <3>2, FindsSettles
      <4>2. QED
        BY <4>1
    <3>3. CASE Shares(k, v, d.leaves)
      <4>1. Settles(k, v, PassportOf(v).exits, d.leaves)
        BY <2>1, <3>3, SharesSettles
      <4>2. QED
        BY <4>1
    <3>4. CASE Admits(k, v, d.leaves)
      <4>1. Settles(k, v, 0, d.leaves)
        BY <2>1, <3>4, AdmitsSettles
      <4>2. QED
        BY <4>1
    <3>5. QED
      BY <2>2, <3>1, <3>2, <3>3, <3>4 DEF Resolves
  <2>4. PICK n : Settles(k, v, n, d.leaves)
    BY <2>3
  <2>5. QED
    BY <2>1, <2>4, SettlesKeeps
<1>3. CASE EndFrame
  <2>1. PICK old \in SUBSET Visitors : Loses(old)
    BY <1>1, <1>3, EndFrameLoses
  <2>2. QED
    BY <2>1, LosesKeeps
<1>4. CASE UNCHANGED identityVars
  <2>1. /\ active' = active
        /\ order' = order
        /\ suspended' = suspended
        /\ expired' = expired
        /\ issued' = issued
        /\ ghosts' = ghosts
        /\ evidence' = evidence
        /\ visitorZones' = visitorZones
        /\ round' = round
        /\ turn' = turn
        /\ shared' = shared
        /\ follows' = follows
        /\ reported' = reported
    BY <1>4 DEF identityVars, managerVars, trackerVars, historyVars
  <2>2. /\ ManagerTyped'
        /\ UnissuedUnknown'
        /\ NoGhostOfActive'
        /\ FollowsCounted'
    BY <2>1 DEF IdentityInv, ManagerTyped, IdentityTypeOK, UnissuedUnknown, NoGhostOfActive,
                FollowsCounted, ActiveVisitors, Followed
  <2>3. OnePlace' /\ ExitsCounted'
    BY <2>1 DEF IdentityInv, OnePlace, InOnePlace, ExitsCounted, CountsExits, TracksOf, Followed
  <2>4. QED
    BY <2>2, <2>3 DEF IdentityInv
<1>5. QED
  BY <1>2, <1>3, <1>4 DEF IdentityNext

\* In every order of detections, losses, recognitions and purges: the types,
\* the one place of every passport, the ghosts, the evidence and the exits.
THEOREM IdentityInvariant == IdentitySpec => []IdentityInv
<1>1. QED
  BY IdentityInitInv, IdentityStep, PTL DEF IdentitySpec

\* The passports, ghosts and evidence of a visitor agree with each other.
THEOREM IdentityStaysConsistent == IdentitySpec => []IdentityConsistent
<1>1. IdentityInv => IdentityConsistent
  <2> SUFFICES ASSUME IdentityInv
               PROVE  IdentityConsistent
    OBVIOUS
  <2>1. IdentityTypeOK /\ NoGhostOfActive /\ OnePlace /\ FollowsCounted
    BY DEF IdentityInv, ManagerTyped
  <2>2. OnePassport
    <3>1. ASSUME NEW v \in issued \ shared
          PROVE  Cardinality(TracksOf(v))
                 + (IF v \in DOMAIN suspended THEN 1 ELSE 0)
                 + (IF v \in DOMAIN expired THEN 1 ELSE 0) = 1
      <4>1. InOnePlace(v)
        BY <2>1 DEF OnePlace
      <4>2. \A k \in Keys : TracksOf(v) = {k} => Cardinality(TracksOf(v)) = 1
        BY FS_Singleton
      <4>3. TracksOf(v) = {} => Cardinality(TracksOf(v)) = 0
        BY FS_EmptySet
      <4>4. QED
        BY <4>1, <4>2, <4>3 DEF InOnePlace
    <3>2. QED
      BY <3>1 DEF OnePassport
  <2>3. EvidenceExplains
    BY <2>1 DEF EvidenceExplains, FollowsCounted
  <2>4. QED
    BY <2>1, <2>2, <2>3 DEF IdentityConsistent
<1>2. QED
  BY <1>1, IdentityInvariant, PTL

\* The exits that tell a re-entry from an entry are those that were reported.
THEOREM ExitsAreRemembered == IdentitySpec => []ExitsRemembered
<1>1. IdentityInv => ExitsRemembered
  <2> SUFFICES ASSUME IdentityInv, NEW v \in issued
               PROVE  /\ ExitCount(v) <= reported[v]
                      /\ v \notin shared => ExitCount(v) = reported[v]
    BY DEF ExitsRemembered
  <2>1. /\ ManagerTyped
        /\ IdentityTypeOK
        /\ ExitsCounted
        /\ OnePlace
        /\ NoPassport \notin Passport
    BY IdentityAssumption DEF IdentityInv, ManagerTyped
  <2>2. reported[v] \in Nat
    BY <2>1 DEF ManagerTyped, IdentityTypeOK
  <2>3. ASSUME NEW p \in Passport, p.visitor = v, PassportOf(v) = p, CountsExits(p)
        PROVE  /\ ExitCount(v) <= reported[v]
               /\ v \notin shared => ExitCount(v) = reported[v]
    <3>1. ExitCount(v) = p.exits
      BY <2>1, <2>3 DEF ExitCount
    <3>2. QED
      BY <2>3, <3>1 DEF CountsExits
  <2>4. CASE \E k \in TracksOf(v) : PassportOf(v) = active[k]
    <3>1. PICK k \in TracksOf(v) : PassportOf(v) = active[k]
      BY <2>4
    <3>2. k \in Keys /\ Followed(k) /\ active[k].visitor = v
      BY DEF TracksOf
    <3>3. active[k] \in Passport /\ CountsExits(active[k])
      BY <2>1, <3>2, FollowedTyped DEF ExitsCounted
    <3>4. QED
      BY <2>3, <3>1, <3>2, <3>3
  <2>5. CASE v \in DOMAIN suspended /\ PassportOf(v) = suspended[v]
    <3>1. suspended[v] \in Passport /\ suspended[v].visitor = v /\ CountsExits(suspended[v])
      BY <2>1, <2>5 DEF IdentityTypeOK, ExitsCounted
    <3>2. QED
      BY <2>3, <2>5, <3>1
  <2>6. CASE v \in DOMAIN expired /\ PassportOf(v) = expired[v]
    <3>1. expired[v] \in Passport /\ expired[v].visitor = v /\ CountsExits(expired[v])
      BY <2>1, <2>6 DEF IdentityTypeOK, ExitsCounted
    <3>2. QED
      BY <2>3, <2>6, <3>1
  <2>7. CASE /\ TracksOf(v) = {}
             /\ v \notin DOMAIN suspended
             /\ v \notin DOMAIN expired
             /\ PassportOf(v) = NoPassport
    <3>1. v \in shared
      BY <2>1, <2>7 DEF OnePlace, InOnePlace
    <3>2. ExitCount(v) = 0
      BY <2>7 DEF ExitCount
    <3>3. QED
      BY <2>2, <3>1, <3>2
  <2>8. QED
    BY <2>1, <2>4, <2>5, <2>6, <2>7, PassportFound
<1>2. QED
  BY <1>1, IdentityInvariant, PTL

-----------------------------------------------------------------------------
(***************************************************************************)
(* Nobody is recognised by a guess.                                        *)
(***************************************************************************)

\* Leaving does not enter the signals.
LEMMA LeavingNotSignalled ==
  ASSUME NEW p, NEW r, NEW leaves, NEW c, NEW t
  PROVE  Signals(p, Detection(r, leaves), c, t) = Signals(p, Detection(r, FALSE), c, t)
BY DEF Signals, Detection

\* Two lost visitors who could be exchanged compete: both are candidates, and
\* their scores are within the gap.
LEMMA InterchangeableCompete ==
  ASSUME ManagerTyped, NEW r \in People, NEW leaves \in BOOLEAN,
         Detection(r, leaves) \in Shown,
         NEW v \in DOMAIN suspended, NEW w \in DOMAIN suspended \ {v},
         v \in Candidates(Detection(r, leaves)),
         Interchangeable(suspended[v], suspended[w])
  PROVE  /\ w \in Candidates(Detection(r, leaves))
         /\ IdentityScore(SignalsOf(v, Detection(r, leaves)))
            - IdentityScore(SignalsOf(w, Detection(r, leaves))) < RivalGap
<1> DEFINE d == Detection(r, leaves)
           p == suspended[v]
           q == suspended[w]
           a == Signals(p, d, camera, now)
           b == Signals(q, d, camera, now)
<1>1. p \in Passport /\ q \in Passport /\ now \in Int
  BY CameraAndTime DEF ManagerTyped, IdentityTypeOK
<1>2. /\ p.cam = q.cam
      /\ p.seen = q.seen
      /\ p.retain = q.retain
      /\ p.zone = q.zone
      /\ p.det = q.det
  BY DEF Interchangeable
<1>3. /\ a = Signals(p, Detection(r, FALSE), camera, now)
      /\ b = Signals(q, Detection(r, FALSE), camera, now)
  BY LeavingNotSignalled
<1>4. Associates(a) => Associates(b)
  <2>1. Associates(Signals(p, Detection(r, FALSE), camera, now))
          <=> Associates(Signals(q, Detection(r, FALSE), camera, now))
    BY DEF Interchangeable
  <2>2. QED
    BY <1>3, <2>1
<1>5. Associates(a) /\ InWindow(p)
  BY DEF Candidates, SignalsOf
<1>6. InWindow(q)
  BY <1>2, <1>5 DEF InWindow
<1>7. w \in Candidates(d)
  BY <1>4, <1>5, <1>6 DEF Candidates, SignalsOf
<1>8. /\ a.temporal = b.temporal
      /\ a.camera = b.camera
      /\ a.zone = b.zone
      /\ a.det = b.det
  BY <1>2 DEF Signals
<1>9. LookAlike(p.look, d.look) - LookAlike(q.look, d.look) <= 16
  <2>1. CASE d.look = NoLook
    BY <2>1 DEF LookAlike
  <2>2. CASE d.look # NoLook
    <3>1. d.look \in Looks
      BY <2>2 DEF Shown
    <3> HIDE DEF d
    <3>2. QED
      BY <3>1 DEF Interchangeable
  <2>3. QED
    BY <2>1, <2>2
<1> HIDE DEF d
<1>10. d \in Shown
  BY DEF d
<1> DEFINE e == 30 * Neutral + 15 * a.temporal + 15 * a.camera + 10 * a.zone + 5 * a.det
           f == 30 * Neutral + 15 * b.temporal + 15 * b.camera + 10 * b.zone + 5 * b.det
<1>11. /\ a.reid = LookAlike(p.look, d.look)
       /\ a.reid \in 0 .. 100
       /\ e \in Int
       /\ IdentityScore(a) = 35 * a.reid + e
  BY <1>1, <1>10, ScoreParts
<1>12. /\ b.reid = LookAlike(q.look, d.look)
       /\ b.reid \in 0 .. 100
       /\ f \in Int
       /\ IdentityScore(b) = 35 * b.reid + f
  BY <1>1, <1>10, ScoreParts
<1> HIDE DEF a, b
<1>13. e = f
  BY <1>8
<1> HIDE DEF e, f, p, q
<1>14. IdentityScore(a) - IdentityScore(b) < RivalGap
  <2>1. a.reid - b.reid <= 16
    BY <1>9, <1>11, <1>12
  <2>2. \A x, y \in 0 .. 100, z \in Int : x - y <= 16 => (35 * x + z) - (35 * y + z) < 5 * 115
    OBVIOUS
  <2>3. (35 * a.reid + e) - (35 * b.reid + e) < 5 * 115
    BY <1>11, <1>12, <2>1, <2>2
  <2>4. QED
    BY <1>11, <1>12, <1>13, <2>3 DEF RivalGap, TotalWeight
<1>15. QED
  BY <1>7, <1>14 DEF a, b, d, p, q, SignalsOf

\* A match is within the window, and nobody who could be exchanged for the
\* visitor is lost: the courtroom would have to uphold an ambiguous match.
LEMMA MatchedSafely ==
  ASSUME ManagerTyped, NEW r \in People, NEW leaves \in BOOLEAN,
         Detection(r, leaves) \in Shown,
         NEW v, Matches(v, Detection(r, leaves))
  PROVE  /\ now - suspended[v].seen <= suspended[v].retain
         /\ \A w \in DOMAIN suspended \ {v} :
              ~Interchangeable(suspended[v], suspended[w])
<1> DEFINE d == Detection(r, leaves)
           score(w) == IdentityScore(SignalsOf(w, d))
           rivals == Candidates(d) \ {v}
<1>1. /\ v \in Candidates(d)
      /\ Upheld(SignalsOf(v, d), \E w \in rivals : score(v) - score(w) < RivalGap)
  BY DEF Matches
<1>2. v \in DOMAIN suspended /\ InWindow(suspended[v])
  BY <1>1 DEF Candidates
<1>3. ASSUME NEW w \in DOMAIN suspended \ {v}, Interchangeable(suspended[v], suspended[w])
      PROVE  FALSE
  <2>1. /\ w \in Candidates(d)
        /\ score(v) - score(w) < RivalGap
    BY <1>1, <1>2, <1>3, InterchangeableCompete
  <2>2. \E x \in rivals : score(v) - score(x) < RivalGap
    BY <2>1
  <2> DEFINE competing == \E x \in rivals : score(v) - score(x) < RivalGap
  <2>3. competing
    BY <2>2
  <2>4. Upheld(SignalsOf(v, d), competing)
    BY <1>1
  <2> HIDE DEF competing
  <2>5. CourtroomMatches(SignalsOf(v, d))
    BY <2>3, <2>4 DEF Upheld, Band
  <2>6. SignalsOf(v, d).reid \in 0 .. 100
    <3>1. suspended[v] \in Passport /\ now \in Int
      BY <1>2, CameraAndTime DEF ManagerTyped, IdentityTypeOK
    <3>2. QED
      BY <3>1, ScoreParts DEF SignalsOf
  <2>7. QED
    BY <2>5, <2>6, CourtroomNeverMatches
<1>4. QED
  BY <1>2, <1>3 DEF InWindow

\* A visitor is recognised only within the window of the way they disappeared,
\* and never by a guess between two who could be exchanged.
THEOREM RecognitionIsSafe == IdentitySpec => RecognisedSafely
<1> DEFINE Safe == \A v \in DOMAIN suspended \ (DOMAIN suspended' \cup DOMAIN expired') :
                     /\ now - suspended[v].seen <= suspended[v].retain
                     /\ \A w \in DOMAIN suspended \ {v} :
                          ~Interchangeable(suspended[v], suspended[w])
<1>1. IdentityInv /\ [IdentityNext]_identityVars => [Safe]_suspended
  <2> SUFFICES ASSUME IdentityInv, [IdentityNext]_identityVars
               PROVE  Safe \/ suspended' = suspended
    OBVIOUS
  <2>1. ManagerTyped
    BY DEF IdentityInv
  <2>2. ASSUME NEW p \in People, NEW t \in Tracks, NEW leaves \in BOOLEAN, Sight(p, t, leaves)
        PROVE  Safe \/ suspended' = suspended
    <3> DEFINE k == <<t, camera>>
               d == Detection(p, leaves)
    <3>1. d \in Shown
      BY <2>1, <2>2, SightResolves
    <3>2. PICK v \in Visitors : Resolves(k, v, d)
      BY <2>1, <2>2, SightResolves
    <3>3. CASE Sees(k, v, d.leaves)
      BY <3>3 DEF Sees
    <3>4. CASE Finds(k, v, d.leaves) /\ Matches(v, d)
      <4>1. DOMAIN suspended' = DOMAIN suspended \ {v}
        BY <3>4 DEF Finds, FoundAgain
      <4>2. /\ now - suspended[v].seen <= suspended[v].retain
            /\ \A w \in DOMAIN suspended \ {v} :
                 ~Interchangeable(suspended[v], suspended[w])
        BY <2>1, <3>1, <3>4, MatchedSafely
      <4>3. QED
        BY <4>1, <4>2
    <3>5. CASE Shares(k, v, d.leaves)
      BY <3>5 DEF Shares
    <3>6. CASE Admits(k, v, d.leaves)
      BY <3>6 DEF Admits
    <3>7. QED
      BY <3>2, <3>3, <3>4, <3>5, <3>6 DEF Resolves
  <2>3. CASE EndFrame
    <3>1. PICK old \in SUBSET Visitors : Loses(old)
      BY <2>1, <2>3, EndFrameLoses
    <3>2. DOMAIN suspended \ (DOMAIN suspended' \cup DOMAIN expired') = {}
      BY <3>1 DEF Loses
    <3>3. QED
      BY <3>2
  <2>4. CASE UNCHANGED identityVars
    BY <2>4 DEF identityVars, managerVars
  <2>5. QED
    BY <2>2, <2>3, <2>4 DEF IdentityNext
<1>2. QED
  BY <1>1, IdentityInvariant, PTL DEF IdentitySpec, RecognisedSafely

-----------------------------------------------------------------------------
(***************************************************************************)
(* The manager keeps the promise of the ledger.                            *)
(***************************************************************************)

\* A track that is taken changes its owner and no other.
LEMMA TakenOwner ==
  ASSUME ManagerTyped, NEW k \in Keys, NEW v \in Visitors, NEW n, NEW leaves,
         Takes(k, v, n, leaves)
  PROVE  OwnerOf' = [OwnerOf EXCEPT ![k] = v]
<1>1. \A j \in Keys : Followed(j)' <=> Followed(j) \/ j = k
  BY TakenTracks
<1>2. OwnerOf' = [j \in Keys |-> IF Followed(j)' THEN active'[j].visitor ELSE NoOne]
  BY DEF OwnerOf
<1>3. ASSUME NEW j \in Keys
      PROVE  (IF Followed(j)' THEN active'[j].visitor ELSE NoOne) = [OwnerOf EXCEPT ![k] = v][j]
  <2>1. CASE j = k
    BY <1>1, <2>1 DEF Takes, OwnerOf
  <2>2. CASE j # k /\ j \in TracksOf(v)
    BY <1>1, <2>2 DEF Takes, OwnerOf, TracksOf
  <2>3. CASE j # k /\ j \notin TracksOf(v)
    BY <1>1, <2>3 DEF Takes, OwnerOf
  <2>4. QED
    BY <2>1, <2>2, <2>3
<1> DEFINE f == [j \in Keys |-> IF Followed(j)' THEN active'[j].visitor ELSE NoOne]
           g == [OwnerOf EXCEPT ![k] = v]
<1>4. DOMAIN g = Keys /\ g = [j \in Keys |-> g[j]]
  BY DEF OwnerOf
<1>5. QED
  BY <1>2, <1>3, <1>4

\* The owner of a track.
LEMMA OwnerIs ==
  ASSUME NEW k \in Keys
  PROVE  OwnerOf[k] = IF Followed(k) THEN active[k].visitor ELSE NoOne
BY DEF OwnerOf

\* A detection is a step of the ledger, or none.
LEMMA ResolvedInLedger ==
  ASSUME ManagerTyped, NEW k \in Keys, NEW v \in Visitors, NEW d \in Shown, Resolves(k, v, d)
  PROVE  [Ledger!LedgerNext]_(Ledger!ledgerVars)
<1>1. OwnerOf[k] = IF Followed(k) THEN active[k].visitor ELSE NoOne
  BY OwnerIs
<1>2. CASE Sees(k, v, d.leaves)
  <2>1. /\ Followed(k)
        /\ Takes(k, v, active[k].exits, d.leaves)
        /\ suspended' = suspended
        /\ issued' = issued
    BY <1>2 DEF Sees
  <2>2. OwnerOf' = [OwnerOf EXCEPT ![k] = v] /\ OwnerOf[k] = v
    BY <1>1, <2>1, TakenOwner DEF Takes
  <2>3. OwnerOf' = OwnerOf
    BY <2>2 DEF OwnerOf
  <2>4. QED
    BY <2>1, <2>3 DEF Ledger!ledgerVars
<1>3. CASE Finds(k, v, d.leaves)
  <2>1. /\ OwnerOf[k] = NoOne
        /\ v \in DOMAIN suspended
        /\ OwnerOf' = [OwnerOf EXCEPT ![k] = v]
        /\ DOMAIN suspended' = DOMAIN suspended \ {v}
        /\ issued' = issued
    BY <1>1, <1>3, TakenOwner DEF Finds, FoundAgain
  <2>2. Ledger!Recognise(k)
    BY <2>1 DEF Ledger!Recognise
  <2>3. QED
    BY <2>2 DEF Ledger!LedgerNext
<1>4. CASE Shares(k, v, d.leaves)
  <2>1. PICK j \in TracksOf(v) : ~SameCamera(j, k)
    BY <1>4 DEF Shares
  <2>2. j \in Keys /\ OwnerOf[j] = v
    BY OwnerIs DEF TracksOf
  <2>3. OwnerOf[j] # NoOne
    BY <2>2, IdentityAssumption
  <2>4. /\ OwnerOf[k] = NoOne
        /\ OwnerOf' = [OwnerOf EXCEPT ![k] = OwnerOf[j]]
        /\ suspended' = suspended
        /\ issued' = issued
    BY <1>1, <1>4, <2>2, TakenOwner DEF Shares
  <2>5. Ledger!Share(k)
    BY <2>1, <2>2, <2>3, <2>4 DEF Ledger!Share
  <2>6. QED
    BY <2>5 DEF Ledger!LedgerNext
<1>5. CASE Admits(k, v, d.leaves)
  <2>1. /\ OwnerOf[k] = NoOne
        /\ v \in Visitors \ issued
        /\ OwnerOf' = [OwnerOf EXCEPT ![k] = v]
        /\ issued' = issued \cup {v}
        /\ suspended' = suspended
    BY <1>1, <1>5, TakenOwner DEF Admits
  <2>2. Ledger!Admit(k)
    BY <2>1 DEF Ledger!Admit
  <2>3. QED
    BY <2>2 DEF Ledger!LedgerNext
<1>6. QED
  BY <1>2, <1>3, <1>4, <1>5 DEF Resolves

\* The end of a frame releases the lost visitors and forgets the stale ones.
LEMMA LossInLedger ==
  ASSUME ManagerTyped, NEW old \in SUBSET Visitors, Loses(old)
  PROVE  Ledger!LedgerNext
<1>1. \A k \in Lost : k \in Keys /\ OwnerOf[k] = active[k].visitor
  BY LostTracks, OwnerIs
<1>2. \A k \in Lost : OwnerOf[k] # NoOne
  <2>1. \A k \in Lost : active[k].visitor \in Visitors
    BY LostTracks DEF ManagerTyped, IdentityTypeOK
  <2>2. QED
    BY <1>1, <2>1, IdentityAssumption
<1>3. \A j, k \in Lost : SameCamera(j, k)
  BY DEF Lost, SameCamera
<1>4. OwnerOf' = [k \in Keys |-> IF k \in Lost THEN NoOne ELSE OwnerOf[k]]
  <2>1. /\ \A k \in Keys : Followed(k)' <=> Followed(k) /\ k \notin Lost
        /\ \A k \in Keys \ Lost : active'[k] = active[k]
    BY TracksAfterLoss DEF Loses
  <2>2. OwnerOf' = [k \in Keys |-> IF Followed(k)' THEN active'[k].visitor ELSE NoOne]
    BY DEF OwnerOf
  <2>3. \A k \in Keys : (IF Followed(k)' THEN active'[k].visitor ELSE NoOne)
                        = IF k \in Lost THEN NoOne ELSE OwnerOf[k]
    BY <2>1, OwnerIs
  <2>4. QED
    BY <2>2, <2>3
<1>5. LostVisitors = {OwnerOf[k] : k \in Lost}
  BY <1>1 DEF LostVisitors
<1>6. /\ DOMAIN suspended' = (DOMAIN suspended \cup {OwnerOf[k] : k \in Lost}) \ old
      /\ issued' = issued
  BY <1>5 DEF Loses
<1>7. Ledger!Release(Lost, old)
  BY <1>2, <1>3, <1>4, <1>6 DEF Ledger!Release
<1>8. Lost \in SUBSET Keys
  BY <1>1
<1>9. QED
  BY <1>7, <1>8 DEF Ledger!LedgerNext

\* A followed track belongs to one visitor; a new track is a new visitor, one
\* who was lost or one whom another camera follows; nobody who was forgotten
\* comes back.
THEOREM ManagerKeepsLedger == IdentitySpec => KeepsLedger
<1>1. IdentityInit => Ledger!LedgerInit
  <2> SUFFICES ASSUME IdentityInit
               PROVE  Ledger!LedgerInit
    OBVIOUS
  <2>1. /\ active = [k \in Keys |-> NoPassport]
        /\ suspended = << >>
        /\ issued = {}
    BY DEF IdentityInit
  <2>2. OwnerOf = [k \in Keys |-> NoOne]
    BY <2>1 DEF OwnerOf, Followed
  <2>3. DOMAIN suspended = {}
    BY <2>1
  <2>4. QED
    BY <2>1, <2>2, <2>3 DEF Ledger!LedgerInit
<1>2. IdentityInv /\ [IdentityNext]_identityVars => [Ledger!LedgerNext]_(Ledger!ledgerVars)
  <2> SUFFICES ASSUME IdentityInv, [IdentityNext]_identityVars
               PROVE  [Ledger!LedgerNext]_(Ledger!ledgerVars)
    OBVIOUS
  <2>1. ManagerTyped
    BY DEF IdentityInv
  <2>2. ASSUME NEW p \in People, NEW t \in Tracks, NEW leaves \in BOOLEAN, Sight(p, t, leaves)
        PROVE  [Ledger!LedgerNext]_(Ledger!ledgerVars)
    <3> DEFINE k == <<t, camera>>
               d == Detection(p, leaves)
    <3>1. k \in Keys /\ d \in Shown
      BY <2>1, <2>2, SightResolves
    <3>2. PICK v \in Visitors : Resolves(k, v, d)
      BY <2>1, <2>2, SightResolves
    <3> HIDE DEF k, d
    <3>3. QED
      BY <2>1, <3>1, <3>2, ResolvedInLedger
  <2>3. CASE EndFrame
    <3>1. PICK old \in SUBSET Visitors : Loses(old)
      BY <2>1, <2>3, EndFrameLoses
    <3>2. QED
      BY <2>1, <3>1, LossInLedger
  <2>4. CASE UNCHANGED identityVars
    <3>1. active' = active /\ suspended' = suspended /\ issued' = issued
      BY <2>4 DEF identityVars, managerVars
    <3>2. OwnerOf' = OwnerOf
      BY <3>1 DEF OwnerOf, Followed
    <3>3. QED
      BY <3>1, <3>2 DEF Ledger!ledgerVars
  <2>5. QED
    BY <2>2, <2>3, <2>4 DEF IdentityNext
<1>3. QED
  BY <1>1, <1>2, IdentityInvariant, PTL DEF IdentitySpec, KeepsLedger, Ledger!LedgerSpec

=============================================================================
