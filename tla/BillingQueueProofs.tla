------------------------- MODULE BillingQueueProofs -------------------------
(***************************************************************************)
(* Theorems about the billing queue tracker, for any visitors, any waits   *)
(* and any frames.                                                         *)
(***************************************************************************)
EXTENDS BillingQueue, ListLemmas

\* Nobody in the zone came in the future.
EnteredBefore == \A v \in Visitors : inZone[v] # Away => inZone[v] <= now

QueueInv == BillingTypeOK /\ EnteredBefore /\ CandidatesFlushed

\* The candidates after the departures of a frame at `time`.
LEMMA WatchedType ==
  ASSUME NEW present, NEW time \in Nat, time >= now, QueueInv, NEW v \in Visitors
  PROVE  LET w == Watched(present, time)[v] IN
         w # Away => /\ w \in Stay
                     /\ w.exit - w.enter >= MinQueueDwell
                     /\ w.exit <= time
<1> DEFINE w == Watched(present, time)[v]
<1>1. /\ now \in Nat
      /\ inZone[v] \in Nat \cup {Away}
      /\ exited[v] \in Stay \cup {Away}
      /\ MinQueueDwell \in Nat
  BY QueueAssumption DEF QueueInv, BillingTypeOK
<1>2. CASE v \in Departed(present) /\ time - inZone[v] >= MinQueueDwell
  <2>1. w = [enter |-> inZone[v], exit |-> time]
    BY <1>2 DEF Watched
  <2>2. inZone[v] \in Nat
    BY <1>1, <1>2 DEF Departed
  <2>3. QED
    BY <1>2, <2>1, <2>2 DEF Stay
<1>3. CASE ~(v \in Departed(present) /\ time - inZone[v] >= MinQueueDwell)
  <2>1. w = exited[v]
    BY <1>3 DEF Watched
  <2>2. exited[v] # Away => /\ exited[v].exit - exited[v].enter >= MinQueueDwell
                            /\ exited[v].exit <= now
    BY DEF QueueInv, CandidatesFlushed
  <2>3. exited[v] # Away => exited[v].exit \in Nat
    BY <1>1 DEF Stay
  <2>4. QED
    BY <1>1, <2>1, <2>2, <2>3
<1>4. QED
  BY <1>2, <1>3

LEMMA FrameKeepsInv ==
  ASSUME NEW present, NEW gap \in Gaps, QueueInv, Frame(present, now + gap)
  PROVE  QueueInv'
<1> DEFINE time == now + gap
           watched == Watched(present, time)
<1>1. /\ now \in Nat
      /\ gap \in Nat
      /\ PosWindow \in Nat
      /\ inZone \in [Visitors -> Nat \cup {Away}]
      /\ Away \notin Nat
  BY BillingAssumption, QueueAssumption DEF QueueInv, BillingTypeOK
<1>2. /\ now' = time
      /\ time \in Nat
      /\ time >= now
  BY <1>1 DEF Frame
<1>3. inZone' = [v \in Visitors |->
        IF v \notin ToSet(present) THEN Away
        ELSE IF inZone[v] = Away THEN time ELSE inZone[v]]
  BY DEF Frame, UpdateQueue
<1>4. exited' = [v \in Visitors |->
        IF v \in AgedOut(watched, time) THEN Away ELSE watched[v]]
  BY DEF Frame, UpdateQueue
<1>5. EnteredBefore'
  BY <1>1, <1>2, <1>3 DEF QueueInv, EnteredBefore
<1>6. \A v \in Visitors : exited'[v] # Away =>
        /\ exited'[v] \in Stay
        /\ exited'[v].exit - exited'[v].enter >= MinQueueDwell
        /\ exited'[v].exit <= time
        /\ time - exited'[v].exit < PosWindow
  <2> SUFFICES ASSUME NEW v \in Visitors, exited'[v] # Away
               PROVE  /\ exited'[v] \in Stay
                      /\ exited'[v].exit - exited'[v].enter >= MinQueueDwell
                      /\ exited'[v].exit <= time
                      /\ time - exited'[v].exit < PosWindow
    OBVIOUS
  <2>1. v \notin AgedOut(watched, time) /\ exited'[v] = watched[v]
    BY <1>4
  <2>2. ~(time - watched[v].exit >= PosWindow)
    BY <2>1 DEF AgedOut
  <2>3. /\ watched[v] \in Stay
        /\ watched[v].exit - watched[v].enter >= MinQueueDwell
        /\ watched[v].exit <= time
    BY <1>2, <2>1, WatchedType
  <2>4. watched[v].exit \in Nat
    BY <2>3 DEF Stay
  <2>5. time - watched[v].exit < PosWindow
    BY <1>1, <1>2, <2>2, <2>4
  <2>6. QED
    BY <2>1, <2>3, <2>5
<1>7. BillingTypeOK'
  <2>1. inZone' \in [Visitors -> Nat \cup {Away}]
    BY <1>1, <1>2, <1>3
  <2>2. exited' \in [Visitors -> Stay \cup {Away}]
    BY <1>4, <1>6
  <2>3. QED
    BY <1>2, <2>1, <2>2 DEF BillingTypeOK
<1>8. CandidatesFlushed'
  BY <1>2, <1>6 DEF CandidatesFlushed
<1>9. QED
  BY <1>5, <1>7, <1>8 DEF QueueInv

\* QueueInv is an inductive invariant of the tracker.
THEOREM QueueInvariant == BillingSpec => []QueueInv
<1>1. BillingInit => QueueInv
  BY DEF BillingInit, QueueInit, QueueInv, BillingTypeOK, EnteredBefore, CandidatesFlushed
<1>2. QueueInv /\ [BillingNext]_billingVars => QueueInv'
  <2> SUFFICES ASSUME QueueInv, [BillingNext]_billingVars
               PROVE  QueueInv'
    OBVIOUS
  <2>1. ASSUME NEW present \in Lists, NEW gap \in Gaps, Frame(present, now + gap)
        PROVE  QueueInv'
    BY <2>1, FrameKeepsInv
  <2>2. ASSUME NEW v \in Visitors, Pay(v)
        PROVE  QueueInv'
    BY <2>2 DEF Pay, queueVars, QueueInv, BillingTypeOK, EnteredBefore, CandidatesFlushed
  <2>3. CASE UNCHANGED billingVars
    BY <2>3 DEF billingVars, historyVars, queueVars, QueueInv, BillingTypeOK,
                EnteredBefore, CandidatesFlushed
  <2>4. QED
    BY <2>1, <2>2, <2>3 DEF BillingNext
<1>3. QED
  BY <1>1, <1>2, PTL DEF BillingSpec

\* _in_zone and _exited keep their types.
THEOREM QueueTyped == BillingSpec => []BillingTypeOK
<1>1. QueueInv => BillingTypeOK
  BY DEF QueueInv
<1>2. QED
  BY <1>1, QueueInvariant, PTL

\* A candidate has stayed MinQueueDwell and leaves _exited when its window has
\* passed, whatever the frames show: the tracker does not grow over the day.
THEOREM CandidatesDoFlush == BillingSpec => []CandidatesFlushed
<1>1. QueueInv => CandidatesFlushed
  BY DEF QueueInv
<1>2. QED
  BY <1>1, QueueInvariant, PTL

-----------------------------------------------------------------------------
(***************************************************************************)
(* The JOINs of a frame.                                                   *)
(***************************************************************************)

Arrival == [visitor : Visitors, depth : Nat]

\* The visitors in the zone before the frame.
Queue == {v \in Visitors : inZone[v] # Away}

\* The visitors in the zone, with the first k of those present now.
Ahead(present, k) == Queue \cup {present[l] : l \in 1 .. k}

\* The JOIN of the k-th of those present.
ArrivalOf(present, k) ==
  [visitor |-> present[k], depth |-> Cardinality(Ahead(present, k - 1))]

\* The arrivals among the first k of those present.
ArrivalsTo(present, k) ==
  {ArrivalOf(present, m) : m \in {l \in 1 .. k : inZone[present[l]] = Away}}

\* The loop over the visitors present makes a JOIN of each arrival; its depth
\* is the number of visitors in the zone and of the arrivals ahead of it.
LEMMA JoinsAre ==
  ASSUME NEW present \in Seq(Visitors), IsFiniteSet(Visitors),
         \A k, l \in 1 .. Len(present) : present[k] = present[l] => k = l
  PROVE  ToSet(Joins(present)) = ArrivalsTo(present, Len(present))
<1> DEFINE n == Len(present)
           S == Seq(Arrival)
           Next1(x, i) == IF inZone[present[i]] # Away THEN x
                          ELSE Append(x, [visitor |-> present[i],
                                          depth |-> CurrentQueueDepth + Len(x)])
           step == [x \in S \X (1 .. n) |-> Next1(x[1], x[2])]
           joins[i \in 0 .. n] ==
             IF i = 0 THEN << >>
             ELSE IF inZone[present[i]] # Away THEN joins[i - 1]
             ELSE Append(joins[i - 1], [visitor |-> present[i],
                                        depth |-> CurrentQueueDepth + Len(joins[i - 1])])
<1>1. n \in Nat
  OBVIOUS
<1>2. ASSUME NEW k \in 0 .. n
       PROVE  /\ IsFiniteSet(Ahead(present, k))
              /\ Cardinality(Ahead(present, k)) \in Nat
  <2>1. Ahead(present, k) \in SUBSET Visitors
    BY DEF Ahead, Queue
  <2>2. IsFiniteSet(Ahead(present, k))
    BY <2>1, FS_Subset
  <2>3. QED
    BY <2>2, FS_CardinalityType
<1>3. CurrentQueueDepth = Cardinality(Ahead(present, 0)) /\ CurrentQueueDepth \in Nat
  <2>1. Queue = Ahead(present, 0)
    BY DEF Ahead
  <2>2. CurrentQueueDepth = Cardinality(Ahead(present, 0))
    BY <2>1 DEF CurrentQueueDepth, Queue
  <2>3. QED
    BY <1>1, <1>2, <2>2
<1>4. ASSUME NEW x \in S, NEW i \in 1 .. n
      PROVE  Next1(x, i) \in S
  <2>1. present[i] \in Visitors /\ CurrentQueueDepth + Len(x) \in Nat
    BY <1>3
  <2> DEFINE a == [visitor |-> present[i], depth |-> CurrentQueueDepth + Len(x)]
  <2>2. a \in Arrival
    BY <2>1 DEF Arrival
  <2> HIDE DEF a
  <2>3. Append(x, a) \in S
    BY <2>2
  <2>4. QED
    BY <2>3 DEF a
<1>5. step \in StepFunctions(S, n)
  BY <1>4 DEF StepFunctions
<1>6. \A x \in S, i \in 1 .. n : step[<<x, i>>] = Next1(x, i)
  OBVIOUS
<1>7. << >> \in S
  OBVIOUS
<1> HIDE DEF S, step
<1>8. PICK g \in [0 .. n -> S] :
        /\ g[0] = << >>
        /\ \A i \in 1 .. n : g[i] = step[<<g[i - 1], i>>]
  <2> HIDE DEF n
  <2>1. Runs(S, n, << >>, step) # {}
    BY <1>1, <1>5, <1>7, RunExists
  <2>2. QED
    BY <2>1 DEF Runs
<1>9. ASSUME NEW i \in 1 .. n
      PROVE  g[i] = Next1(g[i - 1], i)
  <2>1. i - 1 \in 0 .. n
    OBVIOUS
  <2>2. g[i - 1] \in S
    BY <1>8, <2>1
  <2>3. g[i] = step[<<g[i - 1], i>>]
    BY <1>8
  <2>4. QED
    BY <1>6, <2>2, <2>3
<1>10. ASSUME NEW i \in 1 .. n
       PROVE  g[i] = IF inZone[present[i]] # Away THEN g[i - 1]
                     ELSE Append(g[i - 1], [visitor |-> present[i],
                                            depth |-> CurrentQueueDepth + Len(g[i - 1])])
  BY <1>9
<1>11. g = [i \in 0 .. n |->
             IF i = 0 THEN << >>
             ELSE IF inZone[present[i]] # Away THEN g[i - 1]
             ELSE Append(g[i - 1], [visitor |-> present[i],
                                    depth |-> CurrentQueueDepth + Len(g[i - 1])])]
  <2>1. ASSUME NEW i \in 0 .. n
        PROVE  g[i] = IF i = 0 THEN << >>
                      ELSE IF inZone[present[i]] # Away THEN g[i - 1]
                      ELSE Append(g[i - 1], [visitor |-> present[i],
                                             depth |-> CurrentQueueDepth + Len(g[i - 1])])
    <3>1. CASE i = 0
      BY <1>8, <3>1
    <3>2. CASE i # 0
      <4>1. i \in 1 .. n
        BY <1>1, <3>2
      <4> HIDE DEF n
      <4>2. QED
        BY <1>10, <3>2, <4>1
    <3>3. QED
      BY <3>1, <3>2
  <2>2. g = [i \in 0 .. n |-> g[i]]
    BY <1>8
  <2>3. QED
    BY <2>1, <2>2, Zenon
<1>12. joins = [i \in 0 .. n |->
             IF i = 0 THEN << >>
             ELSE IF inZone[present[i]] # Away THEN joins[i - 1]
             ELSE Append(joins[i - 1], [visitor |-> present[i],
                                        depth |-> CurrentQueueDepth + Len(joins[i - 1])])]
  BY <1>11, Zenon
<1>13. Joins(present) = joins[n]
  BY DEF Joins
<1> HIDE DEF joins
<1>14. joins[n] = g[n]
  <2> DEFINE K == {k \in Nat : k <= n => joins[k] = g[k]}
  <2>1. 0 \in K
    BY <1>8, <1>12
  <2>2. ASSUME NEW k \in K
        PROVE  k + 1 \in K
    <3> SUFFICES ASSUME k + 1 <= n
                 PROVE  joins[k + 1] = g[k + 1]
      OBVIOUS
    <3>1. joins[k] = g[k] /\ k + 1 \in 0 .. n /\ k + 1 # 0 /\ (k + 1) - 1 = k
      BY <2>2
    <3> DEFINE i == k + 1
    <3>2. i \in 0 .. n /\ i # 0 /\ i - 1 = k
      BY <3>1
    <3> HIDE DEF i
    <3>3. joins[i] = IF inZone[present[i]] # Away THEN joins[i - 1]
                     ELSE Append(joins[i - 1], [visitor |-> present[i],
                                                depth |-> CurrentQueueDepth + Len(joins[i - 1])])
      BY <1>12, <3>2
    <3>4. g[i] = IF inZone[present[i]] # Away THEN g[i - 1]
                 ELSE Append(g[i - 1], [visitor |-> present[i],
                                        depth |-> CurrentQueueDepth + Len(g[i - 1])])
      BY <1>11, <3>2
    <3>5. joins[i] = g[i]
      BY <3>1, <3>2, <3>3, <3>4
    <3>6. QED
      BY <3>5 DEF i
  <2>3. K = Nat
    <3>1. K \in SUBSET Nat
      OBVIOUS
    <3> HIDE DEF K
    <3>2. QED
      BY <2>1, <2>2, <3>1, NatSetInduction
  <2>4. QED
    BY <1>1, <2>3
<1>15. ASSUME NEW k \in Nat, k + 1 <= n,
              Len(g[k]) + CurrentQueueDepth = Cardinality(Ahead(present, k)),
              ToSet(g[k]) = ArrivalsTo(present, k)
       PROVE  /\ Len(g[k + 1]) + CurrentQueueDepth = Cardinality(Ahead(present, k + 1))
              /\ ToSet(g[k + 1]) = ArrivalsTo(present, k + 1)
  <2> DEFINE i == k + 1
             p == present[i]
             a == [visitor |-> p, depth |-> CurrentQueueDepth + Len(g[k])]
  <2>1. /\ i \in 1 .. n
        /\ i - 1 = k
        /\ k \in 0 .. n
        /\ \A l \in 1 .. i : l \in 1 .. k \/ l = i
        /\ \A l \in 1 .. k : l \in 1 .. i /\ l \in 1 .. n /\ l # i
    BY <1>1, <1>15
  <2> HIDE DEF i
  <2>2. p \in Visitors
    BY <2>1
  <2>3. g[i] = IF inZone[p] # Away THEN g[k] ELSE Append(g[k], a)
    BY <1>10, <2>1
  <2>4. Ahead(present, i) = Ahead(present, k) \cup {p}
    BY <2>1 DEF Ahead
  <2>5. CASE inZone[p] # Away
    <3>1. p \in Ahead(present, k)
      BY <2>2, <2>5 DEF Ahead, Queue
    <3>2. Ahead(present, i) = Ahead(present, k)
      BY <2>4, <3>1
    <3>3. {l \in 1 .. i : inZone[present[l]] = Away} = {l \in 1 .. k : inZone[present[l]] = Away}
      BY <2>1, <2>5
    <3>4. ArrivalsTo(present, i) = ArrivalsTo(present, k)
      BY <3>3 DEF ArrivalsTo
    <3>5. QED
      BY <1>15, <2>3, <2>5, <3>2, <3>4 DEF i
  <2>6. CASE inZone[p] = Away
    <3>1. p \notin Ahead(present, k)
      <4>1. p \notin Queue
        BY <2>6 DEF Queue
      <4>2. \A l \in 1 .. k : present[l] # p
        BY <2>1
      <4>3. QED
        BY <4>1, <4>2 DEF Ahead
    <3>2. Cardinality(Ahead(present, i)) = Cardinality(Ahead(present, k)) + 1
      BY <1>2, <2>1, <2>4, <3>1, FS_AddElement
    <3>3. g[k] \in S
      BY <1>8, <2>1
    <3>4. Len(g[k]) \in Nat
      BY <3>3 DEF S
    <3>5. a \in Arrival
      BY <1>3, <2>2, <3>4 DEF Arrival
    <3>6. a = ArrivalOf(present, i)
      <4>1. CurrentQueueDepth + Len(g[k]) = Cardinality(Ahead(present, i - 1))
        BY <1>15, <1>3, <2>1, <3>4
      <4>2. QED
        BY <4>1 DEF ArrivalOf
    <3> HIDE DEF a
    <3>7. ToSet(Append(g[k], a)) = ToSet(g[k]) \cup {a}
      BY <3>3, <3>5, AppendedElements DEF S
    <3>8. Len(Append(g[k], a)) = Len(g[k]) + 1
      BY <3>3, <3>5 DEF S
    <3>9. {l \in 1 .. i : inZone[present[l]] = Away} =
            {l \in 1 .. k : inZone[present[l]] = Away} \cup {i}
      BY <2>1, <2>6
    <3>10. ArrivalsTo(present, i) = ArrivalsTo(present, k) \cup {a}
      BY <3>6, <3>9 DEF ArrivalsTo
    <3>11. g[i] = Append(g[k], a)
      BY <2>3, <2>6
    <3>12. ToSet(g[i]) = ArrivalsTo(present, i)
      BY <1>15, <3>7, <3>10, <3>11
    <3>13. Len(g[i]) + CurrentQueueDepth = Cardinality(Ahead(present, i))
      BY <1>15, <1>2, <1>3, <2>1, <3>2, <3>4, <3>8, <3>11
    <3>14. QED
      BY <3>12, <3>13 DEF i
  <2>7. QED
    BY <2>5, <2>6
<1>16. ToSet(g[n]) = ArrivalsTo(present, n)
  <2> DEFINE K == {k \in Nat : k <= n => /\ Len(g[k]) + CurrentQueueDepth = Cardinality(Ahead(present, k))
                                         /\ ToSet(g[k]) = ArrivalsTo(present, k)}
  <2>1. 0 \in K
    <3>1. Len(g[0]) + CurrentQueueDepth = Cardinality(Ahead(present, 0))
      BY <1>8, <1>3
    <3>2. ToSet(g[0]) = {}
      BY <1>8 DEF ToSet
    <3>3. ArrivalsTo(present, 0) = {}
      BY DEF ArrivalsTo
    <3>4. QED
      BY <3>1, <3>2, <3>3
  <2>2. ASSUME NEW k \in K
        PROVE  k + 1 \in K
    <3>1. CASE k + 1 <= n
      <4>1. k <= n /\ k \in Nat
        BY <1>1, <3>1
      <4>2. QED
        BY <1>15, <3>1, <4>1
    <3>2. CASE ~(k + 1 <= n)
      BY <3>2
    <3>3. QED
      BY <3>1, <3>2
  <2>3. K = Nat
    <3>1. K \in SUBSET Nat
      OBVIOUS
    <3> HIDE DEF K
    <3>2. QED
      BY <2>1, <2>2, <3>1, NatSetInduction
  <2>4. QED
    BY <1>1, <2>3
<1>17. QED
  BY <1>13, <1>14, <1>16

-----------------------------------------------------------------------------
(***************************************************************************)
(* The stays in the zone, for any frames, and what one more frame adds.    *)
(***************************************************************************)

VideoFrame == [time : Nat, present : Seq(Visitors)]

\* Present, Arrives, StayOf and Candidates, of the frames fs.
PresentIn(fs, i) == ToSet(fs[i].present)

ArrivesIn(fs, v, i) ==
  i \in 2 .. Len(fs) /\ v \in PresentIn(fs, i) \ PresentIn(fs, i - 1)

StayIn(fs, v, i, j) ==
  /\ ArrivesIn(fs, v, i)
  /\ j \in i + 1 .. Len(fs)
  /\ v \notin PresentIn(fs, j)
  /\ \A k \in i .. j - 1 : v \in PresentIn(fs, k)

CandidatesIn(fs, v) ==
  {s \in (DOMAIN fs) \X (DOMAIN fs) :
     /\ StayIn(fs, v, s[1], s[2])
     /\ fs[s[2]].time - fs[s[1]].time >= MinQueueDwell}

\* The model's definitions are those of the frames so far.
LEMMA StaysOfFrames ==
  /\ \A v : Candidates(v) = CandidatesIn(frames, v)
  /\ \A v, i : Arrives(v, i) <=> ArrivesIn(frames, v, i)
  /\ \A i : Present(i) = PresentIn(frames, i)
<1>1. \A i : Present(i) = PresentIn(frames, i)
  BY DEF Present, PresentIn
<1>2. \A v, i : Arrives(v, i) <=> ArrivesIn(frames, v, i)
  BY <1>1 DEF Arrives, ArrivesIn
<1>3. \A v, i, j : StayOf(v, i, j) <=> StayIn(frames, v, i, j)
  BY <1>1, <1>2 DEF StayOf, StayIn
<1>4. \A v : Candidates(v) = CandidatesIn(frames, v)
  BY <1>3 DEF Candidates, CandidatesIn
<1>5. QED
  BY <1>1, <1>2, <1>4

\* v is in the zone in the latest frame and arrived in frame i.
InZoneSince(fs, v, i) ==
  /\ ArrivesIn(fs, v, i)
  /\ \A k \in i .. Len(fs) : v \in PresentIn(fs, k)

\* The frames before the latest one are the frames so far.
LEMMA NextFrame ==
  ASSUME NEW fs \in Seq(VideoFrame), NEW f \in VideoFrame
  PROVE  LET gs == Append(fs, f) IN
         /\ gs \in Seq(VideoFrame)
         /\ Len(gs) = Len(fs) + 1
         /\ DOMAIN gs = 1 .. Len(fs) + 1
         /\ \A i \in 1 .. Len(fs) : gs[i] = fs[i]
         /\ gs[Len(fs) + 1] = f
OBVIOUS

\* One more frame changes nobody's presence in the frames before it.
LEMMA PresenceStays ==
  ASSUME NEW fs \in Seq(VideoFrame), NEW f \in VideoFrame, Len(fs) >= 1, NEW v
  PROVE  LET gs == Append(fs, f)
             n == Len(fs)
         IN  /\ \A i \in 1 .. n : PresentIn(gs, i) = PresentIn(fs, i)
             /\ PresentIn(gs, n + 1) = ToSet(f.present)
             /\ \A i \in Nat : ArrivesIn(fs, v, i) => ArrivesIn(gs, v, i)
             /\ \A i \in 1 .. n : ArrivesIn(gs, v, i) => ArrivesIn(fs, v, i)
             /\ ArrivesIn(gs, v, n + 1) <=> v \in ToSet(f.present) \ PresentIn(fs, n)
<1> DEFINE gs == Append(fs, f)
           n == Len(fs)
<1>1. /\ n \in Nat
      /\ Len(gs) = n + 1
      /\ \A i \in 1 .. n : gs[i] = fs[i]
      /\ gs[n + 1] = f
  BY NextFrame
<1> HIDE DEF gs
<1>2. \A i \in 1 .. n : PresentIn(gs, i) = PresentIn(fs, i)
  BY <1>1 DEF PresentIn
<1>3. PresentIn(gs, n + 1) = ToSet(f.present)
  BY <1>1 DEF PresentIn
<1>4. \A i \in 2 .. n : i \in 1 .. n /\ i - 1 \in 1 .. n /\ i \in 2 .. n + 1
  BY <1>1
<1>5. \A i \in Nat : ArrivesIn(fs, v, i) => ArrivesIn(gs, v, i)
  BY <1>1, <1>2, <1>4 DEF ArrivesIn
<1>6. \A i \in 1 .. n : ArrivesIn(gs, v, i) => ArrivesIn(fs, v, i)
  <2> SUFFICES ASSUME NEW i \in 1 .. n, ArrivesIn(gs, v, i)
               PROVE  ArrivesIn(fs, v, i)
    OBVIOUS
  <2>1. i \in 2 .. n
    BY <1>1 DEF ArrivesIn
  <2>2. QED
    BY <1>2, <1>4, <2>1 DEF ArrivesIn
<1>7. ArrivesIn(gs, v, n + 1) <=> v \in ToSet(f.present) \ PresentIn(fs, n)
  <2>1. n \in 1 .. n /\ n + 1 \in 2 .. n + 1 /\ (n + 1) - 1 = n
    BY <1>1
  <2>2. QED
    BY <1>1, <1>2, <1>3, <2>1 DEF ArrivesIn
<1>8. QED
  BY <1>2, <1>3, <1>5, <1>6, <1>7 DEF gs

\* A visitor in the zone has one arrival that the stay goes back to.
LEMMA OneArrival ==
  ASSUME NEW fs \in Seq(VideoFrame), NEW v, NEW i \in Nat, NEW j \in Nat,
         InZoneSince(fs, v, i), InZoneSince(fs, v, j)
  PROVE  i = j
<1>1. /\ i \in 2 .. Len(fs)
      /\ j \in 2 .. Len(fs)
      /\ v \notin PresentIn(fs, i - 1)
      /\ v \notin PresentIn(fs, j - 1)
      /\ Len(fs) \in Nat
  BY DEF InZoneSince, ArrivesIn
<1>2. ~(i < j)
  <2> SUFFICES ASSUME i < j
               PROVE  FALSE
    OBVIOUS
  <2>1. j - 1 \in i .. Len(fs)
    BY <1>1
  <2>2. QED
    BY <1>1, <2>1 DEF InZoneSince
<1>3. ~(j < i)
  <2> SUFFICES ASSUME j < i
               PROVE  FALSE
    OBVIOUS
  <2>1. i - 1 \in j .. Len(fs)
    BY <1>1
  <2>2. QED
    BY <1>1, <2>1 DEF InZoneSince
<1>4. QED
  BY <1>2, <1>3

\* The stays that the next frame ends.
EndsWith(fs, f, v) ==
  {<<i, Len(fs) + 1>> : i \in {k \in 1 .. Len(fs) :
     /\ InZoneSince(fs, v, k)
     /\ v \notin ToSet(f.present)
     /\ f.time - fs[k].time >= MinQueueDwell}}

\* The candidate stays after one more frame: those so far and the one, if any,
\* that the frame ends.
LEMMA CandidatesGrow ==
  ASSUME NEW fs \in Seq(VideoFrame), NEW f \in VideoFrame, Len(fs) >= 1, NEW v
  PROVE  CandidatesIn(Append(fs, f), v) = CandidatesIn(fs, v) \cup EndsWith(fs, f, v)
<1> DEFINE gs == Append(fs, f)
           n == Len(fs)
<1>1. /\ n \in Nat
      /\ DOMAIN fs = 1 .. n
      /\ DOMAIN gs = 1 .. n + 1
      /\ Len(gs) = n + 1
      /\ \A i \in 1 .. n : gs[i] = fs[i]
      /\ gs[n + 1] = f
  BY NextFrame
<1>2. /\ \A i \in 1 .. n : PresentIn(gs, i) = PresentIn(fs, i)
      /\ PresentIn(gs, n + 1) = ToSet(f.present)
      /\ \A i \in Nat : ArrivesIn(fs, v, i) => ArrivesIn(gs, v, i)
      /\ \A i \in 1 .. n : ArrivesIn(gs, v, i) => ArrivesIn(fs, v, i)
  BY PresenceStays
<1> HIDE DEF gs
<1>3. ASSUME NEW i \in 1 .. n, NEW j \in 1 .. n
      PROVE  StayIn(gs, v, i, j) <=> StayIn(fs, v, i, j)
  <2>1. j \in i + 1 .. n => j \in i + 1 .. n + 1
    BY <1>1
  <2>2. j \in i + 1 .. n + 1 => j \in i + 1 .. n
    BY <1>1
  <2>3. \A k \in i .. j - 1 : k \in 1 .. n
    BY <1>1
  <2>4. ArrivesIn(gs, v, i) <=> ArrivesIn(fs, v, i)
    BY <1>2
  <2>5. QED
    BY <1>1, <1>2, <2>1, <2>2, <2>3, <2>4 DEF StayIn
<1>4. ASSUME NEW i \in 1 .. n
      PROVE  StayIn(gs, v, i, n + 1) <=> InZoneSince(fs, v, i) /\ v \notin ToSet(f.present)
  <2>1. n + 1 \in i + 1 .. n + 1 /\ (n + 1) - 1 = n
    BY <1>1
  <2>2. \A k \in i .. n : k \in 1 .. n
    BY <1>1
  <2>3. ArrivesIn(gs, v, i) <=> ArrivesIn(fs, v, i)
    BY <1>2
  <2>4. QED
    BY <1>1, <1>2, <2>1, <2>2, <2>3 DEF StayIn, InZoneSince
<1>5. ASSUME NEW j
      PROVE  ~StayIn(gs, v, n + 1, j)
  BY <1>1 DEF StayIn
<1>6. ASSUME NEW i \in 1 .. n + 1, NEW j \in 1 .. n + 1
      PROVE  <<i, j>> \in CandidatesIn(gs, v) <=>
               <<i, j>> \in CandidatesIn(fs, v) \cup EndsWith(fs, f, v)
  <2>1. <<i, j>> \in CandidatesIn(gs, v) <=>
          StayIn(gs, v, i, j) /\ gs[j].time - gs[i].time >= MinQueueDwell
    BY <1>1 DEF CandidatesIn
  <2>2. <<i, j>> \in CandidatesIn(fs, v) <=>
          /\ i \in 1 .. n
          /\ j \in 1 .. n
          /\ StayIn(fs, v, i, j)
          /\ fs[j].time - fs[i].time >= MinQueueDwell
    BY <1>1 DEF CandidatesIn
  <2>3. <<i, j>> \in EndsWith(fs, f, v) <=>
          /\ i \in 1 .. n
          /\ j = n + 1
          /\ InZoneSince(fs, v, i)
          /\ v \notin ToSet(f.present)
          /\ f.time - fs[i].time >= MinQueueDwell
    BY DEF EndsWith
  <2>4. CASE i = n + 1
    <3>1. i \notin 1 .. n
      BY <1>1, <2>4
    <3>2. QED
      BY <1>5, <2>1, <2>2, <2>3, <2>4, <3>1
  <2>5. CASE i \in 1 .. n /\ j \in 1 .. n
    <3>1. j # n + 1
      BY <1>1, <2>5
    <3>2. QED
      BY <1>1, <1>3, <2>1, <2>2, <2>3, <2>5, <3>1
  <2>6. CASE i \in 1 .. n /\ j = n + 1
    <3>1. j \notin 1 .. n
      BY <1>1, <2>6
    <3>2. QED
      BY <1>1, <1>4, <2>1, <2>2, <2>3, <2>6, <3>1
  <2>7. QED
    BY <1>1, <2>4, <2>5, <2>6
<1>7. CandidatesIn(gs, v) \subseteq (1 .. n + 1) \X (1 .. n + 1)
  BY <1>1 DEF CandidatesIn
<1>8. CandidatesIn(fs, v) \cup EndsWith(fs, f, v) \subseteq (1 .. n + 1) \X (1 .. n + 1)
  <2>1. \A i \in 1 .. n : i \in 1 .. n + 1
    BY <1>1
  <2>2. n + 1 \in 1 .. n + 1
    BY <1>1
  <2>3. CandidatesIn(fs, v) \subseteq (1 .. n) \X (1 .. n)
    BY <1>1 DEF CandidatesIn
  <2>4. EndsWith(fs, f, v) \subseteq (1 .. n + 1) \X (1 .. n + 1)
    BY <2>1, <2>2 DEF EndsWith
  <2>5. QED
    BY <2>1, <2>3, <2>4
<1>9. QED
  BY <1>6, <1>7, <1>8 DEF gs

-----------------------------------------------------------------------------
(***************************************************************************)
(* The accounts of one visitor: what the ABANDONs E of v and the candidate *)
(* x of v have to do with the frames fs.                                   *)
(***************************************************************************)

\* The candidate that stay s makes.
Times(fs, s) == [enter |-> fs[s[1]].time, exit |-> fs[s[2]].time]

\* Every ABANDON is owed to a candidate stay of its own, PosWindow after it, and
\* the candidate on the list to one for which none was returned.
Owes(E, fs, v, x) ==
  \E owed \in [E -> CandidatesIn(fs, v)] :
    /\ \A e, f \in E : owed[e] = owed[f] => e = f
    /\ \A e \in E : /\ e.dwell = fs[owed[e][2]].time - fs[owed[e][1]].time
                    /\ e.time - fs[owed[e][2]].time >= PosWindow
    /\ x # Away => \E s \in CandidatesIn(fs, v) :
                     x = Times(fs, s) /\ \A e \in E : owed[e] # s

\* Another candidate stay ended within the window of s.
ReplacedIn(fs, v, s) ==
  \E r \in CandidatesIn(fs, v) :
    /\ r[2] > s[2]
    /\ \A k \in s[2] .. r[2] - 1 : fs[k].time - fs[s[2]].time < PosWindow

FlaggedIn(E, fs, s) ==
  \E e \in E : e.dwell = fs[s[2]].time - fs[s[1]].time
               /\ e.time >= fs[s[2]].time + PosWindow

\* A candidate stay is on the list, was replaced on it, or was flagged.
Settled(E, fs, v, x) ==
  \A s \in CandidatesIn(fs, v) :
    x = Times(fs, s) \/ ReplacedIn(fs, v, s) \/ FlaggedIn(E, fs, s)

\* The candidate of v after the departures of frame f.
Watches(fs, f, v, x, w) ==
  \/ EndsWith(fs, f, v) = {} /\ w = x
  \/ \E i \in 1 .. Len(fs) : /\ EndsWith(fs, f, v) = {<<i, Len(fs) + 1>>}
                             /\ w = [enter |-> fs[i].time, exit |-> f.time]

\* Every frame has a time.
LEMMA FrameTimes ==
  ASSUME NEW fs \in Seq(VideoFrame)
  PROVE  \A i \in 1 .. Len(fs) : fs[i].time \in Nat
<1>1. \A i \in 1 .. Len(fs) : fs[i] \in VideoFrame
  OBVIOUS
<1>2. \A f \in VideoFrame : f.time \in Nat
  BY DEF VideoFrame
<1>3. QED
  BY <1>1, <1>2

\* A candidate stay lies within the frames.
LEMMA CandidatePlace ==
  ASSUME NEW fs \in Seq(VideoFrame), NEW v, NEW s \in CandidatesIn(fs, v)
  PROVE  /\ s[1] \in 1 .. Len(fs)
         /\ s[2] \in 1 .. Len(fs)
         /\ fs[s[1]].time \in Nat
         /\ fs[s[2]].time \in Nat
<1>1. DOMAIN fs = 1 .. Len(fs) /\ Len(fs) \in Nat
  OBVIOUS
<1>2. s[1] \in 1 .. Len(fs) /\ s[2] \in 1 .. Len(fs)
  BY <1>1 DEF CandidatesIn
<1>3. \A i \in 1 .. Len(fs) : fs[i].time \in Nat
  BY FrameTimes
<1>4. QED
  BY <1>2, <1>3

\* One more frame leaves every ABANDON owed to its stay.
LEMMA FrameKeepsOwed ==
  ASSUME NEW fs \in Seq(VideoFrame), NEW f \in VideoFrame, Len(fs) >= 1, NEW v,
         NEW E, NEW x, NEW w, Owes(E, fs, v, x), Watches(fs, f, v, x, w)
  PROVE  Owes(E, Append(fs, f), v, w)
<1> DEFINE gs == Append(fs, f)
           n == Len(fs)
           C == CandidatesIn(fs, v)
           D == CandidatesIn(gs, v)
<1>1. /\ n \in Nat
      /\ \A i \in 1 .. n : gs[i] = fs[i]
      /\ gs[n + 1] = f
  BY NextFrame
<1>2. D = C \cup EndsWith(fs, f, v)
  BY CandidatesGrow
<1>3. PICK owed \in [E -> C] :
        /\ \A e, g \in E : owed[e] = owed[g] => e = g
        /\ \A e \in E : /\ e.dwell = fs[owed[e][2]].time - fs[owed[e][1]].time
                        /\ e.time - fs[owed[e][2]].time >= PosWindow
        /\ x # Away => \E s \in C : x = Times(fs, s) /\ \A e \in E : owed[e] # s
  BY DEF Owes
<1>4. \A s \in C : /\ s[1] \in 1 .. n
                   /\ s[2] \in 1 .. n
                   /\ s[2] # n + 1
                   /\ gs[s[1]] = fs[s[1]]
                   /\ gs[s[2]] = fs[s[2]]
  BY <1>1, CandidatePlace
<1> HIDE DEF gs, C, D
<1>5. owed \in [E -> D]
  BY <1>2, <1>3
<1>6. \A e \in E : /\ e.dwell = gs[owed[e][2]].time - gs[owed[e][1]].time
                   /\ e.time - gs[owed[e][2]].time >= PosWindow
  BY <1>3, <1>4
<1>7. w # Away => \E s \in D : w = Times(gs, s) /\ \A e \in E : owed[e] # s
  <2>1. CASE EndsWith(fs, f, v) = {} /\ w = x
    <3>1. \A s \in C : Times(gs, s) = Times(fs, s)
      BY <1>4 DEF Times
    <3>2. QED
      BY <1>2, <1>3, <2>1, <3>1
  <2>2. ASSUME NEW i \in 1 .. n,
               EndsWith(fs, f, v) = {<<i, n + 1>>},
               w = [enter |-> fs[i].time, exit |-> f.time]
        PROVE  \E s \in D : w = Times(gs, s) /\ \A e \in E : owed[e] # s
    <3> DEFINE s == <<i, n + 1>>
    <3>1. s \in D
      BY <1>2, <2>2
    <3>2. s[1] = i /\ s[2] = n + 1
      OBVIOUS
    <3>3. w = Times(gs, s)
      BY <1>1, <2>2, <3>2 DEF Times
    <3>4. s \notin C
      BY <1>4, <3>2
    <3>5. QED
      BY <1>3, <3>1, <3>3, <3>4
  <2>3. QED
    BY <2>1, <2>2 DEF Watches
<1>8. QED
  BY <1>3, <1>5, <1>6, <1>7 DEF Owes, D, gs

\* Flagging the candidate on the list leaves every ABANDON owed to a stay of
\* its own.
LEMMA FlagKeepsOwed ==
  ASSUME NEW fs \in Seq(VideoFrame), NEW v, NEW E, NEW w, NEW e,
         Owes(E, fs, v, w), w # Away,
         e.dwell = w.exit - w.enter, e.time - w.exit >= PosWindow
  PROVE  Owes(E \cup {e}, fs, v, Away)
<1> DEFINE C == CandidatesIn(fs, v)
<1>1. PICK owed \in [E -> C] :
        /\ \A a, b \in E : owed[a] = owed[b] => a = b
        /\ \A a \in E : /\ a.dwell = fs[owed[a][2]].time - fs[owed[a][1]].time
                        /\ a.time - fs[owed[a][2]].time >= PosWindow
        /\ w # Away => \E s \in C : w = Times(fs, s) /\ \A a \in E : owed[a] # s
  BY DEF Owes
<1>2. PICK s \in C : w = Times(fs, s) /\ \A a \in E : owed[a] # s
  BY <1>1
<1>3. w.enter = fs[s[1]].time /\ w.exit = fs[s[2]].time
  BY <1>2 DEF Times
<1> HIDE DEF C
<1>4. CASE e \in E
  <2>1. E \cup {e} = E
    BY <1>4
  <2>2. QED
    BY <1>1, <2>1 DEF Owes, C
<1>5. CASE e \notin E
  <2> DEFINE F == E \cup {e}
             now_owed == [a \in F |-> IF a = e THEN s ELSE owed[a]]
  <2>1. now_owed \in [F -> C]
    BY <1>1, <1>2
  <2>2. now_owed[e] = s /\ \A a \in E : now_owed[a] = owed[a]
    BY <1>5
  <2>3. \A a \in F : a = e \/ a \in E
    OBVIOUS
  <2> HIDE DEF now_owed, F
  <2>4. \A a, b \in F : now_owed[a] = now_owed[b] => a = b
    BY <1>1, <1>2, <2>2, <2>3
  <2>5. \A a \in F : /\ a.dwell = fs[now_owed[a][2]].time - fs[now_owed[a][1]].time
                     /\ a.time - fs[now_owed[a][2]].time >= PosWindow
    BY <1>1, <1>3, <2>2, <2>3
  <2>6. QED
    BY <2>1, <2>4, <2>5 DEF Owes, C, F
<1>6. QED
  BY <1>4, <1>5

\* One more frame leaves every candidate stay settled: the one that was on the
\* list stays there or is replaced within its window.
LEMMA FrameKeepsSettled ==
  ASSUME NEW fs \in Seq(VideoFrame), NEW f \in VideoFrame, Len(fs) >= 1, NEW v,
         NEW E, NEW x, NEW w, Settled(E, fs, v, x), Watches(fs, f, v, x, w),
         \A i, j \in 1 .. Len(fs) : i <= j => fs[i].time <= fs[j].time,
         Away \notin Stay, PosWindow \in Nat,
         x # Away => fs[Len(fs)].time - x.exit < PosWindow
  PROVE  Settled(E, Append(fs, f), v, w)
<1> DEFINE gs == Append(fs, f)
           n == Len(fs)
           C == CandidatesIn(fs, v)
           D == CandidatesIn(gs, v)
<1>1. /\ n \in Nat
      /\ n >= 1
      /\ \A i \in 1 .. n : gs[i] = fs[i]
      /\ gs[n + 1] = f
      /\ \A i \in 1 .. n : fs[i].time \in Nat
  BY NextFrame, FrameTimes
<1>2. D = C \cup EndsWith(fs, f, v)
  BY CandidatesGrow
<1>3. \A s \in C : /\ s[1] \in 1 .. n
                   /\ s[2] \in 1 .. n
                   /\ gs[s[1]] = fs[s[1]]
                   /\ gs[s[2]] = fs[s[2]]
                   /\ fs[s[1]].time \in Nat
                   /\ fs[s[2]].time \in Nat
  BY <1>1, CandidatePlace
<1> HIDE DEF gs, C, D
<1>4. ASSUME NEW s \in C, ReplacedIn(fs, v, s)
      PROVE  ReplacedIn(gs, v, s)
  <2>1. PICK r \in C : /\ r[2] > s[2]
                       /\ \A k \in s[2] .. r[2] - 1 : fs[k].time - fs[s[2]].time < PosWindow
    BY <1>4 DEF ReplacedIn, C
  <2>2. \A k \in s[2] .. r[2] - 1 : k \in 1 .. n
    BY <1>1, <1>3
  <2>3. \A k \in s[2] .. r[2] - 1 : gs[k].time - gs[s[2]].time < PosWindow
    BY <1>1, <1>3, <2>1, <2>2
  <2>4. QED
    BY <1>2, <2>1, <2>3 DEF ReplacedIn, D
<1>5. ASSUME NEW s \in C, FlaggedIn(E, fs, s)
      PROVE  FlaggedIn(E, gs, s)
  BY <1>3, <1>5 DEF FlaggedIn
<1>6. \A s \in C : Times(gs, s) = Times(fs, s)
  BY <1>3 DEF Times
<1>7. ASSUME NEW s \in C
      PROVE  w = Times(gs, s) \/ ReplacedIn(gs, v, s) \/ FlaggedIn(E, gs, s)
  <2>1. x = Times(fs, s) \/ ReplacedIn(fs, v, s) \/ FlaggedIn(E, fs, s)
    BY DEF Settled, C
  <2>2. CASE x = Times(fs, s)
    <3>1. CASE EndsWith(fs, f, v) = {} /\ w = x
      BY <1>6, <2>2, <3>1
    <3>2. ASSUME NEW i \in 1 .. n,
                 EndsWith(fs, f, v) = {<<i, n + 1>>}
          PROVE  ReplacedIn(gs, v, s)
      <4>1. <<i, n + 1>> \in D
        BY <1>2, <3>2
      <4>2. fs[n].time - fs[s[2]].time < PosWindow
        <5>1. x \in Stay
          BY <1>3, <2>2 DEF Times, Stay
        <5>2. x # Away /\ x.exit = fs[s[2]].time
          BY <2>2, <5>1 DEF Times
        <5>3. QED
          BY <5>2
      <4>3. ASSUME NEW k \in s[2] .. n
            PROVE  gs[k].time - gs[s[2]].time < PosWindow
        <5>1. k \in 1 .. n /\ n \in 1 .. n /\ k <= n
          BY <1>1, <1>3
        <5>2. fs[k].time <= fs[n].time
          BY <5>1
        <5>3. /\ fs[k].time \in Nat
              /\ fs[n].time \in Nat
              /\ fs[s[2]].time \in Nat
              /\ gs[k] = fs[k]
              /\ gs[s[2]] = fs[s[2]]
          BY <1>1, <1>3, <5>1
        <5>4. QED
          BY <4>2, <5>2, <5>3
      <4> DEFINE r == <<i, n + 1>>
      <4>4. r[2] = n + 1 /\ r[2] - 1 = n /\ r[2] > s[2]
        BY <1>1, <1>3
      <4> HIDE DEF r
      <4>5. \A k \in s[2] .. r[2] - 1 : gs[k].time - gs[s[2]].time < PosWindow
        BY <4>3, <4>4
      <4>6. QED
        BY <4>1, <4>4, <4>5 DEF ReplacedIn, D, r
    <3>3. QED
      BY <3>1, <3>2 DEF Watches
  <2>3. QED
    BY <1>4, <1>5, <2>1, <2>2
<1>8. ASSUME NEW s \in EndsWith(fs, f, v)
      PROVE  w = Times(gs, s)
  <2>1. PICK i \in 1 .. n : /\ EndsWith(fs, f, v) = {<<i, n + 1>>}
                            /\ w = [enter |-> fs[i].time, exit |-> f.time]
    BY DEF Watches
  <2>2. s = <<i, n + 1>>
    BY <2>1
  <2>3. s[1] = i /\ s[2] = n + 1
    BY <2>2
  <2>4. QED
    BY <1>1, <2>1, <2>3 DEF Times
<1>9. QED
  BY <1>2, <1>7, <1>8 DEF Settled, D, gs

\* Flagging the candidate on the list leaves every candidate stay settled.
LEMMA FlagKeepsSettled ==
  ASSUME NEW fs \in Seq(VideoFrame), NEW v, NEW E, NEW w, NEW e,
         Settled(E, fs, v, w), w.exit \in Nat, e.time \in Nat, PosWindow \in Nat,
         e.dwell = w.exit - w.enter, e.time - w.exit >= PosWindow
  PROVE  Settled(E \cup {e}, fs, v, Away)
<1> SUFFICES ASSUME NEW s \in CandidatesIn(fs, v)
             PROVE  ReplacedIn(fs, v, s) \/ FlaggedIn(E \cup {e}, fs, s)
  BY DEF Settled
<1>1. w = Times(fs, s) \/ ReplacedIn(fs, v, s) \/ FlaggedIn(E, fs, s)
  BY DEF Settled
<1>2. CASE w = Times(fs, s)
  <2>1. w.enter = fs[s[1]].time /\ w.exit = fs[s[2]].time
    BY <1>2 DEF Times
  <2>2. e.time >= w.exit + PosWindow
    OBVIOUS
  <2>3. QED
    BY <2>1, <2>2 DEF FlaggedIn
<1>3. CASE FlaggedIn(E, fs, s)
  BY <1>3 DEF FlaggedIn
<1>4. QED
  BY <1>1, <1>2, <1>3

-----------------------------------------------------------------------------
(***************************************************************************)
(* The events and the frames.                                              *)
(***************************************************************************)

\* The frames are in the order of their times, up to now.
HistoryInv ==
  /\ frames \in Seq(VideoFrame)
  /\ Len(frames) >= 1
  /\ frames[Len(frames)].time = now
  /\ \A i, j \in 1 .. Len(frames) : i <= j => frames[i].time <= frames[j].time

\* _in_zone holds who is in the zone in the latest frame, since the frame of
\* their arrival.
SinceInv ==
  \A v \in Visitors :
    IF inZone[v] = Away THEN v \notin PresentIn(frames, Len(frames))
    ELSE \E i \in 1 .. Len(frames) :
           InZoneSince(frames, v, i) /\ inZone[v] = frames[i].time

AccountsInv ==
  \A v \in Visitors : /\ Owes(Abandons(v), frames, v, exited[v])
                      /\ Settled(Abandons(v), frames, v, exited[v])

EventsInv ==
  /\ QueueInv
  /\ HistoryInv
  /\ SinceInv
  /\ JoinsMatchArrivals
  /\ AccountsInv

\* The lists of visitors a frame may show.
LEMMA ListsTyped ==
  ASSUME IsFiniteSet(Visitors), NEW present \in Lists
  PROVE  /\ present \in Seq(Visitors)
         /\ \A k, l \in 1 .. Len(present) : present[k] = present[l] => k = l
<1>1. PICK S \in SUBSET Visitors : present \in SetToSeqs(S)
  BY DEF Lists
<1>2. Cardinality(S) \in Nat
  BY FS_Subset, FS_CardinalityType
<1> DEFINE n == Cardinality(S)
<1>3. /\ present \in [1 .. n -> S]
      /\ \A i, j \in 1 .. n : i # j => present[i] # present[j]
  BY <1>1 DEF SetToSeqs
<1> HIDE DEF n
<1>4. n \in Nat
  BY <1>2 DEF n
<1>5. present \in [1 .. n -> Visitors]
  BY <1>3
<1>6. present \in Seq(Visitors) /\ Len(present) = n
  BY <1>4, <1>5
<1>7. QED
  BY <1>3, <1>6

\* The next frame is the last of the frames, and the latest.
LEMMA FrameKeepsHistory ==
  ASSUME NEW present \in Lists, NEW gap \in Gaps, now \in Nat,
         HistoryInv, Frame(present, now + gap)
  PROVE  /\ [time |-> now + gap, present |-> present] \in VideoFrame
         /\ frames' = Append(frames, [time |-> now + gap, present |-> present])
         /\ HistoryInv'
<1> DEFINE f == [time |-> now + gap, present |-> present]
           n == Len(frames)
<1>1. gap \in Nat /\ IsFiniteSet(Visitors)
  BY BillingAssumption
<1>2. present \in Seq(Visitors)
  BY <1>1, ListsTyped
<1>3. f \in VideoFrame
  BY <1>1, <1>2 DEF VideoFrame
<1>4. frames' = Append(frames, f) /\ now' = now + gap
  BY DEF Frame
<1> HIDE DEF f
<1>5. /\ frames' \in Seq(VideoFrame)
      /\ Len(frames') = n + 1
      /\ \A i \in 1 .. n : frames'[i] = frames[i]
      /\ frames'[n + 1] = f
      /\ n \in Nat
      /\ n >= 1
  BY <1>3, <1>4, NextFrame DEF HistoryInv
<1>6. f.time = now'
  BY <1>4 DEF f
<1>7. \A i \in 1 .. n : frames[i].time \in Nat /\ frames[i].time <= now
  <2>1. \A i \in 1 .. n : frames[i].time \in Nat
    BY FrameTimes DEF HistoryInv
  <2>2. \A i \in 1 .. n : n \in 1 .. n /\ i <= n
    BY <1>5
  <2>3. QED
    BY <2>1, <2>2 DEF HistoryInv
<1>8. ASSUME NEW i \in 1 .. n + 1, NEW j \in 1 .. n + 1, i <= j
      PROVE  frames'[i].time <= frames'[j].time
  <2>1. CASE j = n + 1 /\ i \in 1 .. n
    BY <1>1, <1>4, <1>5, <1>6, <1>7, <2>1
  <2>2. CASE j = n + 1 /\ i = n + 1
    BY <1>1, <1>4, <1>5, <1>6, <2>2
  <2>3. CASE j \in 1 .. n
    <3>1. i \in 1 .. n
      BY <1>5, <1>8, <2>3
    <3>2. QED
      BY <1>5, <1>8, <2>3, <3>1 DEF HistoryInv
  <2>4. QED
    BY <1>5, <2>1, <2>2, <2>3
<1>9. HistoryInv'
  BY <1>5, <1>6, <1>8 DEF HistoryInv
<1>10. QED
  BY <1>3, <1>4, <1>9 DEF f

\* A visitor who stays keeps the frame of the arrival; one who arrives has this
\* one.
LEMMA FrameKeepsSince ==
  ASSUME NEW present \in Lists, NEW gap \in Gaps, now \in Nat,
         HistoryInv, SinceInv, Frame(present, now + gap)
  PROVE  SinceInv'
<1> DEFINE f == [time |-> now + gap, present |-> present]
           n == Len(frames)
<1>1. /\ f \in VideoFrame
      /\ frames' = Append(frames, f)
  BY FrameKeepsHistory
<1>2. f.time = now + gap /\ f.present = present /\ now + gap \in Nat /\ Away \notin Nat
  BY BillingAssumption, QueueAssumption
<1> HIDE DEF f
<1>3. /\ frames \in Seq(VideoFrame)
      /\ n \in Nat
      /\ n >= 1
      /\ Len(frames') = n + 1
      /\ \A i \in 1 .. n : frames'[i] = frames[i]
      /\ frames'[n + 1] = f
  BY <1>1, NextFrame DEF HistoryInv
<1> SUFFICES ASSUME NEW v \in Visitors
             PROVE  IF inZone'[v] = Away THEN v \notin PresentIn(frames', n + 1)
                    ELSE \E i \in 1 .. n + 1 :
                           InZoneSince(frames', v, i) /\ inZone'[v] = frames'[i].time
  BY <1>3 DEF SinceInv
<1>4. /\ \A i \in 1 .. n : PresentIn(frames', i) = PresentIn(frames, i)
      /\ PresentIn(frames', n + 1) = ToSet(present)
      /\ \A i \in Nat : ArrivesIn(frames, v, i) => ArrivesIn(frames', v, i)
      /\ ArrivesIn(frames', v, n + 1) <=> v \in ToSet(present) \ PresentIn(frames, n)
  BY <1>1, <1>2, <1>3, PresenceStays
<1>5. inZone'[v] = IF v \notin ToSet(present) THEN Away
                   ELSE IF inZone[v] = Away THEN now + gap ELSE inZone[v]
  BY DEF Frame, UpdateQueue
<1>6. CASE v \notin ToSet(present)
  BY <1>4, <1>5, <1>6
<1>7. CASE v \in ToSet(present) /\ inZone[v] = Away
  <2>1. v \notin PresentIn(frames, n)
    BY <1>7 DEF SinceInv
  <2>2. ArrivesIn(frames', v, n + 1)
    BY <1>4, <1>7, <2>1
  <2>3. \A k \in n + 1 .. n + 1 : k = n + 1
    BY <1>3
  <2>4. InZoneSince(frames', v, n + 1)
    BY <1>3, <1>4, <1>7, <2>2, <2>3 DEF InZoneSince
  <2>5. inZone'[v] = frames'[n + 1].time /\ inZone'[v] # Away
    BY <1>2, <1>3, <1>5, <1>7
  <2>6. n + 1 \in 1 .. n + 1
    BY <1>3
  <2>7. QED
    BY <2>4, <2>5, <2>6
<1>8. CASE v \in ToSet(present) /\ inZone[v] # Away
  <2>1. PICK i \in 1 .. n : InZoneSince(frames, v, i) /\ inZone[v] = frames[i].time
    BY <1>8 DEF SinceInv
  <2>2. i \in Nat /\ i \in 1 .. n + 1
    BY <1>3
  <2>3. ArrivesIn(frames', v, i)
    BY <1>4, <2>1, <2>2 DEF InZoneSince
  <2>4. ASSUME NEW k \in i .. n + 1
        PROVE  v \in PresentIn(frames', k)
    <3>1. (k \in i .. n /\ k \in 1 .. n) \/ k = n + 1
      BY <1>3
    <3>2. QED
      BY <1>4, <1>8, <2>1, <3>1 DEF InZoneSince
  <2>5. InZoneSince(frames', v, i)
    BY <1>3, <2>3, <2>4 DEF InZoneSince
  <2>6. inZone'[v] = frames'[i].time /\ inZone'[v] # Away
    BY <1>3, <1>5, <1>8, <2>1
  <2>7. QED
    BY <2>2, <2>5, <2>6
<1>9. QED
  BY <1>6, <1>7, <1>8

\* The JOINs that the i-th of the frames fs calls for.
JoinsAt(fs, i) ==
  {[type |-> "JOIN", visitor |-> fs[i].present[k], time |-> fs[i].time,
    depth |-> Cardinality(PresentIn(fs, i - 1) \cup
                          {fs[i].present[l] : l \in 1 .. k - 1})] :
     k \in {m \in DOMAIN fs[i].present : ArrivesIn(fs, fs[i].present[m], i)}}

\* JoinsMatchArrivals in the terms of JoinsAt.
LEMMA JoinsOfFrames ==
  JoinsMatchArrivals <=>
    {e \in events : e.type = "JOIN"} = UNION {JoinsAt(frames, i) : i \in 2 .. Len(frames)}
BY DEF JoinsMatchArrivals, JoinsAt, Arrives, ArrivesIn, Present, PresentIn

\* The JOINs that update returns in a frame are the ones the frame calls for.
LEMMA FrameJoins ==
  ASSUME NEW present \in Lists, NEW gap \in Gaps, now \in Nat,
         HistoryInv, SinceInv, Frame(present, now + gap)
  PROVE  JoinsAt(frames', Len(frames) + 1) = JoinEvents(present, now + gap)
<1> DEFINE f == [time |-> now + gap, present |-> present]
           n == Len(frames)
           time == now + gap
           m == Len(present)
<1>1. /\ f \in VideoFrame
      /\ frames' = Append(frames, f)
  BY FrameKeepsHistory
<1>2. f.time = time /\ f.present = present
  OBVIOUS
<1> HIDE DEF f
<1>3. /\ frames \in Seq(VideoFrame)
      /\ n \in Nat
      /\ n >= 1
      /\ frames'[n + 1] = f
      /\ (n + 1) - 1 = n
      /\ n \in 1 .. n
  BY <1>1, NextFrame DEF HistoryInv
<1>4. /\ present \in Seq(Visitors)
      /\ IsFiniteSet(Visitors)
      /\ \A k, l \in 1 .. m : present[k] = present[l] => k = l
  BY BillingAssumption, ListsTyped
<1>5. /\ m \in Nat
      /\ DOMAIN present = 1 .. m
      /\ \A k \in 1 .. m : present[k] \in Visitors /\ present[k] \in ToSet(present)
  BY <1>4 DEF ToSet
<1>6. /\ PresentIn(frames', n) = PresentIn(frames, n)
      /\ \A v : ArrivesIn(frames', v, n + 1) <=> v \in ToSet(present) \ PresentIn(frames, n)
  BY <1>1, <1>2, <1>3, PresenceStays
<1>7. PresentIn(frames, n) = Queue
  <2>1. PresentIn(frames, n) \subseteq Visitors
    <3>1. frames[n] \in VideoFrame
      BY <1>3
    <3>2. frames[n].present \in Seq(Visitors)
      BY <3>1 DEF VideoFrame
    <3>3. QED
      BY <3>2 DEF PresentIn, ToSet
  <2>2. ASSUME NEW v \in Visitors
        PROVE  inZone[v] # Away <=> v \in PresentIn(frames, n)
    <3>1. CASE inZone[v] = Away
      BY <3>1 DEF SinceInv
    <3>2. CASE inZone[v] # Away
      <4>1. PICK i \in 1 .. n : InZoneSince(frames, v, i)
        BY <3>2 DEF SinceInv
      <4>2. n \in i .. n
        BY <1>3
      <4>3. QED
        BY <3>2, <4>1, <4>2 DEF InZoneSince
    <3>3. QED
      BY <3>1, <3>2
  <2>3. QED
    BY <2>1, <2>2 DEF Queue
<1>8. \A k \in 1 .. m : ArrivesIn(frames', present[k], n + 1) <=> inZone[present[k]] = Away
  BY <1>5, <1>6, <1>7 DEF Queue
<1> DEFINE K == {k \in 1 .. m : inZone[present[k]] = Away}
           J(k) == [type |-> "JOIN", visitor |-> present[k], time |-> time,
                    depth |-> Cardinality(Ahead(present, k - 1))]
<1>9. JoinsAt(frames', n + 1) = {J(k) : k \in K}
  <2> DEFINE p == frames'[n + 1].present
             I(k) == [type |-> "JOIN", visitor |-> p[k], time |-> frames'[n + 1].time,
                      depth |-> Cardinality(PresentIn(frames', (n + 1) - 1) \cup
                                            {p[l] : l \in 1 .. k - 1})]
  <2>1. p = present /\ frames'[n + 1].time = time /\ PresentIn(frames', (n + 1) - 1) = Queue
    BY <1>2, <1>3, <1>6, <1>7
  <2>2. {k \in DOMAIN p : ArrivesIn(frames', p[k], n + 1)} = K
    BY <1>5, <1>8, <2>1
  <2>3. JoinsAt(frames', n + 1) = {I(k) : k \in {h \in DOMAIN p : ArrivesIn(frames', p[h], n + 1)}}
    BY DEF JoinsAt
  <2>4. \A k \in K : I(k) = J(k)
    BY <2>1 DEF Ahead
  <2> HIDE DEF I, J, K, p
  <2>5. JoinsAt(frames', n + 1) = {I(k) : k \in K}
    BY <2>2, <2>3
  <2>6. QED
    BY <2>4, <2>5
<1>10. ToSet(Joins(present)) = {ArrivalOf(present, k) : k \in K}
  BY <1>4, JoinsAre DEF ArrivalsTo
<1>11. JoinEvents(present, time) = {J(k) : k \in K}
  <2>1. JoinEvents(present, time) =
          {[type |-> "JOIN", visitor |-> j.visitor, depth |-> j.depth, time |-> time] :
             j \in {ArrivalOf(present, k) : k \in K}}
    BY <1>10 DEF JoinEvents
  <2>2. \A k \in K : [type |-> "JOIN", visitor |-> ArrivalOf(present, k).visitor,
                      depth |-> ArrivalOf(present, k).depth, time |-> time] = J(k)
    BY DEF ArrivalOf
  <2> HIDE DEF K, J
  <2>3. QED
    BY <2>1, <2>2
<1>12. QED
  BY <1>9, <1>11

\* After a frame the JOINs still match the arrivals.
LEMMA FrameKeepsJoins ==
  ASSUME NEW present \in Lists, NEW gap \in Gaps, now \in Nat,
         HistoryInv, SinceInv, JoinsMatchArrivals, Frame(present, now + gap)
  PROVE  JoinsMatchArrivals'
<1> DEFINE f == [time |-> now + gap, present |-> present]
           n == Len(frames)
           time == now + gap
<1>1. /\ f \in VideoFrame
      /\ frames' = Append(frames, f)
  BY FrameKeepsHistory
<1> HIDE DEF f
<1>2. /\ frames \in Seq(VideoFrame)
      /\ n \in Nat
      /\ n >= 1
      /\ Len(frames') = n + 1
      /\ \A i \in 1 .. n : frames'[i] = frames[i]
  BY <1>1, NextFrame DEF HistoryInv
<1>3. ASSUME NEW i \in 2 .. n
      PROVE  JoinsAt(frames', i) = JoinsAt(frames, i)
  <2>1. i \in 1 .. n /\ i - 1 \in 1 .. n /\ i \in Nat
    BY <1>2
  <2>2. frames'[i] = frames[i]
    BY <1>2, <2>1
  <2>3. PresentIn(frames', i - 1) = PresentIn(frames, i - 1)
    BY <1>2, <2>1 DEF PresentIn
  <2>4. \A v : ArrivesIn(frames', v, i) <=> ArrivesIn(frames, v, i)
    BY <1>1, <1>2, <2>1, PresenceStays
  <2> DEFINE p == frames[i].present
             I(gs, k) == [type |-> "JOIN", visitor |-> gs[i].present[k], time |-> gs[i].time,
                          depth |-> Cardinality(PresentIn(gs, i - 1) \cup
                                                {gs[i].present[l] : l \in 1 .. k - 1})]
             K(gs) == {m \in DOMAIN gs[i].present : ArrivesIn(gs, gs[i].present[m], i)}
  <2>5. JoinsAt(frames', i) = {I(frames', k) : k \in K(frames')}
    BY DEF JoinsAt
  <2>6. JoinsAt(frames, i) = {I(frames, k) : k \in K(frames)}
    BY DEF JoinsAt
  <2>7. K(frames') = K(frames)
    BY <2>2, <2>4
  <2>8. \A k : I(frames', k) = I(frames, k)
    BY <2>2, <2>3
  <2> HIDE DEF I, K
  <2>9. QED
    BY <2>5, <2>6, <2>7, <2>8
<1>4. JoinsAt(frames', n + 1) = JoinEvents(present, time)
  BY FrameJoins
<1>5. events' = events \cup JoinEvents(present, time) \cup AbandonEvents(present, time)
  BY DEF Frame
<1>6. \A e \in JoinEvents(present, time) : e.type = "JOIN"
  BY DEF JoinEvents
<1>7. \A e \in AbandonEvents(present, time) : e.type # "JOIN"
  BY DEF AbandonEvents
<1>8. {e \in events' : e.type = "JOIN"} =
        {e \in events : e.type = "JOIN"} \cup JoinEvents(present, time)
  BY <1>5, <1>6, <1>7
<1>9. {e \in events : e.type = "JOIN"} = UNION {JoinsAt(frames, i) : i \in 2 .. n}
  BY JoinsOfFrames
<1>10. UNION {JoinsAt(frames', i) : i \in 2 .. n + 1} =
         (UNION {JoinsAt(frames, i) : i \in 2 .. n}) \cup JoinsAt(frames', n + 1)
  <2>1. 2 .. n + 1 = (2 .. n) \cup {n + 1}
    BY <1>2
  <2>2. {JoinsAt(frames', i) : i \in 2 .. n + 1} =
          {JoinsAt(frames', i) : i \in 2 .. n} \cup {JoinsAt(frames', n + 1)}
    BY <2>1, Zenon
  <2>3. {JoinsAt(frames', i) : i \in 2 .. n} = {JoinsAt(frames, i) : i \in 2 .. n}
    BY <1>3, Zenon
  <2>4. \A A, x : UNION (A \cup {x}) = (UNION A) \cup x
    OBVIOUS
  <2>5. UNION ({JoinsAt(frames, i) : i \in 2 .. n} \cup {JoinsAt(frames', n + 1)}) =
          (UNION {JoinsAt(frames, i) : i \in 2 .. n}) \cup JoinsAt(frames', n + 1)
    BY <2>4, Zenon
  <2>6. QED
    BY <2>2, <2>3, <2>5, Zenon
<1>11. {e \in events' : e.type = "JOIN"} = UNION {JoinsAt(frames', i) : i \in 2 .. Len(frames')}
  <2>1. Len(frames') = n + 1
    BY <1>2
  <2> DEFINE J == {e \in events' : e.type = "JOIN"}
             I == {e \in events : e.type = "JOIN"}
             U == UNION {JoinsAt(frames, i) : i \in 2 .. n}
             V == UNION {JoinsAt(frames', i) : i \in 2 .. n + 1}
  <2>2. J = I \cup JoinsAt(frames', n + 1)
    BY <1>4, <1>8
  <2>3. I = U
    BY <1>9
  <2>4. V = U \cup JoinsAt(frames', n + 1)
    BY <1>10, Zenon
  <2> HIDE DEF I, J, U, V
  <2>5. J = V
    BY <2>2, <2>3, <2>4
  <2>6. QED
    BY <2>1, <2>5 DEF J, V
<1>12. JoinsMatchArrivals' <=>
         ({e \in events' : e.type = "JOIN"} = UNION {JoinsAt(frames', i) : i \in 2 .. Len(frames')})
  BY DEF JoinsMatchArrivals, JoinsAt, Arrives, ArrivesIn, Present, PresentIn
<1>13. QED
  BY <1>11, <1>12

\* A departure after MinQueueDwell puts the stay it ends on the list; nothing
\* else does.
LEMMA WatchedStay ==
  ASSUME NEW present \in Lists, NEW gap \in Gaps, now \in Nat, NEW v \in Visitors,
         HistoryInv, SinceInv, Frame(present, now + gap)
  PROVE  Watches(frames, [time |-> now + gap, present |-> present], v,
                 exited[v], Watched(present, now + gap)[v])
<1> DEFINE f == [time |-> now + gap, present |-> present]
           n == Len(frames)
           time == now + gap
           w == Watched(present, time)[v]
<1>1. f.time = time /\ f.present = present
  OBVIOUS
<1> HIDE DEF f
<1>2. frames \in Seq(VideoFrame) /\ n \in Nat /\ n >= 1
  BY DEF HistoryInv
<1>3. w = IF v \in Departed(present) /\ time - inZone[v] >= MinQueueDwell
          THEN [enter |-> inZone[v], exit |-> time] ELSE exited[v]
  BY DEF Watched
<1> HIDE DEF w
<1>4. CASE inZone[v] = Away
  <2>1. w = exited[v]
    BY <1>3, <1>4 DEF Departed
  <2>2. v \notin PresentIn(frames, n)
    BY <1>4 DEF SinceInv
  <2>3. \A i \in 1 .. n : ~InZoneSince(frames, v, i)
    <3> SUFFICES ASSUME NEW i \in 1 .. n, InZoneSince(frames, v, i)
                 PROVE  FALSE
      OBVIOUS
    <3>1. n \in i .. n
      BY <1>2
    <3>2. QED
      BY <2>2, <3>1 DEF InZoneSince
  <2>4. EndsWith(frames, f, v) = {}
    BY <2>3 DEF EndsWith
  <2>5. QED
    BY <2>1, <2>4 DEF Watches, f, w
<1>5. CASE inZone[v] # Away
  <2>1. PICK i \in 1 .. n : InZoneSince(frames, v, i) /\ inZone[v] = frames[i].time
    BY <1>5 DEF SinceInv
  <2>2. \A k \in 1 .. n : InZoneSince(frames, v, k) => k = i
    <3> SUFFICES ASSUME NEW k \in 1 .. n, InZoneSince(frames, v, k)
                 PROVE  k = i
      OBVIOUS
    <3>1. k \in Nat /\ i \in Nat
      BY <1>2
    <3>2. QED
      BY <1>2, <2>1, <3>1, OneArrival
  <2>3. v \in Departed(present) <=> v \notin ToSet(present)
    BY <1>5 DEF Departed
  <2>4. CASE v \notin ToSet(present) /\ time - inZone[v] >= MinQueueDwell
    <3>1. w = [enter |-> frames[i].time, exit |-> f.time]
      BY <1>1, <1>3, <2>1, <2>3, <2>4
    <3>2. {k \in 1 .. n : /\ InZoneSince(frames, v, k)
                          /\ v \notin ToSet(f.present)
                          /\ f.time - frames[k].time >= MinQueueDwell} = {i}
      BY <1>1, <2>1, <2>2, <2>4
    <3>3. EndsWith(frames, f, v) = {<<i, n + 1>>}
      BY <3>2 DEF EndsWith
    <3>4. QED
      BY <3>1, <3>3 DEF Watches, f, w
  <2>5. CASE ~(v \notin ToSet(present) /\ time - inZone[v] >= MinQueueDwell)
    <3>1. w = exited[v]
      BY <1>3, <2>3, <2>5
    <3>2. {k \in 1 .. n : /\ InZoneSince(frames, v, k)
                          /\ v \notin ToSet(f.present)
                          /\ f.time - frames[k].time >= MinQueueDwell} = {}
      BY <1>1, <2>1, <2>2, <2>5
    <3>3. EndsWith(frames, f, v) = {}
      BY <3>2 DEF EndsWith
    <3>4. QED
      BY <3>1, <3>3 DEF Watches, f, w
  <2>6. QED
    BY <2>4, <2>5
<1>6. QED
  BY <1>4, <1>5

\* The ABANDONs of a frame: of the visitors whose window has passed.
LEMMA FrameAbandons ==
  ASSUME NEW present, NEW time, NEW v \in Visitors, Frame(present, time)
  PROVE  LET w == Watched(present, time)[v] IN
         Abandons(v)' =
           IF v \in AgedOut(Watched(present, time), time)
           THEN Abandons(v) \cup {[type |-> "ABANDON", visitor |-> v,
                                   dwell |-> w.exit - w.enter, time |-> time]}
           ELSE Abandons(v)
<1> DEFINE watched == Watched(present, time)
           aged == AgedOut(watched, time)
           A(u) == [type |-> "ABANDON", visitor |-> u,
                    dwell |-> watched[u].exit - watched[u].enter, time |-> time]
<1>1. events' = events \cup JoinEvents(present, time) \cup {A(u) : u \in aged}
  BY DEF Frame, AbandonEvents
<1>2. Abandons(v)' = {e \in events' : e.type = "ABANDON" /\ e.visitor = v}
  BY DEF Abandons
<1>3. \A e \in JoinEvents(present, time) : e.type # "ABANDON"
  BY DEF JoinEvents
<1>4. \A u : A(u).type = "ABANDON" /\ A(u).visitor = u
  OBVIOUS
<1> HIDE DEF A, aged
<1>5. Abandons(v)' = IF v \in aged THEN Abandons(v) \cup {A(v)} ELSE Abandons(v)
  <2>1. CASE v \in aged
    BY <1>1, <1>2, <1>3, <1>4, <2>1 DEF Abandons
  <2>2. CASE v \notin aged
    BY <1>1, <1>2, <1>3, <1>4, <2>2 DEF Abandons
  <2>3. QED
    BY <2>1, <2>2
<1>6. QED
  BY <1>5 DEF A, aged

\* AccountsInv after a step, in the terms of the state it leads to.
LEMMA AccountsAfter ==
  ASSUME \A v \in Visitors : /\ Owes(Abandons(v)', frames', v, exited'[v])
                              /\ Settled(Abandons(v)', frames', v, exited'[v])
  PROVE  AccountsInv'
BY DEF AccountsInv, Owes, Settled, ReplacedIn, FlaggedIn, Abandons, CandidatesIn, StayIn,
       ArrivesIn, PresentIn, Times

\* After a frame the ABANDONs and the list still agree with the frames.
LEMMA FrameKeepsAccounts ==
  ASSUME NEW present \in Lists, NEW gap \in Gaps, EventsInv, Frame(present, now + gap)
  PROVE  AccountsInv'
<1> DEFINE f == [time |-> now + gap, present |-> present]
           n == Len(frames)
           time == now + gap
           watched == Watched(present, time)
<1>1. /\ now \in Nat
      /\ gap \in Nat
      /\ PosWindow \in Nat
      /\ Away \notin Stay
  BY BillingAssumption, QueueAssumption DEF EventsInv, QueueInv, BillingTypeOK, Stay
<1>2. /\ HistoryInv
      /\ SinceInv
      /\ QueueInv
      /\ AccountsInv
  BY DEF EventsInv
<1>3. /\ f \in VideoFrame
      /\ frames' = Append(frames, f)
  BY <1>1, <1>2, FrameKeepsHistory
<1>4. /\ frames \in Seq(VideoFrame)
      /\ n >= 1
      /\ frames[n].time = now
      /\ \A i, j \in 1 .. n : i <= j => frames[i].time <= frames[j].time
  BY <1>2 DEF HistoryInv
<1> HIDE DEF f
<1>5. frames' \in Seq(VideoFrame)
  BY <1>3, <1>4, NextFrame
<1> SUFFICES ASSUME NEW v \in Visitors
             PROVE  /\ Owes(Abandons(v)', frames', v, exited'[v])
                    /\ Settled(Abandons(v)', frames', v, exited'[v])
  BY AccountsAfter
<1> DEFINE w == watched[v]
           e == [type |-> "ABANDON", visitor |-> v, dwell |-> w.exit - w.enter, time |-> time]
<1>6. Watches(frames, f, v, exited[v], w)
  BY <1>1, <1>2, WatchedStay DEF f
<1>7. Owes(Abandons(v), frames', v, w)
  <2>1. Owes(Abandons(v), frames, v, exited[v])
    BY <1>2 DEF AccountsInv
  <2>2. QED
    BY <1>3, <1>4, <1>6, <2>1, FrameKeepsOwed
<1>8. Settled(Abandons(v), frames', v, w)
  <2>1. Settled(Abandons(v), frames, v, exited[v])
    BY <1>2 DEF AccountsInv
  <2>2. exited[v] # Away => frames[n].time - exited[v].exit < PosWindow
    BY <1>2, <1>4 DEF QueueInv, CandidatesFlushed
  <2>3. QED
    BY <1>1, <1>3, <1>4, <1>6, <2>1, <2>2, FrameKeepsSettled
<1>9. exited'[v] = IF v \in AgedOut(watched, time) THEN Away ELSE w
  BY DEF Frame, UpdateQueue
<1>10. Abandons(v)' = IF v \in AgedOut(watched, time) THEN Abandons(v) \cup {e} ELSE Abandons(v)
  BY FrameAbandons
<1>11. CASE v \in AgedOut(watched, time)
  <2>1. w # Away /\ time - w.exit >= PosWindow
    BY <1>11 DEF AgedOut
  <2>2. w.exit \in Nat
    <3>1. time \in Nat /\ time >= now
      BY <1>1
    <3>2. w \in Stay
      BY <1>2, <2>1, <3>1, WatchedType
    <3>3. QED
      BY <3>2 DEF Stay
  <2>3. e.dwell = w.exit - w.enter /\ e.time = time /\ time \in Nat
    BY <1>1
  <2> HIDE DEF w, e
  <2>4. Owes(Abandons(v) \cup {e}, frames', v, Away)
    BY <1>5, <1>7, <2>1, <2>3, FlagKeepsOwed
  <2>5. Settled(Abandons(v) \cup {e}, frames', v, Away)
    BY <1>1, <1>5, <1>8, <2>1, <2>2, <2>3, FlagKeepsSettled
  <2>6. QED
    BY <1>9, <1>10, <1>11, <2>4, <2>5
<1>12. CASE v \notin AgedOut(watched, time)
  <2> HIDE DEF w, e
  <2>1. QED
    BY <1>7, <1>8, <1>9, <1>10, <1>12
<1>13. QED
  BY <1>11, <1>12

\* EventsInv is an inductive invariant of the tracker.
THEOREM EventsInvariant == BillingSpec => []EventsInv
<1>1. BillingInit => EventsInv
  <2> SUFFICES ASSUME BillingInit
               PROVE  EventsInv
    OBVIOUS
  <2>1. QueueInv
    BY DEF BillingInit, QueueInit, QueueInv, BillingTypeOK, EnteredBefore, CandidatesFlushed
  <2> DEFINE f == [time |-> 0, present |-> << >>]
  <2>2. frames = <<f>> /\ now = 0 /\ events = {}
    BY DEF BillingInit
  <2>3. f \in VideoFrame /\ f.time = 0 /\ f.present = << >>
    BY DEF VideoFrame
  <2> HIDE DEF f
  <2>4. frames \in Seq(VideoFrame) /\ Len(frames) = 1 /\ frames[1] = f
    BY <2>2, <2>3
  <2>5. HistoryInv
    BY <2>2, <2>3, <2>4 DEF HistoryInv
  <2>6. PresentIn(frames, 1) = {}
    BY <2>3, <2>4 DEF PresentIn, ToSet
  <2>7. SinceInv
    BY <2>4, <2>6 DEF SinceInv, BillingInit, QueueInit
  <2>8. JoinsMatchArrivals
    <3>1. 2 .. Len(frames) = {}
      BY <2>4
    <3>2. QED
      BY <2>2, <3>1, JoinsOfFrames
  <2>9. ASSUME NEW v \in Visitors
        PROVE  /\ Owes(Abandons(v), frames, v, exited[v])
               /\ Settled(Abandons(v), frames, v, exited[v])
    <3>1. Abandons(v) = {} /\ exited[v] = Away
      BY <2>2 DEF Abandons, BillingInit, QueueInit
    <3>2. CandidatesIn(frames, v) = {}
      <4>1. \A i, j : ~StayIn(frames, v, i, j)
        BY <2>4 DEF StayIn, ArrivesIn
      <4>2. QED
        BY <4>1 DEF CandidatesIn
    <3>3. Settled(Abandons(v), frames, v, exited[v])
      BY <3>2 DEF Settled
    <3> DEFINE none == [e \in {} |-> 0]
    <3>4. none \in [{} -> CandidatesIn(frames, v)]
      OBVIOUS
    <3>5. Owes(Abandons(v), frames, v, exited[v])
      BY <3>1, <3>4 DEF Owes
    <3>6. QED
      BY <3>3, <3>5
  <2>10. QED
    BY <2>1, <2>5, <2>7, <2>8, <2>9 DEF EventsInv, AccountsInv
<1>2. EventsInv /\ [BillingNext]_billingVars => EventsInv'
  <2> SUFFICES ASSUME EventsInv, [BillingNext]_billingVars
               PROVE  EventsInv'
    OBVIOUS
  <2>1. ASSUME NEW present \in Lists, NEW gap \in Gaps, Frame(present, now + gap)
        PROVE  EventsInv'
    <3>1. now \in Nat /\ HistoryInv /\ SinceInv /\ QueueInv /\ JoinsMatchArrivals
      BY DEF EventsInv, QueueInv, BillingTypeOK
    <3>2. QueueInv'
      BY <2>1, <3>1, FrameKeepsInv
    <3>3. HistoryInv'
      BY <2>1, <3>1, FrameKeepsHistory
    <3>4. SinceInv'
      BY <2>1, <3>1, FrameKeepsSince
    <3>5. JoinsMatchArrivals'
      BY <2>1, <3>1, FrameKeepsJoins
    <3>6. AccountsInv'
      BY <2>1, FrameKeepsAccounts
    <3>7. QED
      BY <3>2, <3>3, <3>4, <3>5, <3>6 DEF EventsInv
  <2>2. ASSUME UNCHANGED <<inZone, exited, now, frames, events>>
        PROVE  EventsInv'
    <3>1. QueueInv'
      BY <2>2 DEF EventsInv, QueueInv, BillingTypeOK, EnteredBefore, CandidatesFlushed
    <3>2. HistoryInv'
      BY <2>2 DEF EventsInv, HistoryInv
    <3>3. SinceInv'
      BY <2>2 DEF EventsInv, SinceInv, InZoneSince, ArrivesIn, PresentIn
    <3>4. JoinsMatchArrivals'
      <4>1. JoinsMatchArrivals /\ frames' = frames /\ events' = events
        BY <2>2 DEF EventsInv
      <4>2. JoinsMatchArrivals' <=> JoinsMatchArrivals
        BY <4>1 DEF JoinsMatchArrivals, Arrives, Present
      <4>3. QED
        BY <4>1, <4>2
    <3>5. AccountsInv'
      <4>1. \A v \in Visitors : /\ Owes(Abandons(v), frames, v, exited[v])
                                /\ Settled(Abandons(v), frames, v, exited[v])
        BY DEF EventsInv, AccountsInv
      <4>2. \A v : Abandons(v)' = Abandons(v)
        BY <2>2 DEF Abandons
      <4>3. frames' = frames /\ exited' = exited
        BY <2>2
      <4>4. ASSUME NEW v \in Visitors
            PROVE  /\ Owes(Abandons(v)', frames', v, exited'[v])
                   /\ Settled(Abandons(v)', frames', v, exited'[v])
        BY <4>1, <4>2, <4>3
      <4>5. QED
        BY <4>4, AccountsAfter
    <3>6. QED
      BY <3>1, <3>2, <3>3, <3>4, <3>5 DEF EventsInv
  <2>3. ASSUME NEW v \in Visitors, Pay(v)
        PROVE  EventsInv'
    BY <2>2, <2>3 DEF Pay, queueVars
  <2>4. CASE UNCHANGED billingVars
    BY <2>2, <2>4 DEF billingVars, historyVars, queueVars
  <2>5. QED
    BY <2>1, <2>3, <2>4 DEF BillingNext
<1>3. QED
  BY <1>1, <1>2, PTL DEF BillingSpec

\* Every arrival is one JOIN with the depth of the queue at its turn, every
\* ABANDON is owed to a candidate stay of its own, and no candidate stay is
\* forgotten, whatever the frames show (billing_queue.py 73-163).
THEOREM QueueEventsDoMatch == BillingSpec => []QueueEventsMatchFrames
<1>1. EventsInv => QueueEventsMatchFrames
  <2> SUFFICES ASSUME EventsInv
               PROVE  QueueEventsMatchFrames
    OBVIOUS
  <2>1. \A v : Candidates(v) = CandidatesIn(frames, v)
    BY StaysOfFrames
  <2>2. AbandonsJustified
    <3> SUFFICES ASSUME NEW v \in Visitors
                 PROVE  \E owed \in [Abandons(v) -> Candidates(v)] :
                          /\ \A e, f \in Abandons(v) : owed[e] = owed[f] => e = f
                          /\ \A e \in Abandons(v) :
                               /\ e.dwell = frames[owed[e][2]].time - frames[owed[e][1]].time
                               /\ e.time - frames[owed[e][2]].time >= PosWindow
      BY DEF AbandonsJustified
    <3>1. Owes(Abandons(v), frames, v, exited[v])
      BY DEF EventsInv, AccountsInv
    <3>2. QED
      BY <2>1, <3>1 DEF Owes
  <2>3. AbandonsComplete
    <3> SUFFICES ASSUME NEW v \in Visitors, NEW s \in CandidatesIn(frames, v),
                        now - frames[s[2]].time >= PosWindow,
                        ~ReplacedIn(frames, v, s)
                 PROVE  FlaggedIn(Abandons(v), frames, s)
      BY <2>1 DEF AbandonsComplete, ReplacedIn, FlaggedIn
    <3>1. \/ exited[v] = Times(frames, s)
          \/ FlaggedIn(Abandons(v), frames, s)
      BY DEF EventsInv, AccountsInv, Settled
    <3>2. exited[v] # Times(frames, s)
      <4> SUFFICES ASSUME exited[v] = Times(frames, s)
                   PROVE  FALSE
        OBVIOUS
      <4>1. frames[s[1]].time \in Nat /\ frames[s[2]].time \in Nat
        BY CandidatePlace DEF EventsInv, HistoryInv
      <4>2. exited[v] \in Stay /\ exited[v].exit = frames[s[2]].time
        BY <4>1 DEF Times, Stay
      <4>3. exited[v] # Away
        BY <4>2, QueueAssumption DEF Stay
      <4>4. now - exited[v].exit < PosWindow
        BY <4>3 DEF EventsInv, QueueInv, CandidatesFlushed
      <4>5. now \in Nat /\ PosWindow \in Nat
        BY QueueAssumption DEF EventsInv, QueueInv, BillingTypeOK
      <4>6. QED
        BY <4>1, <4>2, <4>4, <4>5
    <3>3. QED
      BY <3>1, <3>2
  <2>4. QED
    BY <2>2, <2>3 DEF EventsInv, QueueEventsMatchFrames
<1>2. QED
  BY <1>1, EventsInvariant, PTL

=============================================================================
