---------------------------- MODULE JourneyProofs ----------------------------
(***************************************************************************)
(* Theorems about the judgement the cameras pass on a visitor, for any     *)
(* visitors, cameras, zones, clothes and frames: the entry/exit detector,  *)
(* the staff classifier and the behaviour state machine.                   *)
(*                                                                         *)
(* The loops of the code are recursive functions; what they compute is     *)
(* proved by the induction of NatSetInduction over their rounds.           *)
(***************************************************************************)
EXTENDS Journey, ListLemmas

-----------------------------------------------------------------------------
(***************************************************************************)
(* The entry/exit detector, for any sightings of its tracks.               *)
(***************************************************************************)

\* The crossing reported last agrees with the side the track is committed to.
ReportedSide ==
  \A t \in Tracks :
    /\ reported[t] = "ENTRY" => side[t] = "inside"
    /\ reported[t] = "EXIT"  => side[t] = "outside"

\* The counter counts sightings that are still remembered, and since the first
\* of them the track was not seen on the side it is committed to.
CountedSince ==
  \A t \in Tracks :
    /\ Len(recent[t]) <= MinCrossFrames
    /\ counter[t] <= Len(recent[t])
    /\ \A i \in 1 .. Len(recent[t]) :
         i > Len(recent[t]) - counter[t] => recent[t][i] # side[t]

\* The inductive invariant of the detector.
CrossInv == CrossTypeOK /\ ReportedSide /\ CountedSince

\* Remember drops the oldest sighting when MinCrossFrames are remembered.
LEMMA RememberShape ==
  ASSUME NEW s \in Seq(Side), NEW x \in Side, Len(s) <= MinCrossFrames
  PROVE  LET r == Remember(s, x) IN
         /\ r \in Seq(Side)
         /\ Len(r) = IF Len(s) < MinCrossFrames THEN Len(s) + 1 ELSE MinCrossFrames
         /\ r[Len(r)] = x
         /\ \A i \in 1 .. Len(r) - 1 : r[i] = s[i + (Len(s) + 1 - Len(r))]
<1>1. MinCrossFrames \in Nat \ {0} /\ Len(s) \in Nat
  BY MinCrossFramesAssumption
<1>2. CASE Len(s) < MinCrossFrames
  BY <1>1, <1>2 DEF Remember
<1>3. CASE ~(Len(s) < MinCrossFrames)
  <2>1. s # << >> /\ Len(s) = MinCrossFrames
    BY <1>1, <1>3
  <2>2. /\ Tail(s) \in Seq(Side)
        /\ Len(Tail(s)) = Len(s) - 1
        /\ \A i \in 1 .. Len(s) - 1 : Tail(s)[i] = s[i + 1]
    BY <2>1
  <2>3. Remember(s, x) = Append(Tail(s), x)
    BY <1>3 DEF Remember
  <2>4. QED
    BY <1>1, <2>1, <2>2, <2>3
<1>4. QED
  BY <1>2, <1>3

\* What update returns says which side the track is committed to afterwards,
\* and which side it was.
LEMMA CrossingSides ==
  ASSUME NEW t \in Tracks, NEW s \in Side, CrossTypeOK, UpdateLine(t, s)
  PROVE  /\ Crossing(t, s) = "ENTRY" => side[t] = "outside" /\ side'[t] = "inside"
         /\ Crossing(t, s) = "EXIT"  => side[t] = "inside"  /\ side'[t] = "outside"
         /\ Crossing(t, s) = "none"  => side'[t] = side[t] \/ side[t] = "unseen"
         /\ Crossing(t, s) \in {"none", "ENTRY", "EXIT"}
         /\ \A u \in Tracks \ {t} : side'[u] = side[u]
<1>1. side \in [Tracks -> CommittedSide]
  BY DEF CrossTypeOK
<1>2. CASE Settle(t, s)
  BY <1>1, <1>2 DEF Settle, Crossing, CrossingConfirmed, OnOppositeSide, Side, CommittedSide
<1>3. CASE CountFrame(t, s)
  BY <1>1, <1>3 DEF CountFrame, Crossing, CrossingConfirmed, OnOppositeSide, Side, CommittedSide
<1>4. CASE CommitCrossing(t, s)
  BY <1>1, <1>4 DEF CommitCrossing, Crossing, CrossingConfirmed, OnOppositeSide, Side, CommittedSide
<1>5. CASE Ignore(t, s)
  BY <1>1, <1>5 DEF Ignore, lineVars, Crossing, CrossingConfirmed, OnOppositeSide, Side, CommittedSide
<1>6. QED
  BY <1>2, <1>3, <1>4, <1>5 DEF UpdateLine

\* The detector's sides and counters keep their types; a counter stays below
\* MinCrossFrames.
LEMMA UpdateLineType ==
  ASSUME NEW t \in Tracks, NEW s \in Side, CrossTypeOK, UpdateLine(t, s)
  PROVE  /\ side' \in [Tracks -> CommittedSide]
         /\ counter' \in [Tracks -> 0 .. MinCrossFrames - 1]
<1>1. /\ side \in [Tracks -> CommittedSide]
      /\ counter \in [Tracks -> 0 .. MinCrossFrames - 1]
      /\ MinCrossFrames \in Nat \ {0}
  BY MinCrossFramesAssumption DEF CrossTypeOK
<1>2. CASE Settle(t, s)
  BY <1>1, <1>2 DEF Settle, Side, CommittedSide
<1>3. CASE CountFrame(t, s)
  <2>1. counter[t] + 1 \in 0 .. MinCrossFrames - 1
    BY <1>1, <1>3 DEF CountFrame, CrossingConfirmed
  <2>2. QED
    BY <1>1, <1>3, <2>1 DEF CountFrame
<1>4. CASE CommitCrossing(t, s)
  BY <1>1, <1>4 DEF CommitCrossing, CrossingConfirmed, OnOppositeSide, Side, CommittedSide
<1>5. CASE Ignore(t, s)
  BY <1>1, <1>5 DEF Ignore, lineVars
<1>6. QED
  BY <1>2, <1>3, <1>4, <1>5 DEF UpdateLine

\* The counter and the remembered sightings of a track after the next one.
LEMMA SightCounts ==
  ASSUME NEW t \in Tracks, NEW s \in Side, CrossTypeOK, CountedSince, UpdateLine(t, s)
  PROVE  LET r == Remember(recent[t], s) IN
         /\ Len(r) <= MinCrossFrames
         /\ counter'[t] <= Len(r)
         /\ \A i \in 1 .. Len(r) : i > Len(r) - counter'[t] => r[i] # side'[t]
         /\ (side'[t] # side[t] /\ side[t] # "unseen") =>
              /\ side'[t] = s
              /\ Len(r) = MinCrossFrames
              /\ \A i \in 1 .. Len(r) : i = Len(r) \/ r[i] # side[t]
<1> DEFINE q == recent[t]
           r == Remember(q, s)
           n == Len(q)
           m == Len(r)
<1>1. /\ side \in [Tracks -> CommittedSide]
      /\ counter \in [Tracks -> 0 .. MinCrossFrames - 1]
      /\ MinCrossFrames \in Nat \ {0}
  BY MinCrossFramesAssumption DEF CrossTypeOK
<1>2. /\ q \in Seq(Side) /\ n \in Nat
      /\ n <= MinCrossFrames
      /\ counter[t] <= n
      /\ \A i \in 1 .. n : i > n - counter[t] => q[i] # side[t]
  BY DEF CrossTypeOK, CountedSince
<1>3. /\ m = IF n < MinCrossFrames THEN n + 1 ELSE MinCrossFrames
      /\ r[m] = s
      /\ \A i \in 1 .. m - 1 : r[i] = q[i + (n + 1 - m)]
  BY <1>2, RememberShape
<1> HIDE DEF q, r, n, m
<1>4. m \in Nat /\ m <= MinCrossFrames /\ m <= n + 1 /\ n <= m /\ counter[t] \in Nat
  BY <1>1, <1>2, <1>3
\* What was remembered since the counter began stays remembered.
<1>5. ASSUME NEW i \in 1 .. m - 1, i >= m - counter[t]
      PROVE  r[i] # side[t]
  <2> DEFINE j == i + (n + 1 - m)
  <2>1. j \in 1 .. n /\ j > n - counter[t]
    BY <1>2, <1>4, <1>5
  <2>2. QED
    BY <1>2, <1>3, <2>1
<1>6. CASE Settle(t, s)
  BY <1>1, <1>3, <1>4, <1>6 DEF Settle, r, m, q, n
<1>7. CASE CountFrame(t, s)
  <2>1. /\ counter'[t] = counter[t] + 1
        /\ side'[t] = side[t] /\ s # side[t]
        /\ counter[t] + 1 < MinCrossFrames
    BY <1>1, <1>7 DEF CountFrame, CrossingConfirmed, OnOppositeSide
  <2>2. ASSUME NEW i \in 1 .. m, i > m - counter'[t]
        PROVE  r[i] # side'[t]
    BY <1>3, <1>4, <1>5, <2>1, <2>2
  <2>3. counter'[t] <= m
    BY <1>2, <1>3, <1>4, <2>1
  <2>4. QED
    BY <1>4, <2>1, <2>2, <2>3 DEF r, m, q, n
<1>8. CASE CommitCrossing(t, s)
  <2>1. /\ counter'[t] = 0 /\ side'[t] = s
        /\ counter[t] + 1 >= MinCrossFrames
    BY <1>1, <1>8 DEF CommitCrossing, CrossingConfirmed
  <2>2. counter[t] = MinCrossFrames - 1 /\ m = MinCrossFrames
    <3>1. counter[t] \in 0 .. MinCrossFrames - 1
      BY <1>1
    <3>2. counter[t] = MinCrossFrames - 1
      BY <1>1, <2>1, <3>1
    <3>3. QED
      BY <1>1, <1>2, <1>3, <3>2
  <2>3. ASSUME NEW i \in 1 .. m, i # m
        PROVE  r[i] # side[t]
    BY <1>4, <1>5, <2>2, <2>3
  <2>4. QED
    BY <1>4, <2>1, <2>2, <2>3 DEF r, m, q, n
<1>9. CASE Ignore(t, s)
  <2>1. s = "off" /\ side' = side /\ counter' = counter /\ side[t] # "off"
    BY <1>1, <1>9 DEF Ignore, lineVars, CommittedSide
  <2>2. ASSUME NEW i \in 1 .. m, i > m - counter[t]
        PROVE  r[i] # side[t]
    BY <1>3, <1>4, <1>5, <2>1, <2>2
  <2>3. QED
    BY <1>2, <1>4, <2>1, <2>2 DEF r, m, q, n
<1>10. QED
  BY <1>6, <1>7, <1>8, <1>9 DEF UpdateLine

\* A sighting keeps the invariant of the detector.
LEMMA SightKeepsInv ==
  ASSUME NEW t \in Tracks, NEW s \in Side, CrossInv, Sight(t, s)
  PROVE  CrossInv'
<1>1. /\ CrossTypeOK
      /\ UpdateLine(t, s)
      /\ recent \in [Tracks -> Seq(Side)]
      /\ reported \in [Tracks -> {"none", "ENTRY", "EXIT"}]
  BY DEF CrossInv, CrossTypeOK, Sight
<1>2. CrossTypeOK'
  <2>1. recent' \in [Tracks -> Seq(Side)]
    BY <1>1, RememberShape DEF Sight, CrossInv, CountedSince
  <2>2. reported' \in [Tracks -> {"none", "ENTRY", "EXIT"}]
    BY <1>1, CrossingSides DEF Sight
  <2>3. QED
    BY <1>1, <2>1, <2>2, UpdateLineType DEF CrossTypeOK
<1>3. ReportedSide'
  <2> SUFFICES ASSUME NEW u \in Tracks
               PROVE  /\ reported'[u] = "ENTRY" => side'[u] = "inside"
                      /\ reported'[u] = "EXIT"  => side'[u] = "outside"
    BY DEF ReportedSide
  <2>1. /\ reported[u] = "ENTRY" => side[u] = "inside"
        /\ reported[u] = "EXIT"  => side[u] = "outside"
    BY DEF CrossInv, ReportedSide
  <2>2. CASE u # t
    BY <1>1, <2>1, <2>2, CrossingSides DEF Sight
  <2>3. CASE u = t
    BY <1>1, <2>1, <2>3, CrossingSides DEF Sight
  <2>4. QED
    BY <2>2, <2>3
<1>4. CountedSince'
  <2> SUFFICES ASSUME NEW u \in Tracks
               PROVE  /\ Len(recent'[u]) <= MinCrossFrames
                      /\ counter'[u] <= Len(recent'[u])
                      /\ \A i \in 1 .. Len(recent'[u]) :
                           i > Len(recent'[u]) - counter'[u] => recent'[u][i] # side'[u]
    BY DEF CountedSince
  <2>1. CASE u # t
    <3>1. side'[u] = side[u] /\ counter'[u] = counter[u] /\ recent'[u] = recent[u]
      BY <1>1, <2>1 DEF Sight, CrossTypeOK, UpdateLine, Settle, CountFrame, CommitCrossing,
                        Ignore, lineVars
    <3>2. QED
      BY <3>1 DEF CrossInv, CountedSince
  <2>2. CASE u = t
    <3>1. recent'[t] = Remember(recent[t], s)
      BY <1>1 DEF Sight
    <3>2. QED
      BY <1>1, <2>2, <3>1, SightCounts DEF CrossInv
  <2>3. QED
    BY <2>1, <2>2
<1>5. QED
  BY <1>2, <1>3, <1>4 DEF CrossInv

\* CrossInv is an inductive invariant of the detector.
THEOREM CrossInvariant == CrossSpec => []CrossInv
<1>1. CrossInit => CrossInv
  BY MinCrossFramesAssumption
     DEF CrossInit, LineInit, CrossInv, CrossTypeOK, ReportedSide, CountedSince,
         CommittedSide, Side
<1>2. CrossInv /\ [CrossNext]_crossVars => CrossInv'
  <2> SUFFICES ASSUME CrossInv, [CrossNext]_crossVars
               PROVE  CrossInv'
    OBVIOUS
  <2>1. CASE CrossNext
    BY <2>1, SightKeepsInv DEF CrossNext
  <2>2. CASE UNCHANGED crossVars
    BY <2>2 DEF crossVars, lineVars, CrossInv, CrossTypeOK, ReportedSide, CountedSince
  <2>3. QED
    BY <2>1, <2>2
<1>3. QED
  BY <1>1, <1>2, PTL DEF CrossSpec

\* The sides and the frame counters of the detector keep their types; a counter
\* never reaches MinCrossFrames.
THEOREM CrossTyped == CrossSpec => []CrossTypeOK
<1>1. CrossInv => CrossTypeOK
  BY DEF CrossInv
<1>2. QED
  BY <1>1, CrossInvariant, PTL

\* ENTRY and EXIT alternate on every track, whatever frames are missed: update
\* never returns the crossing it returned before for that track.
THEOREM CrossingsDoAlternate == CrossSpec => []CrossingsAlternate
<1>1. CrossInv => CrossingsAlternate
  <2> SUFFICES ASSUME CrossInv, NEW t \in Tracks, NEW s \in Side,
                      Crossing(t, s) # "none", Crossing(t, s) = reported[t]
               PROVE  FALSE
    BY DEF CrossingsAlternate
  <2>1. CrossingConfirmed(t, s) /\ s \in {"inside", "outside"}
    BY DEF Crossing, CrossingConfirmed, OnOppositeSide, Side
  <2>2. side[t] # s
    BY <2>1 DEF CrossingConfirmed, OnOppositeSide
  <2>3. CASE s = "inside"
    BY <2>1, <2>2, <2>3 DEF Crossing, CrossInv, ReportedSide
  <2>4. CASE s = "outside"
    BY <2>1, <2>2, <2>4 DEF Crossing, CrossInv, ReportedSide
  <2>5. QED
    BY <2>1, <2>3, <2>4
<1>2. QED
  BY <1>1, CrossInvariant, PTL

\* A crossing of a track that is not seen off the line's span takes
\* MinCrossFrames sightings in a row on the new side.
THEOREM CrossingsAreDebounced == CrossSpec => DebouncedOnLine
<1>1. ASSUME CrossInv, CrossNext, NEW t \in Tracks,
             side'[t] # side[t], side[t] # "unseen", "off" \notin ToSet(recent'[t])
      PROVE  recent'[t] = [i \in 1 .. MinCrossFrames |-> side'[t]]
  <2>1. PICK u \in Tracks, s \in Side : Sight(u, s)
    BY <1>1 DEF CrossNext
  <2>2. CrossTypeOK /\ UpdateLine(u, s)
    BY <1>1, <2>1 DEF Sight, CrossInv
  <2>3. u = t
    BY <1>1, <2>2, CrossingSides
  <2> DEFINE r == Remember(recent[t], s)
  <2>4. recent'[t] = r /\ recent[t] \in Seq(Side) /\ Len(recent[t]) <= MinCrossFrames
    BY <1>1, <2>1, <2>2, <2>3 DEF Sight, CrossTypeOK, CrossInv, CountedSince
  <2>5. /\ side'[t] = s
        /\ Len(r) = MinCrossFrames
        /\ \A i \in 1 .. Len(r) : i = Len(r) \/ r[i] # side[t]
    BY <1>1, <2>2, <2>3, SightCounts DEF CrossInv
  <2>6. r \in Seq(Side) /\ r[Len(r)] = s
    BY <2>4, RememberShape
  <2>7. side[t] \in CommittedSide
    BY <2>2 DEF CrossTypeOK
  <2> HIDE DEF r
  <2>8. ASSUME NEW i \in 1 .. Len(r)
        PROVE  r[i] = s
    <3>1. r[i] \in Side /\ r[i] # "off"
      BY <1>1, <2>4, <2>6 DEF ToSet
    <3>2. s \in Side /\ s # "off"
      <4>1. Len(r) \in 1 .. Len(r)
        BY <2>5, <2>6, MinCrossFramesAssumption
      <4>2. r[Len(r)] \in Side /\ r[Len(r)] # "off"
        BY <1>1, <2>4, <2>6, <4>1 DEF ToSet
      <4>3. QED
        BY <2>6, <4>2
    <3>3. side[t] \in {"inside", "outside"} /\ s # side[t]
      BY <1>1, <2>5, <2>7 DEF CommittedSide
    <3>4. i = Len(r) \/ r[i] # side[t]
      BY <2>5
    <3>5. QED
      BY <2>6, <3>1, <3>2, <3>3, <3>4 DEF Side
  <2>9. QED
    BY <2>4, <2>5, <2>6, <2>8
<1>2. CrossInv /\ [CrossNext]_crossVars =>
        [\A t \in Tracks :
           (side'[t] # side[t] /\ side[t] # "unseen" /\ "off" \notin ToSet(recent'[t]))
             => recent'[t] = [i \in 1 .. MinCrossFrames |-> side'[t]]]_crossVars
  BY <1>1
<1>3. QED
  BY <1>2, CrossInvariant, PTL DEF CrossSpec, DebouncedOnLine

-----------------------------------------------------------------------------
(***************************************************************************)
(* The behaviour state machine: the loop over the events of update.        *)
(***************************************************************************)

\* The states of v while the events are told to update, one after the other.
BehaviorRuns(v, s, events) ==
  {run \in [0 .. Len(events) -> BehaviorState] :
     /\ run[0] = s
     /\ \A i \in 1 .. Len(events) :
          run[i] = IF events[i].visitor # v THEN run[i - 1]
                   ELSE Transition(run[i - 1], events[i].type, events[i].dwell)
     /\ run[Len(events)] = Updated(v, s, events)}

\* update computes what its loop over the events computes.
LEMMA UpdatedRun ==
  ASSUME NEW v, NEW s \in BehaviorState, NEW events, Len(events) \in Nat
  PROVE  BehaviorRuns(v, s, events) # {}
<1> DEFINE n == Len(events)
           Next1(x, i) == IF events[i].visitor # v THEN x
                          ELSE Transition(x, events[i].type, events[i].dwell)
           step == [x \in BehaviorState \X (1 .. n) |-> Next1(x[1], x[2])]
           after[i \in 0 .. n] ==
             IF i = 0 THEN s
             ELSE IF events[i].visitor # v THEN after[i - 1]
             ELSE Transition(after[i - 1], events[i].type, events[i].dwell)
<1>1. step \in StepFunctions(BehaviorState, n)
  BY DEF StepFunctions, Transition, BehaviorState
<1>2. \A x \in BehaviorState, i \in 1 .. n : step[<<x, i>>] = Next1(x, i)
  OBVIOUS
<1>3. PICK g \in [0 .. n -> BehaviorState] :
        /\ g[0] = s
        /\ \A i \in 1 .. n : g[i] = step[<<g[i - 1], i>>]
  <2> HIDE DEF step
  <2>1. n \in Nat
    OBVIOUS
  <2> HIDE DEF n
  <2>2. Runs(BehaviorState, n, s, step) # {}
    BY <1>1, <2>1, RunExists
  <2>3. QED
    BY <2>2 DEF Runs
<1>4. g = [i \in 0 .. n |->
             IF i = 0 THEN s
             ELSE IF events[i].visitor # v THEN g[i - 1]
             ELSE Transition(g[i - 1], events[i].type, events[i].dwell)]
  <2>1. ASSUME NEW i \in 1 .. n
        PROVE  g[i] = IF events[i].visitor # v THEN g[i - 1]
                      ELSE Transition(g[i - 1], events[i].type, events[i].dwell)
    <3>1. i - 1 \in 0 .. n
      OBVIOUS
    <3>2. g[i - 1] \in BehaviorState
      BY <1>3, <3>1
    <3>3. g[i] = step[<<g[i - 1], i>>]
      BY <1>3
    <3> HIDE DEF step
    <3>4. QED
      BY <1>2, <3>2, <3>3
  <2>2. QED
    BY <1>3, <2>1
<1>5. after = [i \in 0 .. n |->
             IF i = 0 THEN s
             ELSE IF events[i].visitor # v THEN after[i - 1]
             ELSE Transition(after[i - 1], events[i].type, events[i].dwell)]
  BY <1>4, Zenon
<1>6. Updated(v, s, events) = after[n]
  BY DEF Updated
<1>7. \A i \in 0 .. n : after[i] = g[i]
  <2> DEFINE K == {k \in Nat : k <= n => after[k] = g[k]}
  <2> HIDE DEF after
  <2>1. 0 \in K
    BY <1>3, <1>5
  <2>2. ASSUME NEW k \in K
        PROVE  k + 1 \in K
    <3> SUFFICES ASSUME k + 1 <= n
                 PROVE  after[k + 1] = g[k + 1]
      OBVIOUS
    <3>1. after[k] = g[k] /\ k + 1 \in 0 .. n /\ k + 1 # 0 /\ (k + 1) - 1 = k
      BY <2>2
    <3>2. QED
      BY <1>4, <1>5, <3>1
  <2>3. K = Nat
    <3>1. K \in SUBSET Nat
      OBVIOUS
    <3> HIDE DEF K
    <3>2. QED
      BY <2>1, <2>2, <3>1, NatSetInduction
  <2>4. QED
    BY <2>3
<1>8. /\ g[n] = Updated(v, s, events)
      /\ \A i \in 1 .. n : g[i] = IF events[i].visitor # v THEN g[i - 1]
                                 ELSE Transition(g[i - 1], events[i].type, events[i].dwell)
  <2> HIDE DEF after
  <2>1. g[n] = Updated(v, s, events)
    BY <1>6, <1>7
  <2>2. QED
    BY <1>4, <2>1
<1>9. QED
  <2> HIDE DEF after
  <2>1. g \in BehaviorRuns(v, s, events)
    BY <1>3, <1>8 DEF BehaviorRuns
  <2>2. QED
    BY <2>1

\* If event k leaves the state in P and no later event leads out of P, the
\* state is in P after all events; for k = 0 the state before is in P.
LEMMA UpdatedStays ==
  ASSUME NEW v, NEW s \in BehaviorState, NEW events, Len(events) \in Nat,
         NEW P \in SUBSET BehaviorState, NEW k \in 0 .. Len(events),
         \/ k = 0 /\ s \in P
         \/ /\ k > 0 /\ events[k].visitor = v
            /\ \A x \in BehaviorState : Transition(x, events[k].type, events[k].dwell) \in P,
         \A i \in k + 1 .. Len(events) : \A x \in P :
           events[i].visitor = v => Transition(x, events[i].type, events[i].dwell) \in P
  PROVE  Updated(v, s, events) \in P
<1>1. PICK run \in BehaviorRuns(v, s, events) : TRUE
  BY UpdatedRun
<1>2. /\ run \in [0 .. Len(events) -> BehaviorState]
      /\ run[0] = s
      /\ \A i \in 1 .. Len(events) :
           run[i] = IF events[i].visitor # v THEN run[i - 1]
                    ELSE Transition(run[i - 1], events[i].type, events[i].dwell)
      /\ run[Len(events)] = Updated(v, s, events)
  BY <1>1 DEF BehaviorRuns
<1> DEFINE K == {j \in Nat : k + j <= Len(events) => run[k + j] \in P}
<1>3. 0 \in K
  <2>1. CASE k = 0
    BY <1>2, <2>1
  <2>2. CASE k # 0
    <3>1. k \in 1 .. Len(events) /\ k - 1 \in 0 .. Len(events)
      BY <2>2
    <3>2. run[k] = Transition(run[k - 1], events[k].type, events[k].dwell)
      BY <1>2, <2>2, <3>1
    <3>3. QED
      BY <1>2, <2>2, <3>1, <3>2
  <2>3. QED
    BY <2>1, <2>2
<1>4. ASSUME NEW j \in K
      PROVE  j + 1 \in K
  <2> SUFFICES ASSUME k + (j + 1) <= Len(events)
               PROVE  run[k + (j + 1)] \in P
    OBVIOUS
  <2> DEFINE i == k + (j + 1)
  <2>1. run[i - 1] \in P /\ i \in 1 .. Len(events) /\ i \in k + 1 .. Len(events)
    BY <1>4
  <2> HIDE DEF i
  <2>2. run[i] = IF events[i].visitor # v THEN run[i - 1]
                 ELSE Transition(run[i - 1], events[i].type, events[i].dwell)
    BY <1>2, <2>1
  <2>3. run[i] \in P
    BY <2>1, <2>2
  <2>4. QED
    BY <2>3 DEF i
<1>5. K = Nat
  <2>1. K \in SUBSET Nat
    OBVIOUS
  <2> HIDE DEF K
  <2>2. QED
    BY <1>3, <1>4, <2>1, NatSetInduction
<1>6. Len(events) - k \in K
  <2>1. Len(events) - k \in Nat
    OBVIOUS
  <2> HIDE DEF K
  <2>2. QED
    BY <1>5, <2>1
<1>7. QED
  BY <1>2, <1>6
-----------------------------------------------------------------------------
(***************************************************************************)
(* The staff classifier: the percentile of the scores and the composite.   *)
(***************************************************************************)

\* The scores are at most 100.
ScoresBounded(scores) == \A i \in 1 .. Len(scores) : scores[i] <= 100

\* The scores of a profile are percentages.
LEMMA ScoresTyped ==
  ASSUME NEW scores \in Seq(Clothing)
  PROVE  scores \in Seq(Nat) /\ ScoresBounded(scores)
<1>1. \A c \in Clothing : c \in Nat /\ c <= 100
  BY StaffAssumption
<1>2. ASSUME NEW i \in 1 .. Len(scores)
      PROVE  scores[i] \in Clothing
  OBVIOUS
<1>3. ASSUME NEW i \in 1 .. Len(scores)
      PROVE  scores[i] <= 100
  BY <1>1, <1>2
<1>4. scores \in Seq(Nat)
  <2>1. Clothing \subseteq Nat
    BY <1>1
  <2>2. QED
    BY <2>1, SeqMonotonic
<1>5. QED
  BY <1>3, <1>4 DEF ScoresBounded

\* The k-th smallest score exists.
LEMMA SmallestScore ==
  ASSUME NEW scores \in Seq(Nat), ScoresBounded(scores), NEW k \in 1 .. Len(scores)
  PROVE  /\ Smallest(scores, k) \in ToSet(scores)
         /\ Smallest(scores, k) \in Nat
         /\ Smallest(scores, k) <= 100
         /\ Cardinality({i \in DOMAIN scores : scores[i] < Smallest(scores, k)}) < k
         /\ Cardinality({i \in DOMAIN scores : scores[i] <= Smallest(scores, k)}) >= k
<1>1. \A x \in ToSet(scores) : x \in Nat /\ x <= 100
  BY DEF ToSet, ScoresBounded
<1>2. scores \in Seq(Int)
  BY SeqMonotonic
<1>3. QED
  BY <1>1, <1>2, SmallestExists

\* At most k - 1 scores are below the k-th smallest.
LEMMA ScoresFrom ==
  ASSUME NEW scores \in Seq(Nat), ScoresBounded(scores), NEW k \in 1 .. Len(scores),
         NEW D \in SUBSET DOMAIN scores,
         \A i \in DOMAIN scores : scores[i] >= Smallest(scores, k) => i \in D
  PROVE  Cardinality(D) \in Nat /\ Cardinality(D) >= Len(scores) - k + 1
<1> DEFINE n == Len(scores)
           B == {i \in DOMAIN scores : scores[i] < Smallest(scores, k)}
<1>1. /\ DOMAIN scores = 1 .. n
      /\ n \in Nat
      /\ \A i \in 1 .. n : scores[i] \in Int /\ 0 <= scores[i] /\ scores[i] <= 100
  BY DEF ScoresBounded
<1>2. IsFiniteSet(1 .. n) /\ Cardinality(1 .. n) = n
  <2>1. 1 \in Int /\ n \in Int
    BY <1>1
  <2>2. IsFiniteSet(1 .. n) /\ Cardinality(1 .. n) = IF 1 > n THEN 0 ELSE n - 1 + 1
    BY <2>1, FS_Interval
  <2>3. QED
    BY <1>1, <2>2
<1>3. Smallest(scores, k) \in Nat /\ Cardinality(B) < k
  BY SmallestScore
<1>4. B \in SUBSET (1 .. n) /\ D \in SUBSET (1 .. n) /\ (1 .. n) \ B \in SUBSET D
  <2>1. ASSUME NEW i \in (1 .. n) \ B
        PROVE  i \in D
    <3>1. ~(scores[i] < Smallest(scores, k)) /\ i \in DOMAIN scores
      BY <1>1
    <3>2. scores[i] >= Smallest(scores, k)
      BY <1>1, <1>3, <3>1
    <3>3. QED
      BY <3>1, <3>2
  <2>2. QED
    BY <1>1, <2>1
<1> HIDE DEF B
<1>5. IsFiniteSet(B) /\ IsFiniteSet(D) /\ IsFiniteSet((1 .. n) \ B)
  BY <1>2, <1>4, FS_Subset
<1>6. /\ Cardinality(B) \in Nat
      /\ Cardinality(D) \in Nat
      /\ Cardinality((1 .. n) \ B) \in Nat
  BY <1>5, FS_CardinalityType
<1>7. Cardinality((1 .. n) \ B) = n - Cardinality(B)
  <2>1. Cardinality((1 .. n) \ B) = Cardinality(1 .. n) - Cardinality((1 .. n) \cap B)
    BY <1>2, FS_Difference
  <2>2. (1 .. n) \cap B = B
    BY <1>4
  <2>3. QED
    BY <1>2, <2>1, <2>2
<1>8. Cardinality((1 .. n) \ B) <= Cardinality(D)
  BY <1>4, <1>5, FS_Subset
<1>9. QED
  BY <1>1, <1>3, <1>6, <1>7, <1>8

\* The k-th smallest score is at most the next.
LEMMA SmallestGrows ==
  ASSUME NEW scores \in Seq(Nat), ScoresBounded(scores), NEW k \in 1 .. Len(scores), k + 1 \in 1 .. Len(scores)
  PROVE  Smallest(scores, k) <= Smallest(scores, k + 1)
<1> DEFINE B == {i \in DOMAIN scores : scores[i] < Smallest(scores, k)}
           C == {i \in DOMAIN scores : scores[i] <= Smallest(scores, k + 1)}
<1>1. /\ Smallest(scores, k) \in Nat /\ Smallest(scores, k + 1) \in Nat
      /\ Cardinality(B) < k /\ Cardinality(C) >= k + 1
  BY SmallestScore
<1> SUFFICES ASSUME Smallest(scores, k + 1) < Smallest(scores, k)
             PROVE  FALSE
  BY <1>1
<1>2. C \in SUBSET B /\ B \in SUBSET (1 .. Len(scores))
  <2>1. ASSUME NEW i \in DOMAIN scores
        PROVE  scores[i] \in Int
    OBVIOUS
  <2>2. QED
    BY <1>1, <2>1
<1> HIDE DEF B, C
<1>3. IsFiniteSet(1 .. Len(scores))
  <2>1. 1 \in Int /\ Len(scores) \in Int
    OBVIOUS
  <2>2. QED
    BY <2>1, FS_Interval
<1>4. IsFiniteSet(B)
  BY <1>2, <1>3, FS_Subset
<1>5. Cardinality(C) <= Cardinality(B) /\ IsFiniteSet(C)
  BY <1>2, <1>4, FS_Subset
<1>6. Cardinality(B) \in Nat /\ Cardinality(C) \in Nat
  BY <1>4, <1>5, FS_CardinalityType
<1>7. QED
  BY <1>1, <1>5, <1>6

\* A product with a positive factor keeps the order.
LEMMA ProductOrder ==
  ASSUME NEW a \in Int, NEW b \in Int, NEW c \in Nat, a <= b
  PROVE  a * c <= b * c
  OBVIOUS

\* A positive factor on both sides of an inequation can be cancelled.
LEMMA ProductCancels ==
  ASSUME NEW a \in Int, NEW b \in Int, NEW c \in Nat \ {0}, a * c <= b * c
  PROVE  a <= b
  OBVIOUS

\* A number by its quotient and its remainder.
LEMMA Quarters ==
  ASSUME NEW a \in Nat
  PROVE  a \div 4 \in Nat /\ a % 4 \in 0 .. 3 /\ a = 4 * (a \div 4) + (a % 4)
<1> DEFINE quarter == a \div 4
           rest == a % 4
<1>1. rest \in 0 .. 3 /\ quarter \in Int
  OBVIOUS
<1>2. rest = a - 4 * quarter
  OBVIOUS
<1> HIDE DEF quarter, rest
<1>3. \A q \in Int, r \in 0 .. 3 : r = a - 4 * q => q \in Nat /\ a = 4 * q + r
  OBVIOUS
<1>4. quarter \in Nat /\ rest \in 0 .. 3 /\ a = 4 * quarter + rest
  BY <1>1, <1>2, <1>3
<1>5. QED
  BY <1>4 DEF quarter, rest

\* A score that a quarter of the scores reach and the percentile does not exceed.
QuarterReaches(p, h) ==
  /\ BlackP75(p) \in Int
  /\ BlackP75(p) <= 4 * h
  /\ \A D \in SUBSET DOMAIN p.scores :
       (\A i \in DOMAIN p.scores : p.scores[i] >= h => i \in D) =>
         Cardinality(D) \in Nat /\ 4 * Cardinality(D) >= Len(p.scores)

\* There is such a score.
LEMMA PercentileReached ==
  ASSUME NEW p, p.scores \in Seq(Nat), ScoresBounded(p.scores), p.scores # << >>
  PROVE  \E h \in 0 .. 100 : QuarterReaches(p, h)
<1> DEFINE q == p.scores
           n == Len(q)
           at == 3 * (n - 1)
           low == at \div 4 + 1
           rest == at % 4
<1>1. n \in Nat /\ n >= 1 /\ q \in Seq(Nat) /\ ScoresBounded(q) /\ q # << >>
  OBVIOUS
<1>2. /\ at \in Nat /\ low \in Nat /\ rest \in 0 .. 3
      /\ at = 4 * (low - 1) + rest
  <2>1. at \in Nat
    BY <1>1
  <2> HIDE DEF at
  <2>2. QED
    BY <2>1, Quarters
<1>3. BlackP75(p) = IF rest = 0 THEN 4 * Smallest(q, low)
                    ELSE (4 - rest) * Smallest(q, low) + rest * Smallest(q, low + 1)
  BY <1>1 DEF BlackP75
<1>4. at = 3 * (n - 1)
  OBVIOUS
<1> HIDE DEF low, rest, at, n, q
<1>5. low \in 1 .. n /\ (rest # 0 => low + 1 \in 1 .. n)
  BY <1>1, <1>2, <1>4
\* A score h of rank k from which on three quarters of the ranks remain.
<1>6. ASSUME NEW k \in 1 .. n, 4 * (n - k + 1) >= n,
             BlackP75(p) \in Int, BlackP75(p) <= 4 * Smallest(q, k)
      PROVE  \E h \in 0 .. 100 : QuarterReaches(p, h)
  <2> DEFINE h == Smallest(q, k)
  <2>1. h \in Nat /\ h <= 100
    BY <1>1, <1>6, SmallestScore DEF n
  <2>2. ASSUME NEW D \in SUBSET DOMAIN q, \A i \in DOMAIN q : q[i] >= h => i \in D
        PROVE  Cardinality(D) \in Nat /\ 4 * Cardinality(D) >= n
    <3>1. Cardinality(D) \in Nat /\ Cardinality(D) >= n - k + 1
      BY <1>1, <1>6, <2>2, ScoresFrom DEF n
    <3>2. QED
      BY <1>1, <1>6, <3>1
  <2>3. BlackP75(p) \in Int /\ BlackP75(p) <= 4 * h
    BY <1>6
  <2> HIDE DEF h
  <2>4. QuarterReaches(p, h)
    BY <2>2, <2>3 DEF QuarterReaches, q, n
  <2>5. h \in 0 .. 100
    BY <2>1
  <2>6. QED
    BY <2>4, <2>5
<1>7. CASE rest = 0
  <2>1. Smallest(q, low) \in Nat
    BY <1>1, <1>5, SmallestScore DEF n
  <2>2. BlackP75(p) = 4 * Smallest(q, low) /\ BlackP75(p) \in Int
    BY <1>3, <1>7, <2>1
  <2>3. 4 * (n - low + 1) >= n
    BY <1>1, <1>2, <1>4, <1>5, <1>7
  <2>4. BlackP75(p) <= 4 * Smallest(q, low)
    BY <2>1, <2>2
  <2>5. QED
    BY <1>5, <1>6, <2>2, <2>3, <2>4
<1>8. CASE rest # 0
  <2> DEFINE x == Smallest(q, low)
             y == Smallest(q, low + 1)
  <2>1. x \in Nat /\ y \in Nat /\ x <= y
    BY <1>1, <1>5, <1>8, SmallestScore, SmallestGrows DEF n
  <2>2. BlackP75(p) = (4 - rest) * x + rest * y
    BY <1>3, <1>8
  <2> HIDE DEF x, y
  <2>3. BlackP75(p) \in Int /\ BlackP75(p) <= 4 * y
    <3>1. rest = 1 \/ rest = 2 \/ rest = 3
      BY <1>2, <1>8
    <3>2. QED
      BY <2>1, <2>2, <3>1
  <2>4. 4 * (n - (low + 1) + 1) >= n
    BY <1>1, <1>2, <1>4, <1>5, <1>8
  <2>5. QED
    BY <1>5, <1>6, <1>8, <2>1, <2>3, <2>4 DEF y
<1>9. QED
  BY <1>7, <1>8

\* What full presence, zones and cameras leave to the clothes: the composite
\* with its factors at most full, divided by what both sides are multiplied by.
LEMMA CompositeBound ==
  ASSUME NEW f \in Nat \ {0}, NEW z \in Nat \ {0}, NEW c \in Nat \ {0},
         NEW wb \in Nat, NEW wp \in Nat, NEW wz \in Nat, NEW wc \in Nat, NEW t \in Nat,
         NEW x \in Int, NEW y \in Int, x <= y,
         NEW pf \in Int, pf <= f, NEW pz \in Int, pz <= z, NEW pc \in Int, pc <= c,
         wb * x * f * z * c + 400 * wp * pf * z * c + 400 * wz * f * pz * c
           + 400 * wc * f * z * pc >= 400 * t * f * z * c
  PROVE  wb * y + 400 * (wp + wz + wc) >= 400 * t
<1> DEFINE k == f * z * c
           a == wb * x
           b == wb * y
           p == 400 * wp * z * c
           q == 400 * wz * f * c
           r == 400 * wc * f * z
<1>1. k \in Nat \ {0} /\ a \in Int /\ b \in Int /\ p \in Nat /\ q \in Nat /\ r \in Nat
  <2>1. \A m, n \in Nat \ {0} : m * n \in Nat \ {0}
    OBVIOUS
  <2>2. \A m, n \in Nat : m * n \in Nat
    OBVIOUS
  <2>3. k \in Nat \ {0}
    BY <2>1
  <2>4. p \in Nat /\ q \in Nat /\ r \in Nat
    BY <2>2
  <2>5. QED
    BY <2>3, <2>4
<1>2. a <= b
  <2>1. x * wb <= y * wb
    BY ProductOrder
  <2>2. QED
    BY <2>1
<1>3. /\ wb * x * f * z * c = a * k
      /\ 400 * wp * pf * z * c = pf * p /\ f * p = (400 * wp) * k
      /\ 400 * wz * f * pz * c = pz * q /\ z * q = (400 * wz) * k
      /\ 400 * wc * f * z * pc = pc * r /\ c * r = (400 * wc) * k
      /\ 400 * t * f * z * c = (400 * t) * k
  OBVIOUS
<1>4. b \in Int /\ (400 * wp) \in Int /\ (400 * wz) \in Int /\ (400 * wc) \in Int /\ 400 * t \in Int
  BY <1>1
<1>5. a * k + pf * p + pz * q + pc * r >= (400 * t) * k
  BY <1>3
<1> HIDE DEF a, b, k, p, q, r
<1>6. a * k <= b * k /\ pf * p <= f * p /\ pz * q <= z * q /\ pc * r <= c * r
  BY <1>1, <1>2, ProductOrder
<1>7. (400 * t) * k <= b * k + (400 * wp) * k + (400 * wz) * k + (400 * wc) * k
  <2>1. /\ a * k \in Int /\ pf * p \in Int /\ pz * q \in Int /\ pc * r \in Int
        /\ b * k \in Int /\ f * p \in Int /\ z * q \in Int /\ c * r \in Int
        /\ (400 * t) * k \in Int
    BY <1>1
  <2>2. (400 * t) * k <= b * k + f * p + z * q + c * r
    BY <1>5, <1>6, <2>1
  <2>3. QED
    BY <1>3, <2>2
<1>8. (400 * t) * k <= (b + 400 * wp + 400 * wz + 400 * wc) * k
  BY <1>1, <1>7
<1>9. 400 * t <= b + 400 * wp + 400 * wz + 400 * wc
  <2>1. b + 400 * wp + 400 * wz + 400 * wc \in Int /\ 400 * t \in Int
    BY <1>1
  <2>2. QED
    BY <1>1, <1>8, <2>1, ProductCancels
<1>10. QED
  BY <1>1, <1>9 DEF b

\* Outside the staff areas, who is staff was seen FewFrames times and wore dark
\* clothes in a quarter of the looks.
LEMMA StaffEvidence ==
  ASSUME NEW p, p.frames \in Nat, IsFiniteSet(p.zones), IsFiniteSet(p.cameras),
         p.scores \in Seq(Clothing), p.scores # << >>, IsStaff(p), ~p.area
  PROVE  /\ p.frames >= FewFrames
         /\ 4 * Cardinality({i \in DOMAIN p.scores : DarkEnough(p.scores[i])}) >= Len(p.scores)
<1> DEFINE D == {i \in DOMAIN p.scores : DarkEnough(p.scores[i])}
           black == Weight.black
           others == Weight.presence + Weight.zones + Weight.cameras
<1>1. p.scores \in Seq(Nat) /\ ScoresBounded(p.scores)
  BY ScoresTyped
<1>2. PICK h \in Nat : QuarterReaches(p, h)
  <2>1. \E h \in 0 .. 100 : QuarterReaches(p, h)
    BY <1>1, PercentileReached
  <2>2. QED
    BY <2>1
<1>3. BlackP75(p) \in Int /\ BlackP75(p) <= 4 * h
  BY <1>2 DEF QuarterReaches
<1>4. /\ ManyFrames \in Nat \ {0} /\ ManyZones \in Nat \ {0} /\ ManyCameras \in Nat \ {0}
      /\ Weight.black \in Nat /\ Weight.presence \in Nat
      /\ Weight.zones \in Nat /\ Weight.cameras \in Nat
      /\ BlackShare \in Nat /\ Threshold \in Nat
  <2>1. ManyFrames \in Nat \ {0} /\ ManyZones \in Nat \ {0} /\ ManyCameras \in Nat \ {0}
    BY StaffAssumption
  <2>2. /\ Weight.black \in Nat /\ Weight.presence \in Nat
        /\ Weight.zones \in Nat /\ Weight.cameras \in Nat
    BY StaffAssumption
  <2>3. BlackShare \in 0 .. 100 /\ Threshold \in 0 .. 100
    BY StaffAssumption
  <2>4. QED
    BY <2>1, <2>2, <2>3
<1>5. p.frames >= FewFrames /\ (BlackP75(p) >= 4 * BlackShare \/ CompositeReached(p))
  BY DEF IsStaff
<1>6. black \in Nat /\ others \in Nat
  BY <1>4
<1>7. h >= BlackShare \/ black * h + 100 * others >= 100 * Threshold
  <2>1. CASE BlackP75(p) >= 4 * BlackShare
    BY <1>2, <1>3, <1>4, <2>1
  <2>2. CASE CompositeReached(p)
    <3> DEFINE pf == Capped(p.frames, ManyFrames)
               pz == Capped(Cardinality(p.zones), ManyZones)
               pc == Capped(Cardinality(p.cameras) - 1, ManyCameras)
               x == BlackP75(p)
    <3>1. /\ pf \in Int /\ pf <= ManyFrames
          /\ pz \in Int /\ pz <= ManyZones
          /\ pc \in Int /\ pc <= ManyCameras
      <4>1. Cardinality(p.zones) \in Nat /\ Cardinality(p.cameras) \in Nat
        BY FS_CardinalityType
      <4>2. QED
        BY <1>4, <4>1 DEF Capped
    <3>2. Weight.black * x * ManyFrames * ManyZones * ManyCameras
            + 400 * Weight.presence * pf * ManyZones * ManyCameras
            + 400 * Weight.zones * ManyFrames * pz * ManyCameras
            + 400 * Weight.cameras * ManyFrames * ManyZones * pc
            >= 400 * Threshold * ManyFrames * ManyZones * ManyCameras
      BY <2>2 DEF CompositeReached
    <3> DEFINE y == 4 * h
    <3>3. x \in Int /\ y \in Int /\ x <= y
      BY <1>2, <1>3
    <3> DEFINE wb == Weight.black
               wp == Weight.presence
               wz == Weight.zones
               wc == Weight.cameras
    <3>4. wb \in Nat /\ wp \in Nat /\ wz \in Nat /\ wc \in Nat
      BY <1>4
    <3>5. wb * x * ManyFrames * ManyZones * ManyCameras
            + 400 * wp * pf * ManyZones * ManyCameras
            + 400 * wz * ManyFrames * pz * ManyCameras
            + 400 * wc * ManyFrames * ManyZones * pc
            >= 400 * Threshold * ManyFrames * ManyZones * ManyCameras
      BY <3>2
    <3>6. black = wb /\ others = wp + wz + wc
      OBVIOUS
    <3> HIDE DEF pf, pz, pc, x, y, wb, wp, wz, wc, black, others
    <3>7. wb * y + 400 * (wp + wz + wc) >= 400 * Threshold
      BY <1>4, <3>1, <3>5, <3>3, <3>4, CompositeBound
    <3>8. wb * y = 4 * (wb * h)
      BY <1>2, <3>4 DEF y
    <3>9. wb * h \in Int
      BY <1>2, <3>4
    <3>10. black * h + 100 * others >= 100 * Threshold
      BY <1>2, <1>4, <3>7, <3>8, <3>4, <3>6, <3>9
    <3>11. QED
      BY <3>10
  <2>3. QED
    BY <1>5, <2>1, <2>2
<1>8. ASSUME NEW i \in DOMAIN p.scores, p.scores[i] >= h
      PROVE  i \in D
  <2> DEFINE c == p.scores[i]
  <2>1. c \in Nat /\ h \in Nat /\ h <= c
    BY <1>1, <1>2, <1>8
  <2> HIDE DEF c, black, others
  <2>2. h * black <= c * black
    BY <1>6, <2>1, ProductOrder
  <2>3. black * h <= black * c /\ black * h \in Int /\ black * c \in Int
    BY <1>6, <2>1, <2>2
  <2>4. DarkEnough(c)
    <3>1. CASE h >= BlackShare
      BY <1>4, <2>1, <3>1 DEF DarkEnough
    <3>2. CASE ~(h >= BlackShare)
      <4>1. black * c + 100 * others >= 100 * Threshold
        BY <1>6, <1>4, <1>7, <2>3, <3>2
      <4>2. QED
        BY <4>1 DEF DarkEnough, black, others
    <3>3. QED
      BY <3>1, <3>2
  <2>5. QED
    BY <2>4 DEF c
<1>9. D \in SUBSET DOMAIN p.scores /\ \A i \in DOMAIN p.scores : p.scores[i] >= h => i \in D
  BY <1>8
<1> HIDE DEF D
<1>10. 4 * Cardinality(D) >= Len(p.scores)
  BY <1>2, <1>9 DEF QuarterReaches
<1>11. QED
  BY <1>5, <1>10 DEF D

-----------------------------------------------------------------------------
(***************************************************************************)
(* The lists the camera makes: of a set, and of the arrivals in the queue. *)
(***************************************************************************)

\* What a JOIN says of an arrival.
Arrival == [visitor : Visitors, depth : Nat]

\* The loop over the visitors present makes a list of arrivals.
LEMMA JoinsTyped ==
  ASSUME NEW present \in Seq(Visitors), CurrentQueueDepth \in Nat
  PROVE  Joins(present) \in Seq(Arrival)
<1> DEFINE n == Len(present)
           S == Seq(Arrival)
           Next1(x, i) == IF inZone[present[i]] # Away THEN x
                          ELSE Append(x, [visitor |-> present[i],
                                          depth |-> CurrentQueueDepth + Len(x)])
           step == [x \in S \X (1 .. n) |-> Next1(x[1], x[2])]
           joins[i \in 0 .. n] ==
             IF i = 0 THEN << >>
             ELSE IF inZone[present[i]] # Away THEN joins[i - 1]
             ELSE Append(joins[i - 1], [visitor |-> present[i],
                                        depth |-> CurrentQueueDepth + Len(joins[i - 1])])
<1>1. n \in Nat
  OBVIOUS
<1>2. ASSUME NEW x \in S, NEW i \in 1 .. n
      PROVE  Next1(x, i) \in S
  <2>1. present[i] \in Visitors /\ CurrentQueueDepth + Len(x) \in Nat
    OBVIOUS
  <2> DEFINE a == [visitor |-> present[i], depth |-> CurrentQueueDepth + Len(x)]
  <2>2. a \in Arrival
    BY <2>1 DEF Arrival
  <2> HIDE DEF a
  <2>3. Append(x, a) \in S
    BY <2>2
  <2>4. QED
    BY <2>3 DEF a
<1>3. step \in StepFunctions(S, n)
  BY <1>2 DEF StepFunctions
<1>4. \A x \in S, i \in 1 .. n : step[<<x, i>>] = Next1(x, i)
  OBVIOUS
<1>5. << >> \in S
  OBVIOUS
<1> HIDE DEF S, step
<1>6. PICK g \in [0 .. n -> S] :
        /\ g[0] = << >>
        /\ \A i \in 1 .. n : g[i] = step[<<g[i - 1], i>>]
  <2> HIDE DEF n
  <2>1. Runs(S, n, << >>, step) # {}
    BY <1>1, <1>3, <1>5, RunExists
  <2>2. QED
    BY <2>1 DEF Runs
<1>7. ASSUME NEW i \in 1 .. n
      PROVE  g[i] = Next1(g[i - 1], i)
  <2>1. i - 1 \in 0 .. n
    OBVIOUS
  <2>2. g[i - 1] \in S
    BY <1>6, <2>1
  <2>3. g[i] = step[<<g[i - 1], i>>]
    BY <1>6
  <2>4. QED
    BY <1>4, <2>2, <2>3
<1>8. ASSUME NEW i \in 1 .. n
       PROVE  g[i] = IF inZone[present[i]] # Away THEN g[i - 1]
                     ELSE Append(g[i - 1], [visitor |-> present[i],
                                            depth |-> CurrentQueueDepth + Len(g[i - 1])])
  BY <1>7
<1>9. g = [i \in 0 .. n |->
             IF i = 0 THEN << >>
             ELSE IF inZone[present[i]] # Away THEN g[i - 1]
             ELSE Append(g[i - 1], [visitor |-> present[i],
                                    depth |-> CurrentQueueDepth + Len(g[i - 1])])]
  <2>1. ASSUME NEW i \in 0 .. n
        PROVE  g[i] = IF i = 0 THEN << >>
                      ELSE IF inZone[present[i]] # Away THEN g[i - 1]
                      ELSE Append(g[i - 1], [visitor |-> present[i],
                                             depth |-> CurrentQueueDepth + Len(g[i - 1])])
    <3>1. CASE i = 0
      BY <1>6, <3>1
    <3>2. CASE i # 0
      <4>1. i \in 1 .. n
        BY <1>1, <3>2
      <4> HIDE DEF n
      <4>2. QED
        BY <1>8, <3>2, <4>1
    <3>3. QED
      BY <3>1, <3>2
  <2>2. g = [i \in 0 .. n |-> g[i]]
    BY <1>6
  <2>3. QED
    BY <2>1, <2>2, Zenon
<1>10. joins = [i \in 0 .. n |->
             IF i = 0 THEN << >>
             ELSE IF inZone[present[i]] # Away THEN joins[i - 1]
             ELSE Append(joins[i - 1], [visitor |-> present[i],
                                        depth |-> CurrentQueueDepth + Len(joins[i - 1])])]
  BY <1>9, Zenon
<1>11. Joins(present) = joins[n]
  BY DEF Joins
<1> HIDE DEF joins
<1>12. joins[n] = g[n]
  <2> DEFINE K == {k \in Nat : k <= n => joins[k] = g[k]}
  <2>1. 0 \in K
    BY <1>6, <1>10
  <2>2. ASSUME NEW k \in K
        PROVE  k + 1 \in K
    <3> SUFFICES ASSUME k + 1 <= n
                 PROVE  joins[k + 1] = g[k + 1]
      OBVIOUS
    <3>1. joins[k] = g[k] /\ k + 1 \in 0 .. n /\ k + 1 # 0 /\ (k + 1) - 1 = k
      BY <2>2
    <3> DEFINE i == k + 1
    <3>2. i \in 0 .. n /\ i # 0 /\ i - 1 = k
      BY <3>1
    <3> HIDE DEF i
    <3>3. joins[i] = IF inZone[present[i]] # Away THEN joins[i - 1]
                     ELSE Append(joins[i - 1], [visitor |-> present[i],
                                                depth |-> CurrentQueueDepth + Len(joins[i - 1])])
      BY <1>10, <3>2
    <3>4. g[i] = IF inZone[present[i]] # Away THEN g[i - 1]
                 ELSE Append(g[i - 1], [visitor |-> present[i],
                                        depth |-> CurrentQueueDepth + Len(g[i - 1])])
      BY <1>9, <3>2
    <3>5. joins[i] = g[i]
      BY <3>1, <3>2, <3>3, <3>4
    <3>6. QED
      BY <3>5 DEF i
  <2>3. K = Nat
    <3>1. K \in SUBSET Nat
      OBVIOUS
    <3> HIDE DEF K
    <3>2. QED
      BY <2>1, <2>2, <3>1, NatSetInduction
  <2>4. QED
    BY <1>1, <2>3
<1>13. Joins(present) \in S
  BY <1>1, <1>6, <1>11, <1>12
<1>14. QED
  BY <1>13 DEF S

\* The queue tracker's events are JOINs and ABANDONs.
LEMMA QueueEventTypes ==
  ASSUME billingPresent \in Seq(Visitors), IsFiniteSet(Visitors)
  PROVE  /\ Len(QueueEvents) \in Nat
         /\ \A i \in 1 .. Len(QueueEvents) :
              QueueEvents[i].type \in {"BILLING_QUEUE_JOIN", "BILLING_QUEUE_ABANDON"}
<1> DEFINE joins == Joins(billingPresent)
           watched == Watched(billingPresent, now)
           aged == AgedOut(watched, now)
           abandons == SetToSeq(aged)
           first == [i \in DOMAIN joins |->
                       StoreEvent("BILLING_QUEUE_JOIN", joins[i].visitor, BillingQueue, 0, FALSE)]
           second == [i \in DOMAIN abandons |->
                        StoreEvent("BILLING_QUEUE_ABANDON", abandons[i], BillingQueue,
                                   watched[abandons[i]].exit - watched[abandons[i]].enter, FALSE)]
           Kinds == {"BILLING_QUEUE_JOIN", "BILLING_QUEUE_ABANDON"}
           E == {e \in {first[i] : i \in DOMAIN joins} \cup {second[i] : i \in DOMAIN abandons} :
                   e.type \in Kinds}
<1>1. CurrentQueueDepth \in Nat
  BY FS_Subset, FS_CardinalityType DEF CurrentQueueDepth
<1>2. joins \in Seq(Arrival)
  BY <1>1, JoinsTyped
<1>3. aged \in SUBSET Visitors
  BY DEF AgedOut
<1>4. IsFiniteSet(aged)
  BY <1>3, FS_Subset
<1>5. abandons \in Seq(aged)
  BY <1>4, ListOfSet
<1>6. QueueEvents = first \o second
  BY DEF QueueEvents
<1> HIDE DEF joins, abandons
<1>7. first \in Seq(E)
  <2>1. ASSUME NEW i \in DOMAIN joins
        PROVE  first[i] \in E
    BY DEF StoreEvent
  <2>2. DOMAIN joins = 1 .. Len(joins) /\ Len(joins) \in Nat
    BY <1>2
  <2> HIDE DEF E, first, second
  <2>3. first \in [1 .. Len(joins) -> E]
    BY <2>1, <2>2 DEF first, second
  <2>4. QED
    BY <2>2, <2>3
<1>8. second \in Seq(E)
  <2>1. ASSUME NEW i \in DOMAIN abandons
        PROVE  second[i] \in E
    BY DEF StoreEvent
  <2>2. DOMAIN abandons = 1 .. Len(abandons) /\ Len(abandons) \in Nat
    BY <1>5
  <2> HIDE DEF E, first, second
  <2>3. second \in [1 .. Len(abandons) -> E]
    BY <2>1, <2>2 DEF first, second
  <2>4. QED
    BY <2>2, <2>3
<1>9. \A e \in E : e.type \in Kinds
  OBVIOUS
<1> HIDE DEF first, second, E
<1>10. QueueEvents \in Seq(E)
  BY <1>6, <1>7, <1>8
<1>11. QED
  BY <1>9, <1>10

-----------------------------------------------------------------------------
(***************************************************************************)
(* The events of a detection and what they make of the behaviour state.    *)
(***************************************************************************)

\* A sighting of v in `zone` is told as a ZONE_DWELL of `clock`.
Dwells(v, zone, clock) ==
  zone = currentZone[camera][v] /\ zone # NoZone /\ TickDue(clock)

\* An event of the zones for v, of a sighting in `zone` with its clock.
OfZones(e, v, zone, clock) ==
  /\ e.visitor = v
  /\ \/ e.type \in {"ZONE_ENTER", "ZONE_EXIT"}
     \/ e.type = "ZONE_DWELL" /\ Dwells(v, zone, clock) /\ e.dwell = DwellSince(clock)

\* What ZoneEvents holds; a visitor who leaves a zone is told to leave it first.
LEMMA ZoneEventKinds ==
  ASSUME NEW v, NEW zone, NEW running, NEW isStaff
  PROVE  LET E == ZoneEvents(v, zone, running, isStaff) IN
         /\ Len(E) \in Nat
         /\ E \in Seq(ToSet(E))
         /\ \A i \in 1 .. Len(E) : OfZones(E[i], v, zone, running[zone])
         /\ (zone # currentZone[camera][v] /\ currentZone[camera][v] # NoZone) =>
              Len(E) >= 1 /\ E[1].type = "ZONE_EXIT"
<1> DEFINE prev == currentZone[camera][v]
           E == ZoneEvents(v, zone, running, isStaff)
           dwell == StoreEvent("ZONE_DWELL", v, zone, DwellSince(running[zone]), isStaff)
           left == StoreEvent("ZONE_EXIT", v, prev, DwellSince(running[prev]), isStaff)
           entered == StoreEvent("ZONE_ENTER", v, zone, 0, isStaff)
<1>1. /\ Dwells(v, zone, running[zone]) => OfZones(dwell, v, zone, running[zone])
      /\ OfZones(left, v, zone, running[zone])
      /\ OfZones(entered, v, zone, running[zone])
      /\ left.type = "ZONE_EXIT"
  BY DEF StoreEvent, OfZones
<1>2. \/ zone = prev /\ Dwells(v, zone, running[zone]) /\ E = <<dwell>>
      \/ zone = prev /\ E = << >>
      \/ zone # prev /\ prev = NoZone /\ E = << >>
      \/ zone # prev /\ prev = NoZone /\ E = <<entered>>
      \/ zone # prev /\ prev # NoZone /\ E = <<left>>
      \/ zone # prev /\ prev # NoZone /\ E = <<left, entered>>
  <2>1. E = IF zone = prev
            THEN IF zone # NoZone /\ TickDue(running[zone]) THEN <<dwell>> ELSE << >>
            ELSE (IF prev = NoZone THEN << >> ELSE <<left>>)
                 \o (IF zone = NoZone THEN << >> ELSE <<entered>>)
    BY DEF ZoneEvents
  <2> HIDE DEF E, dwell, left, entered, prev
  <2>2. CASE zone = prev
    BY <2>1, <2>2 DEF Dwells, prev
  <2>3. CASE zone # prev /\ prev = NoZone
    <3>1. << >> \o <<entered>> = <<entered>> /\ zone # NoZone
      BY <2>3
    <3>2. QED
      BY <2>1, <2>3, <3>1
  <2>4. CASE zone # prev /\ prev # NoZone
    <3>1. <<left>> \o <<entered>> = <<left, entered>>
      <4>1. <<left>> \in Seq({left, entered}) /\ <<entered>> \in Seq({left, entered})
        OBVIOUS
      <4> DEFINE s == <<left>> \o <<entered>>
      <4>2. s \in Seq({left, entered}) /\ Len(s) = 2 /\ s[1] = left /\ s[2] = entered
        BY <4>1
      <4> HIDE DEF s
      <4>3. s = <<left, entered>>
        BY <4>2
      <4>4. QED
        BY <4>3 DEF s
    <3>2. <<left>> \o << >> = <<left>>
      <4>1. <<left>> \in Seq({left})
        OBVIOUS
      <4>2. QED
        BY <4>1
    <3>3. QED
      BY <2>1, <2>4, <3>1, <3>2
  <2>5. QED
    BY <2>2, <2>3, <2>4
<1> HIDE DEF E, dwell, left, entered
<1>3. /\ Len(E) \in Nat
      /\ E \in Seq(ToSet(E))
      /\ \A i \in 1 .. Len(E) : OfZones(E[i], v, zone, running[zone])
      /\ (zone # prev /\ prev # NoZone) => Len(E) >= 1 /\ E[1].type = "ZONE_EXIT"
  <2>1. CASE E = << >> /\ (zone = prev \/ prev = NoZone)
    BY <2>1 DEF ToSet
  <2>2. CASE E = <<dwell>> /\ zone = prev /\ Dwells(v, zone, running[zone])
    BY <1>1, <2>2 DEF ToSet
  <2>3. CASE E = <<entered>> /\ prev = NoZone
    BY <1>1, <2>3 DEF ToSet
  <2>4. CASE E = <<left>>
    BY <1>1, <2>4 DEF ToSet
  <2>5. CASE E = <<left, entered>>
    BY <1>1, <2>5 DEF ToSet
  <2>6. QED
    BY <1>2, <2>1, <2>2, <2>3, <2>4, <2>5
<1>4. QED
  BY <1>3 DEF E

\* The behaviour is told of an EXIT before the zones it ends.
LEMMA ExitEventKinds ==
  ASSUME NEW v, NEW isStaff
  PROVE  LET passed == CrossingEvents(v, "EXIT", isStaff)
             E == <<Last(passed)>> \o Front(passed)
         IN  /\ Len(E) \in Nat
             /\ Len(E) >= 1
             /\ E \in Seq(ToSet(E))
             /\ E[1].type = "EXIT"
             /\ \A i \in 1 .. Len(E) : E[i].visitor = v
             /\ \A i \in 2 .. Len(E) : E[i].type = "ZONE_EXIT"
<1> DEFINE running == {z \in Zones : clocks[camera][v][z] # Away}
           n == Cardinality(running)
           exits == [i \in 1 .. n |->
                       LET z == SetToSeq(running)[i]
                       IN  StoreEvent("ZONE_EXIT", v, z, DwellSince(clocks[camera][v][z]), isStaff)]
           exit == StoreEvent("EXIT", v, NoZone, 0, isStaff)
           passed == CrossingEvents(v, "EXIT", isStaff)
           S == {exits[i] : i \in 1 .. n} \cup {exit}
           E == <<Last(passed)>> \o Front(passed)
<1>1. n \in Nat
  <2>1. running \in SUBSET Zones /\ IsFiniteSet(Zones)
    BY JourneyAssumption
  <2> HIDE DEF running
  <2>2. QED
    BY <2>1, FS_Subset, FS_CardinalityType
<1>2. passed = exits \o <<exit>>
  BY DEF CrossingEvents
<1>3. /\ exit.type = "EXIT" /\ exit.visitor = v
      /\ \A i \in 1 .. n : exits[i].type = "ZONE_EXIT" /\ exits[i].visitor = v
  BY DEF StoreEvent
<1>4. exits \in [1 .. n -> S] /\ exit \in S
  OBVIOUS
<1> HIDE DEF n, exits, exit, passed, S
<1>5. exits \in Seq(S) /\ Len(exits) = n
  BY <1>1, <1>4
<1>6. /\ passed \in Seq(S) /\ Len(passed) = n + 1
      /\ passed[n + 1] = exit
      /\ \A i \in 1 .. n : passed[i] = exits[i]
  BY <1>1, <1>2, <1>4, <1>5
<1>7. Last(passed) = exit
  BY <1>6 DEF Last
<1>8. /\ Front(passed) \in Seq(S) /\ Len(Front(passed)) = n
      /\ \A i \in 1 .. n : Front(passed)[i] = exits[i]
  <2>1. Front(passed) = SubSeq(passed, 1, n)
    BY <1>1, <1>6 DEF Front
  <2>2. QED
    BY <1>1, <1>6, <2>1
<1>9. /\ Len(E) = n + 1
      /\ E \in Seq(S)
      /\ E[1] = exit
      /\ \A i \in 2 .. n + 1 : E[i] = exits[i - 1]
  BY <1>1, <1>4, <1>7, <1>8
<1> HIDE DEF E
<1>10. E \in Seq(ToSet(E))
  BY <1>1, <1>9 DEF ToSet
<1>11. \A i \in 2 .. Len(E) : E[i].type = "ZONE_EXIT" /\ E[i].visitor = v
  <2> SUFFICES ASSUME NEW i \in 2 .. Len(E)
               PROVE  E[i].type = "ZONE_EXIT" /\ E[i].visitor = v
    OBVIOUS
  <2>1. i \in 2 .. n + 1 /\ i - 1 \in 1 .. n
    BY <1>1, <1>9
  <2>2. QED
    BY <1>3, <1>9, <2>1
<1>12. \A i \in 1 .. Len(E) : E[i].visitor = v
  <2> SUFFICES ASSUME NEW i \in 1 .. Len(E)
               PROVE  E[i].visitor = v
    OBVIOUS
  <2>1. i = 1 \/ i \in 2 .. Len(E)
    BY <1>1, <1>9
  <2>2. QED
    BY <1>3, <1>9, <1>11, <2>1
<1>13. Len(E) \in Nat /\ Len(E) >= 1 /\ E[1].type = "EXIT"
  BY <1>1, <1>3, <1>9
<1>14. QED
  BY <1>10, <1>11, <1>12, <1>13 DEF E, passed

\* What judging a detection tells the behaviour: first the crossing, if any.
LEMMA EventsOfDetection ==
  ASSUME NEW d, NEW isStaff
  PROVE  LET v == TrackOwner[d.track]
             c == IF camera = EntryCamera THEN Crossing(d.track, d.side) ELSE "none"
             running == ClocksAfterCrossing(v, c)
             E == BehaviorEvents(d, isStaff)
             k == IF c = "none" THEN 0 ELSE 1
         IN  /\ Len(E) \in Nat
             /\ Len(E) >= k
             /\ \A i \in 1 .. Len(E) : E[i].visitor = v
             /\ c \in {"ENTRY", "EXIT"} => E[1].type = c
             /\ \A i \in k + 1 .. Len(E) :
                  E[i].type \in {"ZONE_ENTER", "ZONE_EXIT", "ZONE_DWELL"}
             /\ c # "EXIT" => \A i \in k + 1 .. Len(E) : OfZones(E[i], v, d.zone, running[d.zone])
             /\ (c # "EXIT" /\ d.zone # currentZone[camera][v] /\ currentZone[camera][v] # NoZone) =>
                  Len(E) >= k + 1 /\ E[k + 1].type = "ZONE_EXIT"
<1> DEFINE v == TrackOwner[d.track]
           c == IF camera = EntryCamera THEN Crossing(d.track, d.side) ELSE "none"
           running == ClocksAfterCrossing(v, c)
           E == BehaviorEvents(d, isStaff)
           k == IF c = "none" THEN 0 ELSE 1
           Z == ZoneEvents(v, d.zone, running, isStaff)
           passed == CrossingEvents(v, c, isStaff)
           entry == StoreEvent("ENTRY", v, NoZone, 0, isStaff)
           line == CASE c = "ENTRY" -> <<entry>>
                     [] c = "EXIT"  -> <<Last(passed)>> \o Front(passed)
                     [] OTHER       -> << >>
           ZoneKinds == {"ZONE_ENTER", "ZONE_EXIT", "ZONE_DWELL"}
<1>1. E = line \o Z
  BY DEF BehaviorEvents
<1>2. c \in {"none", "ENTRY", "EXIT"}
  BY DEF Crossing
<1>3. /\ Len(Z) \in Nat
      /\ Z \in Seq(ToSet(Z))
      /\ \A i \in 1 .. Len(Z) : OfZones(Z[i], v, d.zone, running[d.zone])
      /\ (d.zone # currentZone[camera][v] /\ currentZone[camera][v] # NoZone) =>
           Len(Z) >= 1 /\ Z[1].type = "ZONE_EXIT"
  BY ZoneEventKinds
<1>4. c = "ENTRY" => line = <<entry>> /\ entry.type = "ENTRY" /\ entry.visitor = v
  BY DEF StoreEvent
<1>5. c = "none" => line = << >>
  OBVIOUS
<1>6. c = "EXIT" => /\ Len(line) \in Nat
                    /\ Len(line) >= 1
                    /\ line \in Seq(ToSet(line))
                    /\ line[1].type = "EXIT"
                    /\ \A i \in 1 .. Len(line) : line[i].visitor = v
                    /\ \A i \in 2 .. Len(line) : line[i].type = "ZONE_EXIT"
  <2> SUFFICES ASSUME c = "EXIT"
               PROVE  /\ Len(line) \in Nat
                      /\ Len(line) >= 1
                      /\ line \in Seq(ToSet(line))
                      /\ line[1].type = "EXIT"
                      /\ \A i \in 1 .. Len(line) : line[i].visitor = v
                      /\ \A i \in 2 .. Len(line) : line[i].type = "ZONE_EXIT"
    OBVIOUS
  <2> DEFINE p == CrossingEvents(v, "EXIT", isStaff)
             X == <<Last(p)>> \o Front(p)
  <2>1. line = X
    OBVIOUS
  <2>2. /\ Len(X) \in Nat
        /\ Len(X) >= 1
        /\ X \in Seq(ToSet(X))
        /\ X[1].type = "EXIT"
        /\ \A i \in 1 .. Len(X) : X[i].visitor = v
        /\ \A i \in 2 .. Len(X) : X[i].type = "ZONE_EXIT"
    BY ExitEventKinds
  <2> HIDE DEF line, X
  <2>3. QED
    BY <2>1, <2>2
<1>7. \A e : OfZones(e, v, d.zone, running[d.zone]) => e.visitor = v /\ e.type \in ZoneKinds
  BY DEF OfZones
<1>8. k = IF c = "none" THEN 0 ELSE 1
  OBVIOUS
<1> HIDE DEF E, line, Z, c, v, running, passed, entry, k
<1>9. CASE c = "EXIT"
  <2>1. /\ Len(E) = Len(line) + Len(Z)
        /\ \A i \in 1 .. Len(line) : E[i] = line[i]
        /\ \A i \in Len(line) + 1 .. Len(E) : E[i] = Z[i - Len(line)] /\ i - Len(line) \in 1 .. Len(Z)
    <3>1. line \in Seq(ToSet(line) \cup ToSet(Z)) /\ Z \in Seq(ToSet(line) \cup ToSet(Z))
      BY <1>3, <1>6, <1>9, SeqMonotonic
    <3>2. QED
      BY <1>1, <3>1
  <2>2. ASSUME NEW i \in 1 .. Len(E)
        PROVE  E[i].visitor = v /\ (i > 1 => E[i].type \in ZoneKinds)
    <3>1. CASE i \in 1 .. Len(line)
      BY <1>6, <1>9, <2>1, <3>1
    <3>2. CASE i \in Len(line) + 1 .. Len(E)
      BY <1>3, <1>7, <2>1, <3>2
    <3>3. QED
      BY <1>3, <1>6, <1>9, <2>1, <3>1, <3>2
  <2>3. k = 1 /\ Len(E) \in Nat /\ Len(E) >= 1 /\ E[1].type = "EXIT"
    BY <1>3, <1>6, <1>8, <1>9, <2>1
  <2>4. QED
    BY <1>9, <2>2, <2>3 DEF v, c, E, k, running
<1>10. CASE c # "EXIT"
  <2>1. c = "ENTRY" \/ c = "none"
    BY <1>2, <1>10
  <2>2. /\ Len(E) = k + Len(Z)
        /\ c = "ENTRY" => k = 1 /\ E[1] = entry
        /\ c = "none" => k = 0
        /\ \A i \in k + 1 .. Len(E) : E[i] = Z[i - k] /\ i - k \in 1 .. Len(Z)
    <3>1. CASE c = "ENTRY"
      <4>1. E = <<entry>> \o Z /\ k = 1
        BY <1>1, <1>4, <1>8, <3>1
      <4>2. <<entry>> \in Seq(ToSet(Z) \cup {entry}) /\ Z \in Seq(ToSet(Z) \cup {entry})
        BY <1>3, SeqMonotonic
      <4>3. QED
        BY <3>1, <4>1, <4>2
    <3>2. CASE c = "none"
      <4>1. E = << >> \o Z /\ k = 0
        BY <1>1, <1>5, <1>8, <3>2
      <4>2. QED
        BY <1>3, <3>2, <4>1
    <3>3. QED
      BY <2>1, <3>1, <3>2
  <2>3. k \in 0 .. 1 /\ (c = "ENTRY" => E[1].type = "ENTRY" /\ E[1].visitor = v)
    BY <1>4, <1>8, <2>2
  <2>4. ASSUME NEW i \in k + 1 .. Len(E)
        PROVE  /\ OfZones(E[i], v, d.zone, running[d.zone])
               /\ E[i].visitor = v
               /\ E[i].type \in ZoneKinds
    BY <1>3, <1>7, <2>2
  <2>5. ASSUME NEW i \in 1 .. Len(E)
        PROVE  E[i].visitor = v
    <3>1. i \in k + 1 .. Len(E) \/ (i = 1 /\ k = 1)
      BY <1>3, <2>2, <2>3
    <3>2. k = 1 => c = "ENTRY"
      BY <2>1, <2>2
    <3>3. QED
      BY <2>3, <2>4, <3>1, <3>2
  <2>6. (d.zone # currentZone[camera][v] /\ currentZone[camera][v] # NoZone) =>
          Len(E) >= k + 1 /\ E[k + 1].type = "ZONE_EXIT"
    <3> SUFFICES ASSUME d.zone # currentZone[camera][v], currentZone[camera][v] # NoZone
                 PROVE  Len(E) >= k + 1 /\ E[k + 1].type = "ZONE_EXIT"
      OBVIOUS
    <3>1. Len(Z) >= 1 /\ Z[1].type = "ZONE_EXIT"
      BY <1>3
    <3>2. k + 1 \in k + 1 .. Len(E) /\ (k + 1) - k = 1
      BY <1>3, <2>2, <2>3, <3>1
    <3>3. QED
      BY <2>2, <3>1, <3>2
  <2>7. Len(E) \in Nat /\ Len(E) >= k
    BY <1>3, <2>2, <2>3
  <2>8. c \in {"ENTRY", "EXIT"} => E[1].type = c
    BY <1>10, <2>3
  <2>9. QED
    BY <1>10, <2>4, <2>5, <2>6, <2>7, <2>8 DEF v, c, E, k, running
<1>11. QED
  BY <1>9, <1>10

\* The behaviour state after a detection: EXITED from an EXIT until an ENTRY,
\* and DWELLING only where the visitor stands in the zone it was in.
LEMMA BehaviorAfterDetection ==
  ASSUME NEW d, NEW isStaff, NEW s \in BehaviorState
  PROVE  LET v == TrackOwner[d.track]
             c == IF camera = EntryCamera THEN Crossing(d.track, d.side) ELSE "none"
             clock == ClocksAfterCrossing(v, c)[d.zone]
             prev == currentZone[camera][v]
             u == Updated(v, s, BehaviorEvents(d, isStaff))
         IN  /\ u \in BehaviorState
             /\ c = "EXIT" => u = "EXITED"
             /\ c = "ENTRY" => u # "EXITED"
             /\ c = "none" => (u = "EXITED" <=> s = "EXITED")
             /\ u = "DWELLING" =>
                  /\ c # "EXIT"
                  /\ \/ Dwells(v, d.zone, clock) /\ DwellSince(clock) >= MinBrowseDwell
                     \/ s = "DWELLING" /\ (d.zone = prev \/ prev = NoZone)
<1> DEFINE v == TrackOwner[d.track]
           c == IF camera = EntryCamera THEN Crossing(d.track, d.side) ELSE "none"
           clock == ClocksAfterCrossing(v, c)[d.zone]
           prev == currentZone[camera][v]
           E == BehaviorEvents(d, isStaff)
           u == Updated(v, s, E)
           k == IF c = "none" THEN 0 ELSE 1
           n == Len(E)
           Gone == {"EXITED"}
           Here == BehaviorState \ {"EXITED"}
           Still == BehaviorState \ {"DWELLING"}
           ZoneKinds == {"ZONE_ENTER", "ZONE_EXIT", "ZONE_DWELL"}
<1>1. /\ n \in Nat
      /\ n >= k
      /\ \A i \in 1 .. n : E[i].visitor = v
      /\ c \in {"ENTRY", "EXIT"} => E[1].type = c
      /\ \A i \in k + 1 .. n : E[i].type \in ZoneKinds
      /\ c # "EXIT" => \A i \in k + 1 .. n : OfZones(E[i], v, d.zone, clock)
      /\ (c # "EXIT" /\ d.zone # prev /\ prev # NoZone) => n >= k + 1 /\ E[k + 1].type = "ZONE_EXIT"
  BY EventsOfDetection
<1>2. c \in {"none", "ENTRY", "EXIT"}
  BY DEF Crossing
<1>3. k = IF c = "none" THEN 0 ELSE 1
  OBVIOUS
<1>4. /\ Gone \in SUBSET BehaviorState
      /\ Here \in SUBSET BehaviorState
      /\ Still \in SUBSET BehaviorState
  BY DEF BehaviorState
<1>5. \A P \in {Gone, Here} : \A x \in P, type \in ZoneKinds : \A t :
        Transition(x, type, t) \in P
  BY DEF Transition, BehaviorState
<1>6. \A x \in BehaviorState : \A t :
      /\ Transition(x, "EXIT", t) \in Gone
      /\ Transition(x, "ENTRY", t) \in Here
      /\ Transition(x, "ENTRY", t) \in Still
      /\ Transition(x, "ZONE_EXIT", t) \in Still
  BY DEF Transition, BehaviorState
<1> HIDE DEF E, n, c, k, v, clock, prev, Gone, Here, Still
<1>7. k \in 0 .. n /\ (k = 0 <=> c = "none") /\ (k > 0 => k = 1)
  BY <1>1, <1>3
<1>8. u \in BehaviorState
  <2>1. Len(E) \in Nat
    BY <1>1 DEF n
  <2>2. PICK run \in BehaviorRuns(v, s, E) : TRUE
    BY <2>1, UpdatedRun
  <2>3. run \in [0 .. Len(E) -> BehaviorState] /\ run[Len(E)] = u
    BY <2>2 DEF BehaviorRuns
  <2>4. QED
    BY <2>1, <2>3
\* No event of the zones leads into or out of EXITED.
<1>9. ASSUME NEW P \in {Gone, Here},
             \/ k = 0 /\ s \in P
             \/ k > 0 /\ \A x \in BehaviorState : Transition(x, E[k].type, E[k].dwell) \in P
      PROVE  u \in P
  <2>1. P \in SUBSET BehaviorState
    BY <1>4
  <2>2. \A i \in k + 1 .. n : \A x \in P :
          E[i].visitor = v => Transition(x, E[i].type, E[i].dwell) \in P
    BY <1>1, <1>5
  <2>3. k > 0 => E[k].visitor = v
    BY <1>1, <1>7
  <2>4. \/ k = 0 /\ s \in P
        \/ k > 0 /\ E[k].visitor = v /\ \A x \in BehaviorState : Transition(x, E[k].type, E[k].dwell) \in P
    BY <1>9, <2>3
  <2>5. QED
    BY <1>1, <1>7, <2>1, <2>2, <2>4, UpdatedStays DEF n
<1>10. c = "EXIT" => u = "EXITED"
  <2> SUFFICES ASSUME c = "EXIT" PROVE u = "EXITED"
    OBVIOUS
  <2>1. k = 1 /\ E[k].type = "EXIT"
    BY <1>1, <1>7
  <2>2. u \in Gone
    BY <1>6, <1>9, <2>1
  <2>3. QED
    BY <2>2 DEF Gone
<1>11. c = "ENTRY" => u # "EXITED"
  <2> SUFFICES ASSUME c = "ENTRY" PROVE u # "EXITED"
    OBVIOUS
  <2>1. k = 1 /\ E[k].type = "ENTRY"
    BY <1>1, <1>7
  <2>2. u \in Here
    BY <1>6, <1>9, <2>1
  <2>3. QED
    BY <2>2 DEF Here
<1>12. c = "none" => (u = "EXITED" <=> s = "EXITED")
  <2> SUFFICES ASSUME c = "none" PROVE u = "EXITED" <=> s = "EXITED"
    OBVIOUS
  <2>1. k = 0
    BY <1>7
  <2>2. s \in Gone => u \in Gone
    BY <1>9, <2>1
  <2>3. s \in Here => u \in Here
    BY <1>9, <2>1
  <2>4. QED
    BY <2>2, <2>3 DEF Gone, Here
<1>13. ASSUME u = "DWELLING", c # "EXIT",
              ~(Dwells(v, d.zone, clock) /\ DwellSince(clock) >= MinBrowseDwell)
       PROVE  s = "DWELLING" /\ (d.zone = prev \/ prev = NoZone)
  <2>1. \A i \in k + 1 .. n : \A x \in Still :
          E[i].visitor = v => Transition(x, E[i].type, E[i].dwell) \in Still
    <3> SUFFICES ASSUME NEW i \in k + 1 .. n, NEW x \in Still
                 PROVE  Transition(x, E[i].type, E[i].dwell) \in Still
      OBVIOUS
    <3>1. OfZones(E[i], v, d.zone, clock)
      BY <1>1, <1>13
    <3>2. \/ E[i].type \in {"ZONE_ENTER", "ZONE_EXIT"}
          \/ E[i].type = "ZONE_DWELL" /\ ~(E[i].dwell >= MinBrowseDwell)
      BY <1>13, <3>1 DEF OfZones
    <3>3. QED
      BY <3>2 DEF Transition, Still, BehaviorState
  <2>2. u \notin Still
    BY <1>13 DEF Still
  <2>3. s = "DWELLING"
    <3> SUFFICES ASSUME s # "DWELLING"
                 PROVE  FALSE
      OBVIOUS
    <3>1. s \in Still
      BY DEF Still
    <3>2. k > 0 => E[k].visitor = v /\ E[k].type = "ENTRY"
      BY <1>1, <1>2, <1>7, <1>13
    <3>3. \/ k = 0 /\ s \in Still
          \/ k > 0 /\ E[k].visitor = v /\ \A x \in BehaviorState : Transition(x, E[k].type, E[k].dwell) \in Still
      BY <1>6, <1>7, <3>1, <3>2
    <3>4. u \in Still
      BY <1>1, <1>4, <1>7, <2>1, <3>3, UpdatedStays DEF n
    <3>5. QED
      BY <2>2, <3>4
  <2>4. d.zone = prev \/ prev = NoZone
    <3> SUFFICES ASSUME d.zone # prev, prev # NoZone
                 PROVE  FALSE
      OBVIOUS
    <3> DEFINE m == k + 1
    <3>1. m \in 0 .. n /\ m > 0 /\ E[m].type = "ZONE_EXIT"
      BY <1>1, <1>7, <1>13
    <3>2. E[m].visitor = v
      BY <1>1, <3>1
    <3>3. \A i \in m + 1 .. n : \A x \in Still :
            E[i].visitor = v => Transition(x, E[i].type, E[i].dwell) \in Still
      BY <1>7, <2>1
    <3> HIDE DEF m
    <3>4. m > 0 /\ E[m].visitor = v /\ \A x \in BehaviorState : Transition(x, E[m].type, E[m].dwell) \in Still
      BY <1>6, <3>1, <3>2
    <3>5. u \in Still
      BY <1>1, <1>4, <3>1, <3>3, <3>4, UpdatedStays DEF n
    <3>6. QED
      BY <2>2, <3>5
  <2>5. QED
    BY <2>3, <2>4
<1>14. u = "DWELLING" => c # "EXIT"
  BY <1>10
<1>15. QED
  BY <1>8, <1>10, <1>11, <1>12, <1>13, <1>14 DEF v, c, clock, prev, E

\* The queue's events never move who has left and make nobody dwell.
LEMMA BehaviorAfterQueue ==
  ASSUME NEW v, NEW s \in BehaviorState, billingPresent \in Seq(Visitors)
  PROVE  LET u == Updated(v, s, QueueEvents) IN
         /\ u \in BehaviorState
         /\ u = "EXITED" <=> s = "EXITED"
         /\ u = "DWELLING" => s = "DWELLING"
<1> DEFINE E == QueueEvents
           u == Updated(v, s, E)
           Kinds == {"BILLING_QUEUE_JOIN", "BILLING_QUEUE_ABANDON"}
           Sets == {{"EXITED"}, BehaviorState \ {"EXITED"}, BehaviorState \ {"DWELLING"}}
<1>1. Len(E) \in Nat /\ \A i \in 1 .. Len(E) : E[i].type \in Kinds
  <2>1. IsFiniteSet(Visitors)
    BY JourneyAssumption
  <2>2. QED
    BY <2>1, QueueEventTypes
<1>2. \A P \in Sets : \A x \in P, type \in Kinds : \A t : Transition(x, type, t) \in P
  BY DEF Transition, BehaviorState
<1>3. \A P \in Sets : P \in SUBSET BehaviorState
  BY DEF BehaviorState
<1> HIDE DEF E, Sets
<1>4. ASSUME NEW P \in Sets, s \in P
      PROVE  u \in P
  <2>1. \A i \in 0 + 1 .. Len(E) : \A x \in P :
          E[i].visitor = v => Transition(x, E[i].type, E[i].dwell) \in P
    BY <1>1, <1>2
  <2>2. P \in SUBSET BehaviorState /\ 0 \in 0 .. Len(E)
    BY <1>1, <1>3
  <2>3. QED
    BY <1>1, <1>4, <2>1, <2>2, UpdatedStays
<1>5. u \in BehaviorState
  <2>1. PICK run \in BehaviorRuns(v, s, E) : TRUE
    BY <1>1, UpdatedRun
  <2>2. run \in [0 .. Len(E) -> BehaviorState] /\ run[Len(E)] = u
    BY <2>1 DEF BehaviorRuns
  <2>3. QED
    BY <1>1, <2>2
<1>6. /\ s \in {"EXITED"} => u \in {"EXITED"}
      /\ s \in BehaviorState \ {"EXITED"} => u \in BehaviorState \ {"EXITED"}
      /\ s \in BehaviorState \ {"DWELLING"} => u \in BehaviorState \ {"DWELLING"}
  BY <1>4 DEF Sets
<1>7. QED
  BY <1>5, <1>6 DEF E

-----------------------------------------------------------------------------
(***************************************************************************)
(* The inductive invariant of the cameras' judgement.                      *)
(***************************************************************************)

\* What StaffBehaviourTracker keeps of a visitor.
Profile == [frames : Nat, zones : SUBSET Zones, cameras : SUBSET Cameras,
            scores : Seq(Clothing), area : BOOLEAN]

\* The types of the frame loop and of what the judgement keeps.
FrameTypeOK ==
  /\ now \in Nat
  /\ turn \in 1 .. Len(CameraOrder)
  /\ inFrame \in BOOLEAN
  /\ todo \in Seq(Detection)
  /\ billingPresent \in Seq(Visitors)
  /\ staff \in [Visitors -> BOOLEAN]
  /\ place \in [Visitors -> Places]
  /\ currentZone \in [Cameras -> [Visitors -> Zones \cup {NoZone}]]
  /\ clocks \in [Cameras -> [Visitors -> [Zones -> Clock \cup {Away}]]]
  /\ behavior \in [Visitors -> BehaviorState]
  /\ profile \in [Visitors -> Profile]

\* A visitor is detected once in a frame.
OnceInFrame ==
  \A i, j \in DOMAIN todo : TrackOwner[todo[i].track] = TrackOwner[todo[j].track] => i = j

\* In a frame of the billing camera nobody who was put on the queue is staff or
\* will be judged again before the frame ends.
CustomersInQueue ==
  (inFrame /\ camera = BillingCamera) =>
    \A v \in ToSet(billingPresent) :
      ~staff[v] /\ \A i \in DOMAIN todo : TrackOwner[todo[i].track] # v

\* The classification is the verdict on the profile kept, and whoever has been
\* seen has been looked at.
VerdictOnProfile ==
  \A v \in Visitors :
    /\ staff[v] = IsStaff(profile[v])
    /\ Len(profile[v].scores) <= ScoreWindow
    /\ profile[v].frames > 0 => profile[v].scores # << >>

\* The inductive invariant.
JourneyInv ==
  /\ FrameTypeOK
  /\ CrossInv
  /\ OnceInFrame
  /\ CustomersInQueue
  /\ VerdictOnProfile
  /\ StaffLeaveQueue
  /\ ExitedSinceExit
  /\ DwellingInZone

\* The camera whose turn it is is one of the store's.
LEMMA CameraIsOne ==
  ASSUME turn \in 1 .. Len(CameraOrder)
  PROVE  camera \in Cameras
BY JourneyAssumption DEF camera, Cameras, ToSet

\* The loop over the cameras goes on, and the camera left behind is the latest.
LEMMA RoundGoesOn ==
  ASSUME now \in Nat, turn \in 1 .. Len(CameraOrder), NextCamera
  PROVE  /\ now' \in Nat
         /\ now <= now'
         /\ turn' \in 1 .. Len(CameraOrder)
         /\ CameraOrder[IF turn' = 1 THEN Len(CameraOrder) ELSE turn' - 1] = camera
<1>1. Len(CameraOrder) \in Nat
  BY JourneyAssumption
<1>2. turn' = (IF turn = Len(CameraOrder) THEN 1 ELSE turn + 1) /\ now' \in {now, now + 1}
  BY DEF NextCamera
<1>3. (IF turn' = 1 THEN Len(CameraOrder) ELSE turn' - 1) = turn
  BY <1>1, <1>2
<1>4. QED
  BY <1>1, <1>2, <1>3 DEF camera

\* A frame shows detections of visitors who are shown once.
LEMMA FramesTyped ==
  ASSUME FrameTypeOK, NEW w \in Walks, NEW ds \in Frames(w)
  PROVE  /\ w \in [Visitors -> Places]
         /\ ds \in Seq(Detection)
         /\ \A i, j \in DOMAIN ds : TrackOwner[ds[i].track] = TrackOwner[ds[j].track] => i = j
<1>1. w \in [Visitors -> Places]
  BY DEF Walks, FrameTypeOK
<1> DEFINE inView == {v \in Visitors : View[w[v]][camera] # Hidden}
           shown(v) == [track |-> CHOOSE t \in Tracks : TrackOwner[t] = v,
                        zone  |-> View[w[v]][camera].zone,
                        side  |-> View[w[v]][camera].side,
                        staff |-> staff[v]]
<1>2. PICK S \in SUBSET inView : ds = SetToSeq({shown(v) : v \in S})
  BY DEF Frames
<1>3. ASSUME NEW v \in S
      PROVE  shown(v) \in Detection /\ TrackOwner[shown(v).track] = v
  <2>1. v \in Visitors /\ View[w[v]][camera] # Hidden
    OBVIOUS
  <2>2. \E t \in Tracks : TrackOwner[t] = v
    <3>1. \E t \in Tracks : {u \in Tracks : TrackOwner[u] = v} = {t}
      BY <2>1, JourneyAssumption
    <3>2. QED
      BY <3>1
  <2>3. (CHOOSE t \in Tracks : TrackOwner[t] = v) \in Tracks
        /\ TrackOwner[CHOOSE t \in Tracks : TrackOwner[t] = v] = v
    BY <2>2
  <2>4. View[w[v]][camera] \in [zone : Zones \cup {NoZone}, side : Side]
    <3>1. w[v] \in Places /\ camera \in Cameras
      BY <1>1, <2>1, CameraIsOne DEF FrameTypeOK
    <3>2. View \in [Places -> [Cameras -> [zone : Zones \cup {NoZone}, side : Side] \cup {Hidden}]]
      BY JourneyAssumption
    <3>3. QED
      BY <2>1, <3>1, <3>2
  <2>5. staff[v] \in BOOLEAN
    BY <2>1 DEF FrameTypeOK
  <2>6. QED
    BY <2>3, <2>4, <2>5 DEF Detection
<1> DEFINE f == [v \in S |-> shown(v)]
           T == {shown(v) : v \in S}
<1>4. f \in Surjection(S, T)
  BY DEF Surjection
<1>5. T = {f[v] : v \in S} /\ \A v \in S : f[v] = shown(v)
  OBVIOUS
<1> HIDE DEF f, T, shown
<1>6. \A v \in S : f[v] \in Detection /\ TrackOwner[f[v].track] = v
  BY <1>3, <1>5
<1>7. T \in SUBSET Detection /\ \A x, y \in T : TrackOwner[x.track] = TrackOwner[y.track] => x = y
  <2>1. T \in SUBSET Detection
    BY <1>5, <1>6
  <2>2. ASSUME NEW x \in T, NEW y \in T, TrackOwner[x.track] = TrackOwner[y.track]
        PROVE  x = y
    <3>1. PICK v \in S : x = f[v]
      BY <1>5
    <3>2. PICK u \in S : y = f[u]
      BY <1>5
    <3>3. v = u
      BY <1>6, <2>2, <3>1, <3>2
    <3>4. QED
      BY <3>1, <3>2, <3>3
  <2>3. QED
    BY <2>1, <2>2
<1>8. ds = SetToSeq(T)
  BY <1>2 DEF T, shown
<1>9. IsFiniteSet(T)
  <2>1. IsFiniteSet(Visitors) /\ S \in SUBSET Visitors
    BY JourneyAssumption
  <2>2. IsFiniteSet(S)
    BY <2>1, FS_Subset
  <2>3. QED
    BY <1>4, <2>2, FS_Surjection
<1>10. /\ Cardinality(T) \in Nat
      /\ ds \in [1 .. Cardinality(T) -> T]
      /\ ds \in Seq(T)
      /\ \A i, j \in 1 .. Cardinality(T) : ds[i] = ds[j] => i = j
  BY <1>8, <1>9, ListOfSet
<1>11. ds \in Seq(Detection)
  BY <1>7, <1>10, SeqMonotonic
<1>12. \A i, j \in DOMAIN ds : TrackOwner[ds[i].track] = TrackOwner[ds[j].track] => i = j
  BY <1>7, <1>10
<1>13. QED
  BY <1>1, <1>11, <1>12

\* Without a sighting at the line the detector keeps its invariant.
LEMMA LineRests ==
  ASSUME CrossInv, UNCHANGED <<lineVars, recent, reported>>
  PROVE  CrossInv'
BY DEF lineVars, CrossInv, CrossTypeOK, ReportedSide, CountedSince

\* The cameras begin in JourneyInv.
LEMMA JourneyInitInv ==
  ASSUME JourneyInit
  PROVE  JourneyInv
<1>1. /\ Len(CameraOrder) \in Nat /\ Len(CameraOrder) >= 1
      /\ TrackOwner \in [Tracks -> Visitors]
  BY JourneyAssumption
<1>2. now = 0 /\ turn = 1 /\ inFrame = FALSE /\ todo = << >> /\ billingPresent = << >>
  BY DEF JourneyInit, CameraInit
<1>3. /\ currentZone = [c \in Cameras |-> [v \in Visitors |-> NoZone]]
      /\ clocks = [c \in Cameras |-> [v \in Visitors |-> [z \in Zones |-> Away]]]
      /\ staff = [v \in Visitors |-> FALSE]
      /\ behavior = [v \in Visitors |-> "UNKNOWN"]
      /\ profile = [v \in Visitors |-> Nobody]
      /\ place = [v \in Visitors |-> Outside]
      /\ inZone = [v \in Visitors |-> Away]
      /\ reported = [t \in Tracks |-> "none"]
  BY DEF JourneyInit, CameraInit, QueueInit, CrossInit
<1>4. FrameTypeOK
  <2>1. Nobody \in Profile
    BY DEF Nobody, Profile
  <2>2. Outside \in Places
    BY JourneyAssumption
  <2>3. /\ behavior \in [Visitors -> BehaviorState]
        /\ profile \in [Visitors -> Profile]
        /\ place \in [Visitors -> Places]
        /\ staff \in [Visitors -> BOOLEAN]
    BY <1>3, <2>1, <2>2 DEF BehaviorState
  <2>4. /\ currentZone \in [Cameras -> [Visitors -> Zones \cup {NoZone}]]
        /\ clocks \in [Cameras -> [Visitors -> [Zones -> Clock \cup {Away}]]]
    BY <1>3
  <2>5. now \in Nat /\ turn \in 1 .. Len(CameraOrder) /\ inFrame \in BOOLEAN
        /\ todo \in Seq(Detection) /\ billingPresent \in Seq(Visitors)
    <3>1. << >> \in Seq(Detection) /\ << >> \in Seq(Visitors)
      OBVIOUS
    <3>2. now \in Nat /\ inFrame \in BOOLEAN
      BY <1>2
    <3>3. turn \in 1 .. Len(CameraOrder)
      BY <1>1, <1>2
    <3>4. QED
      BY <1>2, <3>1, <3>2, <3>3, Zenon
  <2>6. QED
    BY <2>3, <2>4, <2>5 DEF FrameTypeOK
<1>5. CrossInv
  BY MinCrossFramesAssumption
     DEF JourneyInit, CrossInit, LineInit, CrossInv, CrossTypeOK, ReportedSide, CountedSince,
         CommittedSide, Side
<1>6. OnceInFrame /\ CustomersInQueue
  BY <1>2 DEF OnceInFrame, CustomersInQueue
<1>7. VerdictOnProfile
  BY <1>3, StaffAssumption DEF VerdictOnProfile, Nobody, IsStaff
<1>8. StaffLeaveQueue /\ DwellingInZone /\ ExitedSinceExit
  BY <1>1, <1>3 DEF StaffLeaveQueue, DwellingInZone, ExitedSinceExit
<1>9. QED
  BY <1>4, <1>5, <1>6, <1>7, <1>8 DEF JourneyInv

\* A new frame keeps JourneyInv.
LEMMA BeginKeepsInv ==
  ASSUME JourneyInv, BeginFrame
  PROVE  JourneyInv'
<1>1. PICK w \in Walks : \E ds \in Frames(w) : NewFrame(ds) /\ place' = w
  BY DEF BeginFrame
<1>2. PICK ds \in Frames(w) : NewFrame(ds) /\ place' = w
  BY <1>1
<1>3. FrameTypeOK
  BY DEF JourneyInv
<1>4. /\ w \in [Visitors -> Places]
      /\ ds \in Seq(Detection)
      /\ \A i, j \in DOMAIN ds : TrackOwner[ds[i].track] = TrackOwner[ds[j].track] => i = j
  BY <1>3, FramesTyped
<1>5. inFrame' = TRUE /\ todo' = ds /\ billingPresent' = << >> /\ place' = w
  BY <1>2 DEF NewFrame
<1>6. UNCHANGED <<now, turn, ended, currentZone, clocks, staff, inZone, recent, reported,
                  behavior, profile>>
  BY <1>2 DEF NewFrame, BeginFrame, zoneVars, queueVars
<1>7. UNCHANGED <<lineVars, recent, reported>>
  BY <1>2 DEF NewFrame, BeginFrame, lineVars
<1>8. FrameTypeOK'
  BY <1>3, <1>4, <1>5, <1>6 DEF FrameTypeOK
<1>9. CrossInv'
  BY <1>7, LineRests DEF JourneyInv
<1>10. OnceInFrame'
  BY <1>4, <1>5 DEF OnceInFrame
<1>11. CustomersInQueue' /\ StaffLeaveQueue'
  BY <1>5 DEF CustomersInQueue, StaffLeaveQueue, ToSet
<1>12. VerdictOnProfile'
  BY <1>6 DEF JourneyInv, VerdictOnProfile
<1>13. ExitedSinceExit' /\ DwellingInZone'
  BY <1>6 DEF JourneyInv, ExitedSinceExit, DwellingInZone
<1>14. QED
  BY <1>8, <1>9, <1>10, <1>11, <1>12, <1>13 DEF JourneyInv

\* Who dwells goes on dwelling while the clock runs on.
LEMMA DwellGrows ==
  ASSUME FrameTypeOK, DwellingInZone, now' \in Nat, now <= now',
         UNCHANGED <<currentZone, clocks>>,
         ended' = {} => ended = {},
         ended' = {} => \A v \in Visitors : behavior'[v] = "DWELLING" => behavior[v] = "DWELLING"
  PROVE  DwellingInZone'
<1> SUFFICES ASSUME ended' = {}, NEW v \in Visitors, behavior'[v] = "DWELLING"
             PROVE  \E c \in Cameras : LET z == currentZone'[c][v] IN
                      z # NoZone /\ clocks'[c][v][z] # Away
                      /\ now' - clocks'[c][v][z].enter >= MinBrowseDwell
  BY DEF DwellingInZone
<1>1. PICK c \in Cameras : LET z == currentZone[c][v] IN
        z # NoZone /\ clocks[c][v][z] # Away /\ now - clocks[c][v][z].enter >= MinBrowseDwell
  BY DEF DwellingInZone
<1> DEFINE z == currentZone[c][v]
<1>2. z \in Zones
  BY <1>1 DEF FrameTypeOK
<1>3. clocks[c][v][z] \in Clock /\ now \in Nat
  BY <1>1, <1>2 DEF FrameTypeOK
<1>4. clocks[c][v][z].enter \in Nat
  BY <1>3 DEF Clock
<1>5. now' - clocks[c][v][z].enter >= MinBrowseDwell
  BY <1>1, <1>3, <1>4, BehaviorAssumption
<1>6. QED
  BY <1>1, <1>5

\* The end of a frame keeps JourneyInv: the queue it leaves is the list of
\* customers the frame made.
LEMMA CloseKeepsInv ==
  ASSUME JourneyInv, CloseFrame
  PROVE  JourneyInv'
<1>1. FrameTypeOK /\ inFrame
  BY DEF JourneyInv, CloseFrame, EndFrame
<1>2. /\ now' \in Nat /\ now <= now' /\ turn' \in 1 .. Len(CameraOrder)
      /\ CameraOrder[IF turn' = 1 THEN Len(CameraOrder) ELSE turn' - 1] = camera
  BY <1>1, RoundGoesOn DEF FrameTypeOK, CloseFrame, EndFrame
<1>3. inFrame' = FALSE
  BY DEF CloseFrame, EndFrame
<1>4. UNCHANGED <<todo, billingPresent, ended, currentZone, clocks, staff, recent, reported,
                  profile, place>>
  BY DEF CloseFrame, EndFrame, zoneVars
<1>5. UNCHANGED <<lineVars, recent, reported>>
  BY DEF CloseFrame, EndFrame, lineVars
<1>6. /\ behavior' \in [Visitors -> BehaviorState]
      /\ \A v \in Visitors : /\ behavior'[v] = "EXITED" <=> behavior[v] = "EXITED"
                             /\ behavior'[v] = "DWELLING" => behavior[v] = "DWELLING"
  <2>1. behavior \in [Visitors -> BehaviorState] /\ billingPresent \in Seq(Visitors)
    BY <1>1 DEF FrameTypeOK
  <2>2. CASE camera # BillingCamera
    BY <2>1, <2>2 DEF CloseFrame
  <2>3. CASE camera = BillingCamera
    <3>1. behavior' = [v \in Visitors |-> Updated(v, behavior[v], QueueEvents)]
      BY <2>3 DEF CloseFrame
    <3>2. ASSUME NEW v \in Visitors
          PROVE  LET u == Updated(v, behavior[v], QueueEvents) IN
                 /\ u \in BehaviorState
                 /\ u = "EXITED" <=> behavior[v] = "EXITED"
                 /\ u = "DWELLING" => behavior[v] = "DWELLING"
      <4>1. behavior[v] \in BehaviorState
        BY <2>1
      <4>2. QED
        BY <2>1, <4>1, BehaviorAfterQueue
    <3>3. QED
      BY <3>1, <3>2
  <2>4. QED
    BY <2>2, <2>3
<1>7. FrameTypeOK'
  BY <1>1, <1>2, <1>3, <1>4, <1>6 DEF FrameTypeOK
<1>8. CrossInv'
  BY <1>5, LineRests DEF JourneyInv
<1>9. OnceInFrame' /\ VerdictOnProfile'
  BY <1>4 DEF JourneyInv, OnceInFrame, VerdictOnProfile
<1>10. CustomersInQueue'
  BY <1>3 DEF CustomersInQueue
<1>11. StaffLeaveQueue'
  <2>1. CASE camera # BillingCamera
    BY <1>2, <2>1 DEF StaffLeaveQueue
  <2>2. CASE camera = BillingCamera
    <3>1. inZone' = [v \in Visitors |->
            IF v \notin ToSet(billingPresent) THEN Away
            ELSE IF inZone[v] = Away THEN now ELSE inZone[v]]
      BY <2>2 DEF CloseFrame, EndFrame, UpdateQueue
    <3>2. \A v \in Visitors : inZone'[v] # Away => ~staff'[v]
      BY <1>1, <1>4, <2>2, <3>1 DEF JourneyInv, CustomersInQueue
    <3>3. QED
      BY <3>2 DEF StaffLeaveQueue
  <2>3. QED
    BY <2>1, <2>2
<1>12. ExitedSinceExit'
  <2>1. \A t \in Tracks : TrackOwner[t] \in Visitors
    BY JourneyAssumption
  <2>2. QED
    BY <1>4, <1>6, <2>1 DEF JourneyInv, ExitedSinceExit
<1>13. DwellingInZone'
  BY <1>1, <1>2, <1>4, <1>6, DwellGrows DEF JourneyInv
<1>14. QED
  BY <1>7, <1>8, <1>9, <1>10, <1>11, <1>12, <1>13 DEF JourneyInv

\* The end of a video keeps JourneyInv.
LEMMA FlushKeepsInv ==
  ASSUME JourneyInv, FlushVideo
  PROVE  JourneyInv'
<1>1. FrameTypeOK /\ ~inFrame
  BY DEF JourneyInv, FlushVideo, EndVideo
<1>2. /\ now' \in Nat /\ now <= now' /\ turn' \in 1 .. Len(CameraOrder)
      /\ CameraOrder[IF turn' = 1 THEN Len(CameraOrder) ELSE turn' - 1] = camera
  BY <1>1, RoundGoesOn DEF FrameTypeOK, FlushVideo, EndVideo
<1>3. UNCHANGED <<inFrame, todo, billingPresent, staff, inZone, recent, reported, behavior,
                  profile, place>>
  BY DEF FlushVideo, EndVideo, queueVars
<1>4. UNCHANGED <<lineVars, recent, reported>>
  BY DEF FlushVideo, EndVideo, lineVars
<1>5. camera \in ended'
  BY DEF FlushVideo, EndVideo
<1>6. /\ currentZone' \in [Cameras -> [Visitors -> Zones \cup {NoZone}]]
      /\ clocks' \in [Cameras -> [Visitors -> [Zones -> Clock \cup {Away}]]]
  <2>1. /\ currentZone \in [Cameras -> [Visitors -> Zones \cup {NoZone}]]
        /\ clocks \in [Cameras -> [Visitors -> [Zones -> Clock \cup {Away}]]]
        /\ camera \in Cameras
    BY <1>1, CameraIsOne DEF FrameTypeOK
  <2> DEFINE cleared == [v \in Visitors |-> [z \in Zones |->
                           IF z = currentZone[camera][v] THEN Away ELSE clocks[camera][v][z]]]
  <2>2. cleared \in [Visitors -> [Zones -> Clock \cup {Away}]]
    BY <2>1
  <2>3. clocks' = [clocks EXCEPT ![camera] = cleared]
    BY DEF FlushVideo, EndVideo
  <2>4. currentZone' = [currentZone EXCEPT ![camera] = [v \in Visitors |-> NoZone]]
    BY DEF FlushVideo, EndVideo
  <2> HIDE DEF cleared
  <2>5. QED
    BY <2>1, <2>2, <2>3, <2>4
<1>7. FrameTypeOK'
  BY <1>1, <1>2, <1>3, <1>6 DEF FrameTypeOK
<1>8. CrossInv'
  BY <1>4, LineRests DEF JourneyInv
<1>9. OnceInFrame' /\ VerdictOnProfile' /\ ExitedSinceExit'
  BY <1>3 DEF JourneyInv, OnceInFrame, VerdictOnProfile, ExitedSinceExit
<1>10. CustomersInQueue'
  BY <1>1, <1>3 DEF CustomersInQueue
<1>11. StaffLeaveQueue' /\ DwellingInZone'
  BY <1>2, <1>5 DEF StaffLeaveQueue, DwellingInZone
<1>12. QED
  BY <1>7, <1>8, <1>9, <1>10, <1>11 DEF JourneyInv

\* Passing over a camera whose video is over keeps JourneyInv.
LEMMA SkipKeepsInv ==
  ASSUME JourneyInv, SkipCamera
  PROVE  JourneyInv'
<1>1. FrameTypeOK /\ ~inFrame /\ camera \in ended
  BY DEF JourneyInv, SkipCamera, SkipEnded
<1>2. /\ now' \in Nat /\ now <= now' /\ turn' \in 1 .. Len(CameraOrder)
      /\ CameraOrder[IF turn' = 1 THEN Len(CameraOrder) ELSE turn' - 1] = camera
  BY <1>1, RoundGoesOn DEF FrameTypeOK, SkipCamera, SkipEnded
<1>3. UNCHANGED <<inFrame, todo, billingPresent, ended, currentZone, clocks, staff, inZone,
                  recent, reported, behavior, profile, place>>
  BY DEF SkipCamera, SkipEnded, zoneVars, queueVars
<1>4. UNCHANGED <<lineVars, recent, reported>>
  BY DEF SkipCamera, SkipEnded, lineVars
<1>5. FrameTypeOK'
  BY <1>1, <1>2, <1>3 DEF FrameTypeOK
<1>6. CrossInv'
  BY <1>4, LineRests DEF JourneyInv
<1>7. OnceInFrame' /\ VerdictOnProfile' /\ ExitedSinceExit'
  BY <1>3 DEF JourneyInv, OnceInFrame, VerdictOnProfile, ExitedSinceExit
<1>8. CustomersInQueue'
  BY <1>1, <1>3 DEF CustomersInQueue
<1>9. StaffLeaveQueue' /\ DwellingInZone'
  BY <1>1, <1>2, <1>3 DEF StaffLeaveQueue, DwellingInZone
<1>10. QED
  BY <1>5, <1>6, <1>7, <1>8, <1>9 DEF JourneyInv

\* The clocks of a visitor keep their types, and a sighting in the zone the
\* visitor was in keeps the time it entered.
LEMMA ZoneClocksTyped ==
  ASSUME NEW v, NEW zone \in Zones \cup {NoZone}, now \in Nat,
         NEW running \in [Zones -> Clock \cup {Away}]
  PROVE  LET next == ZoneClocks(v, zone, running) IN
         /\ next \in [Zones -> Clock \cup {Away}]
         /\ (zone = currentZone[camera][v] /\ zone # NoZone /\ running[zone] # Away) =>
              next[zone] # Away /\ next[zone].enter = running[zone].enter
<1> DEFINE next == ZoneClocks(v, zone, running)
           prev == currentZone[camera][v]
           fresh == [enter |-> now, last |-> now]
<1>1. fresh \in Clock
  BY DEF Clock
<1>2. ASSUME NEW k \in Clock \cup {Away}, TickDue(k)
      PROVE  [k EXCEPT !.last = now] \in Clock /\ [k EXCEPT !.last = now].enter = k.enter
  BY <1>2 DEF TickDue, Clock
<1>3. Away \notin Clock
  BY JourneyAssumption
<1>4. ASSUME NEW z \in Zones
      PROVE  /\ next[z] = fresh \/ next[z] = Away \/ next[z] = running[z]
                \/ (TickDue(running[z]) /\ next[z] = [running[z] EXCEPT !.last = now])
             /\ (z = zone /\ zone = prev) =>
                  \/ next[z] = running[z]
                  \/ TickDue(running[z]) /\ next[z] = [running[z] EXCEPT !.last = now]
  BY DEF ZoneClocks
<1>5. next = [z \in Zones |-> next[z]]
  BY DEF ZoneClocks
<1> HIDE DEF next, fresh, prev
<1>6. ASSUME NEW z \in Zones
      PROVE  next[z] \in Clock \cup {Away}
  <2>1. running[z] \in Clock \cup {Away}
    OBVIOUS
  <2>2. QED
    BY <1>1, <1>2, <1>4, <2>1
<1>7. next \in [Zones -> Clock \cup {Away}]
  BY <1>5, <1>6
<1>8. ASSUME zone = prev, zone # NoZone, running[zone] # Away
      PROVE  next[zone] # Away /\ next[zone].enter = running[zone].enter
  <2>1. zone \in Zones /\ running[zone] \in Clock \cup {Away}
    BY <1>8
  <2>2. QED
    BY <1>2, <1>3, <1>4, <1>8, <2>1
<1>9. QED
  BY <1>7, <1>8 DEF next, prev

\* What the sighting d adds to a profile keeps its type, and whoever is seen for
\* the first time is looked at.
LEMMA JudgedTyped ==
  ASSUME FrameTypeOK, VerdictOnProfile, NEW d \in Detection, NEW p \in Judged(d)
  PROVE  /\ p \in Profile
         /\ p.frames > 0
         /\ Len(p.scores) <= ScoreWindow
         /\ p.scores # << >>
<1> DEFINE v == TrackOwner[d.track]
           q == profile[v]
           looks == IF ClothesLookedAt(v) THEN {<<c>> : c \in Clothing} ELSE {<< >>}
<1>1. v \in Visitors /\ camera \in Cameras /\ d.zone \in Zones \cup {NoZone}
  BY JourneyAssumption, CameraIsOne DEF Detection, FrameTypeOK
<1>2. q \in Profile /\ Len(q.scores) <= ScoreWindow /\ (q.frames > 0 => q.scores # << >>)
  BY <1>1 DEF FrameTypeOK, VerdictOnProfile
<1>3. PICK look \in looks :
        p = Observed(q, camera, {d.zone} \ {NoZone}, d.zone \in StaffZones, look)
  BY DEF Judged
<1>4. look \in Seq(Clothing) /\ Len(look) \in {0, 1} /\ (q.frames = 0 => Len(look) = 1)
  <2>1. CASE ClothesLookedAt(v)
    <3>1. PICK c \in Clothing : look = <<c>>
      BY <2>1
    <3>2. QED
      BY <3>1
  <2>2. CASE ~ClothesLookedAt(v)
    <3>1. look = << >> /\ q.frames # 0
      BY <2>2 DEF ClothesLookedAt
    <3>2. QED
      BY <3>1
  <2>3. QED
    BY <2>1, <2>2
<1> DEFINE all == q.scores \o look
           kept == IF Len(all) > ScoreWindow THEN Tail(all) ELSE all
<1>5. /\ p.frames = q.frames + 1
      /\ p.zones = q.zones \cup ({d.zone} \ {NoZone})
      /\ p.cameras = q.cameras \cup {camera}
      /\ p.scores = kept
      /\ p.area = (q.area \/ d.zone \in StaffZones)
      /\ p = [frames |-> p.frames, zones |-> p.zones, cameras |-> p.cameras,
              scores |-> p.scores, area |-> p.area]
  BY <1>3 DEF Observed
<1>6. /\ q.frames \in Nat /\ q.zones \in SUBSET Zones /\ q.cameras \in SUBSET Cameras
      /\ q.scores \in Seq(Clothing) /\ q.area \in BOOLEAN
  BY <1>2 DEF Profile
<1>7. ScoreWindow \in Nat \ {0}
  BY StaffAssumption
<1>8. all \in Seq(Clothing) /\ Len(all) = Len(q.scores) + Len(look)
  BY <1>4, <1>6
<1> HIDE DEF q, all
<1>9. Len(all) >= 1 /\ Len(all) <= ScoreWindow + 1
  <2>1. q.frames # 0 => Len(q.scores) # 0
    BY <1>2, <1>6
  <2>2. Len(q.scores) \in Nat
    BY <1>6
  <2>3. QED
    <3>1. Len(look) \in 0 .. 1 /\ Len(q.scores) <= ScoreWindow
      BY <1>2, <1>4
    <3>2. Len(look) = 1 \/ Len(q.scores) # 0
      BY <1>4, <2>1
    <3>3. \A b \in Nat, c \in 0 .. 1, w \in Nat \ {0} :
            (b <= w /\ (c = 1 \/ b # 0)) => b + c >= 1 /\ b + c <= w + 1
      OBVIOUS
    <3>4. Len(all) = Len(q.scores) + Len(look)
      BY <1>8
    <3>5. Len(q.scores) + Len(look) >= 1 /\ Len(q.scores) + Len(look) <= ScoreWindow + 1
      BY <1>7, <2>2, <3>1, <3>2, <3>3
    <3>6. QED
      BY <3>4, <3>5
<1>10. kept \in Seq(Clothing) /\ Len(kept) <= ScoreWindow /\ Len(kept) >= 1
  <2>1. CASE Len(all) > ScoreWindow
    <3>1. all # << >> /\ Len(all) = ScoreWindow + 1
      BY <1>7, <1>8, <1>9, <2>1
    <3>2. Tail(all) \in Seq(Clothing) /\ Len(Tail(all)) = ScoreWindow
      BY <1>7, <1>8, <3>1
    <3>3. QED
      BY <1>7, <2>1, <3>2
  <2>2. CASE ~(Len(all) > ScoreWindow)
    BY <1>7, <1>8, <1>9, <2>2
  <2>3. QED
    BY <2>1, <2>2
<1> HIDE DEF kept
<1>11. /\ p.frames \in Nat /\ p.frames > 0
       /\ p.zones \in SUBSET Zones
       /\ p.cameras \in SUBSET Cameras
       /\ p.scores \in Seq(Clothing) /\ Len(p.scores) <= ScoreWindow /\ Len(p.scores) >= 1
       /\ p.area \in BOOLEAN
  <2>1. p.frames \in Nat /\ p.frames > 0
    BY <1>5, <1>6
  <2>2. p.zones \in SUBSET Zones /\ p.cameras \in SUBSET Cameras
    BY <1>1, <1>5, <1>6
  <2>3. p.area \in BOOLEAN
    BY <1>5
  <2>4. QED
    BY <1>5, <1>10, <2>1, <2>2, <2>3
<1>12. p \in Profile
  BY <1>5, <1>11 DEF Profile
<1>13. p.scores # << >>
  BY <1>11
<1>14. QED
  BY <1>11, <1>12, <1>13

\* What judging a detection does, said of one visitor v with a crossing c and a
\* profile p.
Judges(d, p, v, c) ==
  /\ d = Head(todo) /\ todo' = Tail(todo)
  /\ p \in Judged(d)
  /\ v = TrackOwner[d.track]
  /\ c = IF camera = EntryCamera THEN Crossing(d.track, d.side) ELSE "none"
  /\ staff' = [staff EXCEPT ![v] = IsStaff(p)]
  /\ profile' = [profile EXCEPT ![v] = p]
  /\ behavior' = [behavior EXCEPT ![v] =
                    Updated(v, behavior[v], BehaviorEvents(d, IsStaff(p)))]
  /\ clocks' = [clocks EXCEPT ![camera][v] = ZoneClocks(v, d.zone, ClocksAfterCrossing(v, c))]
  /\ currentZone' = [currentZone EXCEPT ![camera][v] = d.zone]
  /\ billingPresent' =
       IF camera = BillingCamera /\ d.zone = QueueZone /\ ~IsStaff(p)
          /\ v \notin ToSet(billingPresent)
       THEN Append(billingPresent, v) ELSE billingPresent
  /\ IF camera = EntryCamera THEN Sight(d.track, d.side)
     ELSE UNCHANGED <<side, counter, recent, reported>>
  /\ UNCHANGED <<now, turn, inFrame, ended, inZone, place>>

\* JudgeNext is such a step.
LEMMA JudgeShape ==
  ASSUME FrameTypeOK, JudgeNext
  PROVE  /\ inFrame /\ todo # << >>
         /\ \E d \in Detection : \E p, v, c : Judges(d, p, v, c)
<1>1. inFrame /\ todo # << >> /\ todo' = Tail(todo)
  BY DEF JudgeNext, NextDetection
<1>2. UNCHANGED <<now, turn, inFrame, ended, inZone, place>>
  BY DEF JudgeNext, NextDetection, queueVars
<1> DEFINE d == Head(todo)
           v == TrackOwner[d.track]
           c == IF camera = EntryCamera THEN Crossing(d.track, d.side) ELSE "none"
<1>3. d \in Detection
  BY <1>1 DEF FrameTypeOK
<1>4. PICK p \in Judged(d) :
        /\ profile' = [profile EXCEPT ![v] = p]
        /\ See([d EXCEPT !.staff = IsStaff(p)])
        /\ behavior' = [behavior EXCEPT ![v] =
                          Updated(v, behavior[v], BehaviorEvents(d, IsStaff(p)))]
  BY DEF JudgeNext
<1>5. IF camera = EntryCamera
      THEN /\ recent' = [recent EXCEPT ![d.track] = Remember(recent[d.track], d.side)]
           /\ reported' = [reported EXCEPT ![d.track] =
                             IF c = "none" THEN reported[d.track] ELSE c]
      ELSE UNCHANGED <<recent, reported>>
  BY DEF JudgeNext
<1> DEFINE e == [d EXCEPT !.staff = IsStaff(p)]
<1>6. e.track = d.track /\ e.zone = d.zone /\ e.side = d.side /\ e.staff = IsStaff(p)
  BY <1>3 DEF Detection
<1>7. See(e)
  BY <1>4
<1> HIDE DEF d, e
<1>8. /\ IF camera = EntryCamera THEN UpdateLine(d.track, d.side) ELSE UNCHANGED lineVars
      /\ staff' = [staff EXCEPT ![v] = IsStaff(p)]
      /\ clocks' = [clocks EXCEPT ![camera][v] = ZoneClocks(v, d.zone, ClocksAfterCrossing(v, c))]
      /\ currentZone' = [currentZone EXCEPT ![camera][v] = d.zone]
      /\ billingPresent' =
           IF camera = BillingCamera /\ d.zone = QueueZone /\ ~IsStaff(p)
              /\ v \notin ToSet(billingPresent)
           THEN Append(billingPresent, v) ELSE billingPresent
  BY <1>6, <1>7 DEF See, InQueue
<1>9. IF camera = EntryCamera THEN Sight(d.track, d.side)
      ELSE UNCHANGED <<side, counter, recent, reported>>
  <2>1. CASE camera = EntryCamera
    BY <1>5, <1>8, <2>1 DEF Sight
  <2>2. CASE camera # EntryCamera
    BY <1>5, <1>8, <2>2 DEF lineVars
  <2>3. QED
    BY <2>1, <2>2
<1>10. Judges(d, p, v, c)
  BY <1>1, <1>2, <1>4, <1>8, <1>9 DEF Judges, d
<1>11. QED
  BY <1>1, <1>3, <1>10

\* A judgement keeps the types, and the classification follows the profile.
LEMMA JudgeTypes ==
  ASSUME JourneyInv, todo # << >>, NEW d \in Detection, NEW p, NEW v, NEW c, Judges(d, p, v, c)
  PROVE  /\ FrameTypeOK'
         /\ VerdictOnProfile'
<1>1. FrameTypeOK /\ VerdictOnProfile
  BY DEF JourneyInv
<1>2. /\ v \in Visitors /\ camera \in Cameras /\ d.zone \in Zones \cup {NoZone}
      /\ now \in Nat
  <2>1. TrackOwner \in [Tracks -> Visitors] /\ d.track \in Tracks /\ d.zone \in Zones \cup {NoZone}
    BY JourneyAssumption DEF Detection
  <2>2. QED
    BY <1>1, <2>1, CameraIsOne DEF FrameTypeOK, Judges
<1>3. /\ p \in Profile
      /\ p.frames > 0
      /\ Len(p.scores) <= ScoreWindow
      /\ p.scores # << >>
  BY <1>1, JudgedTyped DEF Judges
<1>4. IsStaff(p) \in BOOLEAN
  BY <1>3 DEF IsStaff, Profile
<1>5. todo' \in Seq(Detection)
  BY <1>1 DEF FrameTypeOK, Judges
<1>6. billingPresent' \in Seq(Visitors)
  BY <1>1, <1>2 DEF FrameTypeOK, Judges
<1>7. staff' \in [Visitors -> BOOLEAN] /\ profile' \in [Visitors -> Profile]
  BY <1>1, <1>2, <1>3, <1>4 DEF FrameTypeOK, Judges
<1>8. behavior' \in [Visitors -> BehaviorState]
  <2>1. behavior \in [Visitors -> BehaviorState] /\ behavior[v] \in BehaviorState
    BY <1>1, <1>2 DEF FrameTypeOK
  <2>2. Updated(v, behavior[v], BehaviorEvents(d, IsStaff(p))) \in BehaviorState
    BY <2>1, BehaviorAfterDetection DEF Judges
  <2>3. QED
    BY <2>1, <2>2 DEF Judges
<1>9. clocks' \in [Cameras -> [Visitors -> [Zones -> Clock \cup {Away}]]]
  <2>1. clocks \in [Cameras -> [Visitors -> [Zones -> Clock \cup {Away}]]]
    BY <1>1 DEF FrameTypeOK
  <2>2. ClocksAfterCrossing(v, c) \in [Zones -> Clock \cup {Away}]
    BY <1>2, <2>1 DEF ClocksAfterCrossing
  <2> DEFINE next == ZoneClocks(v, d.zone, ClocksAfterCrossing(v, c))
  <2>3. next \in [Zones -> Clock \cup {Away}]
    BY <1>2, <2>2, ZoneClocksTyped
  <2>4. clocks' = [clocks EXCEPT ![camera][v] = next]
    BY DEF Judges
  <2> HIDE DEF next
  <2>5. QED
    BY <1>2, <2>1, <2>3, <2>4
<1>10. currentZone' \in [Cameras -> [Visitors -> Zones \cup {NoZone}]]
  BY <1>1, <1>2 DEF FrameTypeOK, Judges
<1>11. UNCHANGED <<now, turn, inFrame, ended, inZone, place>>
  BY DEF Judges
<1>12. FrameTypeOK'
  BY <1>1, <1>5, <1>6, <1>7, <1>8, <1>9, <1>10, <1>11 DEF FrameTypeOK
<1>13. VerdictOnProfile'
  <2> SUFFICES ASSUME NEW u \in Visitors
               PROVE  /\ staff'[u] = IsStaff(profile'[u])
                      /\ Len(profile'[u].scores) <= ScoreWindow
                      /\ profile'[u].frames > 0 => profile'[u].scores # << >>
    BY DEF VerdictOnProfile
  <2>1. CASE u = v
    BY <1>1, <1>2, <1>3, <2>1 DEF Judges, FrameTypeOK
  <2>2. CASE u # v
    BY <1>1, <1>2, <2>2 DEF Judges, FrameTypeOK, VerdictOnProfile
  <2>3. QED
    BY <2>1, <2>2
<1>14. QED
  BY <1>12, <1>13

\* The visitor judged is on no other detection of the frame.
LEMMA JudgeKeepsQueue ==
  ASSUME JourneyInv, todo # << >>, NEW d \in Detection, NEW p, NEW v, NEW c, Judges(d, p, v, c)
  PROVE  OnceInFrame' /\ CustomersInQueue'
<1>1. /\ todo \in Seq(Detection) /\ billingPresent \in Seq(Visitors)
      /\ OnceInFrame /\ CustomersInQueue
      /\ staff \in [Visitors -> BOOLEAN]
  BY DEF JourneyInv, FrameTypeOK
<1>2. v \in Visitors
  BY JourneyAssumption DEF Judges, Detection
<1> DEFINE n == Len(todo)
<1>3. /\ n \in Nat /\ n >= 1 /\ d = todo[1]
      /\ DOMAIN todo = 1 .. n
      /\ DOMAIN todo' = 1 .. n - 1
      /\ \A i \in 1 .. n - 1 : todo'[i] = todo[i + 1]
  BY <1>1 DEF Judges
<1> HIDE DEF n
<1>4. OnceInFrame'
  <2> SUFFICES ASSUME NEW i \in 1 .. n - 1, NEW j \in 1 .. n - 1,
                      TrackOwner[todo'[i].track] = TrackOwner[todo'[j].track]
               PROVE  i = j
    BY <1>3 DEF OnceInFrame
  <2>1. i + 1 \in 1 .. n /\ j + 1 \in 1 .. n
    BY <1>3
  <2>2. TrackOwner[todo[i + 1].track] = TrackOwner[todo[j + 1].track]
    BY <1>3
  <2>3. i + 1 = j + 1
    BY <1>1, <1>3, <2>1, <2>2 DEF OnceInFrame
  <2>4. QED
    BY <2>3
<1>5. \A i \in DOMAIN todo' : TrackOwner[todo'[i].track] # v
  <2> SUFFICES ASSUME NEW i \in 1 .. n - 1, TrackOwner[todo'[i].track] = v
               PROVE  FALSE
    BY <1>3
  <2>1. i + 1 \in 1 .. n /\ 1 \in 1 .. n /\ v = TrackOwner[todo[1].track]
    BY <1>3 DEF Judges
  <2>2. i + 1 = 1
    BY <1>1, <1>3, <2>1 DEF OnceInFrame
  <2>3. QED
    BY <2>2
<1>6. CustomersInQueue'
  <2> SUFFICES ASSUME inFrame, camera = BillingCamera, NEW u \in ToSet(billingPresent')
               PROVE  ~staff'[u] /\ \A i \in DOMAIN todo' : TrackOwner[todo'[i].track] # u
    BY DEF CustomersInQueue, camera, Judges
  <2>1. 1 \in DOMAIN todo /\ TrackOwner[todo[1].track] = v
    BY <1>3 DEF Judges
  <2>2. v \notin ToSet(billingPresent)
    BY <1>1, <2>1 DEF CustomersInQueue
  <2>3. CASE u = v
    <3>1. billingPresent' # billingPresent
      BY <2>2, <2>3
    <3>2. ~IsStaff(p)
      BY <3>1 DEF Judges
    <3>3. QED
      BY <1>1, <1>2, <1>5, <2>3, <3>2 DEF Judges
  <2>4. CASE u # v
    <3>1. u \in ToSet(billingPresent)
      BY <1>1, <2>4 DEF Judges, ToSet
    <3>2. ~staff[u] /\ \A i \in DOMAIN todo : TrackOwner[todo[i].track] # u
      BY <1>1, <3>1 DEF CustomersInQueue
    <3>3. \A i \in DOMAIN todo' : TrackOwner[todo'[i].track] # u
      BY <1>3, <3>2
    <3>4. staff'[u] = staff[u]
      BY <1>1, <2>4 DEF Judges
    <3>5. QED
      BY <3>2, <3>3, <3>4
  <2>5. QED
    BY <2>3, <2>4
<1>7. QED
  BY <1>4, <1>6

\* After a judgement EXITED are those whose latest crossing is an EXIT.
LEMMA JudgeKeepsExited ==
  ASSUME JourneyInv, NEW d \in Detection, NEW p, NEW v, NEW c, Judges(d, p, v, c)
  PROVE  ExitedSinceExit'
<1> SUFFICES ASSUME NEW t \in Tracks
             PROVE  behavior'[TrackOwner[t]] = "EXITED" <=> reported'[t] = "EXIT"
  BY DEF ExitedSinceExit
<1>1. /\ TrackOwner \in [Tracks -> Visitors]
      /\ d.track \in Tracks
      /\ v = TrackOwner[d.track]
  BY JourneyAssumption DEF Judges, Detection
<1>2. /\ behavior \in [Visitors -> BehaviorState]
      /\ reported \in [Tracks -> {"none", "ENTRY", "EXIT"}]
      /\ behavior[TrackOwner[t]] = "EXITED" <=> reported[t] = "EXIT"
  BY DEF JourneyInv, FrameTypeOK, CrossInv, CrossTypeOK, ExitedSinceExit
<1>3. c \in {"none", "ENTRY", "EXIT"}
  BY DEF Judges, Crossing
<1>4. reported' = [reported EXCEPT ![d.track] = IF c = "none" THEN reported[d.track] ELSE c]
  BY <1>2 DEF Judges, Sight
<1>5. behavior' = [behavior EXCEPT ![v] =
                     Updated(v, behavior[v], BehaviorEvents(d, IsStaff(p)))]
  BY DEF Judges
<1>6. CASE TrackOwner[t] # v
  BY <1>1, <1>2, <1>4, <1>5, <1>6
<1>7. CASE TrackOwner[t] = v
  <2>1. t = d.track
    <3>1. PICK x \in Tracks : {y \in Tracks : TrackOwner[y] = v} = {x}
      BY <1>1, JourneyAssumption
    <3>2. QED
      BY <1>1, <1>7, <3>1
  <2> DEFINE u == Updated(v, behavior[v], BehaviorEvents(d, IsStaff(p)))
  <2>2. /\ c = "EXIT" => u = "EXITED"
        /\ c = "ENTRY" => u # "EXITED"
        /\ c = "none" => (u = "EXITED" <=> behavior[v] = "EXITED")
    <3>1. behavior[v] \in BehaviorState
      BY <1>1, <1>2
    <3>2. QED
      BY <3>1, BehaviorAfterDetection DEF Judges
  <2>3. behavior'[v] = u
    BY <1>1, <1>2, <1>5
  <2> HIDE DEF u
  <2>4. QED
    BY <1>2, <1>3, <1>4, <1>7, <2>1, <2>2, <2>3
<1>8. QED
  BY <1>6, <1>7

\* After a judgement who dwells is in one zone of one camera for long enough.
LEMMA JudgeKeepsDwelling ==
  ASSUME JourneyInv, NEW d \in Detection, NEW p, NEW v, NEW c, Judges(d, p, v, c)
  PROVE  DwellingInZone'
<1> SUFFICES ASSUME ended = {}, NEW u \in Visitors, behavior'[u] = "DWELLING"
             PROVE  \E k \in Cameras : LET z == currentZone'[k][u] IN
                      /\ z # NoZone /\ clocks'[k][u][z] # Away
                      /\ now - clocks'[k][u][z].enter >= MinBrowseDwell
  BY DEF DwellingInZone, Judges
<1>1. /\ TrackOwner \in [Tracks -> Visitors]
      /\ d.track \in Tracks
      /\ d.zone \in Zones \cup {NoZone}
      /\ v = TrackOwner[d.track]
      /\ v \in Visitors
      /\ camera \in Cameras
  BY JourneyAssumption, CameraIsOne DEF Judges, Detection, JourneyInv, FrameTypeOK
<1>2. /\ behavior \in [Visitors -> BehaviorState]
      /\ now \in Nat
      /\ currentZone \in [Cameras -> [Visitors -> Zones \cup {NoZone}]]
      /\ clocks \in [Cameras -> [Visitors -> [Zones -> Clock \cup {Away}]]]
  BY DEF JourneyInv, FrameTypeOK
<1> DEFINE running == ClocksAfterCrossing(v, c)
           next == ZoneClocks(v, d.zone, running)
           clock == running[d.zone]
           prev == currentZone[camera][v]
           new == Updated(v, behavior[v], BehaviorEvents(d, IsStaff(p)))
<1>3. /\ currentZone' = [currentZone EXCEPT ![camera][v] = d.zone]
      /\ clocks' = [clocks EXCEPT ![camera][v] = next]
      /\ behavior' = [behavior EXCEPT ![v] = new]
  BY DEF Judges
<1>4. running \in [Zones -> Clock \cup {Away}] /\ (c # "EXIT" => running = clocks[camera][v])
  BY <1>1, <1>2 DEF ClocksAfterCrossing
<1>5. /\ next \in [Zones -> Clock \cup {Away}]
      /\ (d.zone = prev /\ d.zone # NoZone /\ clock # Away) =>
           next[d.zone] # Away /\ next[d.zone].enter = clock.enter
  BY <1>1, <1>2, <1>4, ZoneClocksTyped
<1>6. new = "DWELLING" =>
        /\ c # "EXIT"
        /\ \/ Dwells(v, d.zone, clock) /\ DwellSince(clock) >= MinBrowseDwell
           \/ behavior[v] = "DWELLING" /\ (d.zone = prev \/ prev = NoZone)
  <2>1. behavior[v] \in BehaviorState
    BY <1>1, <1>2
  <2>2. QED
    BY <2>1, BehaviorAfterDetection DEF Judges
<1> HIDE DEF running, next, clock, prev, new
<1>7. /\ currentZone'[camera][v] = d.zone
      /\ clocks'[camera][v] = next
      /\ behavior'[v] = new
      /\ \A k \in Cameras, w \in Visitors :
           (k # camera \/ w # v) => /\ currentZone'[k][w] = currentZone[k][w]
                                    /\ clocks'[k][w] = clocks[k][w]
      /\ \A w \in Visitors : w # v => behavior'[w] = behavior[w]
  <2>1. next \in [Zones -> Clock \cup {Away}]
    BY <1>5
  <2>2. /\ clocks'[camera][v] = next
        /\ \A k \in Cameras, w \in Visitors : (k # camera \/ w # v) => clocks'[k][w] = clocks[k][w]
    BY <1>1, <1>2, <1>3
  <2>3. /\ currentZone'[camera][v] = d.zone
        /\ \A k \in Cameras, w \in Visitors :
             (k # camera \/ w # v) => currentZone'[k][w] = currentZone[k][w]
    BY <1>1, <1>2, <1>3
  <2>4. behavior'[v] = new /\ \A w \in Visitors : w # v => behavior'[w] = behavior[w]
    BY <1>1, <1>2, <1>3
  <2>5. QED
    BY <2>2, <2>3, <2>4
<1>8. \A w \in Visitors : behavior[w] = "DWELLING" =>
        \E k \in Cameras : LET z == currentZone[k][w] IN
          /\ z # NoZone /\ clocks[k][w][z] # Away
          /\ now - clocks[k][w][z].enter >= MinBrowseDwell
  BY DEF JourneyInv, DwellingInZone
<1>9. CASE u # v
  <2>1. behavior[u] = "DWELLING"
    BY <1>7, <1>9
  <2>2. PICK k \in Cameras : LET z == currentZone[k][u] IN
          /\ z # NoZone /\ clocks[k][u][z] # Away
          /\ now - clocks[k][u][z].enter >= MinBrowseDwell
    BY <1>8, <2>1
  <2>3. currentZone'[k][u] = currentZone[k][u] /\ clocks'[k][u] = clocks[k][u]
    BY <1>7, <1>9
  <2>4. QED
    BY <2>2, <2>3
<1>10. CASE u = v
  <2>1. new = "DWELLING" /\ c # "EXIT"
    BY <1>6, <1>7, <1>10
  <2>2. CASE Dwells(v, d.zone, clock) /\ DwellSince(clock) >= MinBrowseDwell
    <3>1. d.zone = prev /\ d.zone # NoZone /\ clock # Away /\ now - clock.enter >= MinBrowseDwell
      BY <2>2 DEF Dwells, TickDue, DwellSince, prev
    <3>2. next[d.zone] # Away /\ next[d.zone].enter = clock.enter
      BY <1>5, <3>1
    <3>3. QED
      BY <1>1, <1>7, <1>10, <3>1, <3>2
  <2>3. CASE behavior[v] = "DWELLING" /\ (d.zone = prev \/ prev = NoZone)
    <3>1. PICK k \in Cameras : LET z == currentZone[k][v] IN
            /\ z # NoZone /\ clocks[k][v][z] # Away
            /\ now - clocks[k][v][z].enter >= MinBrowseDwell
      BY <1>1, <1>8, <2>3
    <3>2. CASE k # camera
      <4>1. currentZone'[k][v] = currentZone[k][v] /\ clocks'[k][v] = clocks[k][v]
        BY <1>1, <1>7, <3>2
      <4>2. QED
        BY <1>10, <3>1, <4>1
    <3>3. CASE k = camera
      <4>1. d.zone = prev /\ d.zone # NoZone /\ clock # Away /\ now - clock.enter >= MinBrowseDwell
        BY <1>4, <2>1, <2>3, <3>1, <3>3 DEF prev, clock
      <4>2. next[d.zone] # Away /\ next[d.zone].enter = clock.enter
        BY <1>5, <4>1
      <4>3. QED
        BY <1>1, <1>7, <1>10, <4>1, <4>2
    <3>4. QED
      BY <3>2, <3>3
  <2>4. QED
    BY <1>6, <2>1, <2>2, <2>3
<1>11. QED
  BY <1>9, <1>10

\* The body of the loop over the detections keeps JourneyInv.
LEMMA JudgeKeepsInv ==
  ASSUME JourneyInv, JudgeNext
  PROVE  JourneyInv'
<1>1. FrameTypeOK
  BY DEF JourneyInv
<1>2. inFrame /\ todo # << >> /\ \E d \in Detection : \E p, v, c : Judges(d, p, v, c)
  BY <1>1, JudgeShape
<1>3. PICK d \in Detection : \E p, v, c : Judges(d, p, v, c)
  BY <1>2
<1>4. PICK p, v, c : Judges(d, p, v, c)
  BY <1>3
<1>5. FrameTypeOK' /\ VerdictOnProfile'
  BY <1>2, <1>4, JudgeTypes
<1>6. OnceInFrame' /\ CustomersInQueue'
  BY <1>2, <1>4, JudgeKeepsQueue
<1>7. ExitedSinceExit' /\ DwellingInZone'
  BY <1>4, JudgeKeepsExited, JudgeKeepsDwelling
<1>8. CrossInv'
  <2>1. CASE camera = EntryCamera
    <3>1. Sight(d.track, d.side) /\ d.track \in Tracks /\ d.side \in Side
      BY <1>4, <2>1 DEF Judges, Detection
    <3>2. QED
      BY <3>1, SightKeepsInv DEF JourneyInv
  <2>2. CASE camera # EntryCamera
    <3>1. UNCHANGED <<lineVars, recent, reported>>
      BY <1>4, <2>2 DEF Judges, lineVars
    <3>2. QED
      BY <3>1, LineRests DEF JourneyInv
  <2>3. QED
    BY <2>1, <2>2
<1>9. StaffLeaveQueue'
  BY <1>2, <1>4 DEF StaffLeaveQueue, Judges
<1>10. QED
  BY <1>5, <1>6, <1>7, <1>8, <1>9 DEF JourneyInv

\* Every step keeps JourneyInv.
LEMMA JourneyStep ==
  ASSUME JourneyInv, [JourneyNext]_journeyVars
  PROVE  JourneyInv'
<1>1. CASE BeginFrame
  BY <1>1, BeginKeepsInv
<1>2. CASE JudgeNext
  BY <1>2, JudgeKeepsInv
<1>3. CASE CloseFrame
  BY <1>3, CloseKeepsInv
<1>4. CASE FlushVideo
  BY <1>4, FlushKeepsInv
<1>5. CASE SkipCamera
  BY <1>5, SkipKeepsInv
<1>6. CASE UNCHANGED journeyVars
  <2>1. UNCHANGED <<now, turn, inFrame, todo, billingPresent, ended, currentZone, clocks, staff,
                    inZone, recent, reported, behavior, profile, place>>
    BY <1>6 DEF journeyVars, cameraVars, frameVars, zoneVars, queueVars
  <2>2. UNCHANGED <<lineVars, recent, reported>>
    BY <1>6 DEF journeyVars, cameraVars
  <2>3. CrossInv'
    BY <2>2, LineRests DEF JourneyInv
  <2>4. FrameTypeOK'
    BY <2>1 DEF JourneyInv, FrameTypeOK
  <2>5. OnceInFrame' /\ CustomersInQueue' /\ VerdictOnProfile'
    BY <2>1 DEF JourneyInv, OnceInFrame, CustomersInQueue, VerdictOnProfile, camera
  <2>6. StaffLeaveQueue' /\ ExitedSinceExit' /\ DwellingInZone'
    BY <2>1 DEF JourneyInv, StaffLeaveQueue, ExitedSinceExit, DwellingInZone
  <2>7. QED
    BY <2>3, <2>4, <2>5, <2>6 DEF JourneyInv
<1>7. QED
  BY <1>1, <1>2, <1>3, <1>4, <1>5, <1>6 DEF JourneyNext

\* The frames, the detector, the classifier and the behaviour keep JourneyInv.
THEOREM JourneyInvariant == JourneySpec => []JourneyInv
<1>1. JourneyInit => JourneyInv
  BY JourneyInitInv
<1>2. JourneyInv /\ [JourneyNext]_journeyVars => JourneyInv'
  BY JourneyStep
<1>3. QED
  BY <1>1, <1>2, PTL DEF JourneySpec

\* Nobody becomes staff by behaviour alone.
LEMMA InvShowsEvidence ==
  ASSUME JourneyInv
  PROVE  StaffShowEvidence
<1> SUFFICES ASSUME NEW v \in Visitors, staff[v], ~profile[v].area
             PROVE  /\ profile[v].frames >= FewFrames
                    /\ profile[v].scores # << >>
                    /\ 4 * Cardinality({i \in DOMAIN profile[v].scores :
                                          DarkEnough(profile[v].scores[i])})
                         >= Len(profile[v].scores)
  BY DEF StaffShowEvidence, ClothesOfStaff
<1> DEFINE p == profile[v]
<1>1. p \in Profile
  BY DEF JourneyInv, FrameTypeOK
<1>2. IsStaff(p) /\ (p.frames > 0 => p.scores # << >>)
  BY DEF JourneyInv, VerdictOnProfile
<1>3. p.frames \in Nat /\ p.scores \in Seq(Clothing)
  BY <1>1 DEF Profile
<1>4. IsFiniteSet(p.zones) /\ IsFiniteSet(p.cameras)
  <2>1. p.zones \in SUBSET Zones /\ p.cameras \in SUBSET Cameras
    BY <1>1 DEF Profile
  <2>2. IsFiniteSet(Zones) /\ IsFiniteSet(Cameras)
    BY JourneyAssumption, FiniteElements DEF Cameras
  <2>3. QED
    BY <2>1, <2>2, FS_Subset
<1>5. p.frames >= FewFrames /\ FewFrames \in Nat \ {0}
  BY <1>2, StaffAssumption DEF IsStaff
<1>6. p.scores # << >>
  BY <1>2, <1>3, <1>5
<1> HIDE DEF p
<1>7. 4 * Cardinality({i \in DOMAIN p.scores : DarkEnough(p.scores[i])}) >= Len(p.scores)
  BY <1>2, <1>3, <1>4, <1>6, StaffEvidence DEF p
<1>8. QED
  BY <1>5, <1>6, <1>7 DEF p

\* The verdict on a visitor rests on evidence: the areas it was seen in, or the
\* frames and the clothes; and the queue of the billing camera follows it.
THEOREM StaffVerdictHolds == JourneySpec => []StaffVerdictSound
<1>1. JourneyInv => StaffVerdictSound
  <2> SUFFICES ASSUME JourneyInv
               PROVE  StaffVerdictSound
    OBVIOUS
  <2>1. JourneyTypeOK
    BY DEF JourneyInv, FrameTypeOK, VerdictOnProfile, JourneyTypeOK, Profile
  <2>2. AreaIsStaff
    BY DEF JourneyInv, VerdictOnProfile, AreaIsStaff, IsStaff
  <2>3. QED
    BY <2>1, <2>2, InvShowsEvidence DEF JourneyInv, StaffVerdictSound
<1>2. QED
  BY <1>1, JourneyInvariant, PTL

\* The behaviour state follows the reported crossings and the zones of all
\* cameras, in whatever order their events fall.
THEOREM BehaviorDoesFollow == JourneySpec => []BehaviorFollowsVisitor
<1>1. JourneyInv => BehaviorFollowsVisitor
  BY DEF JourneyInv, BehaviorFollowsVisitor
<1>2. QED
  BY <1>1, JourneyInvariant, PTL

\* To the detector the frames of all cameras are sightings at the line: what
\* holds of it for any sightings holds in the pipeline.
THEOREM JourneyCrossesLine == JourneySpec => CrossSpec
<1>1. JourneyInit => CrossInit
  BY DEF JourneyInit
<1>2. JourneyInv /\ [JourneyNext]_journeyVars => [CrossNext]_crossVars
  <2> SUFFICES ASSUME JourneyInv, [JourneyNext]_journeyVars
               PROVE  [CrossNext]_crossVars
    OBVIOUS
  <2>1. CASE JudgeNext
    <3>1. \E d \in Detection : \E p, v, c : Judges(d, p, v, c)
      BY <2>1, JudgeShape DEF JourneyInv
    <3>2. PICK d \in Detection : \E p, v, c : Judges(d, p, v, c)
      BY <3>1
    <3>3. PICK p, v, c : Judges(d, p, v, c)
      BY <3>2
    <3>4. CASE camera = EntryCamera
      <4>1. Sight(d.track, d.side) /\ d.track \in Tracks /\ d.side \in Side
        BY <3>3, <3>4 DEF Judges, Detection
      <4>2. QED
        BY <4>1 DEF CrossNext
    <3>5. CASE camera # EntryCamera
      BY <3>3, <3>5 DEF Judges, crossVars, lineVars
    <3>6. QED
      BY <3>4, <3>5
  <2>2. CASE BeginFrame
    BY <2>2 DEF BeginFrame, NewFrame, crossVars, lineVars
  <2>3. CASE CloseFrame
    BY <2>3 DEF CloseFrame, EndFrame, crossVars, lineVars
  <2>4. CASE FlushVideo
    BY <2>4 DEF FlushVideo, EndVideo, crossVars, lineVars
  <2>5. CASE SkipCamera
    BY <2>5 DEF SkipCamera, SkipEnded, crossVars, lineVars
  <2>6. CASE UNCHANGED journeyVars
    BY <2>6 DEF journeyVars, cameraVars, crossVars
  <2>7. QED
    BY <2>1, <2>2, <2>3, <2>4, <2>5, <2>6 DEF JourneyNext
<1>3. QED
  BY <1>1, <1>2, JourneyInvariant, PTL DEF JourneySpec, CrossSpec

=============================================================================
