--------------------------- MODULE VisitToApiProofs ---------------------------
(***************************************************************************)
(* Theorems about the way from the shop floor to the sessions, for any     *)
(* visitors, cameras, zones, places and frames that miss anybody.          *)
(*                                                                         *)
(* An event waits in the outbox between the camera that wrote it and the   *)
(* session it changes, so that each invariant says where a fact is: still  *)
(* in the outbox, or at the API.  Nobody walks and no camera begins a      *)
(* frame while events wait, so that what waits for a visitor is of the     *)
(* place where the visitor stands.                                         *)
(***************************************************************************)
EXTENDS VisitToApi, SessionizerProofs, ListLemmas

\* A line of events.jsonl.
Line == [type : EventType, visitor : Visitors, time : Nat, zone : Zones \cup {NoZone},
         dwell : Nat, staff : BOOLEAN]

\* The events of v of these types on a list, and those that wait.
Told(lines, v, types) ==
  {i \in DOMAIN lines : lines[i].visitor = v /\ lines[i].type \in types}

Waiting(v, types) == Told(outbox, v, types)

Rounds == 1 .. Len(CameraOrder)

FrameTypeOK ==
  /\ now \in Nat
  /\ turn \in Rounds
  /\ inFrame \in BOOLEAN
  /\ todo \in Seq(C!Detection)
  /\ billingPresent \in Seq(Visitors)
  /\ ended \subseteq C!Cameras
  /\ outbox \in Seq(Line)
  /\ ~inFrame => todo = << >>

\* The clocks and the queue do not run ahead of the frames.
CameraTypeOK ==
  /\ currentZone \in [C!Cameras -> [Visitors -> Zones \cup {NoZone}]]
  /\ clocks \in [C!Cameras -> [Visitors -> [Zones -> C!Clock \cup {Away}]]]
  /\ \A c \in C!Cameras, v \in Visitors, z \in Zones :
       clocks[c][v][z] # Away => clocks[c][v][z].enter <= now
  /\ exitCount \in [Visitors -> Nat]
  /\ staff \in [Visitors -> BOOLEAN]
  /\ inZone \in [Visitors -> Nat \cup {Away}]
  /\ exited \in [Visitors -> C!Stay \cup {Away}]
  /\ \A v \in Visitors :
       /\ inZone[v] # Away => inZone[v] <= now
       /\ exited[v] # Away => exited[v].enter <= exited[v].exit

WalkTypeOK ==
  /\ place \in [Visitors -> Places]
  /\ noticed \subseteq C!Cameras \X Visitors
  /\ spent \in [C!Cameras -> [Visitors -> [Zones -> Nat]]]
  /\ met \subseteq C!Cameras \X Visitors
  /\ crossed \in [Visitors -> {"none", "ENTRY", "EXIT"}]
  /\ exits \subseteq Visitors
  /\ left \subseteq Visitors
  /\ late \subseteq Visitors

VisitTypeOK == SessionInv /\ FrameTypeOK /\ CameraTypeOK /\ WalkTypeOK

\* Away from the line, which alone clears clocks, the clock of the zone a camera
\* holds a visitor to be in runs.
ClockRuns ==
  \A c \in C!Cameras \ {EntryCamera}, v \in Visitors :
    currentZone[c][v] # NoZone => clocks[c][v][currentZone[c][v]] # Away

\* What a frame shows is where the visitors stand, in the view of its camera.
FrameShowsPlace ==
  inFrame =>
    /\ \A d \in ToSet(todo) :
         LET p == View[place[TrackOwner[d.track]]][C!camera]
         IN  p # Hidden /\ d.zone = p.zone /\ d.side = p.side
    /\ \A v \in ToSet(billingPresent) :
         C!camera = BillingCamera /\ AtQueue(place[v])

Crossings == {"ENTRY", "REENTRY", "EXIT"}

\* Whose EXIT waits is outside; whose ENTRY waits in the queue is late.
CrossingAtEntry ==
  \A v \in Visitors :
    /\ Waiting(v, {"EXIT"}) # {} => AtDoor(place[v])
    /\ Waiting(v, {"ENTRY"}) # {} /\ inZone[v] # Away => v \in late

\* The crossings of a round are sent before the next camera has its frame.
CrossingsFirst ==
  inFrame /\ C!camera # EntryCamera => \A v \in Visitors : Waiting(v, Crossings) = {}

\* The JOINs of a frame are its last events.
JoinsComeLast ==
  inFrame => \A v \in Visitors : Waiting(v, {"BILLING_QUEUE_JOIN"}) = {}

\* Somebody inside has an open session, or the event that opens one waits and no
\* EXIT comes after it.
EnteredWillHave ==
  \A v \in Visitors : crossed[v] = "ENTRY" =>
    \/ active[v] # None /\ Waiting(v, {"EXIT"}) = {}
    \/ \E i \in Waiting(v, {"ENTRY", "REENTRY"}) : \A j \in Waiting(v, {"EXIT"}) : j < i

\* The passport has the exits that were reported, unless the visitor has another.
ExitsOnPassport ==
  \A v \in Visitors :
    /\ exitCount[v] > 0 => v \in exits
    /\ v \in exits => exitCount[v] > 0 \/ v \in Shared

\* A re-entry counted or waiting, and of those inside every one after an exit that
\* the passport has.
ReentriesExplained ==
  \A v \in Visitors :
    LET told == reentryCounts[v] > 0 \/ Waiting(v, {"REENTRY"}) # {}
    IN  /\ told => v \in exits
        /\ crossed[v] = "ENTRY" /\ v \in exits => told \/ v \in Shared

Candidate(v) == active[v] # None /\ sessions[active[v]].candidate

\* Nobody outside since the EXIT queues: what session there is gets closed, or is
\* no candidate and will not be one.
LeftDoNotQueue ==
  \A v \in left :
    /\ AtDoor(place[v])
    /\ Waiting(v, {"BILLING_QUEUE_JOIN"}) = {}
    /\ Waiting(v, {"EXIT"}) # {} \/ ~Candidate(v)

\* A visitor in the queue who stands there is late, is a candidate, or the JOIN
\* waits; one who does not stand there will be missed in a frame of this round.
QueueWillBeCandidate ==
  BillingCamera \notin ended => \A v \in Visitors : inZone[v] # Away =>
    IF AtQueue(place[v])
    THEN v \in late \/ Candidate(v) \/ Waiting(v, {"BILLING_QUEUE_JOIN"}) # {}
    ELSE /\ turn > 1 \/ inFrame
         /\ \E p \in turn .. Len(CameraOrder) : CameraOrder[p] = BillingCamera

\* Who entered while in the queue has the session of the ENTRY, or will have it, and
\* no JOIN for it.
LateIsNoCandidate ==
  \A v \in late :
    /\ inZone[v] # Away
    /\ Waiting(v, {"BILLING_QUEUE_JOIN"}) = {}
    /\ Waiting(v, {"ENTRY"}) # {} \/ ~Candidate(v)
    /\ BillingCamera \notin ended /\ AtQueue(place[v]) => crossed[v] = "ENTRY"

VisitInv ==
  /\ VisitTypeOK
  /\ ClockMatchesZone
  /\ ClockRuns
  /\ FrameShowsPlace
  /\ CrossingAtEntry
  /\ CrossingsFirst
  /\ JoinsComeLast
  /\ EnteredWillHave
  /\ ExitsOnPassport
  /\ ReentriesExplained
  /\ LeftDoNotQueue
  /\ QueueWillBeCandidate
  /\ LateIsNoCandidate

DwellTypes == {"ZONE_EXIT", "ZONE_DWELL"}

WaitingDwell(v, z) ==
  SumOver([i \in DOMAIN outbox |-> outbox[i].dwell],
          {i \in Waiting(v, DwellTypes) : outbox[i].zone = z})

\* The round that begins will add to the time camera c has v in z.
Counting(c, v, z) ==
  /\ <<c, v>> \in noticed
  /\ InZone(place[v], c, z)
  /\ c \notin ended

\* Whom a camera noticed in a zone has a running clock there, or is still to be
\* looked at in its frame.
NoticedClock ==
  \A c \in C!Cameras \ {EntryCamera}, v \in Visitors, z \in Zones :
    Counting(c, v, z) =>
      \/ clocks[c][v][z] # Away
      \/ c = C!camera /\ \E d \in ToSet(todo) : TrackOwner[d.track] = v

\* The time spent is on the sessions, waits in the outbox or is on the clock; between
\* two rounds the clocks are one ahead.
DwellKept ==
  \A c \in C!Cameras \ {EntryCamera}, v \in Visitors, z \in Zones :
    ApiDwell(v, z) + WaitingDwell(v, z) + C!DwellSince(clocks[c][v][z]) >=
      spent[c][v][z] + (IF turn = 1 /\ ~inFrame /\ Counting(c, v, z) THEN 1 ELSE 0)

DwellInv == VisitInv /\ NoticedClock /\ DwellKept

-----------------------------------------------------------------------------
(***************************************************************************)
(* The outbox: what a camera writes to it and what is read from it.        *)
(***************************************************************************)

\* The cameras' lists are made by the operators of the library.
LEMMA CamerasLists ==
  ASSUME NEW S
  PROVE  /\ C!Cardinality(S) = Cardinality(S)
         /\ C!SetToSeq(S) = SetToSeq(S)
         /\ C!ToSet(S) = ToSet(S)
<1>1. C!Cardinality(S) = Cardinality(S)
  BY DEF C!Cardinality, Cardinality
<1>2. C!SetToSeq(S) = SetToSeq(S)
  BY <1>1, Zenon DEF C!SetToSeq, SetToSeq, C!IsInjective, IsInjective
<1>3. C!ToSet(S) = ToSet(S)
  BY DEF C!ToSet, ToSet
<1>4. QED
  BY <1>1, <1>2, <1>3

\* What an empty outbox says.
LEMMA NothingWaits ==
  ASSUME outbox = << >>
  PROVE  \A v, types : Waiting(v, types) = {}
BY DEF Waiting, Told

\* The lines E join the outbox at its end.
LEMMA WaitingWrites ==
  ASSUME outbox \in Seq(Line), NEW E \in Seq(Line), outbox' = outbox \o E,
         NEW v, NEW types
  PROVE  /\ Waiting(v, types) \subseteq Waiting(v, types)'
         /\ \A i \in Waiting(v, types) : i \in 1 .. Len(outbox) /\ outbox'[i] = outbox[i]
         /\ (\A e \in ToSet(E) : ~(e.visitor = v /\ e.type \in types)) =>
              Waiting(v, types)' = Waiting(v, types)
         /\ \A e \in ToSet(E) : e.visitor = v /\ e.type \in types =>
              \E i \in Waiting(v, types)' : i > Len(outbox) /\ outbox'[i] = e
<1> DEFINE o == outbox'
<1>1. /\ o \in Seq(Line)
      /\ Len(o) = Len(outbox) + Len(E)
      /\ \A i \in 1 .. Len(outbox) : o[i] = outbox[i]
      /\ \A j \in 1 .. Len(E) : o[Len(outbox) + j] = E[j]
  BY ConcatSays
<1>2. /\ DOMAIN outbox = 1 .. Len(outbox) /\ DOMAIN E = 1 .. Len(E) /\ DOMAIN o = 1 .. Len(o)
      /\ Len(outbox) \in Nat /\ Len(E) \in Nat
  BY <1>1
<1>3. /\ Waiting(v, types) = {i \in DOMAIN outbox : outbox[i].visitor = v /\ outbox[i].type \in types}
      /\ Waiting(v, types)' = {i \in DOMAIN o : o[i].visitor = v /\ o[i].type \in types}
  BY DEF Waiting, Told
<1> HIDE DEF o
<1>4. \A i \in Waiting(v, types) : i \in 1 .. Len(outbox) /\ o[i] = outbox[i] /\ i \in Waiting(v, types)'
  BY <1>1, <1>2, <1>3
<1>5. ASSUME \A e \in ToSet(E) : ~(e.visitor = v /\ e.type \in types)
      PROVE  Waiting(v, types)' = Waiting(v, types)
  <2> SUFFICES ASSUME NEW i \in Waiting(v, types)', i \notin Waiting(v, types)
               PROVE  FALSE
    BY <1>4
  <2>1. i \in 1 .. Len(o) /\ ~(i \in 1 .. Len(outbox))
    BY <1>1, <1>2, <1>3
  <2>2. i - Len(outbox) \in 1 .. Len(E) /\ i = Len(outbox) + (i - Len(outbox))
    BY <1>1, <1>2, <2>1
  <2>3. o[i] = E[i - Len(outbox)] /\ E[i - Len(outbox)] \in ToSet(E)
    BY <1>1, <1>2, <2>2 DEF ToSet
  <2>4. QED
    BY <1>3, <1>5, <2>3
<1>6. ASSUME NEW e \in ToSet(E), e.visitor = v, e.type \in types
      PROVE  \E i \in Waiting(v, types)' : i > Len(outbox) /\ o[i] = e
  <2>1. PICK j \in 1 .. Len(E) : E[j] = e
    BY <1>2 DEF ToSet
  <2>2. Len(outbox) + j \in DOMAIN o /\ o[Len(outbox) + j] = e /\ Len(outbox) + j > Len(outbox)
    BY <1>1, <1>2, <2>1
  <2>3. QED
    BY <1>3, <1>6, <2>2
<1>7. QED
  BY <1>4, <1>5, <1>6 DEF o

\* The first line leaves the outbox.
LEMMA WaitingReads ==
  ASSUME outbox \in Seq(Line), outbox # << >>, outbox' = Tail(outbox), NEW v, NEW types
  PROVE  /\ outbox' \in Seq(Line)
         /\ Head(outbox) \in Line /\ Head(outbox) = outbox[1]
         /\ Waiting(v, types) \subseteq Nat \ {0}
         /\ Waiting(v, types)' \subseteq Nat \ {0}
         /\ \A i \in Nat : i \in Waiting(v, types)' <=> i # 0 /\ i + 1 \in Waiting(v, types)
         /\ \A i \in Waiting(v, types)' : outbox'[i] = outbox[i + 1]
         /\ 1 \in Waiting(v, types) <=> Head(outbox).visitor = v /\ Head(outbox).type \in types
<1> DEFINE o == outbox'
<1>1. /\ o \in Seq(Line)
      /\ Head(outbox) \in Line /\ Head(outbox) = outbox[1]
      /\ Len(o) = Len(outbox) - 1
      /\ \A i \in 1 .. Len(o) : o[i] = outbox[i + 1]
      /\ Len(outbox) \in Nat /\ Len(outbox) >= 1
      /\ DOMAIN outbox = 1 .. Len(outbox) /\ DOMAIN o = 1 .. Len(o)
  BY HeadTailProperties
<1>2. /\ Waiting(v, types) = {i \in DOMAIN outbox : outbox[i].visitor = v /\ outbox[i].type \in types}
      /\ Waiting(v, types)' = {i \in DOMAIN o : o[i].visitor = v /\ o[i].type \in types}
  BY DEF Waiting, Told
<1> HIDE DEF o
<1>3. \A i \in Nat : i \in 1 .. Len(o) <=> i # 0 /\ i + 1 \in 1 .. Len(outbox)
  BY <1>1
<1>4. \A i \in Nat : i \in Waiting(v, types)' <=> i # 0 /\ i + 1 \in Waiting(v, types)
  BY <1>1, <1>2, <1>3
<1>5. QED
  BY <1>1, <1>2, <1>4 DEF o

-----------------------------------------------------------------------------
(***************************************************************************)
(* What a handler of the sessionizer does to the visitor of its event.     *)
(***************************************************************************)

\* The session that put_active registers is the open one of its visitor.
LEMMA PutActiveSets ==
  ASSUME SessionInv, NEW ss \in Seq(VisitorSession), NEW s \in VisitorSession, PutActive(ss, s)
  PROVE  /\ active'[s.visitor] # None
         /\ sessions'[active'[s.visitor]] = s
<1>1. s.visitor \in Visitors /\ active \in [Visitors -> Nat]
  BY DEF SessionInv, SessionTypeOK, VisitorSession
<1>2. active'[s.visitor] = Len(ss) + 1 /\ sessions' = Append(ss, s)
  BY <1>1 DEF PutActive
<1>3. Append(ss, s)[Len(ss) + 1] = s /\ Len(ss) + 1 # 0
  OBVIOUS
<1>4. QED
  BY <1>2, <1>3 DEF None

\* The session a handler enriches is the open one of its visitor afterwards.
LEMMA EnrichSets ==
  ASSUME SessionInv, NEW e \in Event, NEW s \in VisitorSession, s.visitor = e.visitor,
         Enrich(e, s)
  PROVE  /\ active'[e.visitor] # None
         /\ sessions'[active'[e.visitor]] = s
<1>1. CASE active[e.visitor] = None
  <2>1. PutActive(sessions, s) /\ sessions \in Seq(VisitorSession)
    BY <1>1 DEF Enrich, SessionInv, SessionTypeOK
  <2>2. QED
    BY <2>1, PutActiveSets
<1>2. CASE active[e.visitor] # None
  <2>1. active[e.visitor] \in DOMAIN sessions
    BY <1>2, EventFields DEF SessionInv, ActiveMatchesOpen, ActiveIsOpen, Index
  <2>2. sessions' = [sessions EXCEPT ![active[e.visitor]] = s] /\ active' = active
    BY <1>2 DEF Enrich
  <2>3. QED
    BY <1>2, <2>1, <2>2
<1>3. QED
  BY <1>1, <1>2

\* What an event does to its visitor: only an EXIT leaves no open session, only a
\* REENTRY is counted, and an open session becomes a candidate with a JOIN alone.
LEMMA OwnSession ==
  ASSUME SessionInv, NEW e \in Event, ProcessEvent(e)
  PROVE  /\ active'[e.visitor] # None <=> e.type # "EXIT"
         /\ reentryCounts'[e.visitor] =
              reentryCounts[e.visitor] + (IF e.type = "REENTRY" THEN 1 ELSE 0)
         /\ Candidate(e.visitor)' <=>
              \/ e.type = "BILLING_QUEUE_JOIN"
              \/ e.type \notin {"ENTRY", "EXIT"} /\ Candidate(e.visitor)
<1> DEFINE u == e.visitor
           c == CurrentSession(e)
           Same == e.type # "REENTRY" /\ reentryCounts' = reentryCounts
<1>1. /\ SessionTypeOK /\ ActiveIsOpen
      /\ u \in Visitors
      /\ active \in [Visitors -> Nat] /\ reentryCounts \in [Visitors -> Nat]
  BY EventFields DEF SessionInv, SessionTypeOK, ActiveMatchesOpen
<1>2. c \in VisitorSession /\ c.visitor = u
  BY <1>1, CurrentSessionType
<1>3. c.candidate <=> Candidate(u)
  BY DEF CurrentSession, NewSession, Candidate
<1>4. Candidate(u)' <=> active'[u] # None /\ sessions'[active'[u]].candidate
  BY DEF Candidate
<1>5. ASSUME NEW s \in VisitorSession, s.visitor = u, Enrich(e, s)
      PROVE  active'[u] # None /\ (Candidate(u)' <=> s.candidate)
  BY <1>4, <1>5, EnrichSets
<1>6. /\ c.count + 1 \in Nat
      /\ \A z \in Zones : c.zones \cup {z} \in SUBSET Zones
      /\ \A z \in Zones, n \in Nat : [c.dwell EXCEPT ![z] = @ + n] \in [Zones -> Nat]
      /\ \A q \in QueueEvent : c.queue \cup {q} \in SUBSET QueueEvent
  BY <1>2, SessionReads
<1>7. e.zone \in Zones \cup {NoZone} /\ e.dwell \in Nat /\ e.time \in Nat /\ BillingQueue \in Zones
  BY EventFields, SessionizerAssumption
<1> HIDE DEF c, u
<1>8. CASE HandleEntry(e)
  <2> DEFINE s == NewSession(e, 0, 1)
  <2>1. s \in VisitorSession /\ s.visitor = u /\ ~s.candidate
    BY NewSessionType DEF NewSession, u
  <2>2. Closed(e) \in Seq(VisitorSession)
    BY ClosedSessions
  <2>3. e.type = "ENTRY" /\ PutActive(Closed(e), s) /\ reentryCounts' = reentryCounts
    BY <1>8 DEF HandleEntry
  <2> HIDE DEF s
  <2>4. active'[u] # None /\ sessions'[active'[u]] = s
    BY <2>1, <2>2, <2>3, PutActiveSets
  <2>5. QED
    BY <1>1, <1>4, <2>1, <2>3, <2>4 DEF u
<1>9. CASE HandleReentry(e)
  <2> DEFINE n == reentryCounts[u] + 1
             s == [c EXCEPT !.reentry = n, !.count = @ + 1]
  <2>1. /\ e.type = "REENTRY" /\ Enrich(e, s)
        /\ reentryCounts' = [reentryCounts EXCEPT ![u] = n]
    BY <1>9 DEF HandleReentry, c, u
  <2>2. s \in VisitorSession /\ s.visitor = u /\ s.candidate = c.candidate
    <3>1. n \in Nat
      BY <1>1
    <3> HIDE DEF n
    <3>2. QED
      BY <1>2, <1>6, <3>1 DEF VisitorSession
  <2>3. reentryCounts'[u] = reentryCounts[u] + 1
    BY <1>1, <2>1
  <2> HIDE DEF s, n
  <2>4. active'[u] # None /\ (Candidate(u)' <=> s.candidate)
    BY <1>5, <2>1, <2>2
  <2>5. QED
    BY <1>3, <2>1, <2>2, <2>3, <2>4 DEF u
<1>10. CASE HandleExitOpen(e)
  <2>1. e.type = "EXIT" /\ active'[u] = None /\ reentryCounts' = reentryCounts
    BY <1>1, <1>10 DEF HandleExitOpen, u
  <2>2. QED
    BY <1>1, <1>4, <2>1 DEF u
<1>11. CASE HandleExitStub(e)
  <2>1. e.type = "EXIT" /\ active'[u] = None /\ reentryCounts' = reentryCounts
    BY <1>1, <1>11 DEF HandleExitStub, u
  <2>2. QED
    BY <1>1, <1>4, <2>1 DEF u
<1>12. ASSUME e.type \in {"ZONE_ENTER", "ZONE_EXIT", "ZONE_DWELL", "BILLING_QUEUE_ABANDON"},
              NEW s \in VisitorSession, s.visitor = u, s.candidate = c.candidate,
              Enrich(e, s), reentryCounts' = reentryCounts
       PROVE  /\ active'[u] # None <=> e.type # "EXIT"
              /\ reentryCounts'[u] = reentryCounts[u] + (IF e.type = "REENTRY" THEN 1 ELSE 0)
              /\ Candidate(u)' <=> \/ e.type = "BILLING_QUEUE_JOIN"
                                   \/ e.type \notin {"ENTRY", "EXIT"} /\ Candidate(u)
  BY <1>1, <1>3, <1>5, <1>12
<1>13. CASE HandleZoneless(e)
  <2>1. /\ e.type \in {"ZONE_ENTER", "ZONE_EXIT", "ZONE_DWELL"}
        /\ Enrich(e, c) /\ reentryCounts' = reentryCounts
    BY <1>13 DEF HandleZoneless, c
  <2>2. QED
    BY <1>2, <1>12, <2>1 DEF u
<1>14. CASE HandleZoneEnter(e)
  <2> DEFINE s == [c EXCEPT !.zones = @ \cup {e.zone}, !.count = @ + 1]
  <2>1. /\ e.type = "ZONE_ENTER" /\ e.zone \in Zones
        /\ Enrich(e, s) /\ reentryCounts' = reentryCounts
    BY <1>7, <1>14 DEF HandleZoneEnter, c
  <2>2. s \in VisitorSession /\ s.visitor = u /\ s.candidate = c.candidate
    BY <1>2, <1>6, <2>1 DEF VisitorSession
  <2> HIDE DEF s
  <2>3. QED
    BY <1>12, <2>1, <2>2 DEF u
<1>15. CASE HandleZoneDwell(e)
  <2> DEFINE s == [c EXCEPT !.dwell[e.zone] = @ + e.dwell, !.count = @ + 1]
             s2 == [c EXCEPT !.dwell = [c.dwell EXCEPT ![e.zone] = @ + e.dwell], !.count = @ + 1]
  <2>1. /\ e.type \in {"ZONE_EXIT", "ZONE_DWELL"} /\ e.zone \in Zones
        /\ Enrich(e, s) /\ reentryCounts' = reentryCounts
    BY <1>7, <1>15 DEF HandleZoneDwell, c
  <2>2. s2 \in VisitorSession /\ s2.visitor = u /\ s2.candidate = c.candidate
    <3> DEFINE d == [c.dwell EXCEPT ![e.zone] = @ + e.dwell]
    <3>1. d \in [Zones -> Nat]
      BY <1>6, <1>7, <2>1
    <3> HIDE DEF d
    <3>2. [c EXCEPT !.dwell = d, !.count = @ + 1] \in VisitorSession
      BY <1>2, <1>6, <3>1 DEF VisitorSession
    <3>3. /\ [c EXCEPT !.dwell = d, !.count = @ + 1].visitor = u
          /\ [c EXCEPT !.dwell = d, !.count = @ + 1].candidate = c.candidate
      BY <1>2 DEF VisitorSession
    <3>4. QED
      BY <3>2, <3>3 DEF d
  <2>3. s = s2
    BY <1>2 DEF VisitorSession
  <2> HIDE DEF s, s2
  <2>4. QED
    BY <1>12, <2>1, <2>2, <2>3 DEF u
<1>16. CASE HandleQueueJoin(e)
  <2> DEFINE zone == IF e.zone = NoZone THEN BillingQueue ELSE e.zone
             s == [c EXCEPT !.queue = @ \cup {QueueEventOf(e)}, !.candidate = TRUE,
                            !.zones = @ \cup {zone}, !.count = @ + 1]
  <2>1. e.type = "BILLING_QUEUE_JOIN" /\ Enrich(e, s) /\ reentryCounts' = reentryCounts
    BY <1>16 DEF HandleQueueJoin, c
  <2>2. zone \in Zones /\ QueueEventOf(e) \in QueueEvent
    BY <1>7, <2>1 DEF QueueEventOf, QueueEvent, Time
  <2> HIDE DEF zone
  <2>3. s \in VisitorSession /\ s.visitor = u /\ s.candidate
    BY <1>2, <1>6, <2>2 DEF VisitorSession
  <2> HIDE DEF s
  <2>4. active'[u] # None /\ (Candidate(u)' <=> s.candidate)
    BY <1>5, <2>1, <2>3
  <2>5. QED
    BY <1>1, <2>1, <2>3, <2>4 DEF u
<1>17. CASE HandleQueueAbandon(e)
  <2> DEFINE s == [c EXCEPT !.queue = @ \cup {QueueEventOf(e)}, !.count = @ + 1]
  <2>1. e.type = "BILLING_QUEUE_ABANDON" /\ Enrich(e, s) /\ reentryCounts' = reentryCounts
    BY <1>17 DEF HandleQueueAbandon, c
  <2>2. QueueEventOf(e) \in QueueEvent
    BY <1>7, <2>1 DEF QueueEventOf, QueueEvent, Time
  <2>3. s \in VisitorSession /\ s.visitor = u /\ s.candidate = c.candidate
    BY <1>2, <1>6, <2>2 DEF VisitorSession
  <2> HIDE DEF s
  <2>4. QED
    BY <1>12, <2>1, <2>3 DEF u
<1>18. QED
  BY <1>8, <1>9, <1>10, <1>11, <1>13, <1>14, <1>15, <1>16, <1>17 DEF ProcessEvent

\* The other visitors are left alone.
LEMMA OtherSessions ==
  ASSUME SessionInv, NEW e \in Event, ProcessEvent(e), NEW v \in Visitors, v # e.visitor
  PROVE  /\ active'[v] = active[v]
         /\ reentryCounts'[v] = reentryCounts[v]
         /\ Candidate(v)' <=> Candidate(v)
<1>1. PICK s, p : Placed(e, s, p)
  BY HandlerPlaces
<1>2. /\ active \in [Visitors -> Nat] /\ reentryCounts \in [Visitors -> Nat]
      /\ e.visitor \in Visitors
      /\ \A u \in Visitors : active[u] # None =>
           active[u] \in Index /\ sessions[active[u]].visitor = u
  BY EventFields DEF SessionInv, SessionTypeOK, ActiveMatchesOpen, ActiveIsOpen
<1>3. active'[v] = active[v]
  BY <1>1, <1>2 DEF Placed
<1>4. reentryCounts'[v] = reentryCounts[v]
  BY <1>1, <1>2 DEF Placed, Counted, SameCounts
<1>5. active[v] # None => sessions'[active[v]] = sessions[active[v]]
  <2> SUFFICES ASSUME active[v] # None
               PROVE  sessions'[active[v]] = sessions[active[v]]
    OBVIOUS
  <2>1. active[v] \in Index /\ active[v] # active[e.visitor]
    BY <1>2
  <2>2. active[v] # p
    BY <1>1, <2>1 DEF Placed
  <2>3. QED
    BY <1>1, <2>1, <2>2 DEF Placed
<1>6. QED
  BY <1>3, <1>4, <1>5 DEF Candidate

-----------------------------------------------------------------------------
(***************************************************************************)
(* What the cameras write.                                                 *)
(***************************************************************************)

\* The queue and dwell bookkeeping of the constants.
LEMMA AwayIsNone ==
  /\ Away \notin Nat
  /\ Away \notin C!Clock
  /\ Away \notin C!Stay
BY VisitAssumption

\* The camera whose turn it is.
LEMMA CameraIsOne ==
  ASSUME turn \in Rounds
  PROVE  C!camera \in C!Cameras /\ C!camera = CameraOrder[turn]
BY VisitAssumption DEF C!camera, C!Cameras, ToSet, Rounds

\* An event as the cameras write it is a line of the file.
LEMMA LineOf ==
  ASSUME now \in Nat, NEW type \in EventType, NEW v \in Visitors,
         NEW z \in Zones \cup {NoZone}, NEW dwell \in Nat, NEW isStaff \in BOOLEAN
  PROVE  LET e == C!StoreEvent(type, v, z, dwell, isStaff)
         IN  /\ e \in Line
             /\ e.type = type /\ e.visitor = v /\ e.zone = z /\ e.dwell = dwell
BY DEF C!StoreEvent, Line

\* The time on a clock.
LEMMA DwellNat ==
  ASSUME now \in Nat, NEW k \in C!Clock \cup {Away}, k # Away => k.enter <= now
  PROVE  C!DwellSince(k) \in Nat
BY DEF C!DwellSince, C!Clock

\* The crossing of a detection at the camera whose turn it is.
CrossingOf(d) == IF C!camera = EntryCamera THEN C!Crossing(d.track, d.side) ELSE "none"

\* What the crossing c says.
CrossingLines(v, c, isStaff) ==
  LET clock == clocks[C!camera][v]
  IN  CASE c = "ENTRY" ->
             {C!StoreEvent(IF exitCount[v] > 0 THEN "REENTRY" ELSE "ENTRY", v, NoZone, 0, isStaff)}
        [] c = "EXIT" ->
             {C!StoreEvent("ZONE_EXIT", v, z, C!DwellSince(clock[z]), isStaff) :
                z \in {z \in Zones : clock[z] # Away}}
             \cup {C!StoreEvent("EXIT", v, NoZone, 0, isStaff)}
        [] OTHER -> {}

\* What _emit_crossing writes for a crossing.
LEMMA CrossingSays ==
  ASSUME VisitTypeOK, NEW v \in Visitors, NEW c \in {"ENTRY", "EXIT", "none"},
         NEW isStaff \in BOOLEAN
  PROVE  /\ C!CrossingEvents(v, c, isStaff) \in Seq(Line)
         /\ ToSet(C!CrossingEvents(v, c, isStaff)) = CrossingLines(v, c, isStaff)
<1> DEFINE E == C!CrossingEvents(v, c, isStaff)
           L == CrossingLines(v, c, isStaff)
           clock == clocks[C!camera][v]
<1>1. now \in Nat /\ turn \in Rounds
  BY DEF VisitTypeOK, FrameTypeOK
<1>2. /\ clock \in [Zones -> C!Clock \cup {Away}]
      /\ \A z \in Zones : clock[z] # Away => clock[z].enter <= now
  BY <1>1, CameraIsOne DEF VisitTypeOK, CameraTypeOK
<1>3. CASE c = "ENTRY"
  <2> DEFINE e == C!StoreEvent(IF exitCount[v] > 0 THEN "REENTRY" ELSE "ENTRY", v, NoZone, 0, isStaff)
  <2>1. E = <<e>> /\ L = {e}
    BY <1>3 DEF C!CrossingEvents, CrossingLines
  <2>2. e \in Line
    <3> DEFINE t == IF exitCount[v] > 0 THEN "REENTRY" ELSE "ENTRY"
    <3>1. t \in EventType
      BY DEF EventType
    <3>2. NoZone \in Zones \cup {NoZone} /\ 0 \in Nat
      OBVIOUS
    <3> HIDE DEF t
    <3>3. C!StoreEvent(t, v, NoZone, 0, isStaff) \in Line
      BY <1>1, <3>1, <3>2, LineOf
    <3>4. QED
      BY <3>3 DEF t
  <2> HIDE DEF E, L, e
  <2>3. QED
    BY <2>1, <2>2, OneLine DEF E, L
<1>4. CASE c = "EXIT"
  <2> DEFINE running == {z \in Zones : clock[z] # Away}
             n == Cardinality(running)
             tell(z) == C!StoreEvent("ZONE_EXIT", v, z, C!DwellSince(clock[z]), isStaff)
             gone == [i \in 1 .. n |-> tell(SetToSeq(running)[i])]
             exit == C!StoreEvent("EXIT", v, NoZone, 0, isStaff)
  <2>1. /\ n \in Nat
        /\ SetToSeq(running) \in Seq(running)
        /\ Len(SetToSeq(running)) = n
        /\ ToSet(SetToSeq(running)) = running
    <3>1. IsFiniteSet(running)
      <4>1. running \in SUBSET Zones /\ IsFiniteSet(Zones)
        BY VisitAssumption
      <4> HIDE DEF running
      <4>2. QED
        BY <4>1, FS_Subset
    <3> HIDE DEF running
    <3>2. QED
      BY <3>1, ListOfSet, SetListed DEF n
  <2>2. E = gone \o <<exit>>
    <3>1. c # "ENTRY"
      BY <1>4
    <3>2. E = [i \in 1 .. C!Cardinality(running) |-> tell(C!SetToSeq(running)[i])] \o <<exit>>
      BY <1>4, <3>1, Zenon DEF C!CrossingEvents
    <3> HIDE DEF E, running, tell, exit
    <3>3. C!Cardinality(running) = Cardinality(running) /\ C!SetToSeq(running) = SetToSeq(running)
      BY CamerasLists
    <3>4. QED
      BY <3>2, <3>3, Zenon
  <2>3. L = {tell(z) : z \in running} \cup {exit}
    BY <1>4 DEF CrossingLines
  <2>4. ASSUME NEW z \in running
        PROVE  tell(z) \in Line
    <3>1. z \in Zones \cup {NoZone} /\ "ZONE_EXIT" \in EventType
      BY DEF EventType
    <3>2. C!DwellSince(clock[z]) \in Nat
      BY <1>1, <1>2, <3>1, DwellNat
    <3>3. QED
      BY <1>1, <3>1, <3>2, LineOf
  <2>5. exit \in Line
    BY <1>1, LineOf DEF EventType
  <2> HIDE DEF E, L, exit, running, n
  <2>6. /\ gone \in Seq(Line)
        /\ ToSet(gone) = {tell(z) : z \in running}
    <3> DEFINE s == SetToSeq(running)
    <3>1. s \in Seq(running) /\ Len(s) = n /\ ToSet(s) = running /\ DOMAIN s = 1 .. n
      BY <2>1
    <3>2. \A i \in 1 .. n : s[i] \in running /\ gone[i] = tell(s[i])
      BY <3>1
    <3> HIDE DEF s
    <3>3. gone \in [1 .. n -> Line]
      <4>1. gone = [i \in 1 .. n |-> gone[i]]
        OBVIOUS
      <4>2. \A i \in 1 .. n : gone[i] \in Line
        BY <2>4, <3>2
      <4> HIDE DEF gone
      <4>3. QED
        BY <4>1, <4>2
    <3>4. running = {s[i] : i \in 1 .. n}
      BY <3>1 DEF ToSet
    <3> HIDE DEF gone, tell
    <3>5. gone \in Seq(Line) /\ ToSet(gone) = {gone[i] : i \in 1 .. n}
      BY <2>1, <3>3 DEF ToSet
    <3>6. {gone[i] : i \in 1 .. n} = {tell(z) : z \in running}
      BY <3>2, <3>4
    <3>7. QED
      BY <3>5, <3>6
  <2> HIDE DEF gone, tell
  <2>7. <<exit>> \in Seq(Line) /\ ToSet(<<exit>>) = {exit}
    BY <2>5, OneLine
  <2>8. E \in Seq(Line) /\ ToSet(E) = ToSet(gone) \cup ToSet(<<exit>>)
    BY <2>2, <2>6, <2>7, ConcatSays
  <2>9. QED
    BY <2>3, <2>6, <2>7, <2>8 DEF E, L
<1>5. CASE c = "none"
  <2>1. E = << >> /\ L = {}
    BY <1>5 DEF C!CrossingEvents, CrossingLines
  <2>2. << >> \in Seq(Line) /\ ToSet(<< >>) = {}
    BY DEF ToSet
  <2>3. QED
    BY <2>1, <2>2
<1>6. QED
  BY <1>3, <1>4, <1>5

\* What is said of v in `zone`, with its clocks in `running`.
ZoneLines(v, zone, running, isStaff) ==
  LET prev == currentZone[C!camera][v]
  IN  IF zone = prev
      THEN IF zone # NoZone /\ C!TickDue(running[zone])
           THEN {C!StoreEvent("ZONE_DWELL", v, zone, C!DwellSince(running[zone]), isStaff)}
           ELSE {}
      ELSE (IF prev = NoZone THEN {}
            ELSE {C!StoreEvent("ZONE_EXIT", v, prev, C!DwellSince(running[prev]), isStaff)})
           \cup
           (IF zone = NoZone THEN {} ELSE {C!StoreEvent("ZONE_ENTER", v, zone, 0, isStaff)})

\* What the zone block of process_frame writes for a detection.
LEMMA ZoneSays ==
  ASSUME VisitTypeOK, NEW v \in Visitors, NEW zone \in Zones \cup {NoZone},
         NEW running \in [Zones -> C!Clock \cup {Away}],
         \A z \in Zones : running[z] # Away => running[z].enter <= now,
         NEW isStaff \in BOOLEAN
  PROVE  /\ C!ZoneEvents(v, zone, running, isStaff) \in Seq(Line)
         /\ ToSet(C!ZoneEvents(v, zone, running, isStaff)) = ZoneLines(v, zone, running, isStaff)
<1> DEFINE E == C!ZoneEvents(v, zone, running, isStaff)
           L == ZoneLines(v, zone, running, isStaff)
           prev == currentZone[C!camera][v]
           dwell == C!StoreEvent("ZONE_DWELL", v, zone, C!DwellSince(running[zone]), isStaff)
           gone == C!StoreEvent("ZONE_EXIT", v, prev, C!DwellSince(running[prev]), isStaff)
           come == C!StoreEvent("ZONE_ENTER", v, zone, 0, isStaff)
           tick == zone # NoZone /\ C!TickDue(running[zone])
           first == IF prev = NoZone THEN << >> ELSE <<gone>>
           second == IF zone = NoZone THEN << >> ELSE <<come>>
<1>1. now \in Nat /\ prev \in Zones \cup {NoZone}
  BY CameraIsOne DEF VisitTypeOK, FrameTypeOK, CameraTypeOK
<1>2. /\ {"ZONE_DWELL", "ZONE_EXIT", "ZONE_ENTER"} \subseteq EventType
      /\ \A z \in Zones : C!DwellSince(running[z]) \in Nat
  BY <1>1, DwellNat DEF EventType
<1>3. /\ zone # NoZone => dwell \in Line
      /\ prev # NoZone => gone \in Line
      /\ come \in Line
  <2>1. zone # NoZone => dwell \in Line
    BY <1>1, <1>2, LineOf
  <2>2. prev # NoZone => gone \in Line
    BY <1>1, <1>2, LineOf
  <2>3. come \in Line
    BY <1>1, <1>2, LineOf
  <2>4. QED
    BY <2>1, <2>2, <2>3
<1>4. E = IF zone = prev THEN IF tick THEN <<dwell>> ELSE << >> ELSE first \o second
  BY Zenon DEF C!ZoneEvents
<1>5. L = IF zone = prev THEN IF tick THEN {dwell} ELSE {}
          ELSE (IF prev = NoZone THEN {} ELSE {gone}) \cup (IF zone = NoZone THEN {} ELSE {come})
  BY Zenon DEF ZoneLines
<1>6. << >> \in Seq(Line) /\ ToSet(<< >>) = {}
  BY DEF ToSet
<1> HIDE DEF E, L, dwell, gone, come
<1>7. CASE zone = prev
  <2>1. tick => <<dwell>> \in Seq(Line) /\ ToSet(<<dwell>>) = {dwell}
    BY <1>3, OneLine
  <2>2. QED
    BY <1>4, <1>5, <1>6, <1>7, <2>1 DEF E, L
<1>8. CASE zone # prev
  <2>1. first \in Seq(Line) /\ ToSet(first) = (IF prev = NoZone THEN {} ELSE {gone})
    <3>1. prev # NoZone => <<gone>> \in Seq(Line) /\ ToSet(<<gone>>) = {gone}
      BY <1>3, OneLine
    <3>2. QED
      BY <1>6, <3>1
  <2>2. second \in Seq(Line) /\ ToSet(second) = (IF zone = NoZone THEN {} ELSE {come})
    <3>1. <<come>> \in Seq(Line) /\ ToSet(<<come>>) = {come}
      BY <1>3, OneLine
    <3>2. QED
      BY <1>6, <3>1
  <2> HIDE DEF first, second
  <2>3. /\ first \o second \in Seq(Line)
        /\ ToSet(first \o second) = ToSet(first) \cup ToSet(second)
    BY <2>1, <2>2, ConcatSays
  <2>4. QED
    BY <1>4, <1>5, <1>8, <2>1, <2>2, <2>3 DEF E, L
<1>9. QED
  BY <1>7, <1>8

\* What the flush of a camera says.
FlushLines ==
  {C!StoreEvent("ZONE_EXIT", v, currentZone[C!camera][v],
                C!DwellSince(clocks[C!camera][v][currentZone[C!camera][v]]), staff[v]) :
     v \in {u \in Visitors : currentZone[C!camera][u] # NoZone}}

\* What the end of a video writes: the ZONE_EXIT of every stay it cuts off.
LEMMA FlushSays ==
  ASSUME VisitTypeOK
  PROVE  /\ C!FlushEvents \in Seq(Line)
         /\ ToSet(C!FlushEvents) = FlushLines
<1> DEFINE zone(v) == currentZone[C!camera][v]
           inside == {u \in Visitors : zone(u) # NoZone}
           s == SetToSeq(inside)
           tell(v) == C!StoreEvent("ZONE_EXIT", v, zone(v),
                                   C!DwellSince(clocks[C!camera][v][zone(v)]), staff[v])
           E == [i \in DOMAIN s |-> tell(s[i])]
<1>1. now \in Nat /\ C!camera \in C!Cameras
  BY CameraIsOne DEF VisitTypeOK, FrameTypeOK
<1>2. C!FlushEvents = E
  <2>1. C!FlushEvents = [i \in DOMAIN C!SetToSeq(inside) |-> tell(C!SetToSeq(inside)[i])]
    BY Zenon DEF C!FlushEvents
  <2> HIDE DEF inside, tell
  <2>2. C!SetToSeq(inside) = SetToSeq(inside)
    BY CamerasLists
  <2>3. QED
    BY <2>1, <2>2, Zenon
<1>3. FlushLines = {tell(v) : v \in inside}
  BY DEF FlushLines
<1>4. ASSUME NEW v \in inside
      PROVE  tell(v) \in Line
  <2> DEFINE k == clocks[C!camera][v][zone(v)]
  <2>1. v \in Visitors /\ zone(v) \in Zones /\ staff[v] \in BOOLEAN
    BY <1>1 DEF VisitTypeOK, CameraTypeOK
  <2>2. k \in C!Clock \cup {Away} /\ (k # Away => k.enter <= now)
    BY <1>1, <2>1 DEF VisitTypeOK, CameraTypeOK
  <2>3. C!DwellSince(k) \in Nat
    BY <1>1, <2>2, DwellNat
  <2>4. "ZONE_EXIT" \in EventType
    BY DEF EventType
  <2> HIDE DEF k
  <2>5. C!StoreEvent("ZONE_EXIT", v, zone(v), C!DwellSince(k), staff[v]) \in Line
    BY <1>1, <2>1, <2>3, <2>4, LineOf
  <2>6. QED
    BY <2>5 DEF k
<1>5. s \in Seq(inside) /\ ToSet(s) = inside
  <2>1. IsFiniteSet(inside)
    <3>1. inside \in SUBSET Visitors /\ IsFiniteSet(Visitors)
      BY VisitAssumption
    <3> HIDE DEF inside
    <3>2. QED
      BY <3>1, FS_Subset
  <2> HIDE DEF inside
  <2>2. QED
    BY <2>1, ListOfSet, SetListed
<1> HIDE DEF s, inside, tell
<1>6. E \in [DOMAIN s -> Line]
  BY <1>4, <1>5
<1>7. E \in Seq(Line) /\ ToSet(E) = {E[i] : i \in DOMAIN s}
  <2> HIDE DEF E
  <2>1. QED
    BY <1>5, <1>6, ListedAs
<1>8. {E[i] : i \in DOMAIN s} = {tell(v) : v \in inside}
  BY <1>5 DEF ToSet
<1>9. QED
  BY <1>2, <1>3, <1>7, <1>8

\* What a JOIN says of an arrival.
Arrival == [visitor : Visitors, depth : Nat]

\* The loop over the visitors present makes a list of the arrivals: of those who
\* were not in the zone.
LEMMA JoinsAre ==
  ASSUME NEW present \in Seq(Visitors), C!CurrentQueueDepth \in Nat
  PROVE  /\ C!Joins(present) \in Seq(Arrival)
         /\ {a.visitor : a \in ToSet(C!Joins(present))} =
              {u \in ToSet(present) : inZone[u] = Away}
<1> DEFINE n == Len(present)
           S == Seq(Arrival)
           Next1(x, i) == IF inZone[present[i]] # Away THEN x
                          ELSE Append(x, [visitor |-> present[i],
                                          depth |-> C!CurrentQueueDepth + Len(x)])
           step == [x \in S \X (1 .. n) |-> Next1(x[1], x[2])]
           joins[i \in 0 .. n] ==
             IF i = 0 THEN << >>
             ELSE IF inZone[present[i]] # Away THEN joins[i - 1]
             ELSE Append(joins[i - 1], [visitor |-> present[i],
                                        depth |-> C!CurrentQueueDepth + Len(joins[i - 1])])
<1>1. n \in Nat
  OBVIOUS
<1>2. ASSUME NEW x \in S, NEW i \in 1 .. n
      PROVE  Next1(x, i) \in S
  <2>1. present[i] \in Visitors /\ C!CurrentQueueDepth + Len(x) \in Nat
    OBVIOUS
  <2> DEFINE a == [visitor |-> present[i], depth |-> C!CurrentQueueDepth + Len(x)]
  <2>2. a \in Arrival
    BY <2>1 DEF Arrival
  <2> HIDE DEF a
  <2>3. Append(x, a) \in S
    BY <2>2
  <2>4. QED
    BY <2>3 DEF a
<1>3. step \in StepFunctions(S, n)
  BY <1>2 DEF StepFunctions
<1>4. \A x \in S, i \in 1 .. n : step[<<x, i>>] = Next1(x, i)
  OBVIOUS
<1>5. << >> \in S
  OBVIOUS
<1> HIDE DEF S, step
<1>6. PICK g \in [0 .. n -> S] :
        /\ g[0] = << >>
        /\ \A i \in 1 .. n : g[i] = step[<<g[i - 1], i>>]
  <2> HIDE DEF n
  <2>1. Runs(S, n, << >>, step) # {}
    BY <1>1, <1>3, <1>5, RunExists
  <2>2. QED
    BY <2>1 DEF Runs
<1>7. ASSUME NEW i \in 1 .. n
      PROVE  g[i] = Next1(g[i - 1], i)
  <2>1. i - 1 \in 0 .. n
    OBVIOUS
  <2>2. g[i - 1] \in S
    BY <1>6, <2>1
  <2>3. g[i] = step[<<g[i - 1], i>>]
    BY <1>6
  <2>4. QED
    BY <1>4, <2>2, <2>3
<1>8. ASSUME NEW i \in 1 .. n
       PROVE  g[i] = IF inZone[present[i]] # Away THEN g[i - 1]
                     ELSE Append(g[i - 1], [visitor |-> present[i],
                                            depth |-> C!CurrentQueueDepth + Len(g[i - 1])])
  BY <1>7
<1>9. g = [i \in 0 .. n |->
             IF i = 0 THEN << >>
             ELSE IF inZone[present[i]] # Away THEN g[i - 1]
             ELSE Append(g[i - 1], [visitor |-> present[i],
                                    depth |-> C!CurrentQueueDepth + Len(g[i - 1])])]
  <2>1. ASSUME NEW i \in 0 .. n
        PROVE  g[i] = IF i = 0 THEN << >>
                      ELSE IF inZone[present[i]] # Away THEN g[i - 1]
                      ELSE Append(g[i - 1], [visitor |-> present[i],
                                             depth |-> C!CurrentQueueDepth + Len(g[i - 1])])
    <3>1. CASE i = 0
      BY <1>6, <3>1
    <3>2. CASE i # 0
      <4>1. i \in 1 .. n
        BY <1>1, <3>2
      <4> HIDE DEF n
      <4>2. QED
        BY <1>8, <3>2, <4>1
    <3>3. QED
      BY <3>1, <3>2
  <2>2. g = [i \in 0 .. n |-> g[i]]
    BY <1>6
  <2>3. QED
    BY <2>1, <2>2, Zenon
<1>10. joins = [i \in 0 .. n |->
             IF i = 0 THEN << >>
             ELSE IF inZone[present[i]] # Away THEN joins[i - 1]
             ELSE Append(joins[i - 1], [visitor |-> present[i],
                                        depth |-> C!CurrentQueueDepth + Len(joins[i - 1])])]
  BY <1>9, Zenon
<1>11. C!Joins(present) = joins[n]
  BY DEF C!Joins
<1> HIDE DEF joins
<1>12. joins[n] = g[n]
  <2> DEFINE K == {k \in Nat : k <= n => joins[k] = g[k]}
  <2>1. 0 \in K
    BY <1>6, <1>10
  <2>2. ASSUME NEW k \in K
        PROVE  k + 1 \in K
    <3> SUFFICES ASSUME k + 1 <= n
                 PROVE  joins[k + 1] = g[k + 1]
      OBVIOUS
    <3>1. joins[k] = g[k] /\ k + 1 \in 0 .. n /\ k + 1 # 0 /\ (k + 1) - 1 = k
      BY <2>2
    <3> DEFINE i == k + 1
    <3>2. i \in 0 .. n /\ i # 0 /\ i - 1 = k
      BY <3>1
    <3> HIDE DEF i
    <3>3. joins[i] = IF inZone[present[i]] # Away THEN joins[i - 1]
                     ELSE Append(joins[i - 1], [visitor |-> present[i],
                                                depth |-> C!CurrentQueueDepth + Len(joins[i - 1])])
      BY <1>10, <3>2
    <3>4. g[i] = IF inZone[present[i]] # Away THEN g[i - 1]
                 ELSE Append(g[i - 1], [visitor |-> present[i],
                                        depth |-> C!CurrentQueueDepth + Len(g[i - 1])])
      BY <1>9, <3>2
    <3>5. joins[i] = g[i]
      BY <3>1, <3>2, <3>3, <3>4
    <3>6. QED
      BY <3>5 DEF i
  <2>3. K = Nat
    <3>1. K \in SUBSET Nat
      OBVIOUS
    <3> HIDE DEF K
    <3>2. QED
      BY <2>1, <2>2, <3>1, NatSetInduction
  <2>4. QED
    BY <1>1, <2>3
<1>13. C!Joins(present) = g[n]
  BY <1>11, <1>12
<1> DEFINE Names(x) == {a.visitor : a \in ToSet(x)}
           New(k) == {present[l] : l \in {m \in 1 .. k : inZone[present[m]] = Away}}
<1>14. \A k \in 0 .. n : g[k] \in Seq(Arrival)
  BY <1>6 DEF S
<1>15. ASSUME NEW k \in 1 .. n, Names(g[k - 1]) = New(k - 1)
       PROVE  Names(g[k]) = New(k)
  <2>1. k - 1 \in 0 .. n /\ g[k - 1] \in Seq(Arrival) /\ present[k] \in Visitors
    BY <1>14
  <2>2. 1 .. k = (1 .. k - 1) \cup {k}
    OBVIOUS
  <2>3. CASE inZone[present[k]] # Away
    <3>1. g[k] = g[k - 1]
      BY <1>7, <2>3
    <3>2. New(k) = New(k - 1)
      BY <2>2, <2>3
    <3>3. QED
      BY <1>15, <3>1, <3>2
  <2>4. CASE inZone[present[k]] = Away
    <3> DEFINE x == g[k - 1]
               a == [visitor |-> present[k], depth |-> C!CurrentQueueDepth + Len(x)]
    <3>1. g[k] = Append(x, a)
      BY <1>7, <2>4
    <3>2. a \in Arrival /\ a.visitor = present[k]
      BY <2>1 DEF Arrival
    <3>3. New(k) = New(k - 1) \cup {present[k]}
      BY <2>2, <2>4
    <3> HIDE DEF a
    <3>4. ToSet(Append(x, a)) = ToSet(x) \cup {a}
      BY <2>1, <3>2, AppendedElements
    <3> HIDE DEF New, x
    <3>5. Names(g[k]) = Names(x) \cup {a.visitor}
      BY <3>1, <3>4
    <3>6. QED
      BY <1>15, <3>2, <3>3, <3>5 DEF x
  <2>5. QED
    BY <2>3, <2>4
<1>16. Names(g[0]) = New(0)
  BY <1>6 DEF ToSet
<1>17. Names(g[n]) = New(n)
  <2> HIDE DEF Names, New
  <2> DEFINE K == {k \in Nat : k <= n => Names(g[k]) = New(k)}
  <2>1. 0 \in K
    BY <1>16
  <2>2. ASSUME NEW k \in K
        PROVE  k + 1 \in K
    <3> SUFFICES ASSUME k + 1 <= n
                 PROVE  Names(g[k + 1]) = New(k + 1)
      OBVIOUS
    <3> DEFINE i == k + 1
    <3>1. i \in 1 .. n /\ i - 1 = k /\ Names(g[k]) = New(k)
      BY <1>1, <2>2
    <3> HIDE DEF i
    <3>2. Names(g[i]) = New(i)
      BY <1>15, <3>1
    <3>3. QED
      BY <3>2 DEF i
  <2>3. K \in SUBSET Nat
    OBVIOUS
  <2> HIDE DEF K
  <2>4. K = Nat
    BY <2>1, <2>2, <2>3, NatSetInduction
  <2>5. QED
    BY <1>1, <2>4 DEF K
<1>18. New(n) = {u \in ToSet(present) : inZone[u] = Away}
  BY DEF ToSet
<1>19. n \in 0 .. n
  BY <1>1
<1>20. QED
  BY <1>13, <1>14, <1>17, <1>18, <1>19

\* A visitor who is watched for a purchase had a stay.
LEMMA WatchedStay ==
  ASSUME VisitTypeOK, NEW v \in Visitors
  PROVE  LET w == C!Watched(billingPresent, now)[v] IN
         /\ w \in C!Stay \cup {Away}
         /\ w # Away => w.enter <= w.exit /\ w.exit - w.enter \in Nat
<1> DEFINE w == C!Watched(billingPresent, now)[v]
           gone == v \in C!Departed(billingPresent) /\ now - inZone[v] >= MinQueueDwell
<1>1. /\ now \in Nat
      /\ inZone[v] \in Nat \cup {Away}
      /\ inZone[v] # Away => inZone[v] <= now
      /\ exited[v] \in C!Stay \cup {Away}
      /\ exited[v] # Away => exited[v].enter <= exited[v].exit
  BY DEF VisitTypeOK, FrameTypeOK, CameraTypeOK
<1>2. w = IF gone THEN [enter |-> inZone[v], exit |-> now] ELSE exited[v]
  BY DEF C!Watched
<1>3. gone => inZone[v] # Away
  BY DEF C!Departed
<1> HIDE DEF w, gone
<1>4. CASE gone
  BY <1>1, <1>2, <1>3, <1>4, AwayIsNone DEF C!Stay, w
<1>5. CASE ~gone
  BY <1>1, <1>2, <1>5, AwayIsNone DEF C!Stay, w
<1>6. QED
  BY <1>4, <1>5

\* The queue of a frame is of those present.
LEMMA QueueUpdates ==
  ASSUME VisitTypeOK, C!UpdateQueue(billingPresent, now)
  PROVE  /\ inZone' \in [Visitors -> Nat \cup {Away}]
         /\ exited' \in [Visitors -> C!Stay \cup {Away}]
         /\ \A v \in Visitors :
              /\ inZone'[v] # Away <=> v \in ToSet(billingPresent)
              /\ inZone'[v] # Away => inZone'[v] <= now
              /\ exited'[v] # Away => exited'[v].enter <= exited'[v].exit
<1> DEFINE w == C!Watched(billingPresent, now)
<1>1. /\ now \in Nat
      /\ inZone \in [Visitors -> Nat \cup {Away}]
      /\ \A v \in Visitors : inZone[v] # Away => inZone[v] <= now
  BY DEF VisitTypeOK, FrameTypeOK, CameraTypeOK
<1>2. C!ToSet(billingPresent) = ToSet(billingPresent)
  BY CamerasLists
<1>3. inZone' = [v \in Visitors |->
         IF v \notin ToSet(billingPresent) THEN Away
         ELSE IF inZone[v] = Away THEN now ELSE inZone[v]]
  BY <1>2 DEF C!UpdateQueue
<1>4. exited' = [v \in Visitors |-> IF v \in C!AgedOut(w, now) THEN Away ELSE w[v]]
  BY DEF C!UpdateQueue
<1>5. \A v \in Visitors : /\ w[v] \in C!Stay \cup {Away}
                          /\ w[v] # Away => w[v].enter <= w[v].exit
  BY WatchedStay
<1> HIDE DEF w
<1>6. /\ inZone' \in [Visitors -> Nat \cup {Away}]
      /\ \A v \in Visitors : /\ inZone'[v] # Away <=> v \in ToSet(billingPresent)
                             /\ inZone'[v] # Away => inZone'[v] <= now
  BY <1>1, <1>3, AwayIsNone
<1>7. /\ exited' = [v \in Visitors |-> exited'[v]]
      /\ \A v \in Visitors : exited'[v] = w[v] \/ exited'[v] = Away
  BY <1>4
<1>8. ASSUME NEW v \in Visitors
      PROVE  /\ exited'[v] \in C!Stay \cup {Away}
             /\ exited'[v] # Away => exited'[v].enter <= exited'[v].exit
  <2> DEFINE x == exited'[v]
             y == w[v]
  <2>1. CASE exited'[v] = w[v]
    <3>1. y \in C!Stay \cup {Away} /\ (y # Away => y.enter <= y.exit) /\ x = y
      BY <1>5, <2>1
    <3> HIDE DEF x, y
    <3>2. x \in C!Stay \cup {Away} /\ (x # Away => x.enter <= x.exit)
      BY <3>1
    <3>3. QED
      BY <3>2 DEF x
  <2>2. CASE exited'[v] = Away
    BY <2>2
  <2>3. QED
    BY <1>7, <2>1, <2>2
<1>9. exited' \in [Visitors -> C!Stay \cup {Away}]
  BY <1>7, <1>8
<1>10. \A v \in Visitors : exited'[v] # Away => exited'[v].enter <= exited'[v].exit
  BY <1>8
<1>11. QED
  BY <1>6, <1>9, <1>10

\* The queue tracker says who joined and who left for good.
LEMMA QueueSays ==
  ASSUME VisitTypeOK
  PROVE  /\ C!QueueEvents \in Seq(Line)
         /\ \A e \in ToSet(C!QueueEvents) :
              /\ e.type \in {"BILLING_QUEUE_JOIN", "BILLING_QUEUE_ABANDON"}
              /\ e.type = "BILLING_QUEUE_JOIN" =>
                   e.visitor \in ToSet(billingPresent) /\ inZone[e.visitor] = Away
         /\ \A v \in ToSet(billingPresent) : inZone[v] = Away =>
              \E e \in ToSet(C!QueueEvents) : e.visitor = v /\ e.type = "BILLING_QUEUE_JOIN"
<1> DEFINE no == FALSE
           joins == C!Joins(billingPresent)
           watched == C!Watched(billingPresent, now)
           aged == C!AgedOut(watched, now)
           abandons == SetToSeq(aged)
           join(i) == C!StoreEvent("BILLING_QUEUE_JOIN", joins[i].visitor, BillingQueue, 0, no)
           abandon(i) == C!StoreEvent("BILLING_QUEUE_ABANDON", abandons[i], BillingQueue,
                                      watched[abandons[i]].exit - watched[abandons[i]].enter, no)
           first == [i \in DOMAIN joins |-> join(i)]
           second == [i \in DOMAIN abandons |-> abandon(i)]
<1>1. /\ now \in Nat
      /\ billingPresent \in Seq(Visitors)
      /\ IsFiniteSet(Visitors)
      /\ BillingQueue \in Zones \cup {NoZone}
      /\ {"BILLING_QUEUE_JOIN", "BILLING_QUEUE_ABANDON"} \subseteq EventType
      /\ no \in BOOLEAN
  BY VisitAssumption, SessionizerAssumption DEF VisitTypeOK, FrameTypeOK, EventType
<1>2. C!QueueEvents = first \o second
  <2>1. C!QueueEvents =
          first \o
          [i \in DOMAIN C!SetToSeq(aged) |->
             C!StoreEvent("BILLING_QUEUE_ABANDON", C!SetToSeq(aged)[i], BillingQueue,
                          watched[C!SetToSeq(aged)[i]].exit - watched[C!SetToSeq(aged)[i]].enter,
                          no)]
    BY Zenon DEF C!QueueEvents
  <2>2. C!SetToSeq(aged) = abandons
    BY CamerasLists
  <2> HIDE DEF first, watched, aged, no
  <2>3. QED
    BY <2>1, <2>2, Zenon
<1>3. /\ joins \in Seq(Arrival)
      /\ {a.visitor : a \in ToSet(joins)} = {u \in ToSet(billingPresent) : inZone[u] = Away}
  <2>1. C!CurrentQueueDepth \in Nat
    <3> DEFINE Q == {v \in Visitors : inZone[v] # Away}
    <3>1. C!CurrentQueueDepth = C!Cardinality(Q)
      BY DEF C!CurrentQueueDepth
    <3>2. Q \in SUBSET Visitors
      OBVIOUS
    <3> HIDE DEF Q
    <3>3. IsFiniteSet(Q)
      BY <1>1, <3>2, FS_Subset
    <3>4. Cardinality(Q) \in Nat
      BY <3>3, FS_CardinalityType
    <3>5. QED
      BY <3>1, <3>4, CamerasLists
  <2>2. QED
    BY <1>1, <2>1, JoinsAre
<1>4. abandons \in Seq(aged) /\ aged \in SUBSET Visitors
      /\ \A v \in aged : watched[v] # Away
  <2>1. aged \in SUBSET Visitors /\ \A v \in aged : watched[v] # Away
    BY DEF C!AgedOut
  <2> HIDE DEF aged, watched
  <2>2. IsFiniteSet(aged)
    BY <1>1, <2>1, FS_Subset
  <2>3. QED
    BY <2>1, <2>2, ListOfSet
<1>5. \A v \in aged : watched[v].exit - watched[v].enter \in Nat
  BY <1>4, WatchedStay
<1> HIDE DEF joins, watched, aged, abandons, no
<1>6. ASSUME NEW i \in DOMAIN joins
      PROVE  /\ join(i) \in Line
             /\ join(i).type = "BILLING_QUEUE_JOIN" /\ join(i).visitor = joins[i].visitor
  <2>1. joins[i] \in Arrival
    BY <1>3
  <2>2. joins[i].visitor \in Visitors
    BY <2>1 DEF Arrival
  <2>3. "BILLING_QUEUE_JOIN" \in EventType /\ 0 \in Nat
    BY <1>1
  <2> DEFINE u == joins[i].visitor
  <2> HIDE DEF u
  <2>4. u \in Visitors
    BY <2>2 DEF u
  <2> DEFINE e == C!StoreEvent("BILLING_QUEUE_JOIN", u, BillingQueue, 0, no)
  <2>5. e \in Line /\ e.type = "BILLING_QUEUE_JOIN" /\ e.visitor = u
    BY <1>1, <2>3, <2>4, LineOf
  <2>6. QED
    BY <2>5 DEF u
<1>7. ASSUME NEW i \in DOMAIN abandons
      PROVE  abandon(i) \in Line /\ abandon(i).type = "BILLING_QUEUE_ABANDON"
  <2>1. abandons[i] \in aged /\ abandons[i] \in Visitors
    BY <1>4
  <2> DEFINE u == abandons[i]
             stay == watched[abandons[i]].exit - watched[abandons[i]].enter
             e == C!StoreEvent("BILLING_QUEUE_ABANDON", u, BillingQueue, stay, no)
  <2>2. stay \in Nat
    BY <1>5, <2>1
  <2>3. "BILLING_QUEUE_ABANDON" \in EventType
    BY <1>1
  <2> HIDE DEF u, stay
  <2>4. u \in Visitors
    BY <2>1 DEF u
  <2>5. e \in Line /\ e.type = "BILLING_QUEUE_ABANDON" /\ e.visitor = u
    BY <1>1, <2>2, <2>3, <2>4, LineOf
  <2>6. QED
    BY <2>5 DEF u, stay
<1> HIDE DEF join, abandon
<1>8. first \in Seq(Line) /\ ToSet(first) = {join(i) : i \in DOMAIN joins}
  <2>1. first \in [DOMAIN joins -> Line] /\ \A i \in DOMAIN joins : first[i] = join(i)
    BY <1>6
  <2> HIDE DEF first
  <2>2. first \in Seq(Line) /\ ToSet(first) = {first[i] : i \in DOMAIN joins}
    BY <1>3, <2>1, ListedAs
  <2>3. QED
    BY <2>1, <2>2
<1>9. second \in Seq(Line) /\ ToSet(second) = {abandon(i) : i \in DOMAIN abandons}
  <2>1. second \in [DOMAIN abandons -> Line] /\ \A i \in DOMAIN abandons : second[i] = abandon(i)
    BY <1>7
  <2> HIDE DEF second
  <2>2. second \in Seq(Line) /\ ToSet(second) = {second[i] : i \in DOMAIN abandons}
    BY <1>4, <2>1, ListedAs
  <2>3. QED
    BY <2>1, <2>2
<1> HIDE DEF first, second
<1>10. /\ C!QueueEvents \in Seq(Line)
       /\ ToSet(C!QueueEvents) = ToSet(first) \cup ToSet(second)
  BY <1>2, <1>8, <1>9, ConcatSays
<1>11. ASSUME NEW i \in DOMAIN joins
       PROVE  joins[i].visitor \in ToSet(billingPresent) /\ inZone[joins[i].visitor] = Away
  <2>1. joins[i] \in ToSet(joins)
    BY DEF ToSet
  <2>2. QED
    BY <1>3, <2>1
<1>12. ASSUME NEW v \in ToSet(billingPresent), inZone[v] = Away
       PROVE  \E i \in DOMAIN joins : joins[i].visitor = v
  <2>1. PICK a \in ToSet(joins) : a.visitor = v
    BY <1>3, <1>12
  <2>2. QED
    BY <2>1 DEF ToSet
<1>13. QED
  BY <1>6, <1>7, <1>8, <1>9, <1>10, <1>11, <1>12

-----------------------------------------------------------------------------
(***************************************************************************)
(* The next detection of a frame.                                          *)
(***************************************************************************)

Seen == Head(todo)
SeenVisitor == TrackOwner[Seen.track]
SeenCrossing == CrossingOf(Seen)
SeenRunning == C!ClocksAfterCrossing(SeenVisitor, SeenCrossing)

SeenLines ==
  C!CrossingEvents(SeenVisitor, SeenCrossing, Seen.staff)
    \o C!ZoneEvents(SeenVisitor, Seen.zone, SeenRunning, Seen.staff)

\* It is of a visitor in view of the camera.
LEMMA SeenTyped ==
  ASSUME VisitTypeOK, FrameShowsPlace, inFrame, todo # << >>
  PROVE  /\ Seen \in C!Detection /\ Seen \in ToSet(todo)
         /\ SeenVisitor \in Visitors /\ Seen.staff \in BOOLEAN
         /\ Seen.zone \in Zones \cup {NoZone}
         /\ View[place[SeenVisitor]][C!camera] # Hidden
         /\ View[place[SeenVisitor]][C!camera].zone = Seen.zone
         /\ View[place[SeenVisitor]][C!camera].side = Seen.side
         /\ SeenCrossing \in {"ENTRY", "EXIT", "none"}
         /\ SeenCrossing # "none" => C!camera = EntryCamera
         /\ SeenCrossing = "EXIT" => Seen.side = "outside"
         /\ Tail(todo) \in Seq(C!Detection)
         /\ \A d \in ToSet(todo) : d = Seen \/ d \in ToSet(Tail(todo))
         /\ ToSet(Tail(todo)) \subseteq ToSet(todo)
<1>1. todo \in Seq(C!Detection)
  BY DEF VisitTypeOK, FrameTypeOK
<1>2. /\ Seen \in C!Detection /\ Seen \in ToSet(todo)
      /\ Tail(todo) \in Seq(C!Detection)
      /\ \A d \in ToSet(todo) : d = Seen \/ d \in ToSet(Tail(todo))
      /\ ToSet(Tail(todo)) \subseteq ToSet(todo)
  <2> DEFINE t == Tail(todo)
             n == Len(todo)
  <2>1. /\ Seen = todo[1] /\ Seen \in C!Detection
        /\ t \in Seq(C!Detection) /\ Len(t) = n - 1
        /\ \A i \in 1 .. Len(t) : t[i] = todo[i + 1]
        /\ n \in Nat /\ n >= 1
        /\ DOMAIN todo = 1 .. n /\ DOMAIN t = 1 .. Len(t)
    BY <1>1, HeadTailProperties DEF Seen
  <2> HIDE DEF t, n
  <2>2. Seen \in ToSet(todo)
    BY <2>1 DEF ToSet
  <2>3. ASSUME NEW d \in ToSet(todo)
        PROVE  d = Seen \/ d \in ToSet(t)
    <3>1. PICK i \in 1 .. n : d = todo[i]
      BY <2>1 DEF ToSet
    <3>2. CASE i = 1
      BY <2>1, <3>1, <3>2
    <3>3. CASE i # 1
      <4>1. i - 1 \in 1 .. Len(t) /\ (i - 1) + 1 = i
        BY <2>1, <3>3
      <4>2. t[i - 1] = d
        BY <2>1, <3>1, <4>1
      <4>3. QED
        BY <2>1, <4>1, <4>2 DEF ToSet
    <3>4. QED
      BY <3>2, <3>3
  <2>4. ASSUME NEW i \in 1 .. Len(t)
        PROVE  t[i] \in ToSet(todo)
    <3>1. i + 1 \in 1 .. n /\ t[i] = todo[i + 1]
      BY <2>1
    <3>2. QED
      BY <2>1, <3>1 DEF ToSet
  <2>5. ToSet(t) \subseteq ToSet(todo)
    BY <2>1, <2>4 DEF ToSet
  <2>6. QED
    BY <2>1, <2>2, <2>3, <2>5 DEF t
<1>3. Seen.track \in Tracks /\ Seen.zone \in Zones \cup {NoZone} /\ Seen.staff \in BOOLEAN
  BY <1>2 DEF C!Detection
<1>4. SeenVisitor \in Visitors
  BY <1>3, VisitAssumption DEF SeenVisitor
<1>5. /\ View[place[SeenVisitor]][C!camera] # Hidden
      /\ View[place[SeenVisitor]][C!camera].zone = Seen.zone
      /\ View[place[SeenVisitor]][C!camera].side = Seen.side
  BY <1>2 DEF FrameShowsPlace, SeenVisitor
<1>6. /\ SeenCrossing \in {"ENTRY", "EXIT", "none"}
      /\ SeenCrossing # "none" => C!camera = EntryCamera
      /\ SeenCrossing = "EXIT" => Seen.side = "outside"
  BY DEF SeenCrossing, CrossingOf, C!Crossing
<1>7. QED
  BY <1>2, <1>3, <1>4, <1>5, <1>6

\* The clocks of the visitor after the crossing.
LEMMA RunningTyped ==
  ASSUME VisitTypeOK, FrameShowsPlace, inFrame, todo # << >>
  PROVE  /\ SeenRunning \in [Zones -> C!Clock \cup {Away}]
         /\ \A z \in Zones : SeenRunning[z] # Away => SeenRunning[z].enter <= now
         /\ SeenCrossing # "EXIT" => SeenRunning = clocks[C!camera][SeenVisitor]
         /\ SeenCrossing = "EXIT" => \A z \in Zones : SeenRunning[z] = Away
<1>1. /\ SeenVisitor \in Visitors /\ C!camera \in C!Cameras
  BY SeenTyped, CameraIsOne DEF VisitTypeOK, FrameTypeOK
<1>2. /\ clocks[C!camera][SeenVisitor] \in [Zones -> C!Clock \cup {Away}]
      /\ \A z \in Zones : clocks[C!camera][SeenVisitor][z] # Away =>
           clocks[C!camera][SeenVisitor][z].enter <= now
  BY <1>1 DEF VisitTypeOK, CameraTypeOK
<1>3. SeenRunning = IF SeenCrossing = "EXIT" THEN [z \in Zones |-> Away]
                    ELSE clocks[C!camera][SeenVisitor]
  BY DEF SeenRunning, C!ClocksAfterCrossing
<1>4. QED
  BY <1>2, <1>3

\* A ZONE_EXIT of v that has the time on a clock.
Ends(e, v, z, clock) ==
  e.type = "ZONE_EXIT" /\ e.visitor = v /\ e.zone = z /\ e.dwell = C!DwellSince(clock)

\* What is said of the detection: its crossing first, and the end of every stay.
LEMMA SeenSays ==
  ASSUME VisitTypeOK, FrameShowsPlace, inFrame, todo # << >>
  PROVE  /\ SeenLines \in Seq(Line)
         /\ \A e \in ToSet(SeenLines) :
              /\ e.visitor = SeenVisitor
              /\ e.type # "BILLING_QUEUE_JOIN"
              /\ e.type \in {"ENTRY", "REENTRY"} => SeenCrossing = "ENTRY"
              /\ e.type = "REENTRY" => exitCount[SeenVisitor] > 0
              /\ e.type = "ENTRY" => ~(exitCount[SeenVisitor] > 0)
              /\ e.type = "EXIT" => SeenCrossing = "EXIT"
         /\ SeenCrossing = "ENTRY" =>
              \E e \in ToSet(SeenLines) :
                e.type = IF exitCount[SeenVisitor] > 0 THEN "REENTRY" ELSE "ENTRY"
         /\ SeenCrossing = "EXIT" =>
              /\ \E e \in ToSet(SeenLines) : e.type = "EXIT"
              /\ \A z \in Zones : clocks[C!camera][SeenVisitor][z] # Away =>
                   \E e \in ToSet(SeenLines) :
                     Ends(e, SeenVisitor, z, clocks[C!camera][SeenVisitor][z])
         /\ LET prev == currentZone[C!camera][SeenVisitor]
            IN  prev # NoZone /\ prev # Seen.zone =>
                  \E e \in ToSet(SeenLines) : Ends(e, SeenVisitor, prev, SeenRunning[prev])
<1> DEFINE v == SeenVisitor
           c == SeenCrossing
           CE == C!CrossingEvents(v, c, Seen.staff)
           ZE == C!ZoneEvents(v, Seen.zone, SeenRunning, Seen.staff)
           prev == currentZone[C!camera][v]
           clock == clocks[C!camera][v]
<1>1. /\ v \in Visitors /\ Seen.staff \in BOOLEAN /\ Seen.zone \in Zones \cup {NoZone}
      /\ c \in {"ENTRY", "EXIT", "none"}
  BY SeenTyped
<1>2. /\ CE \in Seq(Line)
      /\ ToSet(CE) = CrossingLines(v, c, Seen.staff)
  BY <1>1, CrossingSays
<1>3. /\ ZE \in Seq(Line)
      /\ ToSet(ZE) = ZoneLines(v, Seen.zone, SeenRunning, Seen.staff)
  BY <1>1, RunningTyped, ZoneSays
<1>4. SeenLines \in Seq(Line) /\ ToSet(SeenLines) = ToSet(CE) \cup ToSet(ZE)
  BY <1>2, <1>3, ConcatSays DEF SeenLines
<1>5. /\ \A e \in ToSet(CE) :
           /\ e.visitor = v
           /\ e.type \in {"ENTRY", "REENTRY"} => c = "ENTRY"
           /\ e.type = "REENTRY" => exitCount[v] > 0
           /\ e.type = "ENTRY" => ~(exitCount[v] > 0)
           /\ e.type = "EXIT" => c = "EXIT"
           /\ e.type # "BILLING_QUEUE_JOIN"
      /\ c = "ENTRY" => \E e \in ToSet(CE) : e.type = IF exitCount[v] > 0 THEN "REENTRY" ELSE "ENTRY"
      /\ c = "EXIT" => /\ \E e \in ToSet(CE) : e.type = "EXIT"
                       /\ \A z \in Zones : clock[z] # Away =>
                            \E e \in ToSet(CE) : Ends(e, v, z, clock[z])
  <2>1. CASE c = "ENTRY"
    <3>1. ToSet(CE) = {C!StoreEvent(IF exitCount[v] > 0 THEN "REENTRY" ELSE "ENTRY",
                                    v, NoZone, 0, Seen.staff)}
      BY <1>2, <2>1 DEF CrossingLines
    <3> HIDE DEF CE, v, c, clock
    <3>2. QED
      BY <2>1, <3>1 DEF C!StoreEvent
  <2>2. CASE c = "EXIT"
    <3> DEFINE tell(z) == C!StoreEvent("ZONE_EXIT", v, z, C!DwellSince(clock[z]), Seen.staff)
               exit == C!StoreEvent("EXIT", v, NoZone, 0, Seen.staff)
    <3>1. ToSet(CE) = {tell(z) : z \in {z \in Zones : clock[z] # Away}} \cup {exit}
      BY <1>2, <2>2 DEF CrossingLines
    <3>2. /\ exit.type = "EXIT" /\ exit.visitor = v
          /\ \A z : Ends(tell(z), v, z, clock[z])
      BY DEF C!StoreEvent, Ends
    <3> HIDE DEF CE, v, c, clock, tell, exit
    <3>3. \A e \in ToSet(CE) : e.visitor = v /\ e.type \in {"EXIT", "ZONE_EXIT"}
      BY <3>1, <3>2 DEF Ends
    <3>4. \A z \in Zones : clock[z] # Away => \E e \in ToSet(CE) : Ends(e, v, z, clock[z])
      BY <3>1, <3>2
    <3>5. \E e \in ToSet(CE) : e.type = "EXIT"
      BY <3>1, <3>2
    <3>6. QED
      BY <2>2, <3>3, <3>4, <3>5
  <2>3. CASE c = "none"
    <3>1. ToSet(CE) = {}
      BY <1>2, <2>3 DEF CrossingLines
    <3>2. QED
      BY <2>3, <3>1
  <2>4. QED
    BY <1>1, <2>1, <2>2, <2>3
<1>6. /\ \A e \in ToSet(ZE) :
           e.visitor = v /\ e.type \in {"ZONE_ENTER", "ZONE_EXIT", "ZONE_DWELL"}
      /\ prev # NoZone /\ prev # Seen.zone => \E e \in ToSet(ZE) : Ends(e, v, prev, SeenRunning[prev])
  <2> DEFINE zone == Seen.zone
             dwell == C!StoreEvent("ZONE_DWELL", v, zone, C!DwellSince(SeenRunning[zone]), Seen.staff)
             gone == C!StoreEvent("ZONE_EXIT", v, prev, C!DwellSince(SeenRunning[prev]), Seen.staff)
             come == C!StoreEvent("ZONE_ENTER", v, zone, 0, Seen.staff)
             L == ToSet(ZE)
  <2>1. L = IF zone = prev
            THEN IF zone # NoZone /\ C!TickDue(SeenRunning[zone]) THEN {dwell} ELSE {}
            ELSE (IF prev = NoZone THEN {} ELSE {gone}) \cup (IF zone = NoZone THEN {} ELSE {come})
    BY <1>3, Zenon DEF ZoneLines
  <2>2. /\ dwell.visitor = v /\ dwell.type = "ZONE_DWELL"
        /\ come.visitor = v /\ come.type = "ZONE_ENTER"
        /\ Ends(gone, v, prev, SeenRunning[prev])
        /\ gone.visitor = v /\ gone.type = "ZONE_EXIT"
    BY DEF C!StoreEvent, Ends
  <2> HIDE DEF L, dwell, come, gone, zone, prev, v
  <2>3. \A e \in L : e = dwell \/ e = come \/ e = gone
    BY <2>1
  <2>4. prev # NoZone /\ prev # zone => gone \in L
    BY <2>1
  <2>5. QED
    BY <2>2, <2>3, <2>4 DEF L, zone
<1> HIDE DEF CE, ZE, v, c, prev, clock
<1>7. \A e \in ToSet(SeenLines) :
              /\ e.visitor = v
              /\ e.type # "BILLING_QUEUE_JOIN"
              /\ e.type \in {"ENTRY", "REENTRY"} => c = "ENTRY"
              /\ e.type = "REENTRY" => exitCount[v] > 0
              /\ e.type = "ENTRY" => ~(exitCount[v] > 0)
              /\ e.type = "EXIT" => c = "EXIT"
  BY <1>4, <1>5, <1>6
<1>8. c = "ENTRY" =>
        \E e \in ToSet(SeenLines) : e.type = IF exitCount[v] > 0 THEN "REENTRY" ELSE "ENTRY"
  BY <1>4, <1>5
<1>9. c = "EXIT" => /\ \E e \in ToSet(SeenLines) : e.type = "EXIT"
                    /\ \A z \in Zones : clock[z] # Away =>
                         \E e \in ToSet(SeenLines) : Ends(e, v, z, clock[z])
  BY <1>4, <1>5
<1>10. prev # NoZone /\ prev # Seen.zone =>
         \E e \in ToSet(SeenLines) : Ends(e, v, prev, SeenRunning[prev])
  BY <1>4, <1>6
<1>11. QED
  BY <1>4, <1>7, <1>8, <1>9, <1>10 DEF v, c, prev, clock

-----------------------------------------------------------------------------
(***************************************************************************)
(* What each step changes.                                                 *)
(***************************************************************************)

\* A detection changes the records of its visitor, and no session.
LEMMA DetectEffects ==
  ASSUME VisitTypeOK, FrameShowsPlace, Detect
  PROVE  LET v == SeenVisitor
             c == SeenCrossing
         IN  /\ inFrame /\ todo # << >>
             /\ todo' = Tail(todo)
             /\ outbox' = outbox \o SeenLines
             /\ staff' = [staff EXCEPT ![v] = Seen.staff]
             /\ exitCount' = [exitCount EXCEPT ![v] = C!ExitCount(v, c)]
             /\ clocks' = [clocks EXCEPT ![C!camera][v] = C!ZoneClocks(v, Seen.zone, SeenRunning)]
             /\ currentZone' = [currentZone EXCEPT ![C!camera][v] = Seen.zone]
             /\ billingPresent' = IF C!InQueue(Seen) /\ v \notin ToSet(billingPresent)
                                  THEN Append(billingPresent, v) ELSE billingPresent
             /\ crossed' = [crossed EXCEPT ![v] = IF c = "none" THEN @ ELSE c]
             /\ exits' = exits \cup (IF c = "EXIT" THEN {v} ELSE {})
             /\ left' = left \cup (IF c = "EXIT" THEN {v} ELSE {})
             /\ met' = met \cup {<<C!camera, v>>}
             /\ late' = IF c = "ENTRY" /\ exitCount[v] = 0 /\ inZone[v] # Away
                        THEN late \cup {v} ELSE late
             /\ UNCHANGED <<now, turn, inFrame, ended, inZone, exited, sessionVars,
                            place, noticed, spent>>
<1> DEFINE v == SeenVisitor
           c == SeenCrossing
           CE == C!CrossingEvents(v, c, Seen.staff)
           ZE == C!ZoneEvents(v, Seen.zone, SeenRunning, Seen.staff)
<1>1. C!NextDetection /\ C!See(Seen)
  BY DEF Detect, C!Detect, Seen
<1>2. /\ inFrame /\ todo # << >> /\ todo' = Tail(todo)
      /\ UNCHANGED <<now, turn, inFrame, ended, inZone, exited>>
  BY <1>1 DEF C!NextDetection, C!queueVars
<1>3. /\ crossed' = [crossed EXCEPT ![v] = IF c = "none" THEN @ ELSE c]
      /\ exits' = exits \cup (IF c = "EXIT" THEN {v} ELSE {})
      /\ left' = left \cup (IF c = "EXIT" THEN {v} ELSE {})
      /\ met' = met \cup {<<C!camera, v>>}
      /\ late' = IF c = "ENTRY" /\ exitCount[v] = 0 /\ inZone[v] # Away
                 THEN late \cup {v} ELSE late
      /\ UNCHANGED <<sessionVars, place, noticed, spent>>
  BY DEF Detect, SeenCrossing, SeenVisitor, Seen, CrossingOf
<1>4. C!ToSet(billingPresent) = ToSet(billingPresent)
  BY CamerasLists
<1>5. /\ staff' = [staff EXCEPT ![v] = Seen.staff]
      /\ outbox' = (outbox \o CE) \o ZE
      /\ exitCount' = [exitCount EXCEPT ![v] = C!ExitCount(v, c)]
      /\ clocks' = [clocks EXCEPT ![C!camera][v] = C!ZoneClocks(v, Seen.zone, SeenRunning)]
      /\ currentZone' = [currentZone EXCEPT ![C!camera][v] = Seen.zone]
      /\ billingPresent' = IF C!InQueue(Seen) /\ v \notin ToSet(billingPresent)
                           THEN Append(billingPresent, v) ELSE billingPresent
  BY <1>1, <1>4 DEF C!See, SeenCrossing, SeenVisitor, SeenRunning, CrossingOf
<1>6. outbox' = outbox \o SeenLines
  <2>1. CE \in Seq(Line) /\ ZE \in Seq(Line) /\ outbox \in Seq(Line)
    <3>1. /\ v \in Visitors /\ Seen.staff \in BOOLEAN /\ Seen.zone \in Zones \cup {NoZone}
          /\ c \in {"ENTRY", "EXIT", "none"}
      BY <1>2, SeenTyped
    <3>2. CE \in Seq(Line)
      BY <3>1, CrossingSays
    <3>3. ZE \in Seq(Line)
      BY <1>2, <3>1, RunningTyped, ZoneSays
    <3>4. QED
      BY <3>2, <3>3 DEF VisitTypeOK, FrameTypeOK
  <2>2. SeenLines = CE \o ZE
    BY DEF SeenLines
  <2> HIDE DEF CE, ZE
  <2>3. (outbox \o CE) \o ZE = outbox \o (CE \o ZE)
    BY <2>1, ConcatAssociative
  <2>4. QED
    BY <1>5, <2>2, <2>3
<1>7. QED
  BY <1>2, <1>3, <1>5, <1>6

\* The turn goes to the next camera, and the time goes on with the round.
LEMMA NextCameraEffects ==
  ASSUME VisitTypeOK, C!NextCamera
  PROVE  /\ turn' \in Rounds
         /\ now' \in Nat /\ now <= now'
         /\ turn' = 1 => now' = now + 1
         /\ turn' # 1 => now' = now /\ turn' = turn + 1
<1>1. Len(CameraOrder) \in Nat /\ turn \in 1 .. Len(CameraOrder) /\ now \in Nat
  BY VisitAssumption DEF VisitTypeOK, FrameTypeOK, Rounds
<1>2. /\ turn' = IF turn = Len(CameraOrder) THEN 1 ELSE turn + 1
      /\ now' = IF turn = Len(CameraOrder) THEN now + 1 ELSE now
  BY DEF C!NextCamera
<1>3. QED
  BY <1>1, <1>2 DEF Rounds

\* The end of a frame changes the queue only, and only at the billing camera.
LEMMA EndFrameEffects ==
  ASSUME VisitTypeOK, EndFrame
  PROVE  /\ inFrame /\ todo = << >>
         /\ ~inFrame'
         /\ \/ /\ C!camera = BillingCamera
               /\ C!UpdateQueue(billingPresent, now)
               /\ outbox' = outbox \o C!QueueEvents
            \/ C!camera # BillingCamera /\ UNCHANGED <<inZone, exited, outbox>>
         /\ C!NextCamera
         /\ late' = {v \in late : inZone'[v] # Away}
         /\ UNCHANGED <<todo, billingPresent, ended, currentZone, clocks, exitCount, staff,
                        sessionVars, place, noticed, spent, met, crossed, exits, left>>
<1>1. /\ C!EndFrame
      /\ late' = {v \in late : inZone'[v] # Away}
      /\ UNCHANGED <<sessionVars, place, noticed, spent, met, crossed, exits, left>>
  BY DEF EndFrame
<1>2. /\ inFrame /\ todo = << >>
      /\ inFrame' = FALSE
      /\ IF C!camera = BillingCamera
         THEN C!UpdateQueue(billingPresent, now) /\ outbox' = outbox \o C!QueueEvents
         ELSE UNCHANGED <<inZone, exited, outbox>>
      /\ C!NextCamera
      /\ UNCHANGED <<todo, billingPresent, ended, currentZone, clocks, exitCount, staff>>
  BY <1>1 DEF C!EndFrame, C!queueVars, C!zoneVars
<1>3. QED
  BY <1>1, <1>2

\* The end of a video stops the clocks of its camera.
LEMMA EndVideoEffects ==
  ASSUME VisitTypeOK, EndVideo
  PROVE  /\ outbox = << >> /\ ~inFrame
         /\ C!camera \notin ended
         /\ outbox' = outbox \o C!FlushEvents
         /\ clocks' = [clocks EXCEPT ![C!camera] =
              [v \in Visitors |-> [z \in Zones |->
                 IF z = currentZone[C!camera][v] THEN Away ELSE clocks[C!camera][v][z]]]]
         /\ currentZone' = [currentZone EXCEPT ![C!camera] = [v \in Visitors |-> NoZone]]
         /\ ended' = ended \cup {C!camera}
         /\ C!NextCamera
         /\ UNCHANGED <<inFrame, todo, billingPresent, exitCount, staff, inZone, exited,
                        sessionVars, place, noticed, spent, met, crossed, exits, left, late>>
<1>1. C!EndVideo /\ outbox = << >> /\ UNCHANGED <<sessionVars, walkVars>>
  BY DEF EndVideo
<1>2. /\ ~inFrame
      /\ C!camera \notin ended
      /\ outbox' = outbox \o C!FlushEvents
      /\ clocks' = [clocks EXCEPT ![C!camera] =
           [v \in Visitors |-> [z \in Zones |->
              IF z = currentZone[C!camera][v] THEN Away ELSE clocks[C!camera][v][z]]]]
      /\ currentZone' = [currentZone EXCEPT ![C!camera] = [v \in Visitors |-> NoZone]]
      /\ ended' = ended \cup {C!camera}
      /\ C!NextCamera
      /\ UNCHANGED <<inFrame, todo, billingPresent, exitCount, staff, inZone, exited>>
  BY <1>1 DEF C!EndVideo, C!queueVars
<1>3. UNCHANGED <<sessionVars, place, noticed, spent, met, crossed, exits, left, late>>
  BY <1>1 DEF walkVars
<1>4. QED
  BY <1>1, <1>2, <1>3

\* A camera whose video is over passes its turn on and changes nothing else.
LEMMA SkipEffects ==
  ASSUME VisitTypeOK, SkipEnded
  PROVE  /\ ~inFrame /\ C!camera \in ended
         /\ C!NextCamera
         /\ UNCHANGED <<inFrame, todo, billingPresent, ended, currentZone, clocks, exitCount,
                        staff, inZone, exited, outbox,
                        sessionVars, place, noticed, spent, met, crossed, exits, left, late>>
<1>1. C!SkipEnded /\ UNCHANGED <<sessionVars, walkVars>>
  BY DEF SkipEnded
<1>2. /\ ~inFrame /\ C!camera \in ended
      /\ C!NextCamera
      /\ UNCHANGED <<inFrame, todo, billingPresent, ended, currentZone, clocks, exitCount,
                     staff, inZone, exited, outbox>>
  BY <1>1 DEF C!SkipEnded, C!queueVars, C!zoneVars
<1>3. UNCHANGED <<sessionVars, place, noticed, spent, met, crossed, exits, left, late>>
  BY <1>1 DEF walkVars
<1>4. QED
  BY <1>2, <1>3

\* The frames of the camera show who stands in its view.
LEMMA SightingsTyped ==
  ASSUME VisitTypeOK, NEW w \in Walks, NEW ds \in Sightings(w)
  PROVE  /\ w \in [Visitors -> Places]
         /\ turn # 1 => w = place
         /\ ds \in Seq(C!Detection)
         /\ \A d \in ToSet(ds) :
              LET p == View[w[TrackOwner[d.track]]][C!camera]
              IN  p # Hidden /\ d.zone = p.zone /\ d.side = p.side
<1>1. w \in [Visitors -> Places] /\ (turn # 1 => w = place)
  BY DEF Walks, VisitTypeOK, WalkTypeOK
<1> DEFINE Fits(v, d) == /\ TrackOwner[d.track] = v
                         /\ d.zone = View[w[v]][C!camera].zone
                         /\ d.side = View[w[v]][C!camera].side
                         /\ d.staff \in StaffFlags
           inView == {v \in Visitors : View[w[v]][C!camera] # Hidden}
<1>2. PICK S \in SUBSET inView : \E D \in [S -> C!Detection] :
        /\ \A v \in S : Fits(v, D[v])
        /\ ds = SetToSeq({D[v] : v \in S})
  <2> DEFINE seen == {S \in SUBSET inView : inView \ S \subseteq Missable}
  <2>1. PICK D \in UNION {[S -> C!Detection] : S \in seen} :
          /\ \A v \in DOMAIN D : Fits(v, D[v])
          /\ ds = SetToSeq({D[v] : v \in DOMAIN D})
    BY DEF Sightings
  <2>2. PICK S \in seen : D \in [S -> C!Detection]
    BY <2>1
  <2>3. DOMAIN D = S /\ S \in SUBSET inView
    BY <2>2
  <2> HIDE DEF Fits
  <2>4. QED
    BY <2>1, <2>2, <2>3
<1>3. PICK D \in [S -> C!Detection] :
        /\ \A v \in S : Fits(v, D[v])
        /\ ds = SetToSeq({D[v] : v \in S})
  BY <1>2
<1> DEFINE T == {D[v] : v \in S}
<1>4. IsFiniteSet(T)
  <2>1. S \in SUBSET Visitors
    OBVIOUS
  <2>2. IsFiniteSet(S)
    BY <2>1, VisitAssumption, FS_Subset
  <2>3. D \in Surjection(S, T)
    BY DEF Surjection
  <2> HIDE DEF T
  <2>4. QED
    BY <2>2, <2>3, FS_Surjection
<1>5. T \subseteq C!Detection /\ \A d \in T : \E v \in S : Fits(v, d)
  BY <1>3
<1>6. \A v \in S : View[w[v]][C!camera] # Hidden
  OBVIOUS
<1>7. ds = SetToSeq(T)
  BY <1>3
<1> HIDE DEF T, Fits
<1>8. ds \in Seq(T) /\ ToSet(ds) = T
  BY <1>4, <1>7, ListOfSet, SetListed
<1>9. ds \in Seq(C!Detection)
  BY <1>5, <1>8, SeqMonotonic
<1>10. ASSUME NEW d \in ToSet(ds)
      PROVE  LET p == View[w[TrackOwner[d.track]]][C!camera]
             IN  p # Hidden /\ d.zone = p.zone /\ d.side = p.side
  <2>1. PICK v \in S : Fits(v, d)
    BY <1>5, <1>8
  <2>2. QED
    BY <1>6, <2>1 DEF Fits
<1>11. QED
  BY <1>1, <1>9, <1>10

\* The frame begins with the visitors as in w and the detections ds.
FrameStep(w, ds) ==
  /\ outbox = << >> /\ ~inFrame /\ inFrame' = TRUE
  /\ C!camera \notin ended
  /\ todo' = ds /\ billingPresent' = << >>
  /\ place' = w
  /\ noticed' = {n \in noticed : w[n[2]] = place[n[2]]}
                      \cup {<<C!camera, TrackOwner[d.track]>> : d \in ToSet(ds)}
  /\ left' = {v \in left : AtDoor(w[v])}
  /\ spent' = [c \in C!Cameras |-> [v \in Visitors |-> [z \in Zones |->
       IF /\ turn = 1
          /\ <<c, v>> \in noticed
          /\ w[v] = place[v]
          /\ InZone(w[v], c, z)
          /\ c \notin ended
       THEN spent[c][v][z] + 1 ELSE spent[c][v][z]]]]
  /\ UNCHANGED <<now, turn, ended, currentZone, clocks, exitCount, staff, inZone, exited,
                 outbox, sessionVars, met, crossed, exits, late>>

\* What a frame does.
LEMMA FrameEffects ==
  ASSUME VisitTypeOK, Frame
  PROVE  \E w \in Walks : \E ds \in Sightings(w) : FrameStep(w, ds)
<1>1. PICK w \in Walks : \E ds \in Sightings(w) :
       /\ C!StartFrame(ds)
       /\ place' = w
       /\ noticed' = {n \in noticed : w[n[2]] = place[n[2]]}
                      \cup {<<C!camera, TrackOwner[d.track]>> : d \in ToSet(ds)}
       /\ left' = {v \in left : AtDoor(w[v])}
       /\ spent' = [c \in C!Cameras |-> [v \in Visitors |-> [z \in Zones |->
            IF /\ turn = 1
               /\ <<c, v>> \in noticed
               /\ w[v] = place[v]
               /\ InZone(w[v], c, z)
               /\ c \notin ended
            THEN spent[c][v][z] + 1 ELSE spent[c][v][z]]]]
  BY DEF Frame
<1>2. PICK ds \in Sightings(w) :
       /\ C!StartFrame(ds)
       /\ noticed' = {n \in noticed : w[n[2]] = place[n[2]]}
                      \cup {<<C!camera, TrackOwner[d.track]>> : d \in ToSet(ds)}
  BY <1>1
<1>3. /\ ~inFrame /\ inFrame' = TRUE
      /\ C!camera \notin ended
      /\ todo' = ds /\ billingPresent' = << >>
      /\ UNCHANGED <<now, turn, ended, currentZone, clocks, exitCount, staff, inZone, exited, outbox>>
  BY <1>2 DEF C!StartFrame, C!NewFrame, C!queueVars, C!zoneVars
<1>4. outbox = << >> /\ UNCHANGED <<sessionVars, met, crossed, exits, late>>
  BY DEF Frame
<1>5. QED
  BY <1>1, <1>2, <1>3, <1>4 DEF FrameStep

\* Another passport has other exits than the last one, and nothing else changes.
LEMMA PassportEffects ==
  ASSUME VisitTypeOK, OtherPassport
  PROVE  /\ inFrame /\ C!camera = EntryCamera
         /\ exitCount' \in [Visitors -> Nat]
         /\ \A v \in Visitors : exitCount'[v] # exitCount[v] => v \in Shared \cap exits
         /\ UNCHANGED <<inZone, exited, now, turn, inFrame, todo, billingPresent, currentZone,
                        clocks, staff, ended, outbox, sessionVars,
                        place, noticed, spent, met, crossed, exits, left, late>>
<1> DEFINE u == TrackOwner[Head(todo).track]
<1>1. /\ inFrame /\ C!camera = EntryCamera
      /\ u \in Shared \cap exits
      /\ exitCount' = [exitCount EXCEPT ![u] = IF @ = 0 THEN 1 ELSE 0]
      /\ UNCHANGED <<inZone, exited, now, turn, inFrame, todo, billingPresent, currentZone,
                     clocks, staff, ended, outbox, sessionVars,
                     place, noticed, spent, met, crossed, exits, left, late>>
  BY DEF OtherPassport, walkVars
<1>2. exitCount \in [Visitors -> Nat]
  BY DEF VisitTypeOK, CameraTypeOK
<1> HIDE DEF u
<1>3. /\ exitCount' \in [Visitors -> Nat]
      /\ \A v \in Visitors : v # u => exitCount'[v] = exitCount[v]
  BY <1>1, <1>2
<1>4. QED
  BY <1>1, <1>3

\* The event a line of the file is at the API.
EventOf(e) ==
  [id |-> 0, store |-> Store, type |-> e.type, visitor |-> e.visitor, time |-> e.time,
   zone |-> e.zone, dwell |-> e.dwell, staff |-> e.staff]

\* A delivery takes the first line of the outbox to the sessionizer and leaves
\* the cameras and the visitors alone.
LEMMA DeliverEffects ==
  ASSUME VisitTypeOK, Deliver
  PROVE  LET e == EventOf(outbox[1])
         IN  /\ e \in Event
             /\ e.visitor = Head(outbox).visitor /\ e.type = Head(outbox).type
             /\ e.zone = Head(outbox).zone /\ e.dwell = Head(outbox).dwell
             /\ ProcessEvent(e)
             /\ ~inFrame /\ outbox # << >> /\ outbox' = Tail(outbox)
             /\ UNCHANGED <<inZone, exited, now, turn, inFrame, todo, billingPresent, currentZone,
                            clocks, exitCount, staff, ended,
                            place, noticed, spent, met, crossed, exits, left, late>>
<1>1. /\ ~inFrame /\ outbox # << >> /\ outbox' = Tail(outbox)
      /\ ProcessEvent(EventOf(Head(outbox)))
      /\ UNCHANGED <<inZone, exited, now, turn, inFrame, todo, billingPresent, currentZone,
                     clocks, exitCount, staff, ended,
                     place, noticed, spent, met, crossed, exits, left, late>>
  BY DEF Deliver, EventOf, cameraOnlyVars, walkVars
<1>2. Head(outbox) \in Line /\ Head(outbox) = outbox[1]
  <2>1. outbox \in Seq(Line)
    BY DEF VisitTypeOK, FrameTypeOK
  <2>2. QED
    BY <1>1, <2>1, WaitingReads
<1>3. EventOf(Head(outbox)) \in Event
  BY <1>2, VisitAssumption DEF Line, Event, EventOf, Time
<1>4. QED
  BY <1>1, <1>2, <1>3 DEF EventOf

-----------------------------------------------------------------------------
(***************************************************************************)
(* Types and clocks.                                                       *)
(***************************************************************************)

\* The clock of the zone that was left stops, that of the new one starts, the
\* others go on.
ClocksMove(running, next, prev, zone) ==
  \A z \in Zones :
    /\ next[z] # Away =>
         \/ running[z] # Away /\ next[z].enter = running[z].enter
         \/ z = zone /\ zone # prev /\ next[z].enter = now
    /\ next[z] = Away /\ running[z] # Away => z = prev /\ zone # prev
    /\ z = prev /\ zone # prev => next[z] = Away
    /\ z = zone /\ zone # prev => next[z] # Away

\* The clocks of v after a detection in `zone`.
LEMMA ZoneClocksAre ==
  ASSUME now \in Nat, NEW v, NEW zone \in Zones \cup {NoZone},
         NEW running \in [Zones -> C!Clock \cup {Away}]
  PROVE  /\ C!ZoneClocks(v, zone, running) \in [Zones -> C!Clock \cup {Away}]
         /\ ClocksMove(running, C!ZoneClocks(v, zone, running), currentZone[C!camera][v], zone)
<1> DEFINE next == C!ZoneClocks(v, zone, running)
           prev == currentZone[C!camera][v]
           fresh == [enter |-> now, last |-> now]
           Ticked(k) == [k EXCEPT !.last = now]
<1>1. fresh \in C!Clock /\ fresh.enter = now /\ fresh # Away
  BY AwayIsNone DEF C!Clock
<1>2. \A k \in C!Clock : Ticked(k) \in C!Clock /\ Ticked(k).enter = k.enter /\ Ticked(k) # Away
  BY AwayIsNone DEF C!Clock
<1>3. ASSUME NEW z \in Zones
      PROVE  next[z] = IF zone = prev
                       THEN IF z = zone /\ C!TickDue(running[z]) THEN Ticked(running[z])
                            ELSE running[z]
                       ELSE IF z = prev THEN Away
                       ELSE IF z = zone /\ running[z] = Away THEN fresh
                       ELSE running[z]
  <2>1. next[z] = CASE zone = prev ->
                         IF z = zone /\ C!TickDue(running[z]) THEN Ticked(running[z]) ELSE running[z]
                    [] zone # prev /\ z = prev -> Away
                    [] zone # prev /\ z = zone /\ running[z] = Away -> fresh
                    [] OTHER -> running[z]
    BY DEF C!ZoneClocks
  <2> HIDE DEF next, prev, fresh, Ticked
  <2>2. QED
    BY <2>1
<1>4. \A z \in Zones : C!TickDue(running[z]) => running[z] # Away
  BY DEF C!TickDue
<1>5. next = [z \in Zones |-> next[z]]
  BY DEF C!ZoneClocks
<1> HIDE DEF next, prev, fresh, Ticked
<1>6. ASSUME NEW z \in Zones
      PROVE  /\ next[z] \in C!Clock \cup {Away}
             /\ next[z] # Away =>
                  \/ running[z] # Away /\ next[z].enter = running[z].enter
                  \/ z = zone /\ zone # prev /\ next[z].enter = now
             /\ next[z] = Away /\ running[z] # Away => z = prev /\ zone # prev
             /\ z = prev /\ zone # prev => next[z] = Away
             /\ z = zone /\ zone # prev => next[z] # Away
  <2>1. running[z] \in C!Clock \cup {Away}
    OBVIOUS
  <2>2. CASE zone = prev
    <3>1. CASE z = zone /\ C!TickDue(running[z])
      BY <1>2, <1>3, <1>4, <2>1, <2>2, <3>1
    <3>2. CASE ~(z = zone /\ C!TickDue(running[z]))
      BY <1>3, <2>1, <2>2, <3>2
    <3>3. QED
      BY <3>1, <3>2
  <2>3. CASE zone # prev
    BY <1>1, <1>3, <2>1, <2>3
  <2>4. QED
    BY <2>2, <2>3
<1>7. next \in [Zones -> C!Clock \cup {Away}]
  BY <1>5, <1>6
<1>8. QED
  BY <1>6, <1>7 DEF next, prev, ClocksMove

\* The clocks of the visitor of a detection, camera by camera.
LEMMA ClocksAfterDetect ==
  ASSUME VisitTypeOK, FrameShowsPlace, Detect
  PROVE  LET next == C!ZoneClocks(SeenVisitor, Seen.zone, SeenRunning)
         IN  /\ clocks' \in [C!Cameras -> [Visitors -> [Zones -> C!Clock \cup {Away}]]]
             /\ currentZone' \in [C!Cameras -> [Visitors -> Zones \cup {NoZone}]]
             /\ clocks'[C!camera][SeenVisitor] = next
             /\ currentZone'[C!camera][SeenVisitor] = Seen.zone
             /\ \A c \in C!Cameras, v \in Visitors :
                  c # C!camera \/ v # SeenVisitor =>
                    clocks'[c][v] = clocks[c][v] /\ currentZone'[c][v] = currentZone[c][v]
<1> DEFINE next == C!ZoneClocks(SeenVisitor, Seen.zone, SeenRunning)
<1>1. /\ inFrame /\ todo # << >>
      /\ clocks' = [clocks EXCEPT ![C!camera][SeenVisitor] = next]
      /\ currentZone' = [currentZone EXCEPT ![C!camera][SeenVisitor] = Seen.zone]
  BY DetectEffects
<1>2. /\ SeenVisitor \in Visitors /\ Seen.zone \in Zones \cup {NoZone}
      /\ C!camera \in C!Cameras /\ now \in Nat
  BY <1>1, SeenTyped, CameraIsOne DEF VisitTypeOK, FrameTypeOK
<1>3. next \in [Zones -> C!Clock \cup {Away}]
  BY <1>1, <1>2, RunningTyped, ZoneClocksAre
<1>4. /\ clocks \in [C!Cameras -> [Visitors -> [Zones -> C!Clock \cup {Away}]]]
      /\ currentZone \in [C!Cameras -> [Visitors -> Zones \cup {NoZone}]]
  BY DEF VisitTypeOK, CameraTypeOK
<1> HIDE DEF next
<1> DEFINE ClockRows == [Visitors -> [Zones -> C!Clock \cup {Away}]]
           row == [clocks[C!camera] EXCEPT ![SeenVisitor] = next]
<1>5. clocks' = [clocks EXCEPT ![C!camera] = row] /\ row \in ClockRows
  BY <1>1, <1>2, <1>3, <1>4
<1>6. clocks' \in [C!Cameras -> ClockRows]
  <2> HIDE DEF row, ClockRows
  <2>1. clocks \in [C!Cameras -> ClockRows]
    BY <1>4 DEF ClockRows
  <2>2. QED
    BY <1>2, <1>5, <2>1
<1>7. /\ clocks'[C!camera] = row
      /\ \A c \in C!Cameras : c # C!camera => clocks'[c] = clocks[c]
      /\ row[SeenVisitor] = next
      /\ \A v \in Visitors : v # SeenVisitor => row[v] = clocks[C!camera][v]
  BY <1>2, <1>4, <1>5
<1>8. /\ currentZone' \in [C!Cameras -> [Visitors -> Zones \cup {NoZone}]]
      /\ currentZone'[C!camera][SeenVisitor] = Seen.zone
      /\ \A c \in C!Cameras, v \in Visitors :
           c # C!camera \/ v # SeenVisitor => currentZone'[c][v] = currentZone[c][v]
  BY <1>1, <1>2, <1>4
<1>9. \A c \in C!Cameras, v \in Visitors :
        c # C!camera \/ v # SeenVisitor => clocks'[c][v] = clocks[c][v]
  <2> HIDE DEF row
  <2>1. QED
    BY <1>7
<1>10. clocks'[C!camera][SeenVisitor] = next
  BY <1>7
<1>11. QED
  BY <1>6, <1>8, <1>9, <1>10 DEF next, ClockRows

\* A detection leaves at most the clock of the zone the camera now holds its
\* visitor to be in.
LEMMA DetectKeepsClocks ==
  ASSUME VisitTypeOK, FrameShowsPlace, ClockMatchesZone, ClockRuns, Detect
  PROVE  ClockMatchesZone' /\ ClockRuns'
<1> DEFINE next == C!ZoneClocks(SeenVisitor, Seen.zone, SeenRunning)
           prev == currentZone[C!camera][SeenVisitor]
<1>1. inFrame /\ todo # << >>
  BY DetectEffects
<1>2. /\ SeenVisitor \in Visitors /\ Seen.zone \in Zones \cup {NoZone}
      /\ C!camera \in C!Cameras /\ now \in Nat
      /\ SeenCrossing # "none" => C!camera = EntryCamera
      /\ NoZone \notin Zones
  BY <1>1, SeenTyped, CameraIsOne, SessionizerAssumption DEF VisitTypeOK, FrameTypeOK
<1>3. /\ SeenRunning \in [Zones -> C!Clock \cup {Away}]
      /\ SeenCrossing # "EXIT" => SeenRunning = clocks[C!camera][SeenVisitor]
      /\ SeenCrossing = "EXIT" => \A z \in Zones : SeenRunning[z] = Away
  BY <1>1, RunningTyped
<1>4. \A z \in Zones :
        /\ next[z] # Away => SeenRunning[z] # Away \/ (z = Seen.zone /\ Seen.zone # prev)
        /\ next[z] = Away /\ SeenRunning[z] # Away => z = prev /\ Seen.zone # prev
        /\ z = prev /\ Seen.zone # prev => next[z] = Away
        /\ z = Seen.zone /\ Seen.zone # prev => next[z] # Away
  <2>1. /\ now \in Nat /\ Seen.zone \in Zones \cup {NoZone}
        /\ SeenRunning \in [Zones -> C!Clock \cup {Away}]
    BY <1>2, <1>3
  <2>2. ClocksMove(SeenRunning, next, prev, Seen.zone)
    BY <2>1, ZoneClocksAre
  <2> HIDE DEF next, prev
  <2>3. QED
    BY <2>2 DEF ClocksMove
<1>5. \A z \in Zones : SeenRunning[z] # Away => z = prev
  BY <1>2, <1>3 DEF ClockMatchesZone
<1>6. C!camera # EntryCamera /\ prev # NoZone => prev \in Zones /\ SeenRunning[prev] # Away
  <2> SUFFICES ASSUME C!camera # EntryCamera, prev # NoZone
               PROVE  prev \in Zones /\ SeenRunning[prev] # Away
    OBVIOUS
  <2>1. SeenRunning = clocks[C!camera][SeenVisitor]
    BY <1>2, <1>3
  <2>2. C!camera \in C!Cameras \ {EntryCamera} /\ prev \in Zones
    BY <1>2 DEF VisitTypeOK, CameraTypeOK
  <2>3. QED
    BY <1>2, <2>1, <2>2 DEF ClockRuns
<1>7. /\ clocks'[C!camera][SeenVisitor] = next
      /\ currentZone'[C!camera][SeenVisitor] = Seen.zone
      /\ \A c \in C!Cameras, v \in Visitors :
           c # C!camera \/ v # SeenVisitor =>
             clocks'[c][v] = clocks[c][v] /\ currentZone'[c][v] = currentZone[c][v]
  BY ClocksAfterDetect
<1> HIDE DEF next, prev
<1>8. ClockMatchesZone'
  <2> SUFFICES ASSUME NEW c \in C!Cameras, NEW v \in Visitors, NEW z \in Zones,
                      clocks'[c][v][z] # Away
               PROVE  currentZone'[c][v] = z
    BY DEF ClockMatchesZone
  <2>1. CASE c = C!camera /\ v = SeenVisitor
    BY <1>4, <1>5, <1>7, <2>1
  <2>2. CASE c # C!camera \/ v # SeenVisitor
    BY <1>7, <2>2 DEF ClockMatchesZone
  <2>3. QED
    BY <2>1, <2>2
<1>9. ClockRuns'
  <2> SUFFICES ASSUME NEW c \in C!Cameras \ {EntryCamera}, NEW v \in Visitors,
                      currentZone'[c][v] # NoZone
               PROVE  clocks'[c][v][currentZone'[c][v]] # Away
    BY DEF ClockRuns
  <2>1. CASE c = C!camera /\ v = SeenVisitor
    <3>1. currentZone'[c][v] = Seen.zone /\ Seen.zone \in Zones /\ clocks'[c][v] = next
      BY <1>2, <1>7, <2>1
    <3>2. next[Seen.zone] # Away
      BY <1>4, <1>6, <2>1, <3>1
    <3>3. QED
      BY <3>1, <3>2
  <2>2. CASE c # C!camera \/ v # SeenVisitor
    <3>1. clocks'[c][v] = clocks[c][v] /\ currentZone'[c][v] = currentZone[c][v]
      BY <1>7, <2>2
    <3>2. QED
      BY <3>1 DEF ClockRuns
  <2>3. QED
    BY <2>1, <2>2
<1>10. QED
  BY <1>8, <1>9


-----------------------------------------------------------------------------
(***************************************************************************)
(* Types.                                                                  *)
(***************************************************************************)

\* What a step that leaves the sessions alone keeps of them.
LEMMA SameSessions ==
  ASSUME SessionInv, UNCHANGED sessionVars
  PROVE  /\ SessionInv'
         /\ UNCHANGED <<sessions, active, reentryCounts>>
         /\ \A v \in Visitors : Candidate(v)' <=> Candidate(v)
<1>1. UNCHANGED <<sessions, active, reentryCounts>>
  BY DEF sessionVars
<1>2. SessionInv'
  BY <1>1
     DEF SessionInv, SessionTypeOK, ActiveMatchesOpen, ActiveIsOpen, NoOrphanSession,
         LatestIsActive, Index
<1>3. \A v \in Visitors : Candidate(v)' <=> Candidate(v)
  BY <1>1 DEF Candidate
<1>4. QED
  BY <1>1, <1>2, <1>3

\* A step that writes nothing leaves what waits.
LEMMA SameWaiting ==
  ASSUME UNCHANGED outbox
  PROVE  \A v, types : Waiting(v, types)' = Waiting(v, types)
BY DEF Waiting, Told

\* The clocks do not run ahead of a later round.
LEMMA LaterRound ==
  ASSUME VisitTypeOK, now' \in Nat, now <= now',
         UNCHANGED <<currentZone, clocks, exitCount, staff, inZone, exited>>
  PROVE  CameraTypeOK'
<1>1. \A n \in Nat : n <= now => n <= now'
  BY DEF VisitTypeOK, FrameTypeOK
<1>2. \A c \in C!Cameras, v \in Visitors, z \in Zones :
        clocks[c][v][z] # Away => clocks[c][v][z].enter <= now'
  <2>1. \A c \in C!Cameras, v \in Visitors, z \in Zones :
          /\ clocks[c][v][z] \in C!Clock \cup {Away}
          /\ clocks[c][v][z] # Away => clocks[c][v][z].enter <= now
    BY DEF VisitTypeOK, CameraTypeOK
  <2>2. \A k \in C!Clock : k.enter \in Nat
    BY DEF C!Clock
  <2>3. QED
    BY <1>1, <2>1, <2>2
<1>3. \A v \in Visitors : inZone[v] # Away => inZone[v] <= now'
  BY <1>1 DEF VisitTypeOK, CameraTypeOK
<1>4. QED
  BY <1>2, <1>3 DEF VisitTypeOK, CameraTypeOK

\* A new frame keeps the types: it holds detections of known visitors.
LEMMA FrameTyped ==
  ASSUME VisitTypeOK, Frame
  PROVE  VisitTypeOK'
<1>1. PICK w \in Walks : \E ds \in Sightings(w) : FrameStep(w, ds)
  BY FrameEffects
<1>2. PICK ds \in Sightings(w) : FrameStep(w, ds)
  BY <1>1
<1>3. w \in [Visitors -> Places] /\ ds \in Seq(C!Detection)
  BY SightingsTyped
<1>4. SessionInv'
  BY <1>2, SameSessions DEF VisitTypeOK, FrameStep
<1>5. FrameTypeOK'
  BY <1>2, <1>3 DEF VisitTypeOK, FrameTypeOK, FrameStep
<1>6. CameraTypeOK'
  BY <1>2, LaterRound DEF VisitTypeOK, FrameTypeOK, FrameStep
<1>7. \A d \in ToSet(ds) : TrackOwner[d.track] \in Visitors
  <2>1. ToSet(ds) \subseteq C!Detection
    BY <1>3 DEF ToSet
  <2>2. QED
    BY <2>1, VisitAssumption DEF C!Detection
<1>8. spent' \in [C!Cameras -> [Visitors -> [Zones -> Nat]]]
  <2>1. \A c \in C!Cameras, v \in Visitors, z \in Zones :
          spent[c][v][z] \in Nat /\ spent[c][v][z] + 1 \in Nat
    BY DEF VisitTypeOK, WalkTypeOK
  <2>2. QED
    BY <1>2, <2>1 DEF FrameStep
<1>9. noticed' \subseteq C!Cameras \X Visitors
  <2>1. C!camera \in C!Cameras
    BY CameraIsOne DEF VisitTypeOK, FrameTypeOK
  <2>2. QED
    BY <1>2, <1>7, <2>1 DEF VisitTypeOK, WalkTypeOK, FrameStep
<1>10. WalkTypeOK'
  BY <1>2, <1>3, <1>8, <1>9 DEF VisitTypeOK, WalkTypeOK, FrameStep
<1>11. QED
  BY <1>4, <1>5, <1>6, <1>10 DEF VisitTypeOK

\* A detection keeps the types: what it writes are lines, and its clocks start now.
LEMMA DetectTyped ==
  ASSUME VisitTypeOK, FrameShowsPlace, Detect
  PROVE  VisitTypeOK'
<1> DEFINE next == C!ZoneClocks(SeenVisitor, Seen.zone, SeenRunning)
<1>1. /\ inFrame /\ todo # << >>
      /\ todo' = Tail(todo)
      /\ outbox' = outbox \o SeenLines
      /\ staff' = [staff EXCEPT ![SeenVisitor] = Seen.staff]
      /\ exitCount' = [exitCount EXCEPT ![SeenVisitor] = C!ExitCount(SeenVisitor, SeenCrossing)]
      /\ billingPresent' = IF C!InQueue(Seen) /\ SeenVisitor \notin ToSet(billingPresent)
                           THEN Append(billingPresent, SeenVisitor) ELSE billingPresent
      /\ crossed' = [crossed EXCEPT ![SeenVisitor] =
                       IF SeenCrossing = "none" THEN @ ELSE SeenCrossing]
      /\ exits' = exits \cup (IF SeenCrossing = "EXIT" THEN {SeenVisitor} ELSE {})
      /\ left' = left \cup (IF SeenCrossing = "EXIT" THEN {SeenVisitor} ELSE {})
      /\ met' = met \cup {<<C!camera, SeenVisitor>>}
      /\ late' \subseteq late \cup {SeenVisitor}
      /\ UNCHANGED <<now, turn, inFrame, ended, inZone, exited, sessionVars,
                     place, noticed, spent>>
  BY DetectEffects
<1>2. /\ SeenVisitor \in Visitors /\ Seen.staff \in BOOLEAN
      /\ Seen.zone \in Zones \cup {NoZone}
      /\ SeenCrossing \in {"ENTRY", "EXIT", "none"}
      /\ Tail(todo) \in Seq(C!Detection)
  BY <1>1, SeenTyped
<1>3. SessionInv'
  BY <1>1, SameSessions DEF VisitTypeOK
<1>4. FrameTypeOK'
  <2>1. outbox' \in Seq(Line)
    <3>1. outbox \in Seq(Line) /\ SeenLines \in Seq(Line)
      BY <1>1, SeenSays DEF VisitTypeOK, FrameTypeOK
    <3>2. QED
      BY <1>1, <3>1, ConcatSays
  <2>2. billingPresent' \in Seq(Visitors)
    <3>1. billingPresent \in Seq(Visitors)
      BY DEF VisitTypeOK, FrameTypeOK
    <3>2. QED
      BY <1>1, <1>2, <3>1
  <2>3. QED
    BY <1>1, <1>2, <2>1, <2>2 DEF VisitTypeOK, FrameTypeOK
<1>5. CameraTypeOK'
  <2>1. /\ clocks' \in [C!Cameras -> [Visitors -> [Zones -> C!Clock \cup {Away}]]]
        /\ currentZone' \in [C!Cameras -> [Visitors -> Zones \cup {NoZone}]]
        /\ clocks'[C!camera][SeenVisitor] = next
        /\ \A c \in C!Cameras, v \in Visitors :
             c # C!camera \/ v # SeenVisitor =>
               clocks'[c][v] = clocks[c][v] /\ currentZone'[c][v] = currentZone[c][v]
    BY ClocksAfterDetect
  <2>2. now \in Nat /\ SeenRunning \in [Zones -> C!Clock \cup {Away}]
    BY <1>1, RunningTyped DEF VisitTypeOK, FrameTypeOK
  <2>3. ClocksMove(SeenRunning, next, currentZone[C!camera][SeenVisitor], Seen.zone)
    BY <1>2, <2>2, ZoneClocksAre
  <2> HIDE DEF next
  <2>4. \A z \in Zones : SeenRunning[z] # Away => SeenRunning[z].enter <= now
    BY <1>1, RunningTyped
  <2>5. \A z \in Zones : next[z] # Away => next[z].enter <= now
    BY <2>2, <2>3, <2>4 DEF ClocksMove
  <2>6. \A c \in C!Cameras, v \in Visitors, z \in Zones :
          clocks'[c][v][z] # Away => clocks'[c][v][z].enter <= now
    <3> SUFFICES ASSUME NEW c \in C!Cameras, NEW v \in Visitors, NEW z \in Zones,
                        clocks'[c][v][z] # Away
                 PROVE  clocks'[c][v][z].enter <= now
      OBVIOUS
    <3>1. CASE c = C!camera /\ v = SeenVisitor
      BY <2>1, <2>5, <3>1
    <3>2. CASE c # C!camera \/ v # SeenVisitor
      <4>1. clocks'[c][v] = clocks[c][v]
        BY <2>1, <3>2
      <4>2. QED
        BY <4>1 DEF VisitTypeOK, CameraTypeOK
    <3>3. QED
      BY <3>1, <3>2
  <2>7. exitCount' \in [Visitors -> Nat] /\ staff' \in [Visitors -> BOOLEAN]
    <3>1. C!ExitCount(SeenVisitor, SeenCrossing) \in Nat
      BY <1>2 DEF C!ExitCount, VisitTypeOK, CameraTypeOK
    <3>2. QED
      BY <1>1, <1>2, <3>1 DEF VisitTypeOK, CameraTypeOK
  <2>8. QED
    BY <1>1, <2>1, <2>6, <2>7 DEF VisitTypeOK, CameraTypeOK
<1>6. WalkTypeOK'
  <2>1. C!camera \in C!Cameras
    BY CameraIsOne DEF VisitTypeOK, FrameTypeOK
  <2>2. QED
    BY <1>1, <1>2, <2>1 DEF VisitTypeOK, WalkTypeOK
<1>7. QED
  BY <1>3, <1>4, <1>5, <1>6 DEF VisitTypeOK

\* The end of a frame keeps the types: the queue holds visitors of the frame.
LEMMA EndFrameTyped ==
  ASSUME VisitTypeOK, EndFrame
  PROVE  VisitTypeOK'
<1>1. /\ inFrame /\ todo = << >>
      /\ ~inFrame'
      /\ \/ /\ C!camera = BillingCamera
            /\ C!UpdateQueue(billingPresent, now)
            /\ outbox' = outbox \o C!QueueEvents
         \/ C!camera # BillingCamera /\ UNCHANGED <<inZone, exited, outbox>>
      /\ C!NextCamera
      /\ late' \subseteq late
      /\ UNCHANGED <<todo, billingPresent, ended, currentZone, clocks, exitCount, staff,
                     sessionVars, place, noticed, spent, met, crossed, exits, left>>
  BY EndFrameEffects
<1>2. turn' \in Rounds /\ now' \in Nat /\ now <= now'
  BY <1>1, NextCameraEffects
<1>3. inFrame' \in BOOLEAN
  BY DEF EndFrame, C!EndFrame
<1>4. SessionInv'
  BY <1>1, SameSessions DEF VisitTypeOK
<1>5. outbox' \in Seq(Line)
  <2>1. outbox \in Seq(Line) /\ C!QueueEvents \in Seq(Line)
    BY QueueSays DEF VisitTypeOK, FrameTypeOK
  <2>2. outbox \o C!QueueEvents \in Seq(Line)
    BY <2>1, ConcatSays
  <2>3. QED
    BY <1>1, <2>1, <2>2
<1>6. FrameTypeOK'
  BY <1>1, <1>2, <1>3, <1>5 DEF VisitTypeOK, FrameTypeOK
<1>7. CameraTypeOK'
  <2>1. CASE C!camera # BillingCamera
    BY <1>1, <1>2, <2>1, LaterRound
  <2>2. CASE C!camera = BillingCamera
    <3>1. C!UpdateQueue(billingPresent, now)
      BY <1>1, <2>2
    <3>2. /\ inZone' \in [Visitors -> Nat \cup {Away}]
          /\ exited' \in [Visitors -> C!Stay \cup {Away}]
          /\ \A v \in Visitors :
               /\ inZone'[v] # Away => inZone'[v] <= now
               /\ exited'[v] # Away => exited'[v].enter <= exited'[v].exit
      BY <3>1, QueueUpdates
    <3>3. \A v \in Visitors : inZone'[v] # Away => inZone'[v] <= now'
      BY <1>2, <3>2 DEF VisitTypeOK, FrameTypeOK
    <3>4. \A c \in C!Cameras, v \in Visitors, z \in Zones :
            clocks[c][v][z] # Away => clocks[c][v][z].enter <= now'
      <4>1. \A c \in C!Cameras, v \in Visitors, z \in Zones :
              /\ clocks[c][v][z] \in C!Clock \cup {Away}
              /\ clocks[c][v][z] # Away => clocks[c][v][z].enter <= now
        BY DEF VisitTypeOK, CameraTypeOK
      <4>2. \A k \in C!Clock : k.enter \in Nat
        BY DEF C!Clock
      <4>3. QED
        BY <1>2, <4>1, <4>2 DEF VisitTypeOK, FrameTypeOK
    <3>5. QED
      BY <1>1, <3>2, <3>3, <3>4 DEF VisitTypeOK, CameraTypeOK
  <2>3. QED
    BY <2>1, <2>2
<1>8. WalkTypeOK'
  BY <1>1 DEF VisitTypeOK, WalkTypeOK
<1>9. QED
  BY <1>4, <1>6, <1>7, <1>8 DEF VisitTypeOK

\* The clocks of a camera whose video is over.
LEMMA ClocksAfterEnd ==
  ASSUME VisitTypeOK, EndVideo
  PROVE  /\ clocks' \in [C!Cameras -> [Visitors -> [Zones -> C!Clock \cup {Away}]]]
         /\ currentZone' \in [C!Cameras -> [Visitors -> Zones \cup {NoZone}]]
         /\ \A v \in Visitors : currentZone'[C!camera][v] = NoZone
         /\ \A v \in Visitors, z \in Zones :
              clocks'[C!camera][v][z] =
                IF z = currentZone[C!camera][v] THEN Away ELSE clocks[C!camera][v][z]
         /\ \A c \in C!Cameras \ {C!camera} :
              clocks'[c] = clocks[c] /\ currentZone'[c] = currentZone[c]
<1> DEFINE rows == [v \in Visitors |-> [z \in Zones |->
                      IF z = currentZone[C!camera][v] THEN Away ELSE clocks[C!camera][v][z]]]
           none == [v \in Visitors |-> NoZone]
<1>1. /\ clocks' = [clocks EXCEPT ![C!camera] = rows]
      /\ currentZone' = [currentZone EXCEPT ![C!camera] = none]
  BY EndVideoEffects
<1>2. /\ clocks \in [C!Cameras -> [Visitors -> [Zones -> C!Clock \cup {Away}]]]
      /\ currentZone \in [C!Cameras -> [Visitors -> Zones \cup {NoZone}]]
      /\ C!camera \in C!Cameras
  BY CameraIsOne DEF VisitTypeOK, FrameTypeOK, CameraTypeOK
<1>3. rows \in [Visitors -> [Zones -> C!Clock \cup {Away}]]
  BY <1>2
<1>4. none \in [Visitors -> Zones \cup {NoZone}] /\ \A v \in Visitors : none[v] = NoZone
  OBVIOUS
<1>5. \A v \in Visitors, z \in Zones :
        rows[v][z] = IF z = currentZone[C!camera][v] THEN Away ELSE clocks[C!camera][v][z]
  OBVIOUS
<1> HIDE DEF rows, none
<1>6. clocks' \in [C!Cameras -> [Visitors -> [Zones -> C!Clock \cup {Away}]]]
  BY <1>1, <1>2, <1>3
<1>7. currentZone' \in [C!Cameras -> [Visitors -> Zones \cup {NoZone}]]
  BY <1>1, <1>2, <1>4
<1>8. clocks'[C!camera] = rows /\ currentZone'[C!camera] = none
  BY <1>1, <1>2
<1>9. \A c \in C!Cameras \ {C!camera} :
        clocks'[c] = clocks[c] /\ currentZone'[c] = currentZone[c]
  BY <1>1, <1>2
<1>10. QED
  BY <1>4, <1>5, <1>6, <1>7, <1>8, <1>9

\* The end of a video keeps the types.
LEMMA EndVideoTyped ==
  ASSUME VisitTypeOK, EndVideo
  PROVE  VisitTypeOK'
<1>1. /\ outbox = << >> /\ ~inFrame
      /\ outbox' = outbox \o C!FlushEvents
      /\ ended' = ended \cup {C!camera}
      /\ C!NextCamera
      /\ UNCHANGED <<inFrame, todo, billingPresent, exitCount, staff, inZone, exited,
                     sessionVars, place, noticed, spent, met, crossed, exits, left, late>>
  BY EndVideoEffects
<1>2. turn' \in Rounds /\ now' \in Nat /\ now <= now'
  BY <1>1, NextCameraEffects
<1>3. C!camera \in C!Cameras
  BY CameraIsOne DEF VisitTypeOK, FrameTypeOK
<1>4. SessionInv'
  BY <1>1, SameSessions DEF VisitTypeOK
<1>5. outbox' \in Seq(Line)
  <2>1. outbox \in Seq(Line) /\ C!FlushEvents \in Seq(Line)
    BY FlushSays DEF VisitTypeOK, FrameTypeOK
  <2>2. outbox \o C!FlushEvents \in Seq(Line)
    BY <2>1, ConcatSays
  <2>3. QED
    BY <1>1, <2>2
<1>6. FrameTypeOK'
  BY <1>1, <1>2, <1>3, <1>5 DEF VisitTypeOK, FrameTypeOK
<1>7. CameraTypeOK'
  <2>1. /\ clocks' \in [C!Cameras -> [Visitors -> [Zones -> C!Clock \cup {Away}]]]
        /\ currentZone' \in [C!Cameras -> [Visitors -> Zones \cup {NoZone}]]
        /\ \A v \in Visitors, z \in Zones :
             clocks'[C!camera][v][z] =
               IF z = currentZone[C!camera][v] THEN Away ELSE clocks[C!camera][v][z]
        /\ \A c \in C!Cameras \ {C!camera} : clocks'[c] = clocks[c]
    BY ClocksAfterEnd
  <2>2. \A c \in C!Cameras, v \in Visitors, z \in Zones :
          /\ clocks[c][v][z] \in C!Clock \cup {Away}
          /\ clocks[c][v][z] # Away => clocks[c][v][z].enter <= now
    BY DEF VisitTypeOK, CameraTypeOK
  <2>3. \A k \in C!Clock : k.enter \in Nat
    BY DEF C!Clock
  <2>4. \A c \in C!Cameras, v \in Visitors, z \in Zones :
          clocks'[c][v][z] # Away => clocks'[c][v][z] = clocks[c][v][z]
    <3> TAKE c \in C!Cameras, v \in Visitors, z \in Zones
    <3>1. CASE c = C!camera
      <4>1. clocks'[c][v][z] =
              IF z = currentZone[c][v] THEN Away ELSE clocks[c][v][z]
        BY <2>1, <3>1
      <4>2. QED
        BY <4>1
    <3>2. CASE c # C!camera
      BY <2>1, <3>2
    <3>3. QED
      BY <3>1, <3>2
  <2>5. \A c \in C!Cameras, v \in Visitors, z \in Zones :
          clocks'[c][v][z] # Away => clocks'[c][v][z].enter <= now'
    BY <1>2, <2>2, <2>3, <2>4 DEF VisitTypeOK, FrameTypeOK
  <2>6. \A v \in Visitors : inZone[v] # Away => inZone[v] <= now'
    BY <1>2 DEF VisitTypeOK, FrameTypeOK, CameraTypeOK
  <2>7. QED
    BY <1>1, <2>1, <2>5, <2>6 DEF VisitTypeOK, CameraTypeOK
<1>8. WalkTypeOK'
  BY <1>1 DEF VisitTypeOK, WalkTypeOK
<1>9. QED
  BY <1>4, <1>6, <1>7, <1>8 DEF VisitTypeOK

\* A turn without a video keeps the types.
LEMMA SkipTyped ==
  ASSUME VisitTypeOK, SkipEnded
  PROVE  VisitTypeOK'
<1>1. /\ ~inFrame /\ C!camera \in ended
      /\ C!NextCamera
      /\ UNCHANGED <<inFrame, todo, billingPresent, ended, currentZone, clocks, exitCount,
                     staff, inZone, exited, outbox,
                     sessionVars, place, noticed, spent, met, crossed, exits, left, late>>
  BY SkipEffects
<1>2. turn' \in Rounds /\ now' \in Nat /\ now <= now'
  BY <1>1, NextCameraEffects
<1>3. SessionInv'
  BY <1>1, SameSessions DEF VisitTypeOK
<1>4. FrameTypeOK'
  BY <1>1, <1>2 DEF VisitTypeOK, FrameTypeOK
<1>5. CameraTypeOK'
  BY <1>1, <1>2, LaterRound
<1>6. WalkTypeOK'
  BY <1>1 DEF VisitTypeOK, WalkTypeOK
<1>7. QED
  BY <1>3, <1>4, <1>5, <1>6 DEF VisitTypeOK

\* Another passport keeps the types.
LEMMA PassportTyped ==
  ASSUME VisitTypeOK, OtherPassport
  PROVE  VisitTypeOK'
<1>1. /\ exitCount' \in [Visitors -> Nat]
      /\ UNCHANGED <<inZone, exited, now, turn, inFrame, todo, billingPresent, currentZone,
                     clocks, staff, ended, outbox, sessionVars,
                     place, noticed, spent, met, crossed, exits, left, late>>
  BY PassportEffects
<1>2. SessionInv'
  BY <1>1, SameSessions DEF VisitTypeOK
<1>3. FrameTypeOK'
  BY <1>1 DEF VisitTypeOK, FrameTypeOK
<1>4. CameraTypeOK'
  BY <1>1 DEF VisitTypeOK, CameraTypeOK
<1>5. WalkTypeOK'
  BY <1>1 DEF VisitTypeOK, WalkTypeOK
<1>6. QED
  BY <1>2, <1>3, <1>4, <1>5 DEF VisitTypeOK

\* A delivery keeps the types: a line is an event the sessionizer is proved for.
LEMMA DeliverTyped ==
  ASSUME VisitTypeOK, Deliver
  PROVE  VisitTypeOK'
<1>1. /\ EventOf(outbox[1]) \in Event
      /\ ProcessEvent(EventOf(outbox[1]))
      /\ outbox # << >> /\ outbox' = Tail(outbox)
      /\ UNCHANGED <<inZone, exited, now, turn, inFrame, todo, billingPresent, currentZone,
                     clocks, exitCount, staff, ended,
                     place, noticed, spent, met, crossed, exits, left, late>>
  BY DeliverEffects
<1>2. SessionInv'
  BY <1>1, HandlerPlaces, PlacedKeepsSessionInv DEF VisitTypeOK
<1>3. outbox' \in Seq(Line)
  BY <1>1, WaitingReads DEF VisitTypeOK, FrameTypeOK
<1>4. FrameTypeOK'
  BY <1>1, <1>3 DEF VisitTypeOK, FrameTypeOK
<1>5. CameraTypeOK'
  BY <1>1, LaterRound DEF VisitTypeOK, FrameTypeOK
<1>6. WalkTypeOK'
  BY <1>1 DEF VisitTypeOK, WalkTypeOK
<1>7. QED
  BY <1>2, <1>4, <1>5, <1>6 DEF VisitTypeOK

-----------------------------------------------------------------------------
(***************************************************************************)
(* The clocks.                                                             *)
(***************************************************************************)

\* The clocks stay those of the zones the cameras hold their visitors to be in.
LEMMA ClocksKept ==
  ASSUME VisitTypeOK, FrameShowsPlace, ClockMatchesZone, ClockRuns, VisitNext
  PROVE  ClockMatchesZone' /\ ClockRuns'
<1>1. ASSUME UNCHANGED <<clocks, currentZone>>
      PROVE  ClockMatchesZone' /\ ClockRuns'
  BY <1>1 DEF ClockMatchesZone, ClockRuns
<1>2. CASE Frame
  <2>1. UNCHANGED <<clocks, currentZone>>
    BY <1>2, FrameEffects DEF FrameStep
  <2>2. QED
    BY <1>1, <2>1
<1>3. CASE Detect
  BY <1>3, DetectKeepsClocks
<1>4. CASE EndFrame
  <2>1. UNCHANGED <<clocks, currentZone>>
    BY <1>4, EndFrameEffects
  <2>2. QED
    BY <1>1, <2>1
<1>5. CASE EndVideo
  <2>1. /\ \A v \in Visitors : currentZone'[C!camera][v] = NoZone
        /\ \A v \in Visitors, z \in Zones :
             clocks'[C!camera][v][z] =
               IF z = currentZone[C!camera][v] THEN Away ELSE clocks[C!camera][v][z]
        /\ \A c \in C!Cameras \ {C!camera} :
             clocks'[c] = clocks[c] /\ currentZone'[c] = currentZone[c]
    BY <1>5, ClocksAfterEnd
  <2>2. C!camera \in C!Cameras
    BY CameraIsOne DEF VisitTypeOK, FrameTypeOK
  <2>3. ClockMatchesZone'
    <3> SUFFICES ASSUME NEW c \in C!Cameras, NEW v \in Visitors, NEW z \in Zones,
                        clocks'[c][v][z] # Away
                 PROVE  currentZone'[c][v] = z
      BY DEF ClockMatchesZone
    <3>1. CASE c = C!camera
      <4>1. clocks[c][v][z] # Away /\ currentZone[c][v] # z
        BY <2>1, <3>1
      <4>2. QED
        BY <4>1 DEF ClockMatchesZone
    <3>2. CASE c # C!camera
      <4>1. clocks'[c] = clocks[c] /\ currentZone'[c] = currentZone[c]
        BY <2>1, <3>2
      <4>2. QED
        BY <4>1 DEF ClockMatchesZone
    <3>3. QED
      BY <3>1, <3>2
  <2>4. ClockRuns'
    <3> SUFFICES ASSUME NEW c \in C!Cameras \ {EntryCamera}, NEW v \in Visitors,
                        currentZone'[c][v] # NoZone
                 PROVE  clocks'[c][v][currentZone'[c][v]] # Away
      BY DEF ClockRuns
    <3>1. c # C!camera
      BY <2>1
    <3>2. clocks'[c] = clocks[c] /\ currentZone'[c] = currentZone[c]
      BY <2>1, <3>1
    <3>3. QED
      BY <3>2 DEF ClockRuns
  <2>5. QED
    BY <2>3, <2>4
<1>6. CASE SkipEnded
  <2>1. UNCHANGED <<clocks, currentZone>>
    BY <1>6, SkipEffects
  <2>2. QED
    BY <1>1, <2>1
<1>7. CASE Deliver
  <2>1. UNCHANGED <<clocks, currentZone>>
    BY <1>7, DeliverEffects
  <2>2. QED
    BY <1>1, <2>1
<1>8. CASE OtherPassport
  <2>1. UNCHANGED <<clocks, currentZone>>
    BY <1>8, PassportEffects
  <2>2. QED
    BY <1>1, <2>1
<1>9. QED
  BY <1>2, <1>3, <1>4, <1>5, <1>6, <1>7, <1>8 DEF VisitNext

-----------------------------------------------------------------------------
(***************************************************************************)
(* Frames and crossings.                                                   *)
(***************************************************************************)

\* The types are kept.
LEMMA VisitTyped ==
  ASSUME VisitTypeOK, FrameShowsPlace, VisitNext
  PROVE  VisitTypeOK'
BY FrameTyped, DetectTyped, EndFrameTyped, EndVideoTyped, SkipTyped, DeliverTyped,
   PassportTyped
   DEF VisitNext

\* A frame shows where the visitors stand.
LEMMA FrameShownKept ==
  ASSUME VisitTypeOK, FrameShowsPlace, VisitNext
  PROVE  FrameShowsPlace'
<1>1. CASE Frame
  <2>1. PICK w \in Walks : \E ds \in Sightings(w) : FrameStep(w, ds)
    BY <1>1, FrameEffects
  <2>2. PICK ds \in Sightings(w) : FrameStep(w, ds)
    BY <2>1
  <2>3. todo' = ds /\ place' = w /\ turn' = turn /\ billingPresent' = << >>
    BY <2>2 DEF FrameStep
  <2>4. C!camera' = C!camera
    BY <2>3 DEF C!camera
  <2>5. \A d \in ToSet(todo') :
          /\ View[place'[TrackOwner[d.track]]][C!camera'] # Hidden
          /\ d.zone = View[place'[TrackOwner[d.track]]][C!camera'].zone
          /\ d.side = View[place'[TrackOwner[d.track]]][C!camera'].side
    BY <2>3, <2>4, SightingsTyped
  <2>6. ToSet(billingPresent') = {}
    BY <2>3 DEF ToSet
  <2>7. QED
    BY <2>5, <2>6 DEF FrameShowsPlace, ToSet
<1>2. CASE Detect
  <2>1. /\ inFrame /\ todo # << >>
        /\ todo' = Tail(todo)
        /\ billingPresent' = IF C!InQueue(Seen) /\ SeenVisitor \notin ToSet(billingPresent)
                             THEN Append(billingPresent, SeenVisitor) ELSE billingPresent
        /\ UNCHANGED <<turn, place>>
    BY <1>2, DetectEffects
  <2>2. /\ SeenVisitor \in Visitors
        /\ View[place[SeenVisitor]][C!camera] # Hidden
        /\ View[place[SeenVisitor]][C!camera].zone = Seen.zone
        /\ ToSet(Tail(todo)) \subseteq ToSet(todo)
    BY <2>1, SeenTyped
  <2>3. C!camera' = C!camera
    BY <2>1 DEF C!camera
  <2>4. \A d \in ToSet(todo') :
          /\ View[place'[TrackOwner[d.track]]][C!camera'] # Hidden
          /\ d.zone = View[place'[TrackOwner[d.track]]][C!camera'].zone
          /\ d.side = View[place'[TrackOwner[d.track]]][C!camera'].side
    BY <2>1, <2>2, <2>3 DEF FrameShowsPlace
  <2>5. \A v \in ToSet(billingPresent') :
          \/ v \in ToSet(billingPresent)
          \/ v = SeenVisitor /\ C!InQueue(Seen)
    <3>1. CASE C!InQueue(Seen) /\ SeenVisitor \notin ToSet(billingPresent)
      <4>1. billingPresent \in Seq(Visitors)
        BY DEF VisitTypeOK, FrameTypeOK
      <4> DEFINE one == <<SeenVisitor>>
      <4>2. billingPresent' = billingPresent \o one
        BY <2>1, <2>2, <3>1, <4>1
      <4>3. one \in Seq(Visitors) /\ ToSet(one) = {SeenVisitor}
        BY <2>2, OneLine
      <4> HIDE DEF one
      <4>4. ToSet(billingPresent') = ToSet(billingPresent) \cup {SeenVisitor}
        BY <4>1, <4>2, <4>3, ConcatSays
      <4>5. QED
        BY <3>1, <4>4
    <3>2. CASE ~(C!InQueue(Seen) /\ SeenVisitor \notin ToSet(billingPresent))
      BY <2>1, <3>2
    <3>3. QED
      BY <3>1, <3>2
  <2>6. \A v \in ToSet(billingPresent') :
          C!camera' = BillingCamera /\ AtQueue(place'[v])
    <3>1. C!InQueue(Seen) => C!camera = BillingCamera /\ AtQueue(place[SeenVisitor])
      BY <2>2 DEF C!InQueue, AtQueue, InZone
    <3>2. \A v \in ToSet(billingPresent) : C!camera = BillingCamera /\ AtQueue(place[v])
      BY <2>1 DEF FrameShowsPlace
    <3>3. QED
      BY <2>1, <2>3, <2>5, <3>1, <3>2
  <2>7. QED
    BY <2>4, <2>6 DEF FrameShowsPlace, ToSet
<1>3. CASE EndFrame
  <2>1. ~inFrame'
    BY <1>3, EndFrameEffects
  <2>2. QED
    BY <2>1 DEF FrameShowsPlace
<1>4. CASE EndVideo
  <2>1. ~inFrame'
    BY <1>4, EndVideoEffects
  <2>2. QED
    BY <2>1 DEF FrameShowsPlace
<1>5. CASE SkipEnded
  <2>1. ~inFrame'
    BY <1>5, SkipEffects
  <2>2. QED
    BY <2>1 DEF FrameShowsPlace
<1>6. CASE Deliver
  <2>1. ~inFrame'
    BY <1>6, DeliverEffects
  <2>2. QED
    BY <2>1 DEF FrameShowsPlace
<1>7. CASE OtherPassport
  <2>1. UNCHANGED <<inFrame, todo, billingPresent, turn, place>>
    BY <1>7, PassportEffects
  <2>2. C!camera' = C!camera
    BY <2>1 DEF C!camera
  <2>3. QED
    BY <2>1, <2>2 DEF FrameShowsPlace, ToSet, AtQueue, InZone
<1>8. QED
  BY <1>1, <1>2, <1>3, <1>4, <1>5, <1>6, <1>7 DEF VisitNext

\* What the visitors and the API agree on.
Agreement ==
  /\ CrossingAtEntry
  /\ CrossingsFirst
  /\ JoinsComeLast
  /\ EnteredWillHave
  /\ ExitsOnPassport
  /\ ReentriesExplained
  /\ LeftDoNotQueue
  /\ QueueWillBeCandidate
  /\ LateIsNoCandidate

\* Who has passports of two cameras keeps them.
LEMMA SharedGrows ==
  ASSUME met \subseteq met'
  PROVE  Shared \subseteq Shared'
BY DEF Shared

\* A frame begins when nothing waits: who queues and walks away from the billing
\* camera is still to be missed there.
LEMMA FrameAgrees ==
  ASSUME VisitTypeOK, Agreement, Frame
  PROVE  Agreement'
<1>1. PICK w \in Walks : \E ds \in Sightings(w) : FrameStep(w, ds)
  BY FrameEffects
<1>2. PICK ds \in Sightings(w) : FrameStep(w, ds)
  BY <1>1
<1>3. /\ outbox = << >> /\ ~inFrame /\ inFrame' = TRUE
      /\ place' = w
      /\ left' = {v \in left : AtDoor(w[v])}
      /\ UNCHANGED <<turn, ended, exitCount, inZone, outbox, sessionVars, met, crossed, exits,
                     late>>
  BY <1>2 DEF FrameStep
<1>4. \A v, types : Waiting(v, types) = {} /\ Waiting(v, types)' = {}
  BY <1>3, NothingWaits, SameWaiting
<1>5. /\ UNCHANGED <<sessions, active, reentryCounts>>
      /\ \A v \in Visitors : Candidate(v)' <=> Candidate(v)
  BY <1>3, SameSessions DEF VisitTypeOK
<1>6. CrossingAtEntry' /\ CrossingsFirst' /\ JoinsComeLast' /\ Shared' = Shared
  BY <1>3, <1>4 DEF CrossingAtEntry, CrossingsFirst, JoinsComeLast, Shared
<1>7. EnteredWillHave'
  BY <1>3, <1>4, <1>5 DEF EnteredWillHave, Agreement
<1>8. ExitsOnPassport'
  BY <1>3, <1>6 DEF ExitsOnPassport, Agreement
<1>9. ReentriesExplained'
  BY <1>3, <1>4, <1>5, <1>6 DEF ReentriesExplained, Agreement
<1>10. LeftDoNotQueue'
  BY <1>3, <1>4, <1>5 DEF LeftDoNotQueue, Agreement, VisitTypeOK, WalkTypeOK
<1>11. QueueWillBeCandidate'
  <2> SUFFICES ASSUME BillingCamera \notin ended, NEW v \in Visitors, inZone[v] # Away
               PROVE  IF AtQueue(w[v])
                      THEN v \in late \/ Candidate(v)
                      ELSE \E p \in turn .. Len(CameraOrder) : CameraOrder[p] = BillingCamera
    BY <1>3, <1>4, <1>5 DEF QueueWillBeCandidate
  <2>1. IF AtQueue(place[v])
        THEN v \in late \/ Candidate(v)
        ELSE /\ turn > 1
             /\ \E p \in turn .. Len(CameraOrder) : CameraOrder[p] = BillingCamera
    BY <1>3, <1>4 DEF QueueWillBeCandidate, Agreement
  <2>2. CASE turn # 1
    <3>1. w = place
      BY <2>2, SightingsTyped
    <3>2. QED
      BY <2>1, <3>1
  <2>3. CASE turn = 1
    <3>1. v \in late \/ Candidate(v)
      BY <2>1, <2>3
    <3>2. \E p \in 1 .. Len(CameraOrder) : CameraOrder[p] = BillingCamera
      BY VisitAssumption DEF C!Cameras, C!ToSet
    <3>3. QED
      BY <2>3, <3>1, <3>2
  <2>4. QED
    BY <2>2, <2>3
<1>12. LateIsNoCandidate'
  <2> SUFFICES ASSUME NEW v \in late
               PROVE  /\ inZone[v] # Away
                      /\ ~Candidate(v)
                      /\ BillingCamera \notin ended /\ AtQueue(w[v]) => crossed[v] = "ENTRY"
    BY <1>3, <1>4, <1>5 DEF LateIsNoCandidate, VisitTypeOK, WalkTypeOK, AtQueue, InZone
  <2>1. /\ v \in Visitors
        /\ inZone[v] # Away
        /\ ~Candidate(v)
        /\ BillingCamera \notin ended /\ AtQueue(place[v]) => crossed[v] = "ENTRY"
    BY <1>4 DEF LateIsNoCandidate, Agreement, VisitTypeOK, WalkTypeOK
  <2>2. CASE turn # 1
    <3>1. w = place
      BY <2>2, SightingsTyped
    <3>2. QED
      BY <2>1, <3>1
  <2>3. CASE turn = 1
    <3>1. BillingCamera \notin ended => AtQueue(place[v])
      BY <1>3, <2>1, <2>3 DEF QueueWillBeCandidate, Agreement
    <3>2. QED
      BY <2>1, <3>1
  <2>4. QED
    BY <2>2, <2>3
<1>13. QED
  BY <1>6, <1>7, <1>8, <1>9, <1>10, <1>11, <1>12 DEF Agreement

\* A detection of another visitor leaves what waits for v; one of v writes neither
\* a JOIN nor, unless v crossed the line, a crossing.
LEMMA DetectWrites ==
  ASSUME VisitTypeOK, FrameShowsPlace, Detect, NEW v \in Visitors
  PROVE  /\ \A types : v # SeenVisitor => Waiting(v, types)' = Waiting(v, types)
         /\ Waiting(v, {"BILLING_QUEUE_JOIN"})' = Waiting(v, {"BILLING_QUEUE_JOIN"})
         /\ SeenCrossing = "none" => Waiting(v, Crossings)' = Waiting(v, Crossings)
         /\ SeenCrossing # "ENTRY" =>
              /\ Waiting(v, {"ENTRY", "REENTRY"})' = Waiting(v, {"ENTRY", "REENTRY"})
              /\ Waiting(v, {"REENTRY"})' = Waiting(v, {"REENTRY"})
         /\ SeenCrossing # "ENTRY" \/ exitCount[SeenVisitor] > 0 =>
              Waiting(v, {"ENTRY"})' = Waiting(v, {"ENTRY"})
         /\ SeenCrossing # "EXIT" => Waiting(v, {"EXIT"})' = Waiting(v, {"EXIT"})
         /\ ~(exitCount[SeenVisitor] > 0) => Waiting(v, {"REENTRY"})' = Waiting(v, {"REENTRY"})
         /\ Waiting(v, {"EXIT"}) \subseteq Waiting(v, {"EXIT"})'
         /\ Waiting(v, {"REENTRY"}) \subseteq Waiting(v, {"REENTRY"})'
         /\ Waiting(v, {"ENTRY"}) \subseteq Waiting(v, {"ENTRY"})'
         /\ v = SeenVisitor /\ SeenCrossing = "ENTRY" /\ ~(exitCount[v] > 0) =>
              Waiting(v, {"ENTRY"})' # {}
         /\ v = SeenVisitor /\ SeenCrossing = "EXIT" => Waiting(v, {"EXIT"})' # {}
         /\ v = SeenVisitor /\ SeenCrossing = "ENTRY" /\ exitCount[v] > 0 =>
              Waiting(v, {"REENTRY"})' # {}
         /\ v = SeenVisitor /\ SeenCrossing = "ENTRY" =>
              \E i \in Waiting(v, {"ENTRY", "REENTRY"})' :
                \A j \in Waiting(v, {"EXIT"})' : j < i
<1>1. inFrame /\ todo # << >> /\ outbox' = outbox \o SeenLines
  BY DetectEffects
<1>2. outbox \in Seq(Line) /\ SeenLines \in Seq(Line)
  BY <1>1, SeenSays DEF VisitTypeOK, FrameTypeOK
<1>3. \A e \in ToSet(SeenLines) :
        /\ e.visitor = SeenVisitor
        /\ e.type # "BILLING_QUEUE_JOIN"
        /\ e.type \in {"ENTRY", "REENTRY"} => SeenCrossing = "ENTRY"
        /\ e.type = "REENTRY" => exitCount[SeenVisitor] > 0
        /\ e.type = "ENTRY" => ~(exitCount[SeenVisitor] > 0)
        /\ e.type = "EXIT" => SeenCrossing = "EXIT"
  BY <1>1, SeenSays
<1>4. /\ SeenCrossing = "ENTRY" =>
           \E e \in ToSet(SeenLines) :
             e.type = IF exitCount[SeenVisitor] > 0 THEN "REENTRY" ELSE "ENTRY"
      /\ SeenCrossing = "EXIT" => \E e \in ToSet(SeenLines) : e.type = "EXIT"
  BY <1>1, SeenSays
<1>5. \A types :
        (\A e \in ToSet(SeenLines) : ~(e.visitor = v /\ e.type \in types)) =>
          Waiting(v, types)' = Waiting(v, types)
  BY <1>1, <1>2, WaitingWrites
<1>6. \A types : Waiting(v, types) \subseteq Waiting(v, types)'
  BY <1>1, <1>2, WaitingWrites
<1>7. \A types, e : e \in ToSet(SeenLines) /\ e.visitor = v /\ e.type \in types =>
        \E i \in Waiting(v, types)' : i > Len(outbox)
  BY <1>1, <1>2, WaitingWrites
<1>8. \A types : Waiting(v, types) \subseteq 1 .. Len(outbox)
  BY <1>1, <1>2, WaitingWrites
<1> DEFINE Enters == {"ENTRY", "REENTRY"}
           Exits == {"EXIT"}
           Again == {"REENTRY"}
           Queues == {"BILLING_QUEUE_JOIN"}
           First == {"ENTRY"}
<1>9. Waiting(v, Queues)' = Waiting(v, Queues)
  BY <1>3, <1>5
<1>10. SeenCrossing = "none" => Waiting(v, Crossings)' = Waiting(v, Crossings)
  BY <1>3, <1>5 DEF Crossings
<1>11. SeenCrossing # "ENTRY" =>
         Waiting(v, Enters)' = Waiting(v, Enters) /\ Waiting(v, Again)' = Waiting(v, Again)
  BY <1>3, <1>5
<1>12. SeenCrossing # "EXIT" => Waiting(v, Exits)' = Waiting(v, Exits)
  BY <1>3, <1>5
<1>13. ~(exitCount[SeenVisitor] > 0) => Waiting(v, Again)' = Waiting(v, Again)
  BY <1>3, <1>5
<1>14. v = SeenVisitor /\ SeenCrossing = "EXIT" => Waiting(v, Exits)' # {}
  BY <1>3, <1>4, <1>7
<1>15. v = SeenVisitor /\ SeenCrossing = "ENTRY" /\ exitCount[v] > 0 =>
         Waiting(v, Again)' # {}
  BY <1>3, <1>4, <1>7
<1>16. ASSUME v = SeenVisitor, SeenCrossing = "ENTRY"
       PROVE  \E i \in Waiting(v, Enters)' : \A j \in Waiting(v, Exits)' : j < i
  <2>1. PICK e \in ToSet(SeenLines) : e.visitor = v /\ e.type \in Enters
    BY <1>3, <1>4, <1>16
  <2>2. PICK i \in Waiting(v, Enters)' : i > Len(outbox)
    BY <1>7, <2>1
  <2>3. \A j \in Waiting(v, Exits)' : j \in 1 .. Len(outbox)
    BY <1>8, <1>12, <1>16
  <2>4. i \in Nat
    <3>1. outbox' \in Seq(Line)
      BY DetectTyped DEF VisitTypeOK, FrameTypeOK
    <3>2. QED
      BY <3>1 DEF Waiting, Told
  <2>5. Len(outbox) \in Nat
    BY <1>2
  <2>6. \A j \in Waiting(v, Exits)' : j < i
    BY <2>2, <2>3, <2>4, <2>5
  <2>7. QED
    BY <2>6
<1>17. \A types : v # SeenVisitor => Waiting(v, types)' = Waiting(v, types)
  BY <1>3, <1>5
<1>18. SeenCrossing # "ENTRY" \/ exitCount[SeenVisitor] > 0 =>
         Waiting(v, {"ENTRY"})' = Waiting(v, {"ENTRY"})
  BY <1>3, <1>5
<1>19. v = SeenVisitor /\ SeenCrossing = "ENTRY" /\ ~(exitCount[v] > 0) =>
         Waiting(v, First)' # {}
  BY <1>3, <1>4, <1>7
<1>20. QED
  BY <1>6, <1>9, <1>10, <1>11, <1>12, <1>13, <1>14, <1>15, <1>16, <1>17,
     <1>18, <1>19

\* A detection keeps the agreement: a crossing moves a fact about the visitor into
\* the outbox.
LEMMA DetectAgrees ==
  ASSUME VisitTypeOK, FrameShowsPlace, Agreement, Detect
  PROVE  Agreement'
<1> DEFINE u == SeenVisitor
           c == SeenCrossing
<1>1. /\ inFrame /\ todo # << >>
      /\ exitCount' = [exitCount EXCEPT ![u] = C!ExitCount(u, c)]
      /\ crossed' = [crossed EXCEPT ![u] = IF c = "none" THEN @ ELSE c]
      /\ exits' = exits \cup (IF c = "EXIT" THEN {u} ELSE {})
      /\ left' = left \cup (IF c = "EXIT" THEN {u} ELSE {})
      /\ met \subseteq met' /\ late \subseteq late'
      /\ c = "ENTRY" /\ exitCount[u] = 0 /\ inZone[u] # Away => u \in late'
      /\ \A v \in late' \ late : v = u /\ c = "ENTRY" /\ exitCount[u] = 0 /\ inZone[u] # Away
      /\ UNCHANGED <<turn, inFrame, ended, inZone, sessionVars, place>>
  BY DetectEffects
<1>2. /\ u \in Visitors
      /\ c \in {"ENTRY", "EXIT", "none"}
      /\ c # "none" => C!camera = EntryCamera
      /\ c = "EXIT" => AtDoor(place[u])
  <2>1. /\ u \in Visitors
        /\ View[place[u]][C!camera] # Hidden
        /\ View[place[u]][C!camera].side = Seen.side
        /\ c \in {"ENTRY", "EXIT", "none"}
        /\ c # "none" => C!camera = EntryCamera
        /\ c = "EXIT" => Seen.side = "outside"
    BY <1>1, SeenTyped
  <2> HIDE DEF u, c
  <2>2. QED
    BY <2>1 DEF AtDoor
<1>3. /\ UNCHANGED <<sessions, active, reentryCounts>>
      /\ \A v \in Visitors : Candidate(v)' <=> Candidate(v)
  BY <1>1, SameSessions DEF VisitTypeOK
<1>4. ASSUME NEW v \in Visitors
      PROVE  /\ \A types : v # u => Waiting(v, types)' = Waiting(v, types)
             /\ Waiting(v, {"BILLING_QUEUE_JOIN"})' = Waiting(v, {"BILLING_QUEUE_JOIN"})
             /\ c = "none" => Waiting(v, Crossings)' = Waiting(v, Crossings)
             /\ c # "ENTRY" =>
                  /\ Waiting(v, {"ENTRY", "REENTRY"})' = Waiting(v, {"ENTRY", "REENTRY"})
                  /\ Waiting(v, {"REENTRY"})' = Waiting(v, {"REENTRY"})
             /\ c # "ENTRY" \/ exitCount[u] > 0 =>
                  Waiting(v, {"ENTRY"})' = Waiting(v, {"ENTRY"})
             /\ c # "EXIT" => Waiting(v, {"EXIT"})' = Waiting(v, {"EXIT"})
             /\ ~(exitCount[u] > 0) => Waiting(v, {"REENTRY"})' = Waiting(v, {"REENTRY"})
             /\ Waiting(v, {"EXIT"}) \subseteq Waiting(v, {"EXIT"})'
             /\ Waiting(v, {"REENTRY"}) \subseteq Waiting(v, {"REENTRY"})'
             /\ Waiting(v, {"ENTRY"}) \subseteq Waiting(v, {"ENTRY"})'
             /\ v = u /\ c = "ENTRY" /\ ~(exitCount[v] > 0) => Waiting(v, {"ENTRY"})' # {}
             /\ v = u /\ c = "EXIT" => Waiting(v, {"EXIT"})' # {}
             /\ v = u /\ c = "ENTRY" /\ exitCount[v] > 0 => Waiting(v, {"REENTRY"})' # {}
             /\ v = u /\ c = "ENTRY" =>
                  \E i \in Waiting(v, {"ENTRY", "REENTRY"})' :
                    \A j \in Waiting(v, {"EXIT"})' : j < i
  BY DetectWrites
<1>5. /\ crossed \in [Visitors -> {"none", "ENTRY", "EXIT"}]
      /\ exitCount \in [Visitors -> Nat]
  BY DEF VisitTypeOK, WalkTypeOK, CameraTypeOK
<1> HIDE DEF u, c
<1>6. /\ \A v \in Visitors : v # u => crossed'[v] = crossed[v] /\ exitCount'[v] = exitCount[v]
      /\ c = "none" => crossed'[u] = crossed[u]
      /\ c # "none" => crossed'[u] = c
      /\ c = "EXIT" => exitCount'[u] > 0
      /\ c # "EXIT" => exitCount'[u] = exitCount[u]
  BY <1>1, <1>2, <1>5 DEF C!ExitCount
<1>7. CrossingAtEntry' /\ CrossingsFirst'
  <2>1. ASSUME NEW v \in Visitors, Waiting(v, {"EXIT"})' # {}
        PROVE  AtDoor(place[v])
    <3>1. CASE v = u /\ c = "EXIT"
      BY <1>2, <3>1
    <3>2. CASE v # u \/ c # "EXIT"
      BY <1>4, <2>1, <3>2 DEF CrossingAtEntry, Agreement
    <3>3. QED
      BY <3>1, <3>2
  <2>2. ASSUME NEW v \in Visitors, Waiting(v, {"ENTRY"})' # {}, inZone[v] # Away
        PROVE  v \in late'
    <3>1. CASE v = u /\ c = "ENTRY" /\ ~(exitCount[u] > 0)
      BY <1>1, <1>2, <1>5, <2>2, <3>1
    <3>2. CASE ~(v = u /\ c = "ENTRY" /\ ~(exitCount[u] > 0))
      <4>1. Waiting(v, {"ENTRY"}) # {}
        BY <1>4, <2>2, <3>2
      <4>2. QED
        BY <1>1, <2>2, <4>1 DEF CrossingAtEntry, Agreement
    <3>3. QED
      BY <3>1, <3>2
  <2>3. CrossingAtEntry'
    BY <1>1, <2>1, <2>2 DEF CrossingAtEntry, AtDoor
  <2>4. CrossingsFirst'
    <3>1. C!camera' = C!camera
      BY <1>1 DEF C!camera
    <3> SUFFICES ASSUME C!camera # EntryCamera, NEW v \in Visitors
                 PROVE  Waiting(v, Crossings)' = {}
      BY <3>1 DEF CrossingsFirst
    <3>2. QED
      BY <1>1, <1>2, <1>4 DEF CrossingsFirst, Agreement
  <2>5. QED
    BY <2>3, <2>4
<1>8. JoinsComeLast'
  BY <1>1, <1>4 DEF JoinsComeLast, Agreement
<1>9. EnteredWillHave'
  <2> SUFFICES ASSUME NEW v \in Visitors, crossed'[v] = "ENTRY"
               PROVE  \/ active[v] # None /\ Waiting(v, {"EXIT"})' = {}
                      \/ \E i \in Waiting(v, {"ENTRY", "REENTRY"})' :
                           \A j \in Waiting(v, {"EXIT"})' : j < i
    BY <1>3 DEF EnteredWillHave
  <2>1. CASE v = u /\ c = "ENTRY"
    BY <1>4, <2>1
  <2>2. CASE v # u \/ c = "none"
    <3>1. crossed[v] = "ENTRY"
      BY <1>6, <2>2
    <3>2. /\ Waiting(v, {"EXIT"})' = Waiting(v, {"EXIT"})
          /\ Waiting(v, {"ENTRY", "REENTRY"})' = Waiting(v, {"ENTRY", "REENTRY"})
      BY <1>4, <2>2
    <3>3. QED
      BY <3>1, <3>2 DEF EnteredWillHave, Agreement
  <2>3. CASE v = u /\ c = "EXIT"
    BY <1>6, <2>3
  <2>4. QED
    BY <1>2, <2>1, <2>2, <2>3
<1>10. ExitsOnPassport'
  <2> SUFFICES ASSUME NEW v \in Visitors
               PROVE  /\ exitCount'[v] > 0 => v \in exits'
                      /\ v \in exits' => exitCount'[v] > 0 \/ v \in Shared
    BY <1>1, SharedGrows DEF ExitsOnPassport
  <2>1. CASE v = u /\ c = "EXIT"
    BY <1>1, <1>6, <2>1
  <2>2. CASE v # u \/ c # "EXIT"
    <3>1. exitCount'[v] = exitCount[v] /\ (v \in exits' <=> v \in exits)
      BY <1>1, <1>6, <2>2
    <3>2. QED
      BY <3>1 DEF ExitsOnPassport, Agreement
  <2>3. QED
    BY <2>1, <2>2
<1>11. ReentriesExplained'
  <2> SUFFICES ASSUME NEW v \in Visitors
               PROVE  /\ reentryCounts[v] > 0 \/ Waiting(v, {"REENTRY"})' # {} => v \in exits'
                      /\ crossed'[v] = "ENTRY" /\ v \in exits' /\ v \notin Shared =>
                           reentryCounts[v] > 0 \/ Waiting(v, {"REENTRY"})' # {}
    BY <1>1, <1>3, SharedGrows DEF ReentriesExplained
  <2>1. /\ reentryCounts[v] > 0 \/ Waiting(v, {"REENTRY"}) # {} => v \in exits
        /\ crossed[v] = "ENTRY" /\ v \in exits /\ v \notin Shared =>
             reentryCounts[v] > 0 \/ Waiting(v, {"REENTRY"}) # {}
    BY DEF ReentriesExplained, Agreement
  <2>2. /\ exitCount[v] > 0 => v \in exits
        /\ v \in exits /\ v \notin Shared => exitCount[v] > 0
    BY DEF ExitsOnPassport, Agreement
  <2>3. CASE v # u \/ c = "none"
    <3>1. Waiting(v, {"REENTRY"})' = Waiting(v, {"REENTRY"})
      BY <1>4, <2>3
    <3>2. crossed'[v] = crossed[v] /\ (v \in exits' <=> v \in exits)
      BY <1>1, <1>6, <2>3
    <3>3. QED
      BY <2>1, <3>1, <3>2
  <2>4. CASE v = u /\ c = "ENTRY"
    <3>1. v \in exits' <=> v \in exits
      BY <1>1, <2>4
    <3>2. v \in exits /\ v \notin Shared => Waiting(v, {"REENTRY"})' # {}
      BY <1>4, <2>2, <2>4
    <3>3. v \notin exits => Waiting(v, {"REENTRY"})' = Waiting(v, {"REENTRY"})
      BY <1>4, <2>2, <2>4
    <3>4. QED
      BY <2>1, <3>1, <3>2, <3>3
  <2>5. CASE v = u /\ c = "EXIT"
    BY <1>1, <1>6, <2>5
  <2>6. QED
    BY <1>2, <2>3, <2>4, <2>5
<1>12. LeftDoNotQueue'
  <2> SUFFICES ASSUME NEW v \in left'
               PROVE  /\ AtDoor(place[v])
                      /\ Waiting(v, {"BILLING_QUEUE_JOIN"})' = {}
                      /\ Waiting(v, {"EXIT"})' # {} \/ ~Candidate(v)'
    BY <1>1 DEF LeftDoNotQueue, AtDoor
  <2>1. left \subseteq Visitors
    BY DEF VisitTypeOK, WalkTypeOK
  <2>2. CASE v \in left
    <3>1. /\ AtDoor(place[v])
          /\ Waiting(v, {"BILLING_QUEUE_JOIN"}) = {}
          /\ Waiting(v, {"EXIT"}) # {} \/ ~Candidate(v)
      BY <2>2 DEF LeftDoNotQueue, Agreement
    <3>2. /\ Waiting(v, {"BILLING_QUEUE_JOIN"})' = Waiting(v, {"BILLING_QUEUE_JOIN"})
          /\ Waiting(v, {"EXIT"}) \subseteq Waiting(v, {"EXIT"})'
      BY <1>4, <2>1, <2>2
    <3>3. Candidate(v)' <=> Candidate(v)
      BY <1>3, <2>1, <2>2
    <3>4. QED
      BY <3>1, <3>2, <3>3
  <2>3. CASE v \notin left
    <3>1. v = u /\ c = "EXIT"
      BY <1>1, <2>3
    <3>2. Waiting(v, {"BILLING_QUEUE_JOIN"})' = {}
      BY <1>1, <1>2, <1>4, <3>1 DEF JoinsComeLast, Agreement
    <3>3. Waiting(v, {"EXIT"})' # {}
      BY <1>2, <1>4, <3>1
    <3>4. QED
      BY <1>2, <3>1, <3>2, <3>3
  <2>4. QED
    BY <2>2, <2>3
<1>13. QueueWillBeCandidate'
  <2> SUFFICES ASSUME BillingCamera \notin ended, NEW v \in Visitors, inZone[v] # Away
               PROVE  IF AtQueue(place[v])
                      THEN v \in late' \/ Candidate(v)' \/ Waiting(v, {"BILLING_QUEUE_JOIN"})' # {}
                      ELSE /\ turn > 1 \/ inFrame
                           /\ \E p \in turn .. Len(CameraOrder) : CameraOrder[p] = BillingCamera
    BY <1>1 DEF QueueWillBeCandidate, AtQueue, InZone
  <2>1. IF AtQueue(place[v])
        THEN v \in late \/ Candidate(v) \/ Waiting(v, {"BILLING_QUEUE_JOIN"}) # {}
        ELSE /\ turn > 1 \/ inFrame
             /\ \E p \in turn .. Len(CameraOrder) : CameraOrder[p] = BillingCamera
    BY DEF QueueWillBeCandidate, Agreement
  <2>2. /\ Waiting(v, {"BILLING_QUEUE_JOIN"})' = Waiting(v, {"BILLING_QUEUE_JOIN"})
        /\ Candidate(v)' <=> Candidate(v)
    BY <1>3, <1>4
  <2>3. QED
    BY <1>1, <2>1, <2>2
<1>14. LateIsNoCandidate'
  <2> SUFFICES ASSUME NEW v \in late'
               PROVE  /\ inZone[v] # Away
                      /\ Waiting(v, {"BILLING_QUEUE_JOIN"})' = {}
                      /\ Waiting(v, {"ENTRY"})' # {} \/ ~Candidate(v)'
                      /\ BillingCamera \notin ended /\ AtQueue(place[v]) => crossed'[v] = "ENTRY"
    BY <1>1 DEF LateIsNoCandidate, AtQueue, InZone
  <2>1. CASE v \in late
    <3>1. /\ v \in Visitors /\ place[v] \in Places
          /\ inZone[v] # Away
          /\ Waiting(v, {"BILLING_QUEUE_JOIN"}) = {}
          /\ Waiting(v, {"ENTRY"}) # {} \/ ~Candidate(v)
          /\ BillingCamera \notin ended /\ AtQueue(place[v]) => crossed[v] = "ENTRY"
      BY <2>1 DEF LateIsNoCandidate, Agreement, VisitTypeOK, WalkTypeOK
    <3>2. AtQueue(place[v]) /\ crossed[v] = "ENTRY" => crossed'[v] = "ENTRY"
      <4>1. AtQueue(place[v]) => ~AtDoor(place[v])
        BY <3>1, VisitAssumption
      <4>2. CASE v # u
        BY <1>6, <3>1, <4>2
      <4>3. CASE v = u
        BY <1>2, <1>6, <4>1, <4>3
      <4>4. QED
        BY <4>2, <4>3
    <3>3. /\ Waiting(v, {"BILLING_QUEUE_JOIN"})' = Waiting(v, {"BILLING_QUEUE_JOIN"})
          /\ Waiting(v, {"ENTRY"}) \subseteq Waiting(v, {"ENTRY"})'
      BY <1>4, <3>1
    <3>4. Candidate(v)' <=> Candidate(v)
      BY <1>3, <3>1
    <3>5. QED
      BY <3>1, <3>2, <3>3, <3>4
  <2>2. CASE v \notin late
    <3>1. v = u /\ c = "ENTRY" /\ exitCount[u] = 0 /\ inZone[u] # Away
      BY <1>1, <2>2
    <3>2. Waiting(v, {"BILLING_QUEUE_JOIN"})' = {}
      BY <1>1, <1>2, <1>4, <3>1 DEF JoinsComeLast, Agreement
    <3>3. Waiting(v, {"ENTRY"})' # {}
      BY <1>2, <1>4, <3>1
    <3>4. crossed'[v] = "ENTRY"
      BY <1>6, <3>1
    <3>5. QED
      BY <3>1, <3>2, <3>3, <3>4
  <2>3. QED
    BY <2>1, <2>2
<1>15. QED
  BY <1>7, <1>8, <1>9, <1>10, <1>11, <1>12, <1>13, <1>14 DEF Agreement

\* Another passport keeps the agreement: only who shares passports loses exits.
LEMMA PassportAgrees ==
  ASSUME VisitTypeOK, Agreement, OtherPassport
  PROVE  Agreement'
<1>1. /\ \A v \in Visitors : exitCount'[v] # exitCount[v] => v \in Shared \cap exits
      /\ UNCHANGED <<inZone, turn, inFrame, ended, outbox, sessionVars,
                     place, met, crossed, exits, left, late>>
  BY PassportEffects
<1>2. /\ UNCHANGED <<sessions, active, reentryCounts>>
      /\ \A v \in Visitors : Candidate(v)' <=> Candidate(v)
  BY <1>1, SameSessions DEF VisitTypeOK
<1>3. \A v, types : Waiting(v, types)' = Waiting(v, types)
  BY <1>1, SameWaiting
<1>4. Shared' = Shared /\ C!camera' = C!camera
  BY <1>1 DEF Shared, C!camera
<1>5. CrossingAtEntry' /\ CrossingsFirst' /\ JoinsComeLast' /\ EnteredWillHave'
  BY <1>1, <1>2, <1>3, <1>4
     DEF CrossingAtEntry, CrossingsFirst, JoinsComeLast, EnteredWillHave, AtDoor, Agreement
<1>6. ExitsOnPassport'
  BY <1>1, <1>4 DEF ExitsOnPassport, Agreement
<1>7. ReentriesExplained'
  BY <1>1, <1>2, <1>3, <1>4 DEF ReentriesExplained, Agreement
<1>8. LeftDoNotQueue'
  BY <1>1, <1>2, <1>3 DEF LeftDoNotQueue, AtDoor, Agreement, VisitTypeOK, WalkTypeOK
<1>9. QueueWillBeCandidate'
  BY <1>1, <1>2, <1>3 DEF QueueWillBeCandidate, AtQueue, InZone, Agreement
<1>10. LateIsNoCandidate'
  BY <1>1, <1>2, <1>3
     DEF LateIsNoCandidate, AtQueue, InZone, Agreement, VisitTypeOK, WalkTypeOK
<1>11. QED
  BY <1>5, <1>6, <1>7, <1>8, <1>9, <1>10 DEF Agreement

\* A step between two frames: the visitors stand, the sessions stay, and no crossing
\* is written. Who enters the queue or leaves it has no crossing before them.
Quiet ==
  /\ ~inFrame'
  /\ \A v \in Visitors :
       /\ Waiting(v, Crossings)' = Waiting(v, Crossings)
       /\ Waiting(v, {"ENTRY", "REENTRY"})' = Waiting(v, {"ENTRY", "REENTRY"})
       /\ Waiting(v, {"ENTRY"})' = Waiting(v, {"ENTRY"})
       /\ Waiting(v, {"REENTRY"})' = Waiting(v, {"REENTRY"})
       /\ Waiting(v, {"EXIT"})' = Waiting(v, {"EXIT"})
       /\ Waiting(v, {"ENTRY"}) # {} => inZone'[v] = inZone[v]
       /\ v \in late /\ inZone'[v] # Away => v \in late'
       /\ v \in late' => v \in late /\ inZone'[v] # Away
  /\ ended \subseteq ended'
  /\ late' \subseteq Visitors
  /\ UNCHANGED <<exitCount, sessionVars, place, met, crossed, exits, left>>

\* A quiet step keeps the agreement of sessions and visitors, if it writes no JOIN
\* of who left or entered late, and the queue is still to become candidates.
LEMMA QuietAgrees ==
  ASSUME VisitTypeOK, Agreement, Quiet,
         \A v \in left \cup late : Waiting(v, {"BILLING_QUEUE_JOIN"})' = {},
         QueueWillBeCandidate'
  PROVE  Agreement'
<1>1. /\ UNCHANGED <<sessions, active, reentryCounts>>
      /\ \A v \in Visitors : Candidate(v)' <=> Candidate(v)
  BY SameSessions DEF VisitTypeOK, Quiet
<1>2. UNCHANGED <<exitCount, place, crossed, exits, left>> /\ Shared' = Shared
  BY DEF Quiet, Shared
<1>3. CrossingAtEntry'
  BY <1>2 DEF Quiet, CrossingAtEntry, AtDoor, Agreement
<1>4. CrossingsFirst' /\ JoinsComeLast'
  BY DEF Quiet, CrossingsFirst, JoinsComeLast
<1>5. EnteredWillHave'
  BY <1>1, <1>2 DEF Quiet, EnteredWillHave, Agreement
<1>6. ExitsOnPassport'
  BY <1>2 DEF ExitsOnPassport, Agreement
<1>7. ReentriesExplained'
  BY <1>1, <1>2 DEF Quiet, ReentriesExplained, Agreement
<1>8. LeftDoNotQueue'
  <2> SUFFICES ASSUME NEW v \in left
               PROVE  /\ AtDoor(place[v])
                      /\ Waiting(v, {"EXIT"})' # {} \/ ~Candidate(v)'
    BY <1>2 DEF LeftDoNotQueue, AtDoor
  <2>1. v \in Visitors
    BY DEF VisitTypeOK, WalkTypeOK
  <2>2. /\ AtDoor(place[v])
        /\ Waiting(v, {"EXIT"}) # {} \/ ~Candidate(v)
    BY DEF LeftDoNotQueue, Agreement
  <2>3. Waiting(v, {"EXIT"})' = Waiting(v, {"EXIT"}) /\ (Candidate(v)' <=> Candidate(v))
    BY <1>1, <2>1 DEF Quiet
  <2>4. QED
    BY <2>2, <2>3
<1>9. LateIsNoCandidate'
  <2> SUFFICES ASSUME NEW v \in late'
               PROVE  /\ inZone'[v] # Away
                      /\ Waiting(v, {"BILLING_QUEUE_JOIN"})' = {}
                      /\ Waiting(v, {"ENTRY"})' # {} \/ ~Candidate(v)'
                      /\ BillingCamera \notin ended' /\ AtQueue(place[v]) => crossed[v] = "ENTRY"
    BY <1>2 DEF LateIsNoCandidate, AtQueue, InZone
  <2>1. v \in Visitors /\ v \in late /\ inZone'[v] # Away
    BY DEF Quiet
  <2>2. /\ Waiting(v, {"ENTRY"}) # {} \/ ~Candidate(v)
        /\ BillingCamera \notin ended /\ AtQueue(place[v]) => crossed[v] = "ENTRY"
    BY <2>1 DEF LateIsNoCandidate, Agreement
  <2>3. Waiting(v, {"ENTRY"})' = Waiting(v, {"ENTRY"}) /\ (Candidate(v)' <=> Candidate(v))
    BY <1>1, <2>1 DEF Quiet
  <2>4. QED
    BY <2>1, <2>2, <2>3 DEF Quiet
<1>10. QED
  BY <1>3, <1>4, <1>5, <1>6, <1>7, <1>8, <1>9 DEF Agreement

\* After another camera than that of the queue the queue's camera is still to come.
LEMMA QueueStillToCome ==
  ASSUME VisitTypeOK, Agreement, C!camera # BillingCamera, C!NextCamera,
         BillingCamera \notin ended, NEW v \in Visitors, inZone[v] # Away
  PROVE  IF AtQueue(place[v])
         THEN v \in late \/ Candidate(v) \/ Waiting(v, {"BILLING_QUEUE_JOIN"}) # {}
         ELSE /\ turn' > 1
              /\ \E p \in turn' .. Len(CameraOrder) : CameraOrder[p] = BillingCamera
<1>1. IF AtQueue(place[v])
      THEN v \in late \/ Candidate(v) \/ Waiting(v, {"BILLING_QUEUE_JOIN"}) # {}
      ELSE \E p \in turn .. Len(CameraOrder) : CameraOrder[p] = BillingCamera
  BY DEF QueueWillBeCandidate, Agreement
<1>2. ASSUME NEW p \in turn .. Len(CameraOrder), CameraOrder[p] = BillingCamera
      PROVE  turn' > 1 /\ p \in turn' .. Len(CameraOrder)
  <2>1. turn \in Nat /\ turn >= 1 /\ Len(CameraOrder) \in Nat
    BY VisitAssumption DEF VisitTypeOK, FrameTypeOK, Rounds
  <2>2. p # turn
    BY <1>2 DEF C!camera
  <2>3. turn' = turn + 1
    BY <2>1, <2>2 DEF C!NextCamera
  <2>4. QED
    BY <2>1, <2>2, <2>3
<1>3. QED
  BY <1>1, <1>2

\* The end of a frame: who is in the queue at the billing camera is a candidate
\* or has the JOIN before them.
LEMMA EndFrameAgrees ==
  ASSUME VisitTypeOK, FrameShowsPlace, Agreement, EndFrame
  PROVE  Agreement'
<1>1. /\ inFrame /\ todo = << >>
      /\ ~inFrame'
      /\ \/ /\ C!camera = BillingCamera
            /\ C!UpdateQueue(billingPresent, now)
            /\ outbox' = outbox \o C!QueueEvents
         \/ C!camera # BillingCamera /\ UNCHANGED <<inZone, exited, outbox>>
      /\ C!NextCamera
      /\ late' = {v \in late : inZone'[v] # Away}
      /\ UNCHANGED <<billingPresent, ended, exitCount, sessionVars, place, met, crossed, exits,
                     left>>
  BY EndFrameEffects
<1>2. /\ UNCHANGED <<sessions, active, reentryCounts>>
      /\ \A v \in Visitors : Candidate(v)' <=> Candidate(v)
  BY <1>1, SameSessions DEF VisitTypeOK
<1>3. CASE C!camera # BillingCamera
  <2>1. UNCHANGED <<inZone, outbox>>
    BY <1>1, <1>3
  <2>2. \A v, types : Waiting(v, types)' = Waiting(v, types)
    BY <2>1, SameWaiting
  <2>3. Quiet
    BY <1>1, <2>1, <2>2 DEF Quiet, VisitTypeOK, WalkTypeOK
  <2>4. \A v \in left \cup late : Waiting(v, {"BILLING_QUEUE_JOIN"})' = {}
    BY <2>2 DEF LeftDoNotQueue, LateIsNoCandidate, Agreement
  <2>5. QueueWillBeCandidate'
    <3> SUFFICES ASSUME BillingCamera \notin ended, NEW v \in Visitors, inZone[v] # Away
                 PROVE  IF AtQueue(place[v])
                        THEN v \in late' \/ Candidate(v)' \/ Waiting(v, {"BILLING_QUEUE_JOIN"})' # {}
                        ELSE /\ turn' > 1
                             /\ \E p \in turn' .. Len(CameraOrder) : CameraOrder[p] = BillingCamera
      BY <1>1, <2>1 DEF QueueWillBeCandidate, AtQueue, InZone
    <3>1. IF AtQueue(place[v])
          THEN v \in late \/ Candidate(v) \/ Waiting(v, {"BILLING_QUEUE_JOIN"}) # {}
          ELSE /\ turn' > 1
               /\ \E p \in turn' .. Len(CameraOrder) : CameraOrder[p] = BillingCamera
      BY <1>1, <1>3, QueueStillToCome
    <3>2. v \in late => v \in late'
      BY <1>1, <2>1
    <3>3. QED
      BY <1>2, <2>2, <3>1, <3>2
  <2>6. QED
    BY <2>3, <2>4, <2>5, QuietAgrees
<1>4. CASE C!camera = BillingCamera
  <2>1. C!UpdateQueue(billingPresent, now) /\ outbox' = outbox \o C!QueueEvents
    BY <1>1, <1>4
  <2>2. outbox \in Seq(Line) /\ C!QueueEvents \in Seq(Line)
    BY QueueSays DEF VisitTypeOK, FrameTypeOK
  <2>3. \A e \in ToSet(C!QueueEvents) :
          /\ e.type \in {"BILLING_QUEUE_JOIN", "BILLING_QUEUE_ABANDON"}
          /\ e.type = "BILLING_QUEUE_JOIN" =>
               e.visitor \in ToSet(billingPresent) /\ inZone[e.visitor] = Away
    BY QueueSays
  <2>4. \A v \in ToSet(billingPresent) : inZone[v] = Away =>
          \E e \in ToSet(C!QueueEvents) : e.visitor = v /\ e.type = "BILLING_QUEUE_JOIN"
    BY QueueSays
  <2>5. \A v, types :
          (\A e \in ToSet(C!QueueEvents) : ~(e.visitor = v /\ e.type \in types)) =>
            Waiting(v, types)' = Waiting(v, types)
    BY <2>1, <2>2, WaitingWrites
  <2>6. \A v, types : Waiting(v, types) \subseteq Waiting(v, types)'
    BY <2>1, <2>2, WaitingWrites
  <2>7. \A v, types, e : e \in ToSet(C!QueueEvents) /\ e.visitor = v /\ e.type \in types =>
          Waiting(v, types)' # {}
    BY <2>1, <2>2, WaitingWrites
  <2>8. \A v :
          /\ Waiting(v, Crossings)' = Waiting(v, Crossings)
          /\ Waiting(v, {"ENTRY", "REENTRY"})' = Waiting(v, {"ENTRY", "REENTRY"})
          /\ Waiting(v, {"ENTRY"})' = Waiting(v, {"ENTRY"})
          /\ Waiting(v, {"REENTRY"})' = Waiting(v, {"REENTRY"})
          /\ Waiting(v, {"EXIT"})' = Waiting(v, {"EXIT"})
    BY <2>3, <2>5 DEF Crossings
  <2>9. Quiet
    <3>1. \A v \in Visitors : Waiting(v, Crossings) = {}
      BY <1>1, <1>4, VisitAssumption DEF CrossingsFirst, Agreement
    <3>2. \A v \in Visitors : Waiting(v, {"ENTRY"}) = {}
      BY <3>1 DEF Waiting, Told, Crossings
    <3>3. QED
      BY <1>1, <2>8, <3>2 DEF Quiet, VisitTypeOK, WalkTypeOK
  <2>10. \A v \in ToSet(billingPresent) : AtQueue(place[v])
    BY <1>1 DEF FrameShowsPlace
  <2>11. ASSUME NEW v \in left
         PROVE  Waiting(v, {"BILLING_QUEUE_JOIN"})' = {}
    <3>1. AtDoor(place[v]) /\ Waiting(v, {"BILLING_QUEUE_JOIN"}) = {}
      BY DEF LeftDoNotQueue, Agreement
    <3>2. place[v] \in Places
      BY DEF VisitTypeOK, WalkTypeOK
    <3>3. ~AtQueue(place[v])
      BY <3>1, <3>2, VisitAssumption
    <3>4. v \notin ToSet(billingPresent)
      BY <2>10, <3>3
    <3>5. \A e \in ToSet(C!QueueEvents) :
            ~(e.visitor = v /\ e.type \in {"BILLING_QUEUE_JOIN"})
      BY <2>3, <3>4
    <3>6. QED
      BY <2>5, <3>1, <3>5
  <2>12. QueueWillBeCandidate'
    <3> SUFFICES ASSUME BillingCamera \notin ended, NEW v \in Visitors, inZone'[v] # Away
                 PROVE  /\ AtQueue(place[v])
                        /\ v \in late' \/ Candidate(v)' \/ Waiting(v, {"BILLING_QUEUE_JOIN"})' # {}
      BY <1>1 DEF QueueWillBeCandidate, AtQueue, InZone
    <3>1. v \in ToSet(billingPresent)
      BY <2>1, QueueUpdates
    <3>2. AtQueue(place[v])
      BY <2>10, <3>1
    <3>3. CASE inZone[v] = Away
      <4>1. PICK e \in ToSet(C!QueueEvents) : e.visitor = v /\ e.type = "BILLING_QUEUE_JOIN"
        BY <2>4, <3>1, <3>3
      <4>2. QED
        BY <2>7, <3>2, <4>1
    <3>4. CASE inZone[v] # Away
      <4>1. v \in late \/ Candidate(v) \/ Waiting(v, {"BILLING_QUEUE_JOIN"}) # {}
        BY <3>2, <3>4 DEF QueueWillBeCandidate, Agreement
      <4>2. QED
        BY <1>1, <1>2, <2>6, <3>2, <4>1
    <3>5. QED
      BY <3>3, <3>4
  <2>13. ASSUME NEW v \in late
         PROVE  Waiting(v, {"BILLING_QUEUE_JOIN"})' = {}
    <3>1. inZone[v] # Away /\ Waiting(v, {"BILLING_QUEUE_JOIN"}) = {}
      BY DEF LateIsNoCandidate, Agreement
    <3>2. \A e \in ToSet(C!QueueEvents) :
            ~(e.visitor = v /\ e.type \in {"BILLING_QUEUE_JOIN"})
      BY <2>3, <3>1
    <3>3. QED
      BY <2>5, <3>1, <3>2
  <2>14. QED
    BY <2>9, <2>11, <2>12, <2>13, QuietAgrees
<1>5. QED
  BY <1>3, <1>4

\* The end of a video writes ZONE_EXITs only.
LEMMA EndVideoAgrees ==
  ASSUME VisitTypeOK, Agreement, EndVideo
  PROVE  Agreement'
<1>1. /\ outbox = << >> /\ ~inFrame
      /\ outbox' = outbox \o C!FlushEvents
      /\ ended' = ended \cup {C!camera}
      /\ C!NextCamera
      /\ UNCHANGED <<inFrame, exitCount, inZone, sessionVars, place, met, crossed, exits, left,
                     late>>
  BY EndVideoEffects
<1>2. /\ UNCHANGED <<sessions, active, reentryCounts>>
      /\ \A v \in Visitors : Candidate(v)' <=> Candidate(v)
  BY <1>1, SameSessions DEF VisitTypeOK
<1>3. outbox \in Seq(Line) /\ C!FlushEvents \in Seq(Line) /\ ToSet(C!FlushEvents) = FlushLines
  BY FlushSays DEF VisitTypeOK, FrameTypeOK
<1>4. \A e \in ToSet(C!FlushEvents) : e.type = "ZONE_EXIT"
  BY <1>3 DEF FlushLines, C!StoreEvent
<1>5. \A v, types :
        (\A e \in ToSet(C!FlushEvents) : ~(e.visitor = v /\ e.type \in types)) =>
          Waiting(v, types)' = Waiting(v, types)
  BY <1>1, <1>3, WaitingWrites
<1>6. \A v, types : "ZONE_EXIT" \notin types => Waiting(v, types)' = Waiting(v, types)
  BY <1>4, <1>5
<1>7. Quiet
  BY <1>1, <1>6 DEF Quiet, Crossings, LateIsNoCandidate, Agreement, VisitTypeOK, WalkTypeOK
<1>8. \A v : Waiting(v, {"BILLING_QUEUE_JOIN"})' = Waiting(v, {"BILLING_QUEUE_JOIN"})
  BY <1>6
<1>9. \A v \in left \cup late : Waiting(v, {"BILLING_QUEUE_JOIN"})' = {}
  BY <1>8 DEF LeftDoNotQueue, LateIsNoCandidate, Agreement
<1>10. QueueWillBeCandidate'
  <2> SUFFICES ASSUME BillingCamera \notin ended', NEW v \in Visitors, inZone[v] # Away
               PROVE  IF AtQueue(place[v])
                      THEN v \in late \/ Candidate(v)' \/ Waiting(v, {"BILLING_QUEUE_JOIN"})' # {}
                      ELSE /\ turn' > 1
                           /\ \E p \in turn' .. Len(CameraOrder) : CameraOrder[p] = BillingCamera
    BY <1>1 DEF QueueWillBeCandidate, AtQueue, InZone
  <2>1. C!camera # BillingCamera /\ BillingCamera \notin ended
    BY <1>1
  <2>2. IF AtQueue(place[v])
        THEN v \in late \/ Candidate(v) \/ Waiting(v, {"BILLING_QUEUE_JOIN"}) # {}
        ELSE /\ turn' > 1
             /\ \E p \in turn' .. Len(CameraOrder) : CameraOrder[p] = BillingCamera
    BY <1>1, <2>1, QueueStillToCome
  <2>3. QED
    BY <1>2, <1>8, <2>2
<1>11. QED
  BY <1>7, <1>9, <1>10, QuietAgrees

\* A camera without a video writes nothing.
LEMMA SkipAgrees ==
  ASSUME VisitTypeOK, Agreement, SkipEnded
  PROVE  Agreement'
<1>1. /\ ~inFrame /\ C!camera \in ended
      /\ C!NextCamera
      /\ UNCHANGED <<inFrame, ended, exitCount, inZone, outbox, sessionVars, place, met, crossed,
                     exits, left, late>>
  BY SkipEffects
<1>2. /\ UNCHANGED <<sessions, active, reentryCounts>>
      /\ \A v \in Visitors : Candidate(v)' <=> Candidate(v)
  BY <1>1, SameSessions DEF VisitTypeOK
<1>3. \A v, types : Waiting(v, types)' = Waiting(v, types)
  BY <1>1, SameWaiting
<1>4. Quiet
  BY <1>1, <1>3 DEF Quiet, LateIsNoCandidate, Agreement, VisitTypeOK, WalkTypeOK
<1>5. \A v \in left \cup late : Waiting(v, {"BILLING_QUEUE_JOIN"})' = {}
  BY <1>3 DEF LeftDoNotQueue, LateIsNoCandidate, Agreement
<1>6. QueueWillBeCandidate'
  <2> SUFFICES ASSUME BillingCamera \notin ended, NEW v \in Visitors, inZone[v] # Away
               PROVE  IF AtQueue(place[v])
                      THEN v \in late \/ Candidate(v)' \/ Waiting(v, {"BILLING_QUEUE_JOIN"})' # {}
                      ELSE /\ turn' > 1
                           /\ \E p \in turn' .. Len(CameraOrder) : CameraOrder[p] = BillingCamera
    BY <1>1 DEF QueueWillBeCandidate, AtQueue, InZone
  <2>1. IF AtQueue(place[v])
        THEN v \in late \/ Candidate(v) \/ Waiting(v, {"BILLING_QUEUE_JOIN"}) # {}
        ELSE /\ turn' > 1
             /\ \E p \in turn' .. Len(CameraOrder) : CameraOrder[p] = BillingCamera
    BY <1>1, QueueStillToCome
  <2>2. QED
    BY <1>2, <1>3, <2>1
<1>7. QED
  BY <1>4, <1>5, <1>6, QuietAgrees

\* The delivery of a line moves what it says from the outbox to the session.
LEMMA DeliverAgrees ==
  ASSUME VisitTypeOK, Agreement, Deliver
  PROVE  Agreement'
<1>1. PICK e \in Event :
        /\ e.visitor = Head(outbox).visitor /\ e.type = Head(outbox).type
        /\ ProcessEvent(e)
        /\ ~inFrame /\ outbox # << >> /\ outbox' = Tail(outbox)
        /\ UNCHANGED <<inZone, turn, inFrame, exitCount, ended, place, met, crossed, exits,
                       left, late>>
  <2> DEFINE line == EventOf(outbox[1])
  <2>1. /\ line \in Event
        /\ line.visitor = Head(outbox).visitor /\ line.type = Head(outbox).type
        /\ ProcessEvent(line)
        /\ ~inFrame /\ outbox # << >> /\ outbox' = Tail(outbox)
        /\ UNCHANGED <<inZone, turn, inFrame, exitCount, ended, place, met, crossed, exits,
                       left, late>>
    BY DeliverEffects
  <2> HIDE DEF line
  <2>2. QED
    BY <2>1
<1>2. SessionInv /\ outbox \in Seq(Line)
  BY DEF VisitTypeOK, FrameTypeOK
<1>3. /\ e.visitor \in Visitors
      /\ active'[e.visitor] # None <=> e.type # "EXIT"
      /\ reentryCounts'[e.visitor] =
           reentryCounts[e.visitor] + (IF e.type = "REENTRY" THEN 1 ELSE 0)
      /\ Candidate(e.visitor)' <=>
           \/ e.type = "BILLING_QUEUE_JOIN"
           \/ e.type \notin {"ENTRY", "EXIT"} /\ Candidate(e.visitor)
  BY <1>1, <1>2, OwnSession, EventFields
<1>4. \A v \in Visitors : v # e.visitor =>
        /\ active'[v] = active[v]
        /\ reentryCounts'[v] = reentryCounts[v]
        /\ Candidate(v)' <=> Candidate(v)
  BY <1>1, <1>2, OtherSessions
<1>5. \A v, types :
        /\ Waiting(v, types) \subseteq Nat \ {0}
        /\ Waiting(v, types)' \subseteq Nat \ {0}
        /\ \A i \in Nat : i \in Waiting(v, types)' <=> i # 0 /\ i + 1 \in Waiting(v, types)
        /\ 1 \in Waiting(v, types) <=> e.visitor = v /\ e.type \in types
  BY <1>1, <1>2, WaitingReads
<1>6. \A v, types : Waiting(v, types) = {} => Waiting(v, types)' = {}
  <2> SUFFICES ASSUME NEW v, NEW types, NEW i \in Waiting(v, types)'
               PROVE  Waiting(v, types) # {}
    OBVIOUS
  <2>1. i \in Nat
    BY <1>5
  <2>2. QED
    BY <1>5, <2>1
<1>7. \A v, types : Waiting(v, types) # {} =>
        (e.visitor = v /\ e.type \in types) \/ Waiting(v, types)' # {}
  <2> SUFFICES ASSUME NEW v, NEW types, NEW i \in Waiting(v, types), i # 1
               PROVE  Waiting(v, types)' # {}
    BY <1>5
  <2>1. i \in Nat \ {0}
    BY <1>5
  <2>2. i - 1 \in Nat /\ i - 1 # 0 /\ (i - 1) + 1 = i
    BY <2>1
  <2>3. i - 1 \in Waiting(v, types)'
    BY <1>5, <2>2
  <2>4. QED
    BY <2>3
<1>8. CrossingAtEntry' /\ Shared' = Shared
  BY <1>1, <1>6 DEF CrossingAtEntry, AtDoor, Shared, Agreement
<1>9. CrossingsFirst' /\ JoinsComeLast'
  BY <1>1 DEF CrossingsFirst, JoinsComeLast
<1>10. EnteredWillHave'
  <2> SUFFICES ASSUME NEW v \in Visitors, crossed[v] = "ENTRY"
               PROVE  \/ active'[v] # None /\ Waiting(v, {"EXIT"})' = {}
                      \/ \E i \in Waiting(v, {"ENTRY", "REENTRY"})' :
                           \A j \in Waiting(v, {"EXIT"})' : j < i
    BY <1>1 DEF EnteredWillHave
  <2>1. \/ active[v] # None /\ Waiting(v, {"EXIT"}) = {}
        \/ \E i \in Waiting(v, {"ENTRY", "REENTRY"}) : \A j \in Waiting(v, {"EXIT"}) : j < i
    BY DEF EnteredWillHave, Agreement
  <2>2. CASE active[v] # None /\ Waiting(v, {"EXIT"}) = {}
    <3>1. Waiting(v, {"EXIT"})' = {}
      BY <1>6, <2>2
    <3>2. CASE v = e.visitor
      <4>1. e.type # "EXIT"
        BY <1>5, <2>2, <3>2
      <4>2. QED
        BY <1>3, <3>1, <3>2, <4>1
    <3>3. CASE v # e.visitor
      BY <1>4, <2>2, <3>1, <3>3
    <3>4. QED
      BY <3>2, <3>3
  <2>3. CASE \E i \in Waiting(v, {"ENTRY", "REENTRY"}) : \A j \in Waiting(v, {"EXIT"}) : j < i
    <3>1. PICK i \in Waiting(v, {"ENTRY", "REENTRY"}) : \A j \in Waiting(v, {"EXIT"}) : j < i
      BY <2>3
    <3>2. i \in Nat \ {0} /\ Waiting(v, {"EXIT"}) \subseteq Nat \ {0}
      BY <1>5
    <3>3. CASE i = 1
      <4>1. v = e.visitor /\ e.type \in {"ENTRY", "REENTRY"}
        BY <1>5, <3>1, <3>3
      <4>2. Waiting(v, {"EXIT"}) = {}
        <5> SUFFICES ASSUME NEW j \in Waiting(v, {"EXIT"})
                     PROVE  FALSE
          OBVIOUS
        <5>1. j \in Nat /\ j # 0 /\ j < 1
          BY <3>1, <3>2, <3>3
        <5>2. QED
          BY <5>1
      <4>3. Waiting(v, {"EXIT"})' = {}
        BY <1>6, <4>2
      <4>4. QED
        BY <1>3, <4>1, <4>3
    <3>4. CASE i # 1
      <4>1. i - 1 \in Nat /\ i - 1 # 0 /\ (i - 1) + 1 = i
        BY <3>2, <3>4
      <4>2. i - 1 \in Waiting(v, {"ENTRY", "REENTRY"})'
        BY <1>5, <3>1, <4>1
      <4>3. ASSUME NEW j \in Waiting(v, {"EXIT"})'
            PROVE  j < i - 1
        <5>1. j \in Nat
          BY <1>5
        <5>2. j + 1 \in Waiting(v, {"EXIT"})
          BY <1>5, <5>1
        <5>3. j + 1 < i
          BY <3>1, <5>2
        <5>4. QED
          BY <3>2, <5>1, <5>3
      <4>4. QED
        BY <4>2, <4>3
    <3>5. QED
      BY <3>3, <3>4
  <2>4. QED
    BY <2>1, <2>2, <2>3
<1>11. ExitsOnPassport'
  BY <1>1, <1>8 DEF ExitsOnPassport, Agreement
<1>12. ReentriesExplained'
  <2> SUFFICES ASSUME NEW v \in Visitors
               PROVE  /\ reentryCounts'[v] > 0 \/ Waiting(v, {"REENTRY"})' # {} => v \in exits
                      /\ crossed[v] = "ENTRY" /\ v \in exits /\ v \notin Shared =>
                           reentryCounts'[v] > 0 \/ Waiting(v, {"REENTRY"})' # {}
    BY <1>1, <1>8 DEF ReentriesExplained
  <2>1. /\ reentryCounts[v] > 0 \/ Waiting(v, {"REENTRY"}) # {} => v \in exits
        /\ crossed[v] = "ENTRY" /\ v \in exits /\ v \notin Shared =>
             reentryCounts[v] > 0 \/ Waiting(v, {"REENTRY"}) # {}
    BY DEF ReentriesExplained, Agreement
  <2>2. reentryCounts[v] \in Nat
    BY <1>2 DEF SessionInv, SessionTypeOK
  <2>3. CASE v = e.visitor /\ e.type = "REENTRY"
    <3>1. Waiting(v, {"REENTRY"}) # {}
      BY <1>5, <2>3
    <3>2. reentryCounts'[v] > 0
      BY <1>3, <2>2, <2>3
    <3>3. QED
      BY <2>1, <3>1, <3>2
  <2>4. CASE ~(v = e.visitor /\ e.type = "REENTRY")
    <3>1. reentryCounts'[v] = reentryCounts[v]
      BY <1>3, <1>4, <2>2, <2>4
    <3>2. Waiting(v, {"REENTRY"})' # {} <=> Waiting(v, {"REENTRY"}) # {}
      BY <1>6, <1>7, <2>4
    <3>3. QED
      BY <2>1, <3>1, <3>2
  <2>5. QED
    BY <2>3, <2>4
<1>13. LeftDoNotQueue'
  <2> SUFFICES ASSUME NEW v \in left
               PROVE  /\ AtDoor(place[v])
                      /\ Waiting(v, {"BILLING_QUEUE_JOIN"})' = {}
                      /\ Waiting(v, {"EXIT"})' # {} \/ ~Candidate(v)'
    BY <1>1 DEF LeftDoNotQueue, AtDoor
  <2>1. v \in Visitors
    BY DEF VisitTypeOK, WalkTypeOK
  <2>2. /\ AtDoor(place[v])
        /\ Waiting(v, {"BILLING_QUEUE_JOIN"}) = {}
        /\ Waiting(v, {"EXIT"}) # {} \/ ~Candidate(v)
    BY DEF LeftDoNotQueue, Agreement
  <2>3. Waiting(v, {"BILLING_QUEUE_JOIN"})' = {}
    BY <1>6, <2>2
  <2>4. ~(v = e.visitor /\ e.type = "BILLING_QUEUE_JOIN")
    BY <1>5, <2>2
  <2>5. CASE v = e.visitor /\ e.type = "EXIT"
    BY <1>3, <2>2, <2>3, <2>5
  <2>6. CASE ~(v = e.visitor /\ e.type = "EXIT")
    <3>1. Candidate(v)' => Candidate(v)
      BY <1>3, <1>4, <2>1, <2>4
    <3>2. Waiting(v, {"EXIT"}) # {} => Waiting(v, {"EXIT"})' # {}
      BY <1>7, <2>6
    <3>3. QED
      BY <2>2, <2>3, <3>1, <3>2
  <2>7. QED
    BY <2>5, <2>6
<1>14. QueueWillBeCandidate'
  <2> SUFFICES ASSUME BillingCamera \notin ended, NEW v \in Visitors, inZone[v] # Away
               PROVE  IF AtQueue(place[v])
                      THEN v \in late \/ Candidate(v)' \/ Waiting(v, {"BILLING_QUEUE_JOIN"})' # {}
                      ELSE /\ turn > 1 \/ inFrame
                           /\ \E p \in turn .. Len(CameraOrder) : CameraOrder[p] = BillingCamera
    BY <1>1 DEF QueueWillBeCandidate, AtQueue, InZone
  <2>1. IF AtQueue(place[v])
        THEN v \in late \/ Candidate(v) \/ Waiting(v, {"BILLING_QUEUE_JOIN"}) # {}
        ELSE /\ turn > 1 \/ inFrame
             /\ \E p \in turn .. Len(CameraOrder) : CameraOrder[p] = BillingCamera
    BY DEF QueueWillBeCandidate, Agreement
  <2>2. ASSUME AtQueue(place[v]), v \notin late
        PROVE  Candidate(v)' \/ Waiting(v, {"BILLING_QUEUE_JOIN"})' # {}
    <3>1. place[v] \in Places
      BY DEF VisitTypeOK, WalkTypeOK
    <3>2. ~(v = e.visitor /\ e.type \in {"ENTRY", "EXIT"})
      <4>1. Waiting(v, {"EXIT"}) = {}
        BY <2>2, <3>1, VisitAssumption DEF CrossingAtEntry, Agreement
      <4>2. Waiting(v, {"ENTRY"}) = {}
        BY <2>2 DEF CrossingAtEntry, Agreement
      <4>3. QED
        BY <1>5, <4>1, <4>2
    <3>3. CASE Waiting(v, {"BILLING_QUEUE_JOIN"}) # {}
      <4>1. (v = e.visitor /\ e.type = "BILLING_QUEUE_JOIN")
              \/ Waiting(v, {"BILLING_QUEUE_JOIN"})' # {}
        BY <1>7, <3>3
      <4>2. QED
        BY <1>3, <4>1
    <3>4. CASE Candidate(v)
      BY <1>3, <1>4, <3>2, <3>4
    <3>5. QED
      BY <2>1, <2>2, <3>3, <3>4
  <2>3. QED
    BY <2>1, <2>2
<1>15. LateIsNoCandidate'
  <2> SUFFICES ASSUME NEW v \in late
               PROVE  /\ inZone[v] # Away
                      /\ Waiting(v, {"BILLING_QUEUE_JOIN"})' = {}
                      /\ Waiting(v, {"ENTRY"})' # {} \/ ~Candidate(v)'
                      /\ BillingCamera \notin ended /\ AtQueue(place[v]) => crossed[v] = "ENTRY"
    BY <1>1 DEF LateIsNoCandidate, AtQueue, InZone
  <2>1. v \in Visitors
    BY DEF VisitTypeOK, WalkTypeOK
  <2>2. /\ inZone[v] # Away
        /\ Waiting(v, {"BILLING_QUEUE_JOIN"}) = {}
        /\ Waiting(v, {"ENTRY"}) # {} \/ ~Candidate(v)
        /\ BillingCamera \notin ended /\ AtQueue(place[v]) => crossed[v] = "ENTRY"
    BY DEF LateIsNoCandidate, Agreement
  <2>3. Waiting(v, {"BILLING_QUEUE_JOIN"})' = {}
    BY <1>6, <2>2
  <2>4. ~(v = e.visitor /\ e.type = "BILLING_QUEUE_JOIN")
    BY <1>5, <2>2
  <2>5. CASE v = e.visitor /\ e.type = "ENTRY"
    BY <1>3, <2>2, <2>3, <2>5
  <2>6. CASE ~(v = e.visitor /\ e.type = "ENTRY")
    <3>1. Candidate(v)' => Candidate(v)
      BY <1>3, <1>4, <2>1, <2>4
    <3>2. Waiting(v, {"ENTRY"}) # {} => Waiting(v, {"ENTRY"})' # {}
      BY <1>7, <2>6
    <3>3. QED
      BY <2>2, <2>3, <3>1, <3>2
  <2>7. QED
    BY <2>5, <2>6
<1>16. QED
  BY <1>8, <1>9, <1>10, <1>11, <1>12, <1>13, <1>14, <1>15 DEF Agreement

-----------------------------------------------------------------------------
(***************************************************************************)
(* The theorems about visitors and sessions.                               *)
(***************************************************************************)

\* The invariant holds at the start.
LEMMA VisitInitInv ==
  ASSUME VisitInit
  PROVE  VisitInv
<1>1. /\ now = 0 /\ turn = 1 /\ inFrame = FALSE
      /\ todo = << >> /\ billingPresent = << >> /\ outbox = << >>
      /\ currentZone = [c \in C!Cameras |-> [v \in Visitors |-> NoZone]]
      /\ clocks = [c \in C!Cameras |-> [v \in Visitors |-> [z \in Zones |-> Away]]]
      /\ exitCount = [v \in Visitors |-> 0]
      /\ staff = [v \in Visitors |-> FALSE]
      /\ ended = {}
      /\ inZone = [v \in Visitors |-> Away]
      /\ exited = [v \in Visitors |-> Away]
  BY DEF VisitInit, C!CameraInit, C!QueueInit
<1>2. /\ place = [v \in Visitors |-> Outside]
      /\ noticed = {}
      /\ spent = [c \in C!Cameras |-> [v \in Visitors |-> [z \in Zones |-> 0]]]
      /\ met = {} /\ late = {}
      /\ crossed = [v \in Visitors |-> "none"]
      /\ exits = {}
      /\ left = {}
  BY DEF VisitInit
<1>3. SessionInv /\ reentryCounts = [v \in Visitors |-> 0]
  BY SessionInitInv DEF VisitInit, LedgerInv, SessionInit
<1>4. turn \in Rounds
  <2>1. CameraOrder \in Seq(C!Cameras) /\ DOMAIN CameraOrder # {}
    BY VisitAssumption DEF C!Cameras, C!ToSet
  <2>2. DOMAIN CameraOrder = 1 .. Len(CameraOrder) /\ Len(CameraOrder) \in Nat
    BY <2>1
  <2>3. 1 \in 1 .. Len(CameraOrder)
    BY <2>1, <2>2
  <2>4. QED
    BY <1>1, <2>3 DEF Rounds
<1>5. FrameTypeOK
  <2>1. todo \in Seq(C!Detection) /\ billingPresent \in Seq(Visitors) /\ outbox \in Seq(Line)
    BY <1>1, EmptySeq
  <2>2. ended \subseteq C!Cameras /\ inFrame \in BOOLEAN /\ now \in Nat
    BY <1>1
  <2>3. QED
    BY <1>1, <1>4, <2>1, <2>2 DEF FrameTypeOK
<1>6. CameraTypeOK
  BY <1>1 DEF CameraTypeOK
<1>7. WalkTypeOK
  BY <1>2, VisitAssumption DEF WalkTypeOK
<1>8. ClockMatchesZone
  BY <1>1 DEF ClockMatchesZone
<1>9. ClockRuns
  BY <1>1 DEF ClockRuns
<1>10. FrameShowsPlace
  BY <1>1 DEF FrameShowsPlace
<1>11. \A v, types : Waiting(v, types) = {}
  BY <1>1, NothingWaits
<1>12. Agreement
  BY <1>1, <1>2, <1>3, <1>11
     DEF Agreement, CrossingAtEntry, CrossingsFirst, JoinsComeLast, EnteredWillHave,
         ExitsOnPassport, ReentriesExplained, LeftDoNotQueue, QueueWillBeCandidate,
         LateIsNoCandidate
<1>13. QED
  BY <1>3, <1>5, <1>6, <1>7, <1>8, <1>9, <1>10, <1>12 DEF VisitInv, VisitTypeOK, Agreement

\* Every step keeps the invariant.
LEMMA VisitNextInv ==
  ASSUME VisitInv, VisitNext
  PROVE  VisitInv'
<1>1. VisitTypeOK /\ FrameShowsPlace /\ ClockMatchesZone /\ ClockRuns /\ Agreement
  BY DEF VisitInv, Agreement
<1>2. VisitTypeOK' /\ FrameShowsPlace' /\ ClockMatchesZone' /\ ClockRuns'
  BY <1>1, VisitTyped, FrameShownKept, ClocksKept
<1>3. Agreement'
  BY <1>1, FrameAgrees, DetectAgrees, EndFrameAgrees, EndVideoAgrees, SkipAgrees, DeliverAgrees,
     PassportAgrees
     DEF VisitNext
<1>4. QED
  BY <1>2, <1>3 DEF VisitInv, Agreement

\* A step that changes nothing keeps the invariant.
LEMMA VisitStutterInv ==
  ASSUME VisitInv, UNCHANGED allVars
  PROVE  VisitInv'
<1>1. /\ UNCHANGED sessionVars
      /\ UNCHANGED <<inZone, exited, now, turn, inFrame, todo, billingPresent, currentZone,
                     clocks, exitCount, staff, ended, outbox,
                     place, noticed, spent, met, crossed, exits, left, late>>
  BY DEF allVars, cameraOnlyVars, walkVars
<1>2. /\ SessionInv'
      /\ UNCHANGED <<sessions, active, reentryCounts>>
      /\ \A v \in Visitors : Candidate(v)' <=> Candidate(v)
  BY <1>1, SameSessions DEF VisitInv, VisitTypeOK
<1>3. \A v, types : Waiting(v, types)' = Waiting(v, types)
  BY <1>1, SameWaiting
<1>4. VisitTypeOK'
  BY <1>1, <1>2 DEF VisitInv, VisitTypeOK, FrameTypeOK, CameraTypeOK, WalkTypeOK
<1>5. ClockMatchesZone' /\ ClockRuns'
  BY <1>1 DEF VisitInv, ClockMatchesZone, ClockRuns
<1>6. FrameShowsPlace'
  BY <1>1 DEF VisitInv, FrameShowsPlace, C!camera, AtQueue, InZone
<1>7. /\ CrossingAtEntry' /\ CrossingsFirst' /\ JoinsComeLast' /\ ExitsOnPassport'
      /\ Shared' = Shared
  BY <1>1, <1>3
     DEF VisitInv, CrossingAtEntry, CrossingsFirst, JoinsComeLast, ExitsOnPassport, AtDoor,
         Shared, C!camera
<1>8. EnteredWillHave' /\ ReentriesExplained'
  BY <1>1, <1>2, <1>3, <1>7 DEF VisitInv, EnteredWillHave, ReentriesExplained
<1>9. left \subseteq Visitors /\ late \subseteq Visitors
  BY DEF VisitInv, VisitTypeOK, WalkTypeOK
<1>10. LeftDoNotQueue'
  BY <1>1, <1>2, <1>3, <1>9 DEF VisitInv, LeftDoNotQueue, AtDoor
<1>11. QueueWillBeCandidate'
  BY <1>1, <1>2, <1>3 DEF VisitInv, QueueWillBeCandidate, AtQueue, InZone
<1>12. LateIsNoCandidate'
  BY <1>1, <1>2, <1>3, <1>9 DEF VisitInv, LateIsNoCandidate, AtQueue, InZone
<1>13. QED
  BY <1>4, <1>5, <1>6, <1>7, <1>8, <1>10, <1>11, <1>12 DEF VisitInv

\* In every reachable state each fact about a visitor is at the API or waits in
\* the outbox in the right order: the inductive invariant of the way from the
\* cameras to the sessions.
THEOREM VisitInvariant == VisitSpec => []VisitInv
<1>1. VisitInit => VisitInv
  BY VisitInitInv
<1>2. VisitInv /\ [VisitNext]_allVars => VisitInv'
  BY VisitNextInv, VisitStutterInv
<1>3. QED
  BY <1>1, <1>2, PTL DEF VisitSpec

\* At most one dwell clock of a visitor runs per camera, that of the zone the camera
\* holds the visitor to be in (zone_dwell.py and the loop over the detections of
\* process_frame).
THEOREM NoClockOutlivesTheStay == VisitSpec => []ClockMatchesZone
<1>1. VisitInv => ClockMatchesZone
  BY DEF VisitInv
<1>2. QED
  BY <1>1, VisitInvariant, PTL

\* Once the API has all events, the sessions say of every visitor what the cameras
\* do: inside, in the queue, and after the EXIT. The views of the cameras may overlap
\* in any way: who was reported to enter while queueing queues as no candidate, and
\* who was not as one.
THEOREM SessionsFollowTheVisitors == VisitSpec => []VisitMatchesSession
<1>1. ASSUME VisitInv
      PROVE  VisitMatchesSession
  <2>1. Delivered => \A v, types : Waiting(v, types) = {}
    BY NothingWaits DEF Delivered
  <2>2. InsideHasSession
    BY <1>1, <2>1 DEF InsideHasSession, VisitInv, EnteredWillHave
  <2>3. QueueingIsCandidate
    <3> SUFFICES ASSUME Delivered, turn = 1, BillingCamera \notin ended,
                        NEW v \in Visitors, inZone[v] # Away
                 PROVE  active[v] # None /\ (sessions[active[v]].candidate <=> v \notin late)
      BY DEF QueueingIsCandidate
    <3>1. IF AtQueue(place[v])
          THEN v \in late \/ Candidate(v) \/ Waiting(v, {"BILLING_QUEUE_JOIN"}) # {}
          ELSE turn > 1 \/ inFrame
      BY <1>1 DEF VisitInv, QueueWillBeCandidate
    <3>2. AtQueue(place[v]) /\ (v \in late \/ Candidate(v))
      BY <2>1, <3>1 DEF Delivered
    <3>3. v \in late => ~Candidate(v) /\ crossed[v] = "ENTRY"
      BY <1>1, <2>1, <3>2 DEF VisitInv, LateIsNoCandidate
    <3>4. v \in late => active[v] # None
      BY <2>2, <3>3 DEF InsideHasSession
    <3>5. QED
      BY <3>2, <3>3, <3>4 DEF Candidate
  <2>4. LeftoverNoCandidate
    <3> SUFFICES ASSUME Delivered, NEW v \in Visitors, v \in left, active[v] # None
                 PROVE  ~sessions[active[v]].candidate
      BY DEF LeftoverNoCandidate
    <3>1. Waiting(v, {"EXIT"}) # {} \/ ~Candidate(v)
      BY <1>1 DEF VisitInv, LeftDoNotQueue
    <3>2. QED
      BY <2>1, <3>1 DEF Candidate
  <2>5. QED
    BY <2>2, <2>3, <2>4 DEF VisitMatchesSession
<1>2. VisitInv => VisitMatchesSession
  BY <1>1
<1>3. QED
  BY <1>2, VisitInvariant, PTL

\* The API counts a re-entry for a visitor inside only if an EXIT of the visitor was
\* reported, and always if it was and the visitor has one passport: the passport of the
\* identity layer and the ledger of the API agree.
THEOREM ReentriesAreExplained == VisitSpec => []ReentriesFollowExits
<1>1. ASSUME VisitInv
      PROVE  ReentriesFollowExits
  <2> SUFFICES ASSUME Delivered, NEW v \in Visitors, crossed[v] = "ENTRY"
               PROVE  /\ reentryCounts[v] > 0 => v \in exits
                      /\ v \in exits => reentryCounts[v] > 0 \/ v \in Shared
    BY DEF ReentriesFollowExits
  <2>1. Waiting(v, {"REENTRY"}) = {}
    BY NothingWaits DEF Delivered
  <2>2. QED
    BY <1>1, <2>1 DEF VisitInv, ReentriesExplained
<1>2. VisitInv => ReentriesFollowExits
  BY <1>1
<1>3. QED
  BY <1>2, VisitInvariant, PTL


-----------------------------------------------------------------------------
(***************************************************************************)
(* The dwell times that wait.                                              *)
(***************************************************************************)

\* A sum over more indices is not less; one index more adds its summand.
LEMMA SumMonotone ==
  ASSUME NEW f, NEW g, NEW S, NEW T, IsFiniteSet(T), S \subseteq T,
         \A i \in T : g[i] \in Nat, \A i \in S : g[i] = f[i]
  PROVE  /\ SumOver(g, T) \in Nat /\ SumOver(f, S) \in Nat
         /\ SumOver(g, T) >= SumOver(f, S)
         /\ \A x \in T \ S : SumOver(g, T) >= SumOver(f, S) + g[x]
<1>1. SumOver(f, S) = SumOver(g, S)
  BY SumSame
<1>2. \A R \in SUBSET T : IsFiniteSet(R) /\ SumOver(g, R) \in Nat /\ SumOver(g, R) <= SumOver(g, T)
  <2> SUFFICES ASSUME NEW R \in SUBSET T
               PROVE  IsFiniteSet(R) /\ SumOver(g, R) \in Nat /\ SumOver(g, R) <= SumOver(g, T)
    OBVIOUS
  <2>1. IsFiniteSet(R)
    BY FS_Subset
  <2>2. IsFiniteSet(Units(g, T))
    BY UnitsFinite
  <2>3. Units(g, R) \in SUBSET Units(g, T)
    BY DEF Units
  <2>4. Cardinality(Units(g, R)) <= Cardinality(Units(g, T))
    BY <2>2, <2>3, FS_Subset
  <2>5. \A i \in R : g[i] \in Nat
    OBVIOUS
  <2>6. SumOver(g, R) \in Nat
    BY <2>1, <2>5, SumType
  <2>7. QED
    BY <2>1, <2>4, <2>6 DEF SumOver
<1>3. SumOver(g, T) \in Nat
  BY <1>2
<1>4. ASSUME NEW x \in T \ S
      PROVE  SumOver(g, T) >= SumOver(f, S) + g[x]
  <2>1. S \in SUBSET T /\ S \cup {x} \in SUBSET T
    OBVIOUS
  <2>2. IsFiniteSet(S) /\ \A i \in S : g[i] \in Nat
    BY <1>2, <2>1
  <2>3. SumOver(g, S \cup {x}) = SumOver(g, S) + g[x]
    BY <2>2, SumAdd
  <2>4. SumOver(g, S \cup {x}) <= SumOver(g, T) /\ SumOver(g, S \cup {x}) \in Nat
    BY <1>2, <2>1
  <2>5. QED
    BY <1>1, <1>3, <2>3, <2>4
<1>5. QED
  BY <1>1, <1>2, <1>3, <1>4

\* The summands of a list move with their places when its first line is read.
LEMMA SumShift ==
  ASSUME NEW f, NEW g, NEW S, NEW T, IsFiniteSet(T), S \subseteq Nat,
         \A i \in T : g[i] \in Nat,
         \A i \in S : i - 1 \in T /\ g[i - 1] = f[i]
  PROVE  SumOver(f, S) <= SumOver(g, T)
<1> DEFINE U == Units(f, S)
           W == Units(g, T)
           move == [u \in U |-> <<u[1] - 1, u[2]>>]
<1>1. \A u \in U : \E i \in S : \E k \in 1 .. f[i] : u = <<i, k>>
  BY DEF Units
<1>2. \A i \in T : \A k \in 1 .. g[i] : <<i, k>> \in W
  BY DEF Units
<1>3. IsFiniteSet(W)
  BY UnitsFinite
<1> HIDE DEF U, W
<1>4. move \in [U -> W]
  <2> SUFFICES ASSUME NEW u \in U
               PROVE  <<u[1] - 1, u[2]>> \in W
    OBVIOUS
  <2>1. PICK i \in S : \E k \in 1 .. f[i] : u = <<i, k>>
    BY <1>1
  <2>2. PICK k \in 1 .. f[i] : u = <<i, k>>
    BY <2>1
  <2>3. i - 1 \in T /\ k \in 1 .. g[i - 1]
    BY <2>2
  <2>4. QED
    BY <1>2, <2>2, <2>3
<1>5. ASSUME NEW a \in U, NEW b \in U, move[a] = move[b]
      PROVE  a = b
  <2>1. PICK i \in S : \E k \in 1 .. f[i] : a = <<i, k>>
    BY <1>1
  <2>2. PICK k : a = <<i, k>>
    BY <2>1
  <2>3. PICK j \in S : \E n \in 1 .. f[j] : b = <<j, n>>
    BY <1>1
  <2>4. PICK n : b = <<j, n>>
    BY <2>3
  <2>5. <<i - 1, k>> = <<j - 1, n>>
    BY <1>5, <2>2, <2>4
  <2>6. i - 1 = j - 1 /\ k = n
    BY <2>5
  <2>7. i \in Nat /\ j \in Nat
    OBVIOUS
  <2>8. i = j
    BY <2>6, <2>7
  <2>9. QED
    BY <2>2, <2>4, <2>6, <2>8
<1>6. move \in Injection(U, W)
  BY <1>4, <1>5 DEF Injection, IsInjective
<1> HIDE DEF move
<1>7. Cardinality(U) <= Cardinality(W)
  BY <1>3, <1>6, FS_Injection
<1>8. QED
  BY <1>7 DEF SumOver, U, W

\* The lines of a list whose dwell times are summed.
DwellLines(lines, v, z) == {i \in Told(lines, v, DwellTypes) : lines[i].zone = z}

\* The dwell lines of a list are finitely many, and their sum is a number.
LEMMA DwellListed ==
  ASSUME NEW lines \in Seq(Line), NEW v, NEW z
  PROVE  LET f == [i \in DOMAIN lines |-> lines[i].dwell]
             S == DwellLines(lines, v, z)
         IN  /\ IsFiniteSet(S) /\ S \subseteq DOMAIN lines
             /\ \A i \in DOMAIN lines : f[i] = lines[i].dwell /\ f[i] \in Nat
             /\ SumOver(f, S) \in Nat
<1> DEFINE f == [i \in DOMAIN lines |-> lines[i].dwell]
           S == DwellLines(lines, v, z)
<1>1. DOMAIN lines = 1 .. Len(lines) /\ Len(lines) \in Nat
  OBVIOUS
<1>2. IsFiniteSet(DOMAIN lines)
  <2>1. 1 \in Int /\ Len(lines) \in Int
    OBVIOUS
  <2>2. IsFiniteSet(1 .. Len(lines))
    BY <2>1, FS_Interval
  <2>3. QED
    BY <1>1, <2>2
<1>3. S \in SUBSET DOMAIN lines
  BY DEF DwellLines, Told
<1>4. \A i \in DOMAIN lines : lines[i] \in Line
  OBVIOUS
<1>5. \A e \in Line : e.dwell \in Nat
  BY DEF Line
<1>6. \A i \in DOMAIN lines : f[i] = lines[i].dwell /\ f[i] \in Nat
  BY <1>4, <1>5
<1> HIDE DEF f, S
<1>7. IsFiniteSet(S)
  BY <1>2, <1>3, FS_Subset
<1>8. SumOver(f, S) \in Nat
  BY <1>3, <1>6, <1>7, SumType
<1>9. QED
  BY <1>3, <1>6, <1>7, <1>8 DEF f, S

\* What waits is the sum over the outbox.
LEMMA WaitingDwellIs ==
  ASSUME NEW v, NEW z
  PROVE  WaitingDwell(v, z) =
           SumOver([i \in DOMAIN outbox |-> outbox[i].dwell], DwellLines(outbox, v, z))
BY DEF WaitingDwell, DwellLines, Waiting

\* The lines E join the outbox: what waits does not get less, and each dwell line
\* adds its time.
LEMMA DwellWrites ==
  ASSUME outbox \in Seq(Line), NEW E \in Seq(Line), outbox' = outbox \o E, NEW v, NEW z
  PROVE  /\ WaitingDwell(v, z) \in Nat /\ WaitingDwell(v, z)' \in Nat
         /\ WaitingDwell(v, z)' >= WaitingDwell(v, z)
         /\ \A e \in ToSet(E) : e.visitor = v /\ e.type \in DwellTypes /\ e.zone = z =>
              WaitingDwell(v, z)' >= WaitingDwell(v, z) + e.dwell
<1> DEFINE o == outbox'
           f == [i \in DOMAIN outbox |-> outbox[i].dwell]
           g == [i \in DOMAIN o |-> o[i].dwell]
           S == DwellLines(outbox, v, z)
           T == DwellLines(o, v, z)
<1>1. outbox' \in Seq(Line)
  BY ConcatSays
<1>2. /\ S \subseteq DOMAIN outbox
      /\ \A i \in DOMAIN outbox : f[i] = outbox[i].dwell
      /\ WaitingDwell(v, z) = SumOver(f, S)
  BY DwellListed, WaitingDwellIs
<1>3. /\ IsFiniteSet(T) /\ T \subseteq DOMAIN o
      /\ \A i \in DOMAIN o : g[i] = o[i].dwell /\ g[i] \in Nat
      /\ WaitingDwell(v, z)' = SumOver(g, T)
  <2>1. WaitingDwell(v, z)' = SumOver(g, T)
    BY DEF WaitingDwell, DwellLines, Waiting
  <2>2. /\ IsFiniteSet(T) /\ T \subseteq DOMAIN o
        /\ \A i \in DOMAIN o : g[i] = o[i].dwell /\ g[i] \in Nat
    BY <1>1, DwellListed
  <2>3. QED
    BY <2>1, <2>2
<1>4. /\ \A i \in Waiting(v, DwellTypes) : o[i] = outbox[i]
      /\ Waiting(v, DwellTypes) \subseteq Waiting(v, DwellTypes)'
      /\ \A i \in Waiting(v, DwellTypes) : i \in 1 .. Len(outbox)
      /\ \A e \in ToSet(E) : e.visitor = v /\ e.type \in DwellTypes =>
           \E i \in Waiting(v, DwellTypes)' : i > Len(outbox) /\ o[i] = e
  BY WaitingWrites
<1>5. S \subseteq T
  BY <1>4 DEF DwellLines, Waiting, Told
<1>6. \A i \in S : g[i] = f[i]
  <2> SUFFICES ASSUME NEW i \in S
               PROVE  g[i] = f[i]
    OBVIOUS
  <2>1. i \in Waiting(v, DwellTypes)
    BY DEF DwellLines, Waiting
  <2>2. o[i] = outbox[i] /\ i \in DOMAIN outbox /\ i \in DOMAIN o
    BY <1>2, <1>3, <1>4, <1>5, <2>1
  <2> HIDE DEF f, g, o
  <2>3. QED
    BY <1>2, <1>3, <2>2
<1> HIDE DEF f, g, S, T, o
<1>7. \A i \in T : g[i] \in Nat
  BY <1>3
<1>8. /\ SumOver(g, T) \in Nat /\ SumOver(f, S) \in Nat
      /\ SumOver(g, T) >= SumOver(f, S)
      /\ \A x \in T \ S : SumOver(g, T) >= SumOver(f, S) + g[x]
  BY <1>3, <1>5, <1>6, <1>7, SumMonotone
<1>9. ASSUME NEW e \in ToSet(E), e.visitor = v, e.type \in DwellTypes, e.zone = z
      PROVE  SumOver(g, T) >= SumOver(f, S) + e.dwell
  <2>1. PICK i \in Waiting(v, DwellTypes)' : i > Len(outbox) /\ o[i] = e
    BY <1>4, <1>9
  <2>2. i \in T
    BY <1>9, <2>1 DEF T, DwellLines, Waiting, o
  <2>3. i \notin S
    <3>1. Len(outbox) \in Nat
      OBVIOUS
    <3>2. ~(i \in 1 .. Len(outbox))
      BY <2>1, <3>1
    <3>3. QED
      BY <1>4, <3>2 DEF S, DwellLines, Waiting
  <2>4. g[i] = e.dwell
    BY <1>3, <2>1, <2>2
  <2>5. QED
    BY <1>8, <2>2, <2>3, <2>4
<1>10. QED
  BY <1>2, <1>3, <1>8, <1>9

\* The delivery of a line moves its dwell time from the outbox to the sessions.
LEMMA DwellDelivered ==
  ASSUME VisitTypeOK, Deliver, NEW v \in Visitors, NEW z \in Zones
  PROVE  /\ ApiDwell(v, z) \in Nat /\ ApiDwell(v, z)' \in Nat
         /\ WaitingDwell(v, z) \in Nat /\ WaitingDwell(v, z)' \in Nat
         /\ ApiDwell(v, z)' + WaitingDwell(v, z)' >= ApiDwell(v, z) + WaitingDwell(v, z)
<1>1. PICK e \in Event :
        /\ e.visitor = Head(outbox).visitor /\ e.type = Head(outbox).type
        /\ e.zone = Head(outbox).zone /\ e.dwell = Head(outbox).dwell
        /\ ProcessEvent(e)
        /\ outbox # << >> /\ outbox' = Tail(outbox)
  <2> DEFINE line == EventOf(outbox[1])
  <2>1. /\ line \in Event
        /\ line.visitor = Head(outbox).visitor /\ line.type = Head(outbox).type
        /\ line.zone = Head(outbox).zone /\ line.dwell = Head(outbox).dwell
        /\ ProcessEvent(line)
        /\ outbox # << >> /\ outbox' = Tail(outbox)
    BY DeliverEffects
  <2> HIDE DEF line
  <2>2. QED
    BY <2>1
<1>2. SessionInv /\ outbox \in Seq(Line)
  BY DEF VisitTypeOK, FrameTypeOK
<1> DEFINE d == IF e.visitor = v /\ e.type \in DwellTypes /\ e.zone = z THEN e.dwell ELSE 0
<1>3. d \in Nat
  BY EventFields
<1>4. ApiDwell(v, z) \in Nat /\ ApiDwell(v, z)' = ApiDwell(v, z) + d
  <2>1. \E s, p : Placed(e, s, p)
    BY <1>1, <1>2, HandlerPlaces
  <2>2. PICK s, p : Placed(e, s, p)
    BY <2>1
  <2>3. /\ SumOver(DwellIn(z), SessionsOf(v)) \in Nat
        /\ SumOver(DwellIn(z), SessionsOf(v))' =
             SumOver(DwellIn(z), SessionsOf(v)) +
             (IF e.visitor = v /\ e.type \in {"ZONE_EXIT", "ZONE_DWELL"} /\ e.zone = z
              THEN e.dwell ELSE 0)
    BY <1>2, <2>2, DwellGrows
  <2>4. QED
    BY <2>3 DEF ApiDwell, DwellTypes
<1> DEFINE o == outbox'
           f == [i \in DOMAIN outbox |-> outbox[i].dwell]
           g == [i \in DOMAIN o |-> o[i].dwell]
           S == DwellLines(outbox, v, z)
           T == DwellLines(o, v, z)
           R == S \ {1}
<1>5. /\ o \in Seq(Line)
      /\ Head(outbox) = outbox[1]
      /\ Waiting(v, DwellTypes) \subseteq Nat \ {0}
      /\ \A i \in Nat :
           i \in Waiting(v, DwellTypes)' <=> i # 0 /\ i + 1 \in Waiting(v, DwellTypes)
      /\ \A i \in Waiting(v, DwellTypes)' : o[i] = outbox[i + 1]
  <2> HIDE DEF o
  <2>1. /\ outbox' \in Seq(Line)
        /\ Head(outbox) = outbox[1]
        /\ Waiting(v, DwellTypes) \subseteq Nat \ {0}
    BY <1>1, <1>2, WaitingReads
  <2>2. \A i \in Nat :
          i \in Waiting(v, DwellTypes)' <=> i # 0 /\ i + 1 \in Waiting(v, DwellTypes)
    BY <1>1, <1>2, WaitingReads
  <2>3. \A i \in Waiting(v, DwellTypes)' : outbox'[i] = outbox[i + 1]
    <3>1. outbox \in Seq(Line) /\ outbox # << >> /\ outbox' = Tail(outbox)
      BY <1>1, <1>2
    <3>2. QED
      BY <3>1, WaitingReads, Zenon
  <2>4. QED
    BY <2>1, <2>2, <2>3 DEF o
<1>6. /\ IsFiniteSet(S) /\ S \subseteq DOMAIN outbox
      /\ \A i \in DOMAIN outbox : f[i] = outbox[i].dwell /\ f[i] \in Nat
      /\ WaitingDwell(v, z) = SumOver(f, S)
      /\ WaitingDwell(v, z) \in Nat
  <2>1. WaitingDwell(v, z) = SumOver(f, S)
    BY WaitingDwellIs
  <2>2. /\ IsFiniteSet(S) /\ S \subseteq DOMAIN outbox
        /\ \A i \in DOMAIN outbox : f[i] = outbox[i].dwell /\ f[i] \in Nat
        /\ SumOver(f, S) \in Nat
    BY <1>2, DwellListed
  <2>3. QED
    BY <2>1, <2>2
<1>7. /\ IsFiniteSet(T) /\ T \subseteq DOMAIN o
      /\ \A i \in DOMAIN o : g[i] = o[i].dwell /\ g[i] \in Nat
      /\ WaitingDwell(v, z)' = SumOver(g, T)
      /\ WaitingDwell(v, z)' \in Nat
  <2>1. WaitingDwell(v, z)' = SumOver(g, T)
    BY DEF WaitingDwell, DwellLines, Waiting
  <2>2. /\ IsFiniteSet(T) /\ T \subseteq DOMAIN o
        /\ \A i \in DOMAIN o : g[i] = o[i].dwell /\ g[i] \in Nat
        /\ SumOver(g, T) \in Nat
    BY <1>5, DwellListed
  <2>3. QED
    BY <2>1, <2>2
<1>8. ASSUME NEW i \in R
      PROVE  i - 1 \in T /\ g[i - 1] = f[i]
  <2>1. i \in Waiting(v, DwellTypes) /\ outbox[i].zone = z /\ i \in DOMAIN outbox /\ i # 1
    BY <1>6 DEF DwellLines, Waiting
  <2>2. i \in Nat /\ i # 0
    BY <1>5, <2>1
  <2>3. i - 1 \in Nat /\ i - 1 # 0 /\ (i - 1) + 1 = i
    BY <2>1, <2>2
  <2>4. i - 1 \in Waiting(v, DwellTypes)'
    BY <1>5, <2>1, <2>3
  <2>5. o[i - 1] = outbox[i]
    BY <1>5, <2>3, <2>4
  <2>6. i - 1 \in T
    BY <2>1, <2>4, <2>5 DEF DwellLines, Waiting
  <2> HIDE DEF f, g, o, S, T, R
  <2>7. g[i - 1] = o[i - 1].dwell /\ f[i] = outbox[i].dwell
    BY <1>6, <1>7, <2>1, <2>6
  <2>8. QED
    BY <2>5, <2>6, <2>7
<1>9. 1 \in S => f[1] = d
  <2> SUFFICES ASSUME 1 \in S
               PROVE  f[1] = d
    OBVIOUS
  <2>1. 1 \in Waiting(v, DwellTypes) /\ outbox[1].zone = z
    BY DEF DwellLines, Waiting
  <2>2. e.visitor = v /\ e.type \in DwellTypes /\ e.zone = z /\ e.dwell = outbox[1].dwell
    BY <1>1, <1>5, <2>1 DEF Waiting, Told
  <2>3. f[1] = outbox[1].dwell
    BY <1>6
  <2> HIDE DEF f
  <2>4. QED
    BY <2>2, <2>3
<1>10. S \subseteq Nat
  BY <1>5 DEF DwellLines, Waiting
<1> HIDE DEF f, g, S, T, o
<1>11. SumOver(f, R) <= SumOver(g, T) /\ SumOver(f, R) \in Nat
  <2>1. R \subseteq Nat /\ IsFiniteSet(R) /\ \A i \in R : f[i] \in Nat
    BY <1>6, <1>10, FS_RemoveElement
  <2>2. \A i \in T : g[i] \in Nat
    BY <1>7
  <2> HIDE DEF R
  <2>3. SumOver(f, R) \in Nat
    BY <2>1, SumType
  <2>4. SumOver(f, R) <= SumOver(g, T)
    BY <1>7, <1>8, <2>1, <2>2, SumShift
  <2>5. QED
    BY <2>3, <2>4
<1>12. SumOver(f, S) <= SumOver(f, R) + d
  <2>1. CASE 1 \in S
    <3>1. S = R \cup {1} /\ 1 \notin R /\ IsFiniteSet(R)
      BY <1>6, <2>1, FS_RemoveElement
    <3>2. \A i \in R : f[i] \in Nat
      BY <1>6
    <3>3. f[1] \in Nat
      BY <1>3, <1>9, <2>1
    <3> HIDE DEF R, d
    <3>4. SumOver(f, R \cup {1}) = SumOver(f, R) + f[1]
      BY <3>1, <3>2, <3>3, SumAdd
    <3>5. QED
      BY <1>3, <1>9, <1>11, <2>1, <3>1, <3>4
  <2>2. CASE 1 \notin S
    <3>1. R = S
      BY <2>2
    <3> HIDE DEF R, d
    <3>2. QED
      BY <1>3, <1>11, <3>1
  <2>3. QED
    BY <2>1, <2>2
<1> HIDE DEF d, R
<1>13. QED
  BY <1>3, <1>4, <1>6, <1>7, <1>11, <1>12

-----------------------------------------------------------------------------
(***************************************************************************)
(* No time in a zone is lost.                                              *)
(***************************************************************************)

\* The dwell time at the API is a number, and changes with the sessions only.
LEMMA ApiDwellType ==
  ASSUME SessionInv, NEW v, NEW z \in Zones
  PROVE  /\ ApiDwell(v, z) \in Nat
         /\ UNCHANGED sessionVars => ApiDwell(v, z)' = ApiDwell(v, z)
<1>1. /\ IsFiniteSet(SessionsOf(v)) /\ SessionsOf(v) \subseteq Index
      /\ \A i \in Index : DwellIn(z)[i] \in Nat
  BY SessionsFinite DEF SessionInv
<1>2. ApiDwell(v, z) \in Nat
  <2>1. \A i \in SessionsOf(v) : DwellIn(z)[i] \in Nat
    BY <1>1
  <2>2. QED
    BY <1>1, <2>1, SumType DEF ApiDwell
<1>3. ASSUME UNCHANGED sessionVars
      PROVE  ApiDwell(v, z)' = ApiDwell(v, z)
  <2>1. sessions' = sessions
    BY <1>3 DEF sessionVars
  <2>2. SessionsOf(v)' = SessionsOf(v) /\ DwellIn(z)' = DwellIn(z)
    BY <2>1 DEF SessionsOf, DwellIn, Index
  <2>3. QED
    BY <2>2 DEF ApiDwell
<1>4. QED
  BY <1>2, <1>3

\* The time on a clock.
OnClock(c, v, z) == C!DwellSince(clocks[c][v][z])

\* The time on a clock is a number, and a clock that does not run shows none.
LEMMA OnClockType ==
  ASSUME VisitTypeOK, NEW c \in C!Cameras, NEW v \in Visitors, NEW z \in Zones
  PROVE  /\ OnClock(c, v, z) \in Nat
         /\ clocks[c][v][z] = Away => OnClock(c, v, z) = 0
<1>1. /\ now \in Nat
      /\ clocks[c][v][z] \in C!Clock \cup {Away}
      /\ clocks[c][v][z] # Away => clocks[c][v][z].enter <= now
  BY DEF VisitTypeOK, FrameTypeOK, CameraTypeOK
<1>2. OnClock(c, v, z) \in Nat
  BY <1>1, DwellNat DEF OnClock
<1>3. QED
  BY <1>2 DEF OnClock, C!DwellSince

\* A clock that goes on shows no less, and one more after a round.
LEMMA ClockGoesOn ==
  ASSUME VisitTypeOK, NEW c \in C!Cameras, NEW v \in Visitors, NEW z \in Zones,
         now' \in Nat, now <= now',
         clocks[c][v][z] # Away, clocks'[c][v][z] # Away,
         clocks'[c][v][z].enter = clocks[c][v][z].enter
  PROVE  /\ OnClock(c, v, z)' \in Nat
         /\ OnClock(c, v, z)' >= OnClock(c, v, z)
         /\ now' = now + 1 => OnClock(c, v, z)' = OnClock(c, v, z) + 1
<1> DEFINE n == clocks[c][v][z].enter
<1>1. now \in Nat /\ n \in Nat /\ n <= now
  <2>1. clocks[c][v][z] \in C!Clock \cup {Away} /\ n <= now /\ now \in Nat
    BY DEF VisitTypeOK, FrameTypeOK, CameraTypeOK
  <2>2. QED
    BY <2>1 DEF C!Clock
<1>2. OnClock(c, v, z) = now - n
  BY DEF OnClock, C!DwellSince
<1>3. OnClock(c, v, z)' = now' - n
  BY DEF OnClock, C!DwellSince
<1> HIDE DEF n
<1>4. QED
  BY <1>1, <1>2, <1>3

\* Who was noticed has a clock, or is still to be looked at.
LEMMA NoticedKept ==
  ASSUME VisitInv, NoticedClock, VisitNext
  PROVE  NoticedClock'
<1>1. /\ VisitTypeOK /\ FrameShowsPlace /\ ClockMatchesZone /\ ClockRuns
      /\ place \in [Visitors -> Places]
      /\ ~inFrame => todo = << >>
  BY DEF VisitInv, VisitTypeOK, WalkTypeOK, FrameTypeOK
<1>2. todo = << >> => ToSet(todo) = {}
  BY DEF ToSet
<1>3. ASSUME UNCHANGED <<place, noticed, clocks, ended>>,
             todo = << >> \/ UNCHANGED <<todo, turn>>
      PROVE  NoticedClock'
  <2> SUFFICES ASSUME NEW c \in C!Cameras \ {EntryCamera}, NEW v \in Visitors, NEW z \in Zones,
                      Counting(c, v, z), clocks[c][v][z] = Away
               PROVE  c = C!camera' /\ \E d \in ToSet(todo') : TrackOwner[d.track] = v
    BY <1>3 DEF NoticedClock, Counting, InZone, ToSet
  <2>1. c = C!camera /\ \E d \in ToSet(todo) : TrackOwner[d.track] = v
    BY DEF NoticedClock
  <2>2. todo' = todo /\ C!camera' = C!camera
    BY <1>2, <1>3, <2>1 DEF C!camera
  <2>3. QED
    BY <2>1, <2>2
<1>4. CASE Frame
  <2>1. PICK w \in Walks : \E ds \in Sightings(w) : FrameStep(w, ds)
    BY <1>1, <1>4, FrameEffects
  <2>2. PICK ds \in Sightings(w) : FrameStep(w, ds)
    BY <2>1
  <2>3. /\ ~inFrame /\ todo' = ds /\ place' = w
        /\ noticed' = {n \in noticed : w[n[2]] = place[n[2]]}
                        \cup {<<C!camera, TrackOwner[d.track]>> : d \in ToSet(ds)}
        /\ UNCHANGED <<clocks, ended, turn>>
    BY <2>2 DEF FrameStep
  <2>4. C!camera' = C!camera
    BY <2>3 DEF C!camera
  <2> SUFFICES ASSUME NEW c \in C!Cameras \ {EntryCamera}, NEW v \in Visitors, NEW z \in Zones,
                      <<c, v>> \in noticed', InZone(w[v], c, z), c \notin ended,
                      ~(c = C!camera /\ \E d \in ToSet(ds) : TrackOwner[d.track] = v)
               PROVE  clocks[c][v][z] # Away
    BY <2>3, <2>4 DEF NoticedClock, Counting, InZone, ToSet
  <2>5. <<c, v>> \in noticed /\ w[v] = place[v]
    BY <2>3
  <2>6. Counting(c, v, z) /\ ToSet(todo) = {}
    BY <1>1, <1>2, <2>3, <2>5 DEF Counting
  <2>7. QED
    BY <2>6 DEF NoticedClock
<1>5. CASE Detect
  <2>1. /\ inFrame /\ todo # << >> /\ todo' = Tail(todo)
        /\ UNCHANGED <<turn, ended, place, noticed>>
    BY <1>1, <1>5, DetectEffects
  <2>2. /\ SeenVisitor \in Visitors
        /\ View[place[SeenVisitor]][C!camera].zone = Seen.zone
        /\ \A d \in ToSet(todo) : d = Seen \/ d \in ToSet(Tail(todo))
        /\ C!camera \in C!Cameras
    BY <1>1, <2>1, SeenTyped, CameraIsOne DEF VisitTypeOK, FrameTypeOK
  <2>3. /\ currentZone'[C!camera][SeenVisitor] = Seen.zone
        /\ \A c \in C!Cameras, v \in Visitors :
             c # C!camera \/ v # SeenVisitor => clocks'[c][v] = clocks[c][v]
    BY <1>1, <1>5, ClocksAfterDetect
  <2>4. ClockRuns'
    BY <1>1, <1>5, DetectKeepsClocks
  <2>5. C!camera' = C!camera
    BY <2>1 DEF C!camera
  <2> SUFFICES ASSUME NEW c \in C!Cameras \ {EntryCamera}, NEW v \in Visitors, NEW z \in Zones,
                      Counting(c, v, z),
                      ~(c = C!camera /\ \E d \in ToSet(Tail(todo)) : TrackOwner[d.track] = v)
               PROVE  clocks'[c][v][z] # Away
    BY <2>1, <2>5 DEF NoticedClock, Counting, InZone, ToSet
  <2>6. CASE c = C!camera /\ v = SeenVisitor
    <3>1. z # NoZone
      BY SessionizerAssumption
    <3>2. currentZone'[c][v] = z
      BY <2>2, <2>3, <2>6 DEF Counting, InZone
    <3>3. QED
      BY <2>4, <3>1, <3>2 DEF ClockRuns
  <2>7. CASE c # C!camera \/ v # SeenVisitor
    <3>1. ~(c = C!camera /\ \E d \in ToSet(todo) : TrackOwner[d.track] = v)
      BY <2>2, <2>7 DEF SeenVisitor
    <3>2. clocks[c][v][z] # Away
      BY <3>1 DEF NoticedClock
    <3>3. QED
      BY <2>3, <2>7, <3>2
  <2>8. QED
    BY <2>6, <2>7
<1>6. CASE EndFrame
  <2>1. UNCHANGED <<place, noticed, clocks, ended>> /\ todo = << >>
    BY <1>1, <1>6, EndFrameEffects
  <2>2. QED
    BY <1>3, <2>1
<1>7. CASE EndVideo
  <2>1. /\ ~inFrame /\ ended' = ended \cup {C!camera}
        /\ UNCHANGED <<place, noticed>>
    BY <1>1, <1>7, EndVideoEffects
  <2>2. \A c \in C!Cameras \ {C!camera} : clocks'[c] = clocks[c]
    BY <1>1, <1>7, ClocksAfterEnd
  <2> SUFFICES ASSUME NEW c \in C!Cameras \ {EntryCamera}, NEW v \in Visitors, NEW z \in Zones,
                      <<c, v>> \in noticed, InZone(place[v], c, z), c \notin ended'
               PROVE  clocks'[c][v][z] # Away
    BY <2>1 DEF NoticedClock, Counting, InZone
  <2>3. clocks[c][v][z] # Away
    BY <1>1, <1>2, <2>1 DEF NoticedClock, Counting
  <2>4. QED
    BY <2>1, <2>2, <2>3
<1>8. CASE SkipEnded
  <2>1. UNCHANGED <<place, noticed, clocks, ended>> /\ todo = << >>
    BY <1>1, <1>8, SkipEffects
  <2>2. QED
    BY <1>3, <2>1
<1>9. CASE Deliver
  <2>1. UNCHANGED <<place, noticed, clocks, ended>> /\ todo = << >>
    BY <1>1, <1>9, DeliverEffects
  <2>2. QED
    BY <1>3, <2>1
<1>10. CASE OtherPassport
  <2>1. UNCHANGED <<place, noticed, clocks, ended, todo, turn>>
    BY <1>1, <1>10, PassportEffects
  <2>2. QED
    BY <1>3, <2>1
<1>11. QED
  BY <1>4, <1>5, <1>6, <1>7, <1>8, <1>9, <1>10 DEF VisitNext

\* What has been kept of the time of v in z with the clock of camera c.
Kept(c, v, z) == ApiDwell(v, z) + WaitingDwell(v, z) + OnClock(c, v, z)

\* A clock goes on, or its time is in an event that was written.
ClockOrEvent(c, v, z) ==
  \/ clocks'[c][v][z] = clocks[c][v][z]
  \/ /\ clocks[c][v][z] # Away
     /\ clocks'[c][v][z] = Away
     /\ WaitingDwell(v, z)' >= WaitingDwell(v, z) + OnClock(c, v, z)

\* The next camera's turn: if a round begins, the clocks of the visitors who were
\* noticed have gone on by the time the frame will add.
LEMMA NextTurnKeeps ==
  ASSUME VisitTypeOK, VisitTypeOK', NoticedClock, DwellKept, ~inFrame', todo = << >>,
         C!NextCamera, ended \subseteq ended',
         UNCHANGED <<sessionVars, place, noticed, spent>>,
         NEW c \in C!Cameras \ {EntryCamera}, NEW v \in Visitors, NEW z \in Zones,
         WaitingDwell(v, z) \in Nat, WaitingDwell(v, z)' \in Nat,
         WaitingDwell(v, z)' >= WaitingDwell(v, z),
         ClockOrEvent(c, v, z),
         c \notin ended' => clocks'[c] = clocks[c]
  PROVE  Kept(c, v, z)' >=
           spent'[c][v][z] + (IF turn' = 1 /\ ~inFrame' /\ Counting(c, v, z)' THEN 1 ELSE 0)
<1>1. /\ now \in Nat /\ now' \in Nat /\ now <= now'
      /\ turn' = 1 => now' = now + 1
  BY NextCameraEffects DEF VisitTypeOK, FrameTypeOK
<1>2. ApiDwell(v, z) \in Nat /\ ApiDwell(v, z)' = ApiDwell(v, z)
  BY ApiDwellType DEF VisitTypeOK
<1>3. spent[c][v][z] \in Nat /\ spent'[c][v][z] = spent[c][v][z]
  BY DEF VisitTypeOK, WalkTypeOK
<1>4. OnClock(c, v, z) \in Nat /\ (clocks[c][v][z] = Away => OnClock(c, v, z) = 0)
  BY OnClockType
<1>5. ApiDwell(v, z) + WaitingDwell(v, z) + OnClock(c, v, z) >= spent[c][v][z]
  <2>1. ApiDwell(v, z) + WaitingDwell(v, z) + OnClock(c, v, z) >=
          spent[c][v][z] + (IF turn = 1 /\ ~inFrame /\ Counting(c, v, z) THEN 1 ELSE 0)
    BY DEF DwellKept, OnClock
  <2>2. QED
    BY <1>2, <1>3, <1>4, <2>1
<1>6. clocks[c][v][z] # Away /\ clocks'[c][v][z] = clocks[c][v][z] =>
        /\ OnClock(c, v, z)' \in Nat
        /\ OnClock(c, v, z)' >= OnClock(c, v, z)
        /\ now' = now + 1 => OnClock(c, v, z)' = OnClock(c, v, z) + 1
  BY <1>1, ClockGoesOn
<1>7. clocks'[c][v][z] = Away => OnClock(c, v, z)' = 0
  BY DEF OnClock, C!DwellSince
<1>8. Kept(c, v, z)' = ApiDwell(v, z) + WaitingDwell(v, z)' + OnClock(c, v, z)'
  BY <1>2 DEF Kept
<1>9. CASE turn' = 1 /\ Counting(c, v, z)'
  <2>1. Counting(c, v, z) /\ clocks'[c] = clocks[c]
    BY <1>9 DEF Counting, InZone
  <2>2. ToSet(todo) = {}
    BY DEF ToSet
  <2>3. clocks[c][v][z] # Away
    BY <2>1, <2>2 DEF NoticedClock
  <2>4. OnClock(c, v, z)' = OnClock(c, v, z) + 1
    BY <1>1, <1>6, <1>9, <2>1, <2>3
  <2>5. Kept(c, v, z)' >= spent'[c][v][z] + 1
    BY <1>2, <1>3, <1>4, <1>5, <1>8, <2>4
  <2>6. QED
    BY <1>9, <2>5
<1>10. CASE ~(turn' = 1 /\ Counting(c, v, z)')
  <2>1. WaitingDwell(v, z)' + OnClock(c, v, z)' >= WaitingDwell(v, z) + OnClock(c, v, z)
        /\ OnClock(c, v, z)' \in Nat
    <3>1. CASE clocks[c][v][z] = Away /\ clocks'[c][v][z] = clocks[c][v][z]
      BY <1>4, <1>7, <3>1
    <3>2. CASE clocks[c][v][z] # Away /\ clocks'[c][v][z] = clocks[c][v][z]
      BY <1>4, <1>6, <3>2
    <3>3. CASE clocks'[c][v][z] # clocks[c][v][z]
      BY <1>4, <1>7, <3>3 DEF ClockOrEvent
    <3>4. QED
      BY <3>1, <3>2, <3>3
  <2>2. Kept(c, v, z)' >= spent'[c][v][z]
    BY <1>2, <1>3, <1>4, <1>5, <1>8, <2>1
  <2>3. spent'[c][v][z] + 0 = spent'[c][v][z]
    BY <1>3
  <2>4. QED
    BY <1>10, <2>2, <2>3
<1>11. QED
  BY <1>9, <1>10

\* The time in an event that closes a stay.
LEMMA EndsSays ==
  ASSUME outbox \in Seq(Line), NEW E \in Seq(Line), outbox' = outbox \o E,
         NEW c, NEW v, NEW z,
         \E e \in ToSet(E) : Ends(e, v, z, clocks[c][v][z])
  PROVE  WaitingDwell(v, z)' >= WaitingDwell(v, z) + OnClock(c, v, z)
<1>1. PICK e \in ToSet(E) : Ends(e, v, z, clocks[c][v][z])
  OBVIOUS
<1>2. /\ e.visitor = v /\ e.type \in DwellTypes /\ e.zone = z
      /\ e.dwell = OnClock(c, v, z)
  BY <1>1 DEF Ends, DwellTypes, OnClock
<1>3. WaitingDwell(v, z)' >= WaitingDwell(v, z) + e.dwell
  BY <1>2, DwellWrites
<1>4. QED
  BY <1>2, <1>3

\* A new frame keeps the dwell times: the time it adds for a noticed visitor is
\* already on a clock.
LEMMA FrameKeepsDwell ==
  ASSUME VisitInv, DwellKept, Frame
  PROVE  DwellKept'
<1>1. VisitTypeOK /\ VisitTypeOK'
  BY FrameTyped DEF VisitInv
<1>2. PICK w \in Walks : \E ds \in Sightings(w) : FrameStep(w, ds)
  BY <1>1, FrameEffects
<1>3. PICK ds \in Sightings(w) : FrameStep(w, ds)
  BY <1>2
<1>4. /\ ~inFrame /\ inFrame' = TRUE
      /\ place' = w
      /\ spent' = [c \in C!Cameras |-> [v \in Visitors |-> [z \in Zones |->
           IF /\ turn = 1
              /\ <<c, v>> \in noticed
              /\ w[v] = place[v]
              /\ InZone(w[v], c, z)
              /\ c \notin ended
           THEN spent[c][v][z] + 1 ELSE spent[c][v][z]]]]
      /\ UNCHANGED <<now, clocks, outbox, sessionVars>>
  BY <1>3 DEF FrameStep
<1> SUFFICES ASSUME NEW c \in C!Cameras \ {EntryCamera}, NEW v \in Visitors, NEW z \in Zones
             PROVE  Kept(c, v, z)' >= spent'[c][v][z]
  <2>1. \A b \in C!Cameras, u \in Visitors, x \in Zones :
          spent'[b][u][x] \in Nat /\ spent'[b][u][x] + 0 = spent'[b][u][x]
    BY <1>1 DEF VisitTypeOK, WalkTypeOK
  <2>2. QED
    BY <1>4, <2>1 DEF DwellKept, Kept, OnClock
<1>5. Kept(c, v, z) >= spent[c][v][z] + (IF turn = 1 /\ ~inFrame /\ Counting(c, v, z) THEN 1 ELSE 0)
  BY DEF DwellKept, Kept, OnClock
<1>6. Kept(c, v, z)' = Kept(c, v, z)
  <2>1. ApiDwell(v, z)' = ApiDwell(v, z)
    BY <1>1, <1>4, ApiDwellType DEF VisitTypeOK
  <2>2. WaitingDwell(v, z)' = WaitingDwell(v, z)
    BY <1>4, SameWaiting DEF WaitingDwell
  <2>3. OnClock(c, v, z)' = OnClock(c, v, z)
    BY <1>4 DEF OnClock, C!DwellSince
  <2>4. QED
    BY <2>1, <2>2, <2>3 DEF Kept
<1>7. spent[c][v][z] \in Nat
  BY <1>1 DEF VisitTypeOK, WalkTypeOK
<1> DEFINE more == /\ turn = 1
                   /\ <<c, v>> \in noticed
                   /\ w[v] = place[v]
                   /\ InZone(w[v], c, z)
                   /\ c \notin ended
<1>8. CASE more
  <2>1. spent'[c][v][z] = spent[c][v][z] + 1
    BY <1>4, <1>8
  <2>2. turn = 1 /\ ~inFrame /\ Counting(c, v, z)
    BY <1>4, <1>8 DEF Counting
  <2>3. QED
    BY <1>5, <1>6, <2>1, <2>2
<1>9. CASE ~more
  <2>1. spent'[c][v][z] = spent[c][v][z]
    BY <1>4, <1>9
  <2>2. Kept(c, v, z) \in Nat
    <3>1. ApiDwell(v, z) \in Nat /\ OnClock(c, v, z) \in Nat
      BY <1>1, ApiDwellType, OnClockType DEF VisitTypeOK
    <3>2. WaitingDwell(v, z) \in Nat
      BY <1>1, DwellListed, WaitingDwellIs DEF VisitTypeOK, FrameTypeOK
    <3>3. QED
      BY <3>1, <3>2 DEF Kept
  <2>3. QED
    BY <1>5, <1>6, <1>7, <2>1, <2>2
<1>10. QED
  BY <1>8, <1>9

\* The clock that stops at a detection is in a ZONE_EXIT.
LEMMA DetectKeepsDwell ==
  ASSUME VisitInv, DwellKept, Detect
  PROVE  DwellKept'
<1> DEFINE next == C!ZoneClocks(SeenVisitor, Seen.zone, SeenRunning)
           prev == currentZone[C!camera][SeenVisitor]
<1>1. VisitTypeOK /\ VisitTypeOK' /\ FrameShowsPlace /\ ClockMatchesZone
  BY DetectTyped DEF VisitInv
<1>2. /\ inFrame /\ todo # << >>
      /\ outbox' = outbox \o SeenLines
      /\ UNCHANGED <<now, turn, inFrame, sessionVars, spent>>
  BY <1>1, DetectEffects
<1>3. outbox \in Seq(Line) /\ SeenLines \in Seq(Line)
  BY <1>1, <1>2, SeenSays DEF VisitTypeOK, FrameTypeOK
<1>4. /\ SeenVisitor \in Visitors /\ Seen.zone \in Zones \cup {NoZone}
      /\ C!camera \in C!Cameras /\ now \in Nat
  BY <1>1, <1>2, SeenTyped, CameraIsOne DEF VisitTypeOK, FrameTypeOK
<1>5. /\ SeenRunning \in [Zones -> C!Clock \cup {Away}]
      /\ SeenCrossing # "EXIT" => SeenRunning = clocks[C!camera][SeenVisitor]
      /\ SeenCrossing = "EXIT" => \A z \in Zones : SeenRunning[z] = Away
  BY <1>1, <1>2, RunningTyped
<1>6. /\ SeenCrossing = "EXIT" => \A z \in Zones :
           clocks[C!camera][SeenVisitor][z] # Away =>
             \E e \in ToSet(SeenLines) : Ends(e, SeenVisitor, z, clocks[C!camera][SeenVisitor][z])
      /\ prev # NoZone /\ prev # Seen.zone =>
           \E e \in ToSet(SeenLines) : Ends(e, SeenVisitor, prev, SeenRunning[prev])
  BY <1>1, <1>2, SeenSays
<1>7. ClocksMove(SeenRunning, next, prev, Seen.zone)
  BY <1>4, <1>5, ZoneClocksAre
<1>8. /\ clocks'[C!camera][SeenVisitor] = next
      /\ \A c \in C!Cameras, v \in Visitors :
           c # C!camera \/ v # SeenVisitor => clocks'[c][v] = clocks[c][v]
  BY <1>1, ClocksAfterDetect
<1> HIDE DEF next, prev
<1> SUFFICES ASSUME NEW c \in C!Cameras \ {EntryCamera}, NEW v \in Visitors, NEW z \in Zones
             PROVE  Kept(c, v, z)' >= spent'[c][v][z]
  <2>1. \A b \in C!Cameras, u \in Visitors, x \in Zones :
          spent'[b][u][x] \in Nat /\ spent'[b][u][x] + 0 = spent'[b][u][x]
    BY <1>1 DEF VisitTypeOK, WalkTypeOK
  <2>2. QED
    BY <1>2, <2>1 DEF DwellKept, Kept, OnClock
<1>9. Kept(c, v, z) >= spent[c][v][z]
  <2>1. spent[c][v][z] \in Nat
    BY <1>1 DEF VisitTypeOK, WalkTypeOK
  <2>2. QED
    BY <1>2, <2>1 DEF DwellKept, Kept, OnClock
<1>10. /\ ApiDwell(v, z) \in Nat /\ ApiDwell(v, z)' = ApiDwell(v, z)
       /\ OnClock(c, v, z) \in Nat /\ OnClock(c, v, z)' \in Nat
       /\ clocks[c][v][z] = Away => OnClock(c, v, z) = 0
  <2>1. (OnClock(c, v, z) \in Nat)'
    <3>1. /\ now' \in Nat
          /\ clocks'[c][v][z] \in C!Clock \cup {Away}
          /\ clocks'[c][v][z] # Away => clocks'[c][v][z].enter <= now'
      BY <1>1 DEF VisitTypeOK, FrameTypeOK, CameraTypeOK
    <3>2. \A k \in C!Clock : k.enter \in Nat
      BY DEF C!Clock
    <3>3. QED
      BY <3>1, <3>2 DEF OnClock, C!DwellSince
  <2>2. QED
    BY <1>1, <1>2, <2>1, ApiDwellType, OnClockType DEF VisitTypeOK
<1>11. /\ WaitingDwell(v, z) \in Nat /\ WaitingDwell(v, z)' \in Nat
       /\ WaitingDwell(v, z)' >= WaitingDwell(v, z)
  BY <1>2, <1>3, DwellWrites
<1>12. spent[c][v][z] \in Nat /\ spent'[c][v][z] = spent[c][v][z]
  BY <1>1, <1>2 DEF VisitTypeOK, WalkTypeOK
<1>13. WaitingDwell(v, z)' + OnClock(c, v, z)' >= WaitingDwell(v, z) + OnClock(c, v, z)
  <2>1. CASE clocks[c][v][z] = Away
    BY <1>10, <1>11, <2>1
  <2>2. CASE clocks[c][v][z] # Away /\ (c # C!camera \/ v # SeenVisitor)
    <3>1. clocks'[c][v][z] = clocks[c][v][z]
      BY <1>8, <2>2
    <3>2. OnClock(c, v, z)' = OnClock(c, v, z)
      BY <1>2, <3>1 DEF OnClock, C!DwellSince
    <3>3. QED
      BY <1>10, <1>11, <3>2
  <2>3. CASE clocks[c][v][z] # Away /\ c = C!camera /\ v = SeenVisitor
    <3>1. prev = z
      BY <1>1, <2>3 DEF ClockMatchesZone, prev
    <3>2. CASE SeenCrossing = "EXIT"
      <4>1. \E e \in ToSet(SeenLines) : Ends(e, v, z, clocks[c][v][z])
        BY <1>6, <2>3, <3>2
      <4>2. WaitingDwell(v, z)' >= WaitingDwell(v, z) + OnClock(c, v, z)
        BY <1>2, <1>3, <4>1, EndsSays
      <4>3. QED
        BY <1>10, <1>11, <4>2
    <3>3. CASE SeenCrossing # "EXIT" /\ Seen.zone # prev
      <4>1. SeenRunning[prev] = clocks[c][v][z]
        BY <1>5, <2>3, <3>1, <3>3
      <4>2. prev # NoZone
        BY <3>1, SessionizerAssumption
      <4>3. \E e \in ToSet(SeenLines) : Ends(e, v, z, clocks[c][v][z])
        BY <1>6, <2>3, <3>1, <3>3, <4>1, <4>2
      <4>4. WaitingDwell(v, z)' >= WaitingDwell(v, z) + OnClock(c, v, z)
        BY <1>2, <1>3, <4>3, EndsSays
      <4>5. QED
        BY <1>10, <1>11, <4>4
    <3>4. CASE SeenCrossing # "EXIT" /\ Seen.zone = prev
      <4>1. SeenRunning[z] = clocks[c][v][z]
        BY <1>5, <2>3, <3>4
      <4>2. next[z] # Away /\ next[z].enter = SeenRunning[z].enter
        BY <1>7, <2>3, <3>4, <4>1 DEF ClocksMove
      <4>3. clocks'[c][v][z] # Away /\ clocks'[c][v][z].enter = clocks[c][v][z].enter
        BY <1>8, <2>3, <4>1, <4>2
      <4>4. OnClock(c, v, z)' = OnClock(c, v, z)
        BY <1>2, <2>3, <4>3 DEF OnClock, C!DwellSince
      <4>5. QED
        BY <1>10, <1>11, <4>4
    <3>5. QED
      BY <3>2, <3>3, <3>4
  <2>4. QED
    BY <2>1, <2>2, <2>3
<1>14. Kept(c, v, z)' >= spent'[c][v][z]
  BY <1>9, <1>10, <1>11, <1>12, <1>13 DEF Kept
<1>15. QED
  BY <1>14

\* The end of a frame, the end of a video and the turn of a camera without one.
LEMMA TurnsKeepDwell ==
  ASSUME VisitInv, NoticedClock, DwellKept, EndFrame \/ EndVideo \/ SkipEnded
  PROVE  DwellKept'
<1>1. /\ VisitTypeOK /\ VisitTypeOK' /\ FrameShowsPlace /\ ClockMatchesZone
      /\ outbox \in Seq(Line)
      /\ ~inFrame => todo = << >>
  BY VisitTyped DEF VisitInv, VisitNext, VisitTypeOK, FrameTypeOK
<1> SUFFICES ASSUME NEW c \in C!Cameras \ {EntryCamera}, NEW v \in Visitors, NEW z \in Zones
             PROVE  Kept(c, v, z)' >=
                      spent'[c][v][z] + (IF turn' = 1 /\ ~inFrame' /\ Counting(c, v, z)' THEN 1 ELSE 0)
  BY DEF DwellKept, Kept, OnClock
<1>2. WaitingDwell(v, z) \in Nat
  BY <1>1, DwellListed, WaitingDwellIs
<1>3. ASSUME ~inFrame', todo = << >>, C!NextCamera,
             UNCHANGED <<clocks, ended, sessionVars, place, noticed, spent>>,
             NEW E \in Seq(Line), outbox' = outbox \o E
      PROVE  Kept(c, v, z)' >=
               spent'[c][v][z] + (IF turn' = 1 /\ ~inFrame' /\ Counting(c, v, z)' THEN 1 ELSE 0)
  <2>1. WaitingDwell(v, z)' \in Nat /\ WaitingDwell(v, z)' >= WaitingDwell(v, z)
    BY <1>1, <1>3, DwellWrites
  <2>2. ClockOrEvent(c, v, z)
    BY <1>3 DEF ClockOrEvent
  <2>3. /\ c \notin ended' => clocks'[c] = clocks[c]
        /\ ended \subseteq ended'
        /\ UNCHANGED <<sessionVars, place, noticed, spent>>
    BY <1>3
  <2>4. QED
    BY <1>1, <1>2, <1>3, <2>1, <2>2, <2>3, NextTurnKeeps
<1>4. << >> \in Seq(Line) /\ outbox = outbox \o << >>
  BY <1>1, EmptySeq
<1>5. CASE EndFrame
  <2>1. /\ todo = << >> /\ ~inFrame' /\ C!NextCamera
        /\ outbox' = outbox \o C!QueueEvents \/ outbox' = outbox
        /\ UNCHANGED <<ended, clocks, sessionVars, place, noticed, spent>>
    BY <1>1, <1>5, EndFrameEffects
  <2>2. C!QueueEvents \in Seq(Line)
    BY <1>1, QueueSays
  <2>3. PICK E \in Seq(Line) : outbox' = outbox \o E
    BY <1>4, <2>1, <2>2
  <2>4. QED
    BY <1>3, <2>1, <2>3
<1>6. CASE SkipEnded
  <2>1. /\ ~inFrame /\ UNCHANGED inFrame /\ C!NextCamera
        /\ outbox' = outbox
        /\ UNCHANGED <<ended, clocks, sessionVars, place, noticed, spent>>
    BY <1>1, <1>6, SkipEffects
  <2>2. PICK E \in Seq(Line) : outbox' = outbox \o E
    BY <1>4, <2>1
  <2>3. ~inFrame' /\ todo = << >>
    BY <1>1, <2>1
  <2>4. QED
    BY <1>3, <2>1, <2>2, <2>3
<1>7. CASE EndVideo
  <2>1. /\ ~inFrame /\ UNCHANGED inFrame /\ C!NextCamera
        /\ outbox' = outbox \o C!FlushEvents
        /\ ended' = ended \cup {C!camera}
        /\ UNCHANGED <<sessionVars, place, noticed, spent>>
    BY <1>1, <1>7, EndVideoEffects
  <2>2. C!FlushEvents \in Seq(Line) /\ ToSet(C!FlushEvents) = FlushLines
    BY <1>1, FlushSays
  <2>3. /\ \A u \in Visitors, y \in Zones :
             clocks'[C!camera][u][y] =
               IF y = currentZone[C!camera][u] THEN Away ELSE clocks[C!camera][u][y]
        /\ \A b \in C!Cameras \ {C!camera} : clocks'[b] = clocks[b]
    BY <1>1, <1>7, ClocksAfterEnd
  <2>4. WaitingDwell(v, z)' \in Nat /\ WaitingDwell(v, z)' >= WaitingDwell(v, z)
    BY <1>1, <2>1, <2>2, DwellWrites
  <2>5. ClockOrEvent(c, v, z)
    <3>1. CASE clocks'[c][v][z] = clocks[c][v][z]
      BY <3>1 DEF ClockOrEvent
    <3>2. CASE clocks'[c][v][z] # clocks[c][v][z]
      <4>1. c = C!camera
        BY <2>3, <3>2
      <4>2. /\ z = currentZone[c][v]
            /\ clocks'[c][v][z] = Away /\ clocks[c][v][z] # Away
        BY <2>3, <3>2, <4>1
      <4>3. v \in {u \in Visitors : currentZone[C!camera][u] # NoZone}
        BY <4>1, <4>2, SessionizerAssumption
      <4>4. PICK e \in ToSet(C!FlushEvents) :
              e = C!StoreEvent("ZONE_EXIT", v, currentZone[C!camera][v],
                               C!DwellSince(clocks[C!camera][v][currentZone[C!camera][v]]), staff[v])
        BY <2>2, <4>3 DEF FlushLines
      <4>5. Ends(e, v, z, clocks[c][v][z])
        BY <4>1, <4>2, <4>4 DEF Ends, C!StoreEvent
      <4>6. WaitingDwell(v, z)' >= WaitingDwell(v, z) + OnClock(c, v, z)
        BY <1>1, <2>1, <2>2, <4>5, EndsSays
      <4>7. QED
        BY <4>2, <4>6 DEF ClockOrEvent
    <3>3. QED
      BY <3>1, <3>2
  <2>6. /\ c \notin ended' => clocks'[c] = clocks[c]
        /\ ended \subseteq ended'
        /\ ~inFrame' /\ todo = << >>
    BY <1>1, <2>1, <2>3
  <2>7. QED
    BY <1>1, <1>2, <2>1, <2>4, <2>5, <2>6, NextTurnKeeps
<1>8. QED
  BY <1>5, <1>6, <1>7

\* A delivery keeps the dwell times: what leaves the outbox joins the sessions.
LEMMA DeliverKeepsDwell ==
  ASSUME VisitInv, DwellKept, Deliver
  PROVE  DwellKept'
<1>1. VisitTypeOK /\ SessionInv
  BY DEF VisitInv, VisitTypeOK
<1>2. UNCHANGED <<now, turn, inFrame, clocks, ended, place, noticed, spent>>
  BY <1>1, DeliverEffects
<1> SUFFICES ASSUME NEW c \in C!Cameras \ {EntryCamera}, NEW v \in Visitors, NEW z \in Zones
             PROVE  Kept(c, v, z)' >=
                      spent[c][v][z] + (IF turn = 1 /\ ~inFrame /\ Counting(c, v, z) THEN 1 ELSE 0)
  BY <1>2 DEF DwellKept, Kept, OnClock, Counting, InZone
<1> DEFINE n == spent[c][v][z] + (IF turn = 1 /\ ~inFrame /\ Counting(c, v, z) THEN 1 ELSE 0)
<1>3. Kept(c, v, z) >= n
  BY DEF DwellKept, Kept, OnClock
<1>4. n \in Nat
  BY <1>1 DEF VisitTypeOK, WalkTypeOK
<1> HIDE DEF n
<1>5. /\ ApiDwell(v, z) \in Nat /\ ApiDwell(v, z)' \in Nat
      /\ WaitingDwell(v, z) \in Nat /\ WaitingDwell(v, z)' \in Nat
      /\ ApiDwell(v, z)' + WaitingDwell(v, z)' >= ApiDwell(v, z) + WaitingDwell(v, z)
  BY <1>1, DwellDelivered
<1>6. OnClock(c, v, z) \in Nat /\ OnClock(c, v, z)' = OnClock(c, v, z)
  BY <1>1, <1>2, OnClockType DEF OnClock, C!DwellSince
<1>7. Kept(c, v, z)' >= n
  BY <1>3, <1>4, <1>5, <1>6 DEF Kept
<1>8. QED
  BY <1>7 DEF n

\* A step that leaves clocks, outbox and sessions alone keeps the dwell times.
LEMMA SameDwell ==
  ASSUME VisitInv, DwellKept,
         UNCHANGED <<sessionVars, now, turn, inFrame, clocks, ended, outbox, place, noticed, spent>>
  PROVE  DwellKept'
<1>1. SessionInv
  BY DEF VisitInv, VisitTypeOK
<1> SUFFICES ASSUME NEW c \in C!Cameras \ {EntryCamera}, NEW v \in Visitors, NEW z \in Zones
             PROVE  Kept(c, v, z)' >=
                      spent[c][v][z] + (IF turn = 1 /\ ~inFrame /\ Counting(c, v, z) THEN 1 ELSE 0)
  BY DEF DwellKept, Kept, OnClock, Counting, InZone
<1>2. ApiDwell(v, z)' = ApiDwell(v, z) /\ WaitingDwell(v, z)' = WaitingDwell(v, z)
  BY <1>1, ApiDwellType, SameWaiting DEF WaitingDwell
<1>3. Kept(c, v, z)' = Kept(c, v, z)
  BY <1>2 DEF Kept, OnClock, C!DwellSince
<1>4. QED
  BY <1>3 DEF DwellKept, Kept, OnClock

\* Another passport keeps the dwell times.
LEMMA PassportKeepsDwell ==
  ASSUME VisitInv, DwellKept, OtherPassport
  PROVE  DwellKept'
BY PassportEffects, SameDwell DEF VisitInv

\* A step that changes nothing keeps the dwell times.
LEMMA StutterKeepsDwell ==
  ASSUME VisitInv, NoticedClock, DwellKept, UNCHANGED allVars
  PROVE  NoticedClock' /\ DwellKept'
<1>1. UNCHANGED <<sessionVars, now, turn, inFrame, todo, clocks, ended, outbox, place, noticed,
                  spent>>
  BY DEF allVars, cameraOnlyVars, walkVars
<1>2. NoticedClock'
  BY <1>1 DEF NoticedClock, Counting, InZone, ToSet, C!camera
<1>3. DwellKept'
  BY <1>1, SameDwell
<1>4. QED
  BY <1>2, <1>3

\* At the start no time was spent and nobody was noticed.
LEMMA DwellInitInv ==
  ASSUME VisitInit
  PROVE  NoticedClock /\ DwellKept
<1>1. VisitInv
  BY VisitInitInv
<1>2. noticed = {} /\ spent = [c \in C!Cameras |-> [v \in Visitors |-> [z \in Zones |-> 0]]]
  BY DEF VisitInit
<1>3. NoticedClock
  BY <1>2 DEF NoticedClock, Counting
<1>4. DwellKept
  <2> SUFFICES ASSUME NEW c \in C!Cameras \ {EntryCamera}, NEW v \in Visitors, NEW z \in Zones
               PROVE  Kept(c, v, z) >=
                        spent[c][v][z] + (IF turn = 1 /\ ~inFrame /\ Counting(c, v, z) THEN 1 ELSE 0)
    BY DEF DwellKept, Kept, OnClock
  <2>1. ApiDwell(v, z) \in Nat /\ OnClock(c, v, z) \in Nat
    BY <1>1, ApiDwellType, OnClockType DEF VisitInv, VisitTypeOK
  <2>2. WaitingDwell(v, z) \in Nat
    BY <1>1, DwellListed, WaitingDwellIs DEF VisitInv, VisitTypeOK, FrameTypeOK
  <2>3. spent[c][v][z] = 0 /\ ~Counting(c, v, z)
    BY <1>2 DEF Counting
  <2>4. QED
    BY <2>1, <2>2, <2>3 DEF Kept
<1>5. QED
  BY <1>3, <1>4

\* In every reachable state the time a camera other than that of the entry has had a
\* visitor in a zone is on the sessions, in an event that waits, or on the clock of
\* that camera, and whom it noticed there has a clock.
THEOREM DwellInvariant == VisitSpec => []DwellInv
<1>1. VisitInit => DwellInv
  BY VisitInitInv, DwellInitInv DEF DwellInv
<1>2. DwellInv /\ [VisitNext]_allVars => DwellInv'
  <2> SUFFICES ASSUME DwellInv, [VisitNext]_allVars
               PROVE  DwellInv'
    OBVIOUS
  <2>1. VisitInv /\ NoticedClock /\ DwellKept
    BY DEF DwellInv
  <2>2. CASE VisitNext
    <3>1. VisitInv' /\ NoticedClock'
      BY <2>1, <2>2, VisitNextInv, NoticedKept
    <3>2. DwellKept'
      BY <2>1, <2>2, FrameKeepsDwell, DetectKeepsDwell, TurnsKeepDwell, DeliverKeepsDwell,
         PassportKeepsDwell
         DEF VisitNext
    <3>3. QED
      BY <3>1, <3>2 DEF DwellInv
  <2>3. CASE UNCHANGED allVars
    BY <2>1, <2>3, VisitStutterInv, StutterKeepsDwell DEF DwellInv
  <2>4. QED
    BY <2>2, <2>3
<1>3. QED
  BY <1>1, <1>2, PTL DEF VisitSpec

\* Once the API has all events, no time a camera other than that of the entry has had
\* a visitor in a zone is lost: it is in dwell_per_zone of the visitor's sessions or on
\* the clock of that camera.
THEOREM DwellIsKept == VisitSpec => []NoDwellLost
<1>1. ASSUME DwellInv
      PROVE  NoDwellLost
  <2> SUFFICES ASSUME Delivered,
                      NEW c \in C!Cameras \ {EntryCamera}, NEW v \in Visitors, NEW z \in Zones
               PROVE  ApiDwell(v, z) + OnClock(c, v, z) >= spent[c][v][z]
    BY DEF NoDwellLost, OnClock
  <2>1. VisitTypeOK /\ DwellKept
    BY <1>1 DEF DwellInv, VisitInv
  <2>2. Kept(c, v, z) >=
          spent[c][v][z] + (IF turn = 1 /\ ~inFrame /\ Counting(c, v, z) THEN 1 ELSE 0)
    BY <2>1 DEF DwellKept, Kept, OnClock
  <2>3. WaitingDwell(v, z) = 0
    <3>1. DwellLines(outbox, v, z) = {}
      BY NothingWaits DEF Delivered, DwellLines, Waiting
    <3>2. QED
      BY <3>1, WaitingDwellIs, SumEmpty
  <2>4. /\ spent[c][v][z] \in Nat
        /\ ApiDwell(v, z) \in Nat /\ OnClock(c, v, z) \in Nat
    BY <2>1, ApiDwellType, OnClockType DEF VisitTypeOK, WalkTypeOK
  <2>5. Kept(c, v, z) = ApiDwell(v, z) + OnClock(c, v, z)
    BY <2>3, <2>4 DEF Kept
  <2>6. QED
    BY <2>2, <2>4, <2>5
<1>2. DwellInv => NoDwellLost
  BY <1>1
<1>3. QED
  BY <1>2, DwellInvariant, PTL

===============================================================================
