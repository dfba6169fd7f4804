------------------------- MODULE SessionizerProofs -------------------------
(***************************************************************************)
(* The sessionizer's invariants hold for every set of stores, visitors,    *)
(* zones and events.                                                       *)
(*                                                                         *)
(* Every handler does one of four things to the lists of sessions, proved  *)
(* by the lemma HandlerShapes:                                             *)
(*   Enriches  - the current session of the visitor, found or created,     *)
(*               becomes s and stays open;                                 *)
(*   Replaces  - the open session, if any, ends and a new one is opened;   *)
(*   Closes    - the open session ends;                                    *)
(*   AddsStub  - a session that has already ended is added.                *)
(* The invariants are proved of the four shapes.                           *)
(***************************************************************************)
EXTENDS Sessionizer, SequenceTheorems, FiniteSetTheorems, TLAPS

\* The open session of a visitor is the latest one.
LatestIsActive ==
  \A v \in Visitors : active[v] # None =>
    \A i \in Index : sessions[i].visitor = v => i <= active[v]

\* The inductive invariant that everything rests on. The type alone is not
\* inductive, as a handler reads sessions[active[v]]; the order of the re-entry
\* counts needs that a handler changes the latest session of the visitor.
SessionInv == SessionTypeOK /\ ActiveMatchesOpen /\ LatestIsActive

SameCounts == reentryCounts' = reentryCounts

\* A handler either leaves the re-entry count of its session (r before the
\* step) and the ledger alone, or advances both to the visitor's next re-entry.
Counted(e, s, r) ==
  \/ SameCounts /\ s.reentry = r
  \/ /\ reentryCounts' = [reentryCounts EXCEPT ![e.visitor] = @ + 1]
     /\ s.reentry = reentryCounts[e.visitor] + 1

\* What a handler of event e adds to what a session has counted: c is the session
\* before the step and s after it.
Tallied(e, s, c) ==
  /\ \A z \in Zones :
       s.dwell[z] = IF e.type \in {"ZONE_EXIT", "ZONE_DWELL"} /\ e.zone = z
                    THEN c.dwell[z] + e.dwell ELSE c.dwell[z]
  /\ s.queue = IF e.type \in {"BILLING_QUEUE_JOIN", "BILLING_QUEUE_ABANDON"}
               THEN c.queue \cup {QueueEventOf(e)} ELSE c.queue
  /\ IF e.type \in {"ZONE_ENTER", "ZONE_EXIT", "ZONE_DWELL"} /\ e.zone = NoZone
     THEN s.count = c.count
     ELSE s.count = c.count + 1 \/ (e.type = "EXIT" /\ s.count = c.count + 2)

Enriches(e, s) ==
  /\ s \in VisitorSession
  /\ s.visitor = e.visitor
  /\ IsOpen(s)
  /\ Enrich(e, s)
  /\ e.type \notin {"ENTRY", "EXIT"}
  /\ s.start = CurrentSession(e).start
  /\ Counted(e, s, CurrentSession(e).reentry)
  /\ Tallied(e, s, CurrentSession(e))

Replaces(e, s) ==
  /\ s \in VisitorSession
  /\ s.visitor = e.visitor
  /\ IsOpen(s)
  /\ e.type = "ENTRY"
  /\ s.start = e.time
  /\ s.reentry = 0
  /\ PutActive(Closed(e), s)
  /\ SameCounts
  /\ Tallied(e, s, NewSession(e, 0, 0))

Closes(e, s) ==
  /\ active[e.visitor] # None
  /\ s \in VisitorSession
  /\ s.visitor = e.visitor
  /\ ~IsOpen(s)
  /\ e.type = "EXIT"
  /\ s.start = CurrentSession(e).start
  /\ s.end = e.time
  /\ s.reentry = CurrentSession(e).reentry
  /\ sessions' = [sessions EXCEPT ![active[e.visitor]] = s]
  /\ active' = [active EXCEPT ![e.visitor] = None]
  /\ SameCounts
  /\ Tallied(e, s, CurrentSession(e))

AddsStub(e, s) ==
  /\ active[e.visitor] = None
  /\ s \in VisitorSession
  /\ s.visitor = e.visitor
  /\ ~IsOpen(s)
  /\ e.type = "EXIT"
  /\ s.start = e.time
  /\ s.end = e.time
  /\ s.reentry = 0
  /\ sessions' = Append(sessions, s)
  /\ active' = active
  /\ SameCounts
  /\ Tallied(e, s, NewSession(e, 0, 0))

-----------------------------------------------------------------------------

LEMMA EventsTyped ==
  \A e \in Events : e \in Event
  BY SessionizerAssumption

LEMMA EventFields ==
  ASSUME NEW e \in Event
  PROVE  /\ e.visitor \in Visitors
         /\ e.store \in Stores
         /\ e.time \in Nat
         /\ e.zone \in Zones \cup {NoZone}
         /\ e.dwell \in Nat
         /\ e.staff \in BOOLEAN
  BY DEF Event, Time

LEMMA NewSessionType ==
  ASSUME NEW e \in Event, NEW r \in Nat, NEW c \in Nat
  PROVE  /\ NewSession(e, r, c) \in VisitorSession
         /\ NewSession(e, r, c).visitor = e.visitor
         /\ NewSession(e, r, c).reentry = r
         /\ IsOpen(NewSession(e, r, c))
  BY EventFields DEF NewSession, VisitorSession, IsOpen, Time

LEMMA SessionUpdates ==
  ASSUME NEW c \in VisitorSession
  PROVE  /\ \A n \in Nat : [c EXCEPT !.reentry = n] \in VisitorSession
         /\ \A n \in Nat : [c EXCEPT !.count = n] \in VisitorSession
         /\ \A t \in Time : [c EXCEPT !.end = t] \in VisitorSession
         /\ \A Z \in SUBSET Zones : [c EXCEPT !.zones = Z] \in VisitorSession
         /\ \A d \in [Zones -> Nat] : [c EXCEPT !.dwell = d] \in VisitorSession
         /\ \A Q \in SUBSET QueueEvent : [c EXCEPT !.queue = Q] \in VisitorSession
         /\ \A b \in BOOLEAN : [c EXCEPT !.candidate = b] \in VisitorSession
  BY DEF VisitorSession

\* The same for the updates that read the session they change.
LEMMA SessionReads ==
  ASSUME NEW c \in VisitorSession
  PROVE  /\ c.count + 1 \in Nat
         /\ \A z \in Zones : c.zones \cup {z} \in SUBSET Zones
         /\ \A z \in Zones, n \in Nat : [c.dwell EXCEPT ![z] = @ + n] \in [Zones -> Nat]
         /\ \A q \in QueueEvent : c.queue \cup {q} \in SUBSET QueueEvent
  BY DEF VisitorSession

LEMMA CurrentSessionType ==
  ASSUME NEW e \in Event, SessionTypeOK, ActiveIsOpen
  PROVE  /\ CurrentSession(e) \in VisitorSession
         /\ CurrentSession(e).visitor = e.visitor
         /\ IsOpen(CurrentSession(e))
<1>1. CASE active[e.visitor] = None
  BY <1>1, NewSessionType DEF CurrentSession
<1>2. CASE active[e.visitor] # None
  <2>1. /\ active[e.visitor] \in DOMAIN sessions
        /\ sessions[active[e.visitor]].visitor = e.visitor
        /\ IsOpen(sessions[active[e.visitor]])
    BY <1>2, EventFields DEF ActiveIsOpen, Index
  <2>2. sessions[active[e.visitor]] \in VisitorSession
    BY <2>1 DEF SessionTypeOK
  <2>3. QED
    BY <1>2, <2>1, <2>2 DEF CurrentSession
<1>3. QED
  BY <1>1, <1>2

LEMMA HandlerShapes ==
  ASSUME NEW e \in Event, SessionInv, ProcessEvent(e)
  PROVE  \E s : Enriches(e, s) \/ Replaces(e, s) \/ Closes(e, s) \/ AddsStub(e, s)
<1> DEFINE c == CurrentSession(e)
<1>0. /\ c \in VisitorSession
      /\ c.visitor = e.visitor
      /\ IsOpen(c)
      /\ reentryCounts \in [Visitors -> Nat]
  BY CurrentSessionType DEF SessionInv, ActiveMatchesOpen, SessionTypeOK
<1> HIDE DEF c
<1>1. CASE HandleEntry(e)
  <2> DEFINE s == NewSession(e, 0, 1)
  <2>1. Tallied(e, s, NewSession(e, 0, 0))
    BY <1>1 DEF HandleEntry, NewSession, Tallied
  <2>2. s.start = e.time
    BY DEF NewSession
  <2>4. Replaces(e, s)
    BY <1>1, <2>1, <2>2, NewSessionType DEF HandleEntry, Replaces, SameCounts
  <2>3. QED
    BY <2>4
<1>2. CASE HandleReentry(e)
  <2> DEFINE n == reentryCounts[e.visitor] + 1
             s == [c EXCEPT !.reentry = n, !.count = @ + 1]
  <2>1. n \in Nat
    BY <1>0, EventFields
  <2>2. s \in VisitorSession
    <3>1. [c EXCEPT !.reentry = n] \in VisitorSession
      BY <1>0, <2>1, SessionUpdates
    <3>2. QED
      BY <1>0, <3>1, SessionUpdates, SessionReads
  <2>3. s.visitor = e.visitor /\ IsOpen(s) /\ s.reentry = n /\ s.start = c.start
    BY <1>0, <2>1 DEF VisitorSession, IsOpen
  <2>4. Enrich(e, s) /\ reentryCounts' = [reentryCounts EXCEPT ![e.visitor] = n]
    BY <1>2 DEF HandleReentry, c
  <2>5. Tallied(e, s, c)
    BY <1>0, <1>2 DEF HandleReentry, VisitorSession, Tallied
  <2>6. Enriches(e, s)
    BY <1>2, <2>2, <2>3, <2>4, <2>5 DEF HandleReentry, Enriches, Counted, c
  <2>7. QED
    BY <2>6
<1>3. CASE HandleExitOpen(e)
  <2> DEFINE s == [c EXCEPT !.count = @ + 1, !.end = e.time]
  <2>1. active[e.visitor] # None
    BY <1>3 DEF HandleExitOpen
  <2>2. /\ s \in VisitorSession
        /\ s.visitor = e.visitor
        /\ s.reentry = c.reentry
        /\ s.end = e.time
        /\ s.start = c.start
    <3>1. [c EXCEPT !.count = @ + 1] \in VisitorSession
      BY <1>0, SessionUpdates, SessionReads
    <3>2. s \in VisitorSession
      BY <3>1, EventFields, SessionUpdates DEF Time
    <3>3. s.visitor = e.visitor /\ s.reentry = c.reentry /\ s.end = e.time /\ s.start = c.start
      BY <1>0 DEF VisitorSession
    <3>4. QED
      BY <3>2, <3>3
  <2>3. ~IsOpen(s)
    BY <2>2, EventFields, SessionizerAssumption DEF IsOpen
  <2>4. sessions' = [sessions EXCEPT ![active[e.visitor]] = s]
    BY <1>3 DEF HandleExitOpen, c
  <2>5. Tallied(e, s, c)
    BY <1>0, <1>3 DEF HandleExitOpen, VisitorSession, Tallied
  <2>6. Closes(e, s)
    BY <1>3, <2>1, <2>2, <2>3, <2>4, <2>5 DEF HandleExitOpen, Closes, SameCounts, c
  <2>7. QED
    BY <2>6
<1>4. CASE HandleExitStub(e)
  <2> DEFINE n == NewSession(e, 0, 2)
             s == [n EXCEPT !.end = e.time]
  <2>0. Tallied(e, s, NewSession(e, 0, 0))
    BY <1>4 DEF HandleExitStub, NewSession, Tallied
  <2>1. n \in VisitorSession /\ n.visitor = e.visitor /\ n.reentry = 0 /\ n.start = e.time
    BY NewSessionType DEF NewSession
  <2> HIDE DEF n
  <2>2. /\ s \in VisitorSession
        /\ s.visitor = e.visitor
        /\ s.reentry = 0
        /\ s.end = e.time
        /\ s.start = e.time
    <3>1. s \in VisitorSession
      BY <2>1, EventFields, SessionUpdates DEF Time
    <3>2. s.visitor = e.visitor /\ s.reentry = 0 /\ s.end = e.time /\ s.start = e.time
      BY <2>1 DEF VisitorSession
    <3>3. QED
      BY <3>1, <3>2
  <2>3. ~IsOpen(s)
    BY <2>2, EventFields, SessionizerAssumption DEF IsOpen
  <2>4. AddsStub(e, s)
    BY <1>4, <2>0, <2>2, <2>3 DEF HandleExitStub, AddsStub, SameCounts, n
  <2>5. QED
    BY <2>4
<1>5. CASE HandleZoneless(e)
  <2>1. Tallied(e, c, c)
    BY <1>5, SessionizerAssumption DEF HandleZoneless, Tallied
  <2>2. Enriches(e, c)
    BY <1>0, <1>5, <2>1 DEF HandleZoneless, Enriches, Counted, SameCounts, c
  <2>3. QED
    BY <2>2
<1>6. CASE HandleZoneEnter(e)
  <2> DEFINE s == [c EXCEPT !.zones = @ \cup {e.zone}, !.count = @ + 1]
  <2>1. e.zone \in Zones
    BY <1>6, EventFields DEF HandleZoneEnter
  <2>2. s \in VisitorSession
    <3>1. [c EXCEPT !.zones = @ \cup {e.zone}] \in VisitorSession
      BY <1>0, <2>1, SessionUpdates, SessionReads
    <3>2. QED
      BY <1>0, <3>1, SessionUpdates, SessionReads
  <2>3. s.visitor = e.visitor /\ IsOpen(s) /\ s.reentry = c.reentry /\ s.start = c.start
    BY <1>0, <2>1 DEF VisitorSession, IsOpen
  <2>4. Tallied(e, s, c)
    BY <1>0, <1>6 DEF HandleZoneEnter, VisitorSession, Tallied
  <2>5. Enriches(e, s)
    BY <1>6, <2>2, <2>3, <2>4 DEF HandleZoneEnter, Enriches, Counted, SameCounts, c
  <2>6. QED
    BY <2>5
<1>7. CASE HandleZoneDwell(e)
  <2> DEFINE s == [c EXCEPT !.dwell[e.zone] = @ + e.dwell, !.count = @ + 1]
  <2>1. e.zone \in Zones /\ e.dwell \in Nat
    BY <1>7, EventFields DEF HandleZoneDwell
  <2>2. s \in VisitorSession
    <3>1. [c EXCEPT !.dwell[e.zone] = @ + e.dwell] \in VisitorSession
      BY <1>0, <2>1, SessionUpdates, SessionReads
    <3>2. QED
      BY <1>0, <3>1, SessionUpdates, SessionReads
  <2>3. s.visitor = e.visitor /\ IsOpen(s) /\ s.reentry = c.reentry /\ s.start = c.start
    BY <1>0, <2>1 DEF VisitorSession, IsOpen
  <2>4. Tallied(e, s, c)
    BY <1>0, <1>7 DEF HandleZoneDwell, VisitorSession, Tallied
  <2>5. Enriches(e, s)
    BY <1>7, <2>2, <2>3, <2>4 DEF HandleZoneDwell, Enriches, Counted, SameCounts, c
  <2>6. QED
    BY <2>5
<1>8. CASE HandleQueueJoin(e)
  <2> DEFINE z == IF e.zone = NoZone THEN BillingQueue ELSE e.zone
             s == [c EXCEPT !.queue = @ \cup {QueueEventOf(e)}, !.candidate = TRUE,
                            !.zones = @ \cup {z}, !.count = @ + 1]
  <2>1. z \in Zones /\ QueueEventOf(e) \in QueueEvent
    BY <1>8, EventFields, SessionizerAssumption
       DEF HandleQueueJoin, QueueEventOf, QueueEvent, Time
  <2>2. s \in VisitorSession
    <3>1. [c EXCEPT !.queue = @ \cup {QueueEventOf(e)}] \in VisitorSession
      BY <1>0, <2>1, SessionUpdates, SessionReads
    <3>2. [c EXCEPT !.queue = @ \cup {QueueEventOf(e)}, !.candidate = TRUE]
            \in VisitorSession
      BY <3>1, SessionUpdates
    <3>3. [c EXCEPT !.queue = @ \cup {QueueEventOf(e)}, !.candidate = TRUE,
                    !.zones = @ \cup {z}] \in VisitorSession
      BY <1>0, <2>1, <3>2, SessionUpdates, SessionReads
    <3>4. QED
      BY <1>0, <3>3, SessionUpdates, SessionReads
  <2>3. s.visitor = e.visitor /\ IsOpen(s) /\ s.reentry = c.reentry /\ s.start = c.start
    BY <1>0, <2>1 DEF VisitorSession, IsOpen
  <2>4. Tallied(e, s, c)
    BY <1>0, <1>8 DEF HandleQueueJoin, VisitorSession, Tallied
  <2>5. Enriches(e, s)
    BY <1>8, <2>2, <2>3, <2>4 DEF HandleQueueJoin, Enriches, Counted, SameCounts, c
  <2>6. QED
    BY <2>5
<1>9. CASE HandleQueueAbandon(e)
  <2> DEFINE s == [c EXCEPT !.queue = @ \cup {QueueEventOf(e)}, !.count = @ + 1]
  <2>1. QueueEventOf(e) \in QueueEvent
    BY <1>9, EventFields DEF HandleQueueAbandon, QueueEventOf, QueueEvent, Time
  <2>2. s \in VisitorSession
    <3>1. [c EXCEPT !.queue = @ \cup {QueueEventOf(e)}] \in VisitorSession
      BY <1>0, <2>1, SessionUpdates, SessionReads
    <3>2. QED
      BY <1>0, <3>1, SessionUpdates, SessionReads
  <2>3. s.visitor = e.visitor /\ IsOpen(s) /\ s.reentry = c.reentry /\ s.start = c.start
    BY <1>0, <2>1 DEF VisitorSession, IsOpen
  <2>4. Tallied(e, s, c)
    BY <1>0, <1>9 DEF HandleQueueAbandon, VisitorSession, Tallied
  <2>5. Enriches(e, s)
    BY <1>9, <2>2, <2>3, <2>4 DEF HandleQueueAbandon, Enriches, Counted, SameCounts, c
  <2>6. QED
    BY <2>5
<1>10. QED
  BY <1>1, <1>2, <1>3, <1>4, <1>5, <1>6, <1>7, <1>8, <1>9 DEF ProcessEvent

-----------------------------------------------------------------------------

\* s has counted what c has.
SameTally(s, c) == s.dwell = c.dwell /\ s.queue = c.queue /\ s.count = c.count

\* What a shape does, session by session: the visitor's session at p becomes s.
\* Either p is its open session or a new position; in the latter case, the open
\* session, if any, ends.
Placed(e, s, p) ==
  /\ s \in VisitorSession
  /\ s.visitor = e.visitor
  /\ p \in Nat \ {None}
  /\ p \in Index => p = active[e.visitor]
  /\ \A i \in Index : sessions[i].visitor = e.visitor => i <= p
  /\ sessions' \in Seq(VisitorSession)
  /\ Index' = Index \cup {p}
  /\ sessions'[p] = s
  /\ \A i \in Index \ {p} :
       /\ sessions'[i].visitor = sessions[i].visitor
       /\ sessions'[i].reentry = sessions[i].reentry
       /\ SameTally(sessions'[i], sessions[i])
       /\ i # active[e.visitor] => sessions'[i] = sessions[i]
       /\ i = active[e.visitor] => ~IsOpen(sessions'[i])
  /\ active' = [active EXCEPT ![e.visitor] = IF IsOpen(s) THEN p ELSE None]
  /\ Counted(e, s, IF p \in Index THEN sessions[p].reentry ELSE 0)
  /\ Tallied(e, s, IF p \in Index THEN sessions[p] ELSE NewSession(e, 0, 0))

LEMMA ClosedSessions ==
  ASSUME NEW e \in Event, SessionInv
  PROVE  /\ Closed(e) \in Seq(VisitorSession)
         /\ Len(Closed(e)) = Len(sessions)
         /\ \A i \in Index :
              /\ Closed(e)[i].visitor = sessions[i].visitor
              /\ Closed(e)[i].reentry = sessions[i].reentry
              /\ SameTally(Closed(e)[i], sessions[i])
              /\ i # active[e.visitor] => Closed(e)[i] = sessions[i]
              /\ i = active[e.visitor] => ~IsOpen(Closed(e)[i])
              /\ Closed(e)[i].start = sessions[i].start
              /\ i = active[e.visitor] => Closed(e)[i].end = e.time
<1> DEFINE a == active[e.visitor]
           c == sessions[a]
           s == [c EXCEPT !.end = e.time]
<1>0. sessions \in Seq(VisitorSession) /\ Index = 1 .. Len(sessions)
  BY DEF SessionInv, SessionTypeOK, Index
<1>1. CASE a = None
  BY <1>0, <1>1 DEF Closed, None, SameTally
<1>2. CASE a # None
  <2>1. a \in Index /\ c \in VisitorSession
    BY <1>0, <1>2, EventFields DEF SessionInv, ActiveMatchesOpen, ActiveIsOpen
  <2>2. s \in VisitorSession
    BY <2>1, EventFields, SessionUpdates DEF Time
  <2>3. s.visitor = c.visitor /\ s.reentry = c.reentry /\ s.end = e.time /\ SameTally(s, c)
       /\ s.start = c.start
    BY <2>1 DEF VisitorSession, SameTally
  <2>4. ~IsOpen(s)
    BY <2>3, EventFields, SessionizerAssumption DEF IsOpen
  <2>5. Closed(e) = [sessions EXCEPT ![a] = s]
    BY <1>2 DEF Closed
  <2> HIDE DEF a, c, s
  <2>6. /\ Closed(e) \in Seq(VisitorSession)
        /\ Len(Closed(e)) = Len(sessions)
        /\ \A i \in Index : Closed(e)[i] = IF i = a THEN s ELSE sessions[i]
    BY <1>0, <2>1, <2>2, <2>5, ExceptSeq
  <2>7. QED
    BY <2>3, <2>4, <2>6 DEF a, c, SameTally
<1>3. QED
  BY <1>1, <1>2

LEMMA AddPlaces ==
  ASSUME NEW e \in Event, NEW s \in VisitorSession, NEW p, SessionInv,
         p = Len(sessions) + 1,
         s.visitor = e.visitor,
         sessions' = Append(Closed(e), s),
         active' = [active EXCEPT ![e.visitor] = IF IsOpen(s) THEN p ELSE None],
         Counted(e, s, 0),
         Tallied(e, s, NewSession(e, 0, 0))
  PROVE  Placed(e, s, p)
<1>1. sessions \in Seq(VisitorSession) /\ Index = 1 .. Len(sessions) /\ Len(sessions) \in Nat
  BY DEF SessionInv, SessionTypeOK, Index
<1>2. p \in Nat \ {None} /\ p \notin Index
  BY <1>1 DEF None
<1>3. /\ sessions' \in Seq(VisitorSession)
      /\ Index' = Index \cup {p}
      /\ sessions'[p] = s
      /\ \A i \in Index : sessions'[i] = Closed(e)[i]
  <2>1. Closed(e) \in Seq(VisitorSession) /\ Len(Closed(e)) = Len(sessions)
    BY ClosedSessions
  <2>2. /\ sessions' \in Seq(VisitorSession)
        /\ Len(sessions') = p
        /\ sessions'[p] = s
        /\ \A i \in Index : sessions'[i] = Closed(e)[i]
    BY <1>1, <2>1, AppendProperties
  <2>3. Index' = 1 .. Len(sessions')
    BY <2>2 DEF Index
  <2>4. QED
    BY <1>1, <2>2, <2>3
<1>4. \A i \in Index : i <= p
  BY <1>1
<1>5. \A i \in Index \ {p} :
        /\ sessions'[i].visitor = sessions[i].visitor
        /\ sessions'[i].reentry = sessions[i].reentry
        /\ SameTally(sessions'[i], sessions[i])
        /\ i # active[e.visitor] => sessions'[i] = sessions[i]
        /\ i = active[e.visitor] => ~IsOpen(sessions'[i])
  <2> DEFINE C == Closed(e)
  <2>1. \A i \in Index :
          /\ C[i].visitor = sessions[i].visitor
          /\ C[i].reentry = sessions[i].reentry
          /\ SameTally(C[i], sessions[i])
          /\ i # active[e.visitor] => C[i] = sessions[i]
          /\ i = active[e.visitor] => ~IsOpen(C[i])
    BY ClosedSessions
  <2>2. \A i \in Index : sessions'[i] = C[i]
    BY <1>3
  <2> HIDE DEF C
  <2>3. QED
    BY <2>1, <2>2
<1>6. /\ Counted(e, s, IF p \in Index THEN sessions[p].reentry ELSE 0)
      /\ Tallied(e, s, IF p \in Index THEN sessions[p] ELSE NewSession(e, 0, 0))
  BY <1>2
<1>7. QED
  BY <1>2, <1>3, <1>4, <1>5, <1>6 DEF Placed

LEMMA UpdatePlaces ==
  ASSUME NEW e \in Event, NEW s \in VisitorSession, NEW p, SessionInv,
         p = active[e.visitor],
         p # None,
         s.visitor = e.visitor,
         sessions' = [sessions EXCEPT ![p] = s],
         active' = [active EXCEPT ![e.visitor] = IF IsOpen(s) THEN p ELSE None],
         Counted(e, s, sessions[p].reentry),
         Tallied(e, s, sessions[p])
  PROVE  Placed(e, s, p)
<1>1. sessions \in Seq(VisitorSession) /\ Index = 1 .. Len(sessions)
  BY DEF SessionInv, SessionTypeOK, Index
<1>2. /\ p \in Index
      /\ p \in Nat
      /\ \A i \in Index : sessions[i].visitor = e.visitor => i <= p
  BY <1>1, EventFields
     DEF SessionInv, ActiveMatchesOpen, ActiveIsOpen, LatestIsActive
<1>3. /\ sessions' \in Seq(VisitorSession)
      /\ Len(sessions') = Len(sessions)
      /\ \A i \in Index : sessions'[i] = IF i = p THEN s ELSE sessions[i]
  BY <1>1, <1>2, ExceptSeq
<1>4. Index' = Index \cup {p}
  BY <1>1, <1>2, <1>3 DEF Index
<1>5. QED
  BY <1>2, <1>3, <1>4 DEF Placed, SameTally

\* The step of every handler, session by session.
LEMMA HandlerPlaces ==
  ASSUME NEW e \in Event, SessionInv, ProcessEvent(e)
  PROVE  \E s, p : Placed(e, s, p)
<1> DEFINE a == active[e.visitor]
           n == Len(sessions) + 1
<1>1. PICK s : Enriches(e, s) \/ Replaces(e, s) \/ Closes(e, s) \/ AddsStub(e, s)
  BY HandlerShapes
<1>2. active \in [Visitors -> Nat] /\ e.visitor \in Visitors
  BY EventFields DEF SessionInv, SessionTypeOK
<1>3. CASE Enriches(e, s) /\ a = None
  <2>1. /\ sessions' = Append(Closed(e), s)
        /\ active' = [active EXCEPT ![e.visitor] = n]
        /\ CurrentSession(e).reentry = 0
        /\ CurrentSession(e) = NewSession(e, 0, 0)
    BY <1>3 DEF Enriches, Enrich, PutActive, Closed, CurrentSession, NewSession
  <2>2. Placed(e, s, n)
    BY <1>3, <2>1, AddPlaces DEF Enriches
  <2>3. QED
    BY <2>2
<1>4. CASE Enriches(e, s) /\ a # None
  <2>1. sessions' = [sessions EXCEPT ![a] = s] /\ active' = active
    BY <1>4 DEF Enriches, Enrich
  <2>2. active' = [active EXCEPT ![e.visitor] = a]
    BY <1>2, <2>1
  <2>3. CurrentSession(e) = sessions[a]
    BY <1>4 DEF CurrentSession
  <2>4. Placed(e, s, a)
    BY <1>4, <2>1, <2>2, <2>3, UpdatePlaces DEF Enriches
  <2>5. QED
    BY <2>4
<1>5. CASE Replaces(e, s)
  <2>1. /\ sessions' = Append(Closed(e), s)
        /\ active' = [active EXCEPT ![e.visitor] = n]
    BY <1>5, ClosedSessions DEF Replaces, PutActive
  <2>2. Placed(e, s, n)
    BY <1>5, <2>1, AddPlaces DEF Replaces, Counted
  <2>3. QED
    BY <2>2
<1>6. CASE Closes(e, s)
  <2>1. CurrentSession(e) = sessions[a]
    BY <1>6 DEF Closes, CurrentSession
  <2>2. Placed(e, s, a)
    BY <1>6, <2>1, UpdatePlaces DEF Closes, Counted
  <2>3. QED
    BY <2>2
<1>7. CASE AddsStub(e, s)
  <2>1. /\ sessions' = Append(Closed(e), s)
        /\ active' = [active EXCEPT ![e.visitor] = None]
    BY <1>2, <1>7 DEF AddsStub, Closed
  <2>2. Placed(e, s, n)
    BY <1>7, <2>1, AddPlaces DEF AddsStub, Counted
  <2>3. QED
    BY <2>2
<1>8. QED
  BY <1>1, <1>3, <1>4, <1>5, <1>6, <1>7

-----------------------------------------------------------------------------

\* What a handler does to the starts and ends of the sessions: one begins at p,
\* and one ends at x; each may be None.
Visits(e, p, x) ==
  /\ \A i \in Index : /\ i \in Index'
                      /\ sessions'[i].visitor = sessions[i].visitor
                      /\ sessions'[i].start = sessions[i].start
  /\ \/ p = None /\ Index' = Index /\ e.type # "ENTRY"
     \/ /\ p # None /\ p \notin Index /\ Index' = Index \cup {p}
        /\ sessions'[p].visitor = e.visitor
        /\ sessions'[p].start = e.time
  /\ \/ x = None /\ e.type # "EXIT"
     \/ /\ x \in Index' /\ e.type \in {"EXIT", "ENTRY"}
        /\ sessions'[x].visitor = e.visitor
        /\ sessions'[x].end = e.time
        /\ x \in Index => sessions[x].end = NoTime
  /\ \A i \in Index' \ {x} :
       sessions'[i].end = IF i \in Index THEN sessions[i].end ELSE NoTime

\* s is added at p, and the open session of e's visitor, if any, ends.
SessionAdded(e, s, p) ==
  /\ p \notin Index /\ p # None /\ Index' = Index \cup {p} /\ sessions'[p] = s
  /\ \A i \in Index :
       /\ sessions'[i].visitor = sessions[i].visitor
       /\ sessions'[i].start = sessions[i].start
       /\ i # active[e.visitor] => sessions'[i] = sessions[i]
       /\ i = active[e.visitor] => sessions'[i].end = e.time

\* s takes the place of the open session at a.
SessionUpdated(s, a) ==
  /\ a \in Index /\ Index' = Index /\ sessions'[a] = s /\ sessions[a].end = NoTime
  /\ \A i \in Index : /\ sessions'[i].visitor = sessions[i].visitor
                      /\ sessions'[i].start = sessions[i].start
                      /\ i # a => sessions'[i] = sessions[i]

LEMMA AddVisits ==
  ASSUME NEW e \in Event, NEW s \in VisitorSession, NEW p, SessionInv,
         p = Len(sessions) + 1,
         s.visitor = e.visitor, s.start = e.time,
         sessions' = Append(Closed(e), s)
  PROVE  SessionAdded(e, s, p)
<1>1. sessions \in Seq(VisitorSession) /\ Index = 1 .. Len(sessions) /\ Len(sessions) \in Nat
  BY DEF SessionInv, SessionTypeOK, Index
<1>2. Closed(e) \in Seq(VisitorSession) /\ Len(Closed(e)) = Len(sessions)
  BY ClosedSessions
<1>3. /\ Len(sessions') = p
      /\ sessions' \in Seq(VisitorSession)
      /\ sessions'[p] = s
      /\ \A i \in Index : sessions'[i] = Closed(e)[i]
  BY <1>1, <1>2, AppendProperties
<1>4. Index' = 1 .. p
  BY <1>3 DEF Index
<1>5. p \notin Index /\ p # None /\ Index' = Index \cup {p}
  BY <1>1, <1>4 DEF None
<1>6. \A i \in Index :
        /\ Closed(e)[i].visitor = sessions[i].visitor
        /\ Closed(e)[i].start = sessions[i].start
        /\ i # active[e.visitor] => Closed(e)[i] = sessions[i]
        /\ i = active[e.visitor] => Closed(e)[i].end = e.time
  BY ClosedSessions
<1>7. QED
  BY <1>3, <1>5, <1>6 DEF SessionAdded

LEMMA UpdateVisits ==
  ASSUME NEW e \in Event, NEW s \in VisitorSession, NEW a, SessionInv,
         a = active[e.visitor], a # None,
         s.visitor = e.visitor, s.start = sessions[a].start,
         sessions' = [sessions EXCEPT ![a] = s]
  PROVE  SessionUpdated(s, a)
<1>1. /\ a \in Index
      /\ sessions[a].visitor = e.visitor
      /\ sessions[a].end = NoTime
  BY EventFields DEF SessionInv, ActiveMatchesOpen, ActiveIsOpen, IsOpen
<1>2. \A i \in Index : sessions'[i] = IF i = a THEN s ELSE sessions[i]
  BY <1>1 DEF Index
<1>3. Index' = Index
  BY DEF Index
<1>4. QED
  BY <1>1, <1>2, <1>3 DEF SessionUpdated

\* Every ENTRY begins a session and every EXIT ends one; nothing but an ENTRY or an
\* EXIT ends one.
LEMMA HandlerVisits ==
  ASSUME NEW e \in Event, SessionInv, ProcessEvent(e)
  PROVE  \E p, x : Visits(e, p, x)
<1> DEFINE a == active[e.visitor]
           n == Len(sessions) + 1
<1>1. PICK s : Enriches(e, s) \/ Replaces(e, s) \/ Closes(e, s) \/ AddsStub(e, s)
  BY HandlerShapes
<1>2. /\ None \notin Index
      /\ a # None => a \in Index /\ sessions[a].end = NoTime /\ sessions[a].visitor = e.visitor
  BY EventFields
     DEF SessionInv, SessionTypeOK, ActiveMatchesOpen, ActiveIsOpen, IsOpen, Index, None
<1>3. CASE Enriches(e, s) /\ a = None
  <2>1. /\ s \in VisitorSession /\ s.visitor = e.visitor /\ s.end = NoTime
        /\ e.type \notin {"ENTRY", "EXIT"}
        /\ s.start = e.time
        /\ sessions' = Append(Closed(e), s)
    BY <1>3 DEF Enriches, Enrich, PutActive, Closed, CurrentSession, NewSession, IsOpen
  <2>2. SessionAdded(e, s, n)
    BY <2>1, AddVisits
  <2> HIDE DEF n
  <2>3. \A i \in Index : i # a
    BY <1>2, <1>3
  <2>4. \A i \in Index' \ {None} :
          sessions'[i].end = IF i \in Index THEN sessions[i].end ELSE NoTime
    BY <2>1, <2>2, <2>3 DEF SessionAdded, SessionUpdated
  <2>5. Visits(e, n, None)
    BY <2>1, <2>2, <2>4 DEF Visits, SessionAdded, SessionUpdated
  <2>6. QED
    BY <2>5
<1>4. CASE Enriches(e, s) /\ a # None
  <2>1. /\ s \in VisitorSession /\ s.visitor = e.visitor /\ s.end = NoTime
        /\ e.type \notin {"ENTRY", "EXIT"}
        /\ s.start = sessions[a].start
        /\ sessions' = [sessions EXCEPT ![a] = s]
    BY <1>4 DEF Enriches, Enrich, CurrentSession, IsOpen
  <2>2. SessionUpdated(s, a)
    BY <1>4, <2>1, UpdateVisits
  <2> HIDE DEF n
  <2>3. \A i \in Index' \ {None} :
          sessions'[i].end = IF i \in Index THEN sessions[i].end ELSE NoTime
    <3>1. ASSUME NEW i \in Index, i = a
          PROVE  sessions'[i].end = sessions[i].end
      BY <1>2, <1>4, <2>1, <2>2, <3>1 DEF SessionAdded, SessionUpdated
    <3>2. ASSUME NEW i \in Index, i # a
          PROVE  sessions'[i].end = sessions[i].end
      BY <2>2, <3>2 DEF SessionAdded, SessionUpdated
    <3>3. QED
      BY <2>2, <3>1, <3>2 DEF SessionAdded, SessionUpdated
  <2>4. e.type # "ENTRY" /\ e.type # "EXIT"
    BY <2>1
  <2>5. Visits(e, None, None)
    BY <2>2, <2>3, <2>4 DEF Visits, SessionAdded, SessionUpdated
  <2>6. QED
    BY <2>5
<1>5. CASE Replaces(e, s)
  <2>1. /\ s \in VisitorSession /\ s.visitor = e.visitor /\ s.end = NoTime
        /\ e.type = "ENTRY"
        /\ s.start = e.time
        /\ sessions' = Append(Closed(e), s)
    BY <1>5 DEF Replaces, PutActive, IsOpen
  <2>2. SessionAdded(e, s, n)
    BY <2>1, AddVisits
  <2> HIDE DEF n
  <2>3. \A i \in Index' \ {a} :
          sessions'[i].end = IF i \in Index THEN sessions[i].end ELSE NoTime
    BY <2>1, <2>2 DEF SessionAdded, SessionUpdated
  <2>4. \/ a = None
        \/ /\ a \in Index' /\ sessions'[a].visitor = e.visitor
           /\ sessions'[a].end = e.time /\ sessions[a].end = NoTime
    BY <1>2, <2>2 DEF SessionAdded, SessionUpdated
  <2>5. e.type \in {"ENTRY", "EXIT"} /\ e.type # "EXIT"
    BY <2>1
  <2>6. Visits(e, n, a)
    BY <2>1, <2>2, <2>3, <2>4, <2>5 DEF Visits, SessionAdded, SessionUpdated
  <2>7. QED
    BY <2>6
<1>6. CASE Closes(e, s)
  <2>1. /\ s \in VisitorSession /\ s.visitor = e.visitor /\ s.end = e.time
        /\ e.type = "EXIT" /\ a # None
        /\ s.start = sessions[a].start
        /\ sessions' = [sessions EXCEPT ![a] = s]
    BY <1>6 DEF Closes, CurrentSession
  <2>2. SessionUpdated(s, a)
    BY <2>1, UpdateVisits
  <2> HIDE DEF n
  <2>3. \A i \in Index' \ {a} :
          sessions'[i].end = IF i \in Index THEN sessions[i].end ELSE NoTime
    BY <2>2 DEF SessionAdded, SessionUpdated
  <2>4. /\ a \in Index' /\ sessions'[a].visitor = e.visitor
        /\ sessions'[a].end = e.time /\ sessions[a].end = NoTime
        /\ e.type \in {"ENTRY", "EXIT"} /\ e.type # "ENTRY"
    BY <2>1, <2>2 DEF SessionAdded, SessionUpdated
  <2>5. Visits(e, None, a)
    BY <2>2, <2>3, <2>4 DEF Visits, SessionAdded, SessionUpdated
  <2>6. QED
    BY <2>5
<1>7. CASE AddsStub(e, s)
  <2>1. /\ s \in VisitorSession /\ s.visitor = e.visitor /\ s.end = e.time
        /\ e.type = "EXIT" /\ a = None
        /\ s.start = e.time
        /\ sessions' = Append(Closed(e), s)
    BY <1>7 DEF AddsStub, Closed
  <2>2. SessionAdded(e, s, n)
    BY <2>1, AddVisits
  <2> HIDE DEF n
  <2>3. Visits(e, n, n)
    BY <1>2, <2>1, <2>2 DEF Visits, SessionAdded, SessionUpdated
  <2>4. QED
    BY <2>3
<1>8. QED
  BY <1>1, <1>3, <1>4, <1>5, <1>6, <1>7

-----------------------------------------------------------------------------

\* The re-entry counts of the sessions, of one list against the ledger.
LedgerInv == SessionInv /\ ReentryLedger /\ ReentryOrdered

\* The store's invariants hold before any event.
LEMMA SessionInitInv ==
  SessionInit => LedgerInv
  BY EmptySeq
     DEF SessionInit, LedgerInv, SessionInv, SessionTypeOK, ActiveMatchesOpen,
         ActiveIsOpen, NoOrphanSession, LatestIsActive, ReentryLedger,
         ReentryBounded, ReentryRecorded, ReentryOrdered, Index, None

\* Every handler keeps the store consistent.
LEMMA PlacedKeepsSessionInv ==
  ASSUME NEW e \in Event, NEW s, NEW p, SessionInv, Placed(e, s, p)
  PROVE  SessionInv'
<1> DEFINE v == e.visitor
<1>0. /\ v \in Visitors
      /\ active \in [Visitors -> Nat]
      /\ reentryCounts \in [Visitors -> Nat]
      /\ Index \subseteq Nat \ {None}
  BY EventFields DEF SessionInv, SessionTypeOK, Index, None
<1>1. \A w \in Visitors :
        active'[w] = IF w = v THEN (IF IsOpen(s) THEN p ELSE None) ELSE active[w]
  BY <1>0 DEF Placed
<1>2. \A i \in Index \ {p} :
        sessions'[i].visitor = sessions[i].visitor
  BY DEF Placed
<1>3. SessionTypeOK'
  <2>1. active' \in [Visitors -> Nat]
    BY <1>0 DEF Placed, None
  <2>2. \/ reentryCounts' = reentryCounts
        \/ reentryCounts' = [reentryCounts EXCEPT ![v] = reentryCounts[v] + 1]
    <3>1. \E r : Counted(e, s, r)
      BY DEF Placed
    <3>2. QED
      BY <3>1 DEF Counted, SameCounts
  <2>3. reentryCounts[v] + 1 \in Nat
    BY <1>0
  <2>4. reentryCounts' \in [Visitors -> Nat]
    BY <1>0, <2>2, <2>3
  <2>5. QED
    BY <2>1, <2>4 DEF SessionTypeOK, Placed
<1>4. ActiveIsOpen'
  <2> SUFFICES ASSUME NEW w \in Visitors, active'[w] # None
               PROVE  /\ active'[w] \in Index'
                      /\ sessions'[active'[w]].visitor = w
                      /\ IsOpen(sessions'[active'[w]])
    BY DEF ActiveIsOpen, IsOpen
  <2>1. CASE w = v
    BY <1>0, <1>1, <2>1 DEF Placed
  <2>2. CASE w # v
    <3>1. active'[w] = active[w]
      BY <1>1, <2>2
    <3>2. /\ active[w] \in Index
          /\ sessions[active[w]].visitor = w
          /\ IsOpen(sessions[active[w]])
      BY <3>1 DEF SessionInv, ActiveMatchesOpen, ActiveIsOpen
    <3>3. active[w] # active[v]
      BY <1>0, <2>2, <3>1, <3>2 DEF SessionInv, ActiveMatchesOpen, ActiveIsOpen
    <3>4. active[w] # p
      BY <3>2, <3>3 DEF Placed
    <3>5. sessions'[active[w]] = sessions[active[w]]
      BY <3>2, <3>3, <3>4 DEF Placed
    <3>6. QED
      BY <3>1, <3>2, <3>5 DEF Placed
  <2>3. QED
    BY <2>1, <2>2
<1>5. NoOrphanSession'
  <2> SUFFICES ASSUME NEW i \in Index', IsOpen(sessions'[i])
               PROVE  active'[sessions'[i].visitor] = i
    BY DEF NoOrphanSession, IsOpen
  <2>1. CASE i = p
    BY <1>0, <1>1, <2>1 DEF Placed
  <2>2. CASE i # p
    <3>1. i \in Index /\ i # active[v] /\ sessions'[i] = sessions[i]
      BY <2>2 DEF Placed
    <3>2. IsOpen(sessions[i])
      BY <3>1
    <3>3. active[sessions[i].visitor] = i
      BY <3>1, <3>2 DEF SessionInv, ActiveMatchesOpen, NoOrphanSession
    <3>4. sessions[i].visitor \in Visitors
      <4>1. sessions[i] \in VisitorSession
        BY <3>1 DEF SessionInv, SessionTypeOK, Index
      <4>2. QED
        BY <4>1 DEF VisitorSession
    <3>5. sessions[i].visitor # v
      BY <3>1, <3>3
    <3>6. QED
      BY <1>1, <3>1, <3>3, <3>4, <3>5
  <2>3. QED
    BY <2>1, <2>2
<1>6. LatestIsActive'
  <2> SUFFICES ASSUME NEW w \in Visitors, active'[w] # None,
                      NEW i \in Index', sessions'[i].visitor = w
               PROVE  i <= active'[w]
    BY DEF LatestIsActive
  <2>1. CASE w = v
    <3>1. active'[w] = p
      BY <1>1, <2>1
    <3>2. i # p => i \in Index /\ sessions[i].visitor = v
      BY <1>2, <2>1 DEF Placed
    <3>3. QED
      BY <3>1, <3>2 DEF Placed
  <2>2. CASE w # v
    <3>1. active'[w] = active[w] /\ i # p
      BY <1>1, <2>2 DEF Placed
    <3>2. i \in Index /\ sessions[i].visitor = w
      BY <1>2, <3>1 DEF Placed
    <3>3. QED
      BY <3>1, <3>2 DEF SessionInv, LatestIsActive
  <2>3. QED
    BY <2>1, <2>2
<1>7. QED
  BY <1>3, <1>4, <1>5, <1>6 DEF SessionInv, ActiveMatchesOpen

\* Every handler keeps the re-entry counts of the sessions and the ledger in
\* step.
LEMMA PlacedKeepsLedger ==
  ASSUME NEW e \in Event, NEW s, NEW p, LedgerInv, Placed(e, s, p)
  PROVE  ReentryLedger' /\ ReentryOrdered'
<1> DEFINE v == e.visitor
           r == IF p \in Index THEN sessions[p].reentry ELSE 0
<1>0. /\ v \in Visitors
      /\ reentryCounts \in [Visitors -> Nat]
      /\ Index \subseteq Nat
      /\ \A i \in Index : sessions[i].visitor \in Visitors /\ sessions[i].reentry \in Nat
      /\ p \in Nat
      /\ Index' = Index \cup {p}
      /\ sessions'[p].visitor = v
      /\ sessions'[p].reentry = s.reentry
  <2>1. v \in Visitors
    BY EventFields
  <2>2. /\ reentryCounts \in [Visitors -> Nat]
        /\ Index \subseteq Nat
        /\ \A i \in Index : sessions[i] \in VisitorSession
    BY DEF LedgerInv, SessionInv, SessionTypeOK, Index
  <2>3. \A i \in Index : sessions[i].visitor \in Visitors /\ sessions[i].reentry \in Nat
    BY <2>2 DEF VisitorSession
  <2>4. /\ p \in Nat
        /\ Index' = Index \cup {p}
        /\ sessions'[p].visitor = v
        /\ sessions'[p].reentry = s.reentry
    BY DEF Placed
  <2>5. QED
    BY <2>1, <2>2, <2>3, <2>4
<1>1. \A i \in Index \ {p} : /\ sessions'[i].visitor = sessions[i].visitor
                             /\ sessions'[i].reentry = sessions[i].reentry
  BY DEF Placed
<1>2. p \in Index => sessions[p].visitor = v
  BY <1>0 DEF Placed, LedgerInv, SessionInv, ActiveMatchesOpen, ActiveIsOpen
<1>3. r \in Nat /\ r <= reentryCounts[v]
  BY <1>0, <1>2 DEF LedgerInv, ReentryLedger, ReentryBounded
<1>4. \A i \in Index : sessions[i].visitor = v => i <= p
  BY DEF Placed
<1>5. \A i \in Index : sessions[i].reentry <= reentryCounts[sessions[i].visitor]
  BY DEF LedgerInv, ReentryLedger, ReentryBounded
<1>6. \A w \in Visitors : reentryCounts[w] > 0 =>
        \E i \in Index : sessions[i].visitor = w /\ sessions[i].reentry = reentryCounts[w]
  BY DEF LedgerInv, ReentryLedger, ReentryRecorded
<1>7. \A i, j \in Index :
        /\ i < j
        /\ sessions[i].visitor = sessions[j].visitor
        /\ sessions[i].reentry > 0
        /\ sessions[j].reentry > 0
        => sessions[i].reentry < sessions[j].reentry
  BY DEF LedgerInv, ReentryOrdered
<1>8. Counted(e, s, r)
  BY DEF Placed
<1> HIDE DEF r
<1>9. /\ s.reentry \in Nat
      /\ s.reentry <= reentryCounts'[v]
      /\ \A w \in Visitors \ {v} : reentryCounts'[w] = reentryCounts[w]
      /\ reentryCounts[v] <= reentryCounts'[v]
      /\ reentryCounts'[v] \in Nat
      /\ \/ s.reentry = r /\ reentryCounts'[v] = reentryCounts[v]
         \/ s.reentry = reentryCounts'[v] /\ s.reentry > reentryCounts[v]
  BY <1>0, <1>3, <1>8 DEF Counted, SameCounts
<1>10. ReentryBounded'
  BY <1>0, <1>1, <1>5, <1>9 DEF ReentryBounded
<1>11. ReentryRecorded'
  <2> SUFFICES ASSUME NEW w \in Visitors, reentryCounts'[w] > 0
               PROVE  \E i \in Index' : /\ sessions'[i].visitor = w
                                        /\ sessions'[i].reentry = reentryCounts'[w]
    BY DEF ReentryRecorded
  <2>1. CASE w = v /\ s.reentry = reentryCounts'[v]
    BY <1>0, <2>1
  <2>2. CASE ~(w = v /\ s.reentry = reentryCounts'[v])
    <3>1. reentryCounts'[w] = reentryCounts[w]
      BY <1>9, <2>2
    <3>2. PICK i \in Index : sessions[i].visitor = w /\ sessions[i].reentry = reentryCounts[w]
      BY <1>6, <3>1
    <3>3. i # p
      <4> SUFFICES ASSUME i = p
                   PROVE  FALSE
        OBVIOUS
      <4>1. p \in Index /\ w = v
        BY <1>2, <3>2
      <4>2. r = reentryCounts[v]
        BY <3>2, <4>1 DEF r
      <4>3. QED
        BY <1>9, <2>2, <3>1, <4>1, <4>2
    <3>4. QED
      BY <1>0, <1>1, <3>1, <3>2, <3>3
  <2>3. QED
    BY <2>1, <2>2
<1>12. ReentryOrdered'
  <2> SUFFICES ASSUME NEW i \in Index', NEW j \in Index', i < j,
                      sessions'[i].visitor = sessions'[j].visitor,
                      sessions'[i].reentry > 0,
                      sessions'[j].reentry > 0
               PROVE  sessions'[i].reentry < sessions'[j].reentry
    BY DEF ReentryOrdered
  <2>1. CASE i # p /\ j # p
    BY <1>0, <1>1, <1>7, <2>1
  <2>2. CASE i = p
    BY <1>0, <1>1, <1>4, <2>2
  <2>3. CASE i # p /\ j = p
    <3>1. /\ i \in Index
          /\ sessions[i].visitor = v
          /\ sessions'[i].reentry = sessions[i].reentry
          /\ sessions[i].reentry <= reentryCounts[v]
      BY <1>0, <1>1, <1>5, <2>3
    <3>2. CASE s.reentry = r
      <4>1. p \in Index /\ r = sessions[p].reentry
        BY <1>0, <2>3, <3>2 DEF r
      <4>2. QED
        BY <1>0, <1>2, <1>7, <2>3, <3>1, <3>2, <4>1
    <3>3. CASE s.reentry > reentryCounts[v]
      BY <1>0, <1>9, <2>3, <3>1, <3>3
    <3>4. QED
      BY <1>9, <3>2, <3>3
  <2>4. QED
    BY <2>1, <2>2, <2>3
<1>13. QED
  BY <1>10, <1>11, <1>12 DEF ReentryLedger

\* No handler touches a session that has ended.
LEMMA PlacedFreezesClosed ==
  ASSUME NEW e \in Event, NEW s, NEW p, SessionInv, Placed(e, s, p),
         NEW i \in Index, ~IsOpen(sessions[i])
  PROVE  i \in Index' /\ sessions'[i] = sessions[i]
<1>1. active[e.visitor] # i
  <2> SUFFICES ASSUME active[e.visitor] = i
               PROVE  FALSE
    OBVIOUS
  <2>1. i # None
    BY DEF SessionInv, SessionTypeOK, Index, None
  <2>2. QED
    BY <2>1, EventFields DEF SessionInv, ActiveMatchesOpen, ActiveIsOpen
<1>2. QED
  BY <1>1 DEF Placed

-----------------------------------------------------------------------------
(***************************************************************************)
(* Sums over finite sets of natural numbers, as sizes of disjoint unions:  *)
(* no recursion, so that what a step does to a sum is what it does to a    *)
(* set.                                                                    *)
(***************************************************************************)

\* The units of a finite set of naturals.
LEMMA UnitsFinite ==
  ASSUME NEW f, NEW S, IsFiniteSet(S), \A i \in S : f[i] \in Nat
  PROVE  IsFiniteSet(Units(f, S))
<1> DEFINE B == {{i} \X (1 .. f[i]) : i \in S}
           g == [i \in S |-> {i} \X (1 .. f[i])]
<1>1. g \in Surjection(S, B)
  BY DEF Surjection
<1>2. IsFiniteSet(B)
  BY <1>1, FS_Surjection
<1>3. \A i \in S : IsFiniteSet({i} \X (1 .. f[i]))
  <2> SUFFICES ASSUME NEW i \in S
               PROVE  IsFiniteSet({i} \X (1 .. f[i]))
    OBVIOUS
  <2>1. IsFiniteSet({i})
    BY FS_Singleton
  <2>2. IsFiniteSet(1 .. f[i])
    <3>1. 1 \in Int /\ f[i] \in Int
      OBVIOUS
    <3>2. QED
      BY <3>1, FS_Interval
  <2>3. QED
    BY <2>1, <2>2, FS_Product
<1>4. \A T \in B : IsFiniteSet(T)
  BY <1>3
<1> HIDE DEF B
<1>5. IsFiniteSet(UNION B)
  BY <1>2, <1>4, FS_UNION
<1>6. QED
  BY <1>5 DEF Units, B

LEMMA SumType ==
  ASSUME NEW f, NEW S, IsFiniteSet(S), \A i \in S : f[i] \in Nat
  PROVE  SumOver(f, S) \in Nat
  BY UnitsFinite, FS_CardinalityType DEF SumOver

LEMMA SumEmpty ==
  ASSUME NEW f
  PROVE  SumOver(f, {}) = 0
  BY FS_EmptySet DEF SumOver, Units

LEMMA SumAdd ==
  ASSUME NEW f, NEW S, IsFiniteSet(S), \A i \in S : f[i] \in Nat,
         NEW x, x \notin S, f[x] \in Nat
  PROVE  SumOver(f, S \cup {x}) = SumOver(f, S) + f[x]
<1> DEFINE U == Units(f, S)
           X == {x} \X (1 .. f[x])
<1>1. Units(f, S \cup {x}) = U \cup X
  BY DEF Units
<1>2. IsFiniteSet(U)
  BY UnitsFinite
<1>3. IsFiniteSet(X) /\ Cardinality(X) = f[x]
  <2>1. IsFiniteSet({x}) /\ Cardinality({x}) = 1
    BY FS_Singleton
  <2>2. IsFiniteSet(1 .. f[x]) /\ Cardinality(1 .. f[x]) = f[x]
    BY FS_Interval
  <2>3. IsFiniteSet(X) /\ Cardinality(X) = Cardinality({x}) * Cardinality(1 .. f[x])
    BY <2>1, <2>2, FS_Product
  <2>4. QED
    BY <2>1, <2>2, <2>3
<1>4. U \cap X = {}
  BY DEF Units
<1> HIDE DEF U, X
<1>5. Cardinality(U \cup X) = Cardinality(U) + Cardinality(X) - 0
  BY <1>2, <1>3, <1>4, FS_Union, FS_EmptySet
<1>6. Cardinality(U) \in Nat
  BY <1>2, FS_CardinalityType
<1>7. SumOver(f, S) = Cardinality(U) /\ SumOver(f, S \cup {x}) = Cardinality(U \cup X)
  BY <1>1 DEF SumOver, U
<1>8. QED
  BY <1>3, <1>5, <1>6, <1>7

LEMMA SumSame ==
  ASSUME NEW f, NEW g, NEW S, \A i \in S : f[i] = g[i]
  PROVE  SumOver(f, S) = SumOver(g, S)
<1>1. {{i} \X (1 .. f[i]) : i \in S} = {{i} \X (1 .. g[i]) : i \in S}
  OBVIOUS
<1>2. QED
  BY <1>1 DEF SumOver, Units

\* A sum that gets one more summand.
LEMMA SumExtend ==
  ASSUME NEW f, NEW S, IsFiniteSet(S), \A i \in S : f[i] \in Nat,
         NEW g, NEW x, x \notin S, g[x] \in Nat,
         \A i \in S : g[i] = f[i]
  PROVE  SumOver(g, S \cup {x}) = SumOver(f, S) + g[x]
<1>1. SumOver(g, S \cup {x}) = SumOver(g, S) + g[x]
  BY SumAdd
<1>2. SumOver(g, S) = SumOver(f, S)
  BY SumSame
<1>3. QED
  BY <1>1, <1>2

\* The step of a sum: from f over S to g over T, at x.
LEMMA SumStep ==
  ASSUME NEW f, NEW S, NEW g, NEW T, NEW x,
         IsFiniteSet(S), \A i \in S : f[i] \in Nat,
         x \in T, g[x] \in Nat,
         T = S \cup {x},
         \A i \in S \ {x} : g[i] = f[i]
  PROVE  SumOver(g, T) = SumOver(f, S) + g[x] - (IF x \in S THEN f[x] ELSE 0)
<1> DEFINE R == S \ {x}
<1>1. IsFiniteSet(R)
  BY FS_RemoveElement
<1>2. SumOver(f, R) = SumOver(g, R)
  BY SumSame
<1>3. SumOver(g, R \cup {x}) = SumOver(g, R) + g[x]
  <2>1. \A i \in R : g[i] \in Nat
    OBVIOUS
  <2> HIDE DEF R
  <2>2. x \notin R
    BY DEF R
  <2>3. QED
    BY <1>1, <2>1, <2>2, SumAdd
<1>4. R \cup {x} = T
  OBVIOUS
<1>5. x \in S => SumOver(f, R \cup {x}) = SumOver(f, R) + f[x]
  <2> HAVE x \in S
  <2>1. \A i \in R : f[i] \in Nat
    OBVIOUS
  <2>2. x \notin R /\ f[x] \in Nat
    OBVIOUS
  <2> HIDE DEF R
  <2>3. QED
    BY <1>1, <2>1, <2>2, SumAdd
<1>6. x \in S => R \cup {x} = S
  OBVIOUS
<1>7. x \notin S => R = S
  OBVIOUS
<1>8. SumOver(f, R) \in Nat
  BY <1>1, SumType
<1> HIDE DEF R
<1>9. CASE x \in S
  <2>1. f[x] \in Nat
    BY <1>9
  <2>2. QED
    BY <1>2, <1>3, <1>4, <1>5, <1>6, <1>8, <1>9, <2>1
<1>10. CASE x \notin S
  BY <1>2, <1>3, <1>4, <1>7, <1>8, <1>10
<1>11. QED
  BY <1>9, <1>10

-----------------------------------------------------------------------------
(***************************************************************************)
(* What a handler adds to the dwell of the sessions of a visitor.          *)
(***************************************************************************)

\* The visitor's session at p is among its sessions, nobody else's change.
LEMMA SessionsGrow ==
  ASSUME SessionInv, NEW e \in Event, NEW s, NEW p, Placed(e, s, p)
  PROVE  /\ p \in Index => sessions[p].visitor = e.visitor
         /\ p \in SessionsOf(e.visitor) <=> p \in Index
         /\ SessionsOf(e.visitor)' = SessionsOf(e.visitor) \cup {p}
         /\ \A v : v # e.visitor =>
              /\ SessionsOf(v)' = SessionsOf(v)
              /\ p \notin SessionsOf(v)
         /\ \A v : SessionsOf(v) \subseteq Index
<1>1. p \in Index => sessions[p].visitor = e.visitor
  BY EventFields DEF Placed, SessionInv, ActiveMatchesOpen, ActiveIsOpen
<1>2. /\ Index' = Index \cup {p}
      /\ sessions'[p].visitor = e.visitor
      /\ \A i \in Index \ {p} : sessions'[i].visitor = sessions[i].visitor
  BY DEF Placed
<1>3. QED
  BY <1>1, <1>2 DEF SessionsOf

\* The sessions of a visitor are finitely many, and what is summed are naturals.
LEMMA SessionsFinite ==
  ASSUME SessionTypeOK
  PROVE  /\ \A v : IsFiniteSet(SessionsOf(v)) /\ SessionsOf(v) \subseteq Index
         /\ \A i \in Index : sessions[i] \in VisitorSession
         /\ \A z \in Zones, i \in Index :
              DwellIn(z)[i] = sessions[i].dwell[z] /\ DwellIn(z)[i] \in Nat
<1>1. /\ Index = 1 .. Len(sessions)
      /\ Len(sessions) \in Int
      /\ 1 \in Int
      /\ \A i \in Index : sessions[i] \in VisitorSession
  BY DEF SessionTypeOK, Index
<1>2. IsFiniteSet(Index)
  BY <1>1, FS_Interval
<1>3. \A v : SessionsOf(v) \in SUBSET Index
  BY DEF SessionsOf
<1>4. \A v : IsFiniteSet(SessionsOf(v))
  BY <1>2, <1>3, FS_Subset
<1>5. \A i \in Index : sessions[i].dwell \in [Zones -> Nat]
  BY <1>1 DEF VisitorSession
<1>6. QED
  BY <1>1, <1>3, <1>4, <1>5 DEF DwellIn

\* A handler adds the dwell of its event to the sessions of the event's visitor.
LEMMA DwellGrows ==
  ASSUME SessionInv, NEW e \in Event, NEW s, NEW p, Placed(e, s, p),
         NEW v \in Visitors, NEW z \in Zones
  PROVE  /\ SumOver(DwellIn(z), SessionsOf(v)) \in Nat
         /\ SumOver(DwellIn(z), SessionsOf(v))' =
              SumOver(DwellIn(z), SessionsOf(v)) +
              (IF e.visitor = v /\ e.type \in {"ZONE_EXIT", "ZONE_DWELL"} /\ e.zone = z
               THEN e.dwell ELSE 0)
<1> DEFINE types == {"ZONE_EXIT", "ZONE_DWELL"}
           S  == SessionsOf(v)
           S2 == SessionsOf(v)'
           f  == DwellIn(z)
           f2 == DwellIn(z)'
           d  == IF e.visitor = v /\ e.type \in types /\ e.zone = z THEN e.dwell ELSE 0
<1>1. SessionTypeOK
  BY DEF SessionInv
<1>2. /\ IsFiniteSet(S) /\ S \subseteq Index
      /\ \A i \in Index : f[i] = sessions[i].dwell[z] /\ f[i] \in Nat
  BY <1>1, SessionsFinite
<1>3. e.dwell \in Nat
  BY EventFields
<1>4. /\ Index' = Index \cup {p}
      /\ sessions'[p] = s
      /\ \A i \in Index \ {p} : sessions'[i].dwell = sessions[i].dwell
      /\ s.dwell[z] = IF e.type \in types /\ e.zone = z
                      THEN (IF p \in Index THEN f[p] ELSE 0) + e.dwell
                      ELSE (IF p \in Index THEN f[p] ELSE 0)
  <2>1. Tallied(e, s, IF p \in Index THEN sessions[p] ELSE NewSession(e, 0, 0))
    BY DEF Placed
  <2>2. NewSession(e, 0, 0).dwell[z] = 0
    BY DEF NewSession
  <2>3. QED
    BY <1>2, <2>1, <2>2 DEF Placed, SameTally, Tallied
<1>5. /\ \A i \in Index \ {p} : f2[i] = f[i]
      /\ f2[p] = s.dwell[z]
  <2>1. \A i \in Index' : f2[i] = sessions'[i].dwell[z]
    BY DEF DwellIn
  <2> HIDE DEF f, f2, types
  <2>2. QED
    BY <1>2, <1>4, <2>1
<1>6. SumOver(f, S) \in Nat
  <2>1. \A i \in S : f[i] \in Nat
    BY <1>2
  <2> HIDE DEF f, S
  <2>2. QED
    BY <1>2, <2>1, SumType
<1>7. \/ e.visitor = v /\ S2 = S \cup {p} /\ (p \in S <=> p \in Index)
      \/ e.visitor # v /\ S2 = S /\ p \notin S
  BY SessionsGrow
<1>8. SumOver(f2, S2) = SumOver(f, S) + d
  <2> HIDE DEF types, S, S2, f, f2
  <2>1. CASE e.visitor # v
    <3>1. S2 = S /\ p \notin S
      BY <1>7, <2>1
    <3>2. \A i \in S : f[i] = f2[i]
      BY <1>2, <1>5, <3>1
    <3>3. SumOver(f, S) = SumOver(f2, S)
      BY <3>2, SumSame
    <3>4. QED
      BY <1>6, <2>1, <3>1, <3>3
  <2>2. CASE e.visitor = v
    <3>1. S2 = S \cup {p} /\ (p \in S <=> p \in Index) /\ p \in S2
      BY <1>7, <2>2
    <3>2. /\ \A i \in S : f[i] \in Nat
          /\ f2[p] \in Nat
          /\ \A i \in S \ {p} : f2[i] = f[i]
      BY <1>2, <1>3, <1>4, <1>5
    <3>3. SumOver(f2, S2) = SumOver(f, S) + f2[p] - (IF p \in S THEN f[p] ELSE 0)
      BY <1>2, <3>1, <3>2, SumStep
    <3>4. f2[p] = d + (IF p \in S THEN f[p] ELSE 0)
      BY <1>2, <1>3, <1>4, <1>5, <2>2, <3>1
    <3>5. (p \in S => f[p] \in Nat) /\ d \in Nat
      BY <1>3, <3>2
    <3> HIDE DEF d
    <3>6. QED
      BY <1>6, <3>3, <3>4, <3>5
  <2>3. QED
    BY <2>1, <2>2
<1>9. QED
  BY <1>6, <1>8 DEF S, S2, f, f2, d, types

-----------------------------------------------------------------------------

LEMMA SessionStep ==
  LedgerInv /\ [SessionNext]_sessionVars => LedgerInv'
<1> SUFFICES ASSUME LedgerInv, [SessionNext]_sessionVars
             PROVE  LedgerInv'
  OBVIOUS
<1>1. CASE SessionNext
  <2>1. PICK e \in Event : ProcessEvent(e)
    BY <1>1, SessionizerAssumption DEF SessionNext
  <2>2. PICK s, p : Placed(e, s, p)
    BY <2>1, HandlerPlaces DEF LedgerInv
  <2>3. QED
    BY <2>2, PlacedKeepsSessionInv, PlacedKeepsLedger DEF LedgerInv
<1>2. CASE UNCHANGED sessionVars
  BY <1>2 DEF sessionVars, LedgerInv, SessionInv, SessionTypeOK, ActiveMatchesOpen,
      ActiveIsOpen, NoOrphanSession, LatestIsActive, ReentryLedger,
      ReentryBounded, ReentryRecorded, ReentryOrdered, Index, IsOpen
<1>3. QED
  BY <1>1, <1>2

\* The inductive invariant holds in every reachable state of the sessionizer.
THEOREM SessionInvariant == SessionSpec => []LedgerInv
<1>1. SessionInit => LedgerInv
  BY SessionInitInv
<1>2. LedgerInv /\ [SessionNext]_sessionVars => LedgerInv'
  BY SessionStep
<1>3. QED
  BY <1>1, <1>2, PTL DEF SessionSpec

\* The sessions and the two tables of the store keep their types under every
\* handler (sessionizer.py 57-125, 145-158).
THEOREM SessionsTyped == SessionSpec => []SessionTypeOK
<1>1. LedgerInv => SessionTypeOK
  BY DEF LedgerInv, SessionInv
<1>2. QED
  BY <1>1, SessionInvariant, PTL

\* SessionStore._active holds exactly the listed sessions without an end_time:
\* a visitor never has two open sessions and none is orphaned, whatever the
\* order of the events (sessionizer.py 67-70).
THEOREM StoreConsistent == SessionSpec => []ActiveMatchesOpen
<1>1. LedgerInv => ActiveMatchesOpen
  BY DEF LedgerInv, SessionInv
<1>2. QED
  BY <1>1, SessionInvariant, PTL

\* The re-entry ledger of the sessionizer and the counts on the sessions agree
\* (sessionizer.py 255-306).
THEOREM LedgerAgrees == SessionSpec => []ReentryLedger
<1>1. LedgerInv => ReentryLedger
  BY DEF LedgerInv
<1>2. QED
  BY <1>1, SessionInvariant, PTL

\* The re-entry counts of one visitor's sessions grow in the order the sessions
\* were opened (sessionizer.py 255-306).
THEOREM LedgerOrdered == SessionSpec => []ReentryOrdered
<1>1. LedgerInv => ReentryOrdered
  BY DEF LedgerInv
<1>2. QED
  BY <1>1, SessionInvariant, PTL

\* No event ever changes a session that has ended (sessionizer.py 71).
THEOREM ClosedFrozen == SessionSpec => ClosedSessionsFrozen
<1>1. LedgerInv /\ [SessionNext]_sessionVars =>
        [\A i \in Index : ~IsOpen(sessions[i]) =>
           i \in DOMAIN sessions' /\ sessions'[i] = sessions[i]]_sessions
  <2> SUFFICES ASSUME LedgerInv, SessionNext,
                      NEW i \in Index, ~IsOpen(sessions[i])
               PROVE  i \in DOMAIN sessions' /\ sessions'[i] = sessions[i]
    BY DEF sessionVars
  <2>1. PICK e \in Event : ProcessEvent(e)
    BY SessionizerAssumption DEF SessionNext
  <2>2. PICK s, p : Placed(e, s, p)
    BY <2>1, HandlerPlaces DEF LedgerInv
  <2>3. i \in Index' /\ sessions'[i] = sessions[i]
    BY <2>2, PlacedFreezesClosed DEF LedgerInv
  <2>4. QED
    BY <2>3 DEF Index
<1>2. QED
  BY <1>1, SessionInvariant, PTL DEF SessionSpec, ClosedSessionsFrozen

=============================================================================
