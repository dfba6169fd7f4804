---------------------------- MODULE Sessionizer ----------------------------
(***************************************************************************)
(* app/sessionizer.py: the Sessionizer, its SessionStore and the           *)
(* VisitorSession records it builds (app/models.py).                       *)
(*                                                                         *)
(* One action per event handler; ProcessEvent is process_event, which      *)
(* holds the sessionizer's lock for the whole handler.                     *)
(*                                                                         *)
(* SessionStore keeps a list of sessions per store and, by reference, the  *)
(* open session of every visitor.  Here `sessions` is the list of all      *)
(* sessions in the order put_active registered them (a store's list is the *)
(* subsequence with that store) and active[v] is the position in it of the *)
(* open session of v, or None.                                             *)
(***************************************************************************)
EXTENDS Integers, Sequences, FiniteSets

CONSTANTS
  Stores,         \* store_id values
  Visitors,       \* visitor_id values (the Re-ID token of the detection layer)
  Zones,          \* zone_id values
  BillingQueue,   \* "ZONE_BILLING_QUEUE", the zone of a queue event without one
  NoZone,         \* an event without a zone_id
  NoTime,         \* end_time of an open session
  Events          \* the events that may be delivered

Time == Nat       \* event time, in seconds

EventType == {"ENTRY", "EXIT", "REENTRY", "ZONE_ENTER", "ZONE_EXIT",
              "ZONE_DWELL", "BILLING_QUEUE_JOIN", "BILLING_QUEUE_ABANDON"}

\* A validated InboundEvent. `id` is the event_id; confidence, camera and the
\* metadata the sessions do not keep are left out.
Event == [id : Nat, type : EventType, store : Stores, visitor : Visitors,
          time : Time, zone : Zones \cup {NoZone}, dwell : Nat,
          staff : BOOLEAN]

\* A QueueEvent of a session. Its readers ask whether there is one and for the
\* latest time, so that the order of the list is left out.
QueueEvent == [type : {"BILLING_QUEUE_JOIN", "BILLING_QUEUE_ABANDON"}, time : Time]

VisitorSession ==
  [visitor   : Visitors,
   store     : Stores,
   start     : Time,
   end       : Time \cup {NoTime},
   staff     : BOOLEAN,
   zones     : SUBSET Zones,          \* zones_visited
   dwell     : [Zones -> Nat],        \* dwell_per_zone, 0 when absent
   queue     : SUBSET QueueEvent,     \* queue_events
   reentry   : Nat,                   \* reentry_count
   candidate : BOOLEAN,               \* purchase_candidate
   count     : Nat]                   \* event_count

ASSUME SessionizerAssumption ==
  /\ BillingQueue \in Zones
  /\ NoZone \notin Zones
  /\ NoTime \notin Nat
  /\ Events \subseteq Event

None == 0         \* active[v] of a visitor without an open session

VARIABLES
  sessions,       \* SessionStore._sessions
  active,         \* SessionStore._active
  reentryCounts   \* Sessionizer._reentry_counts

sessionVars == <<sessions, active, reentryCounts>>

SessionInit ==
  /\ sessions = << >>
  /\ active = [v \in Visitors |-> None]
  /\ reentryCounts = [v \in Visitors |-> 0]

-----------------------------------------------------------------------------

IsOpen(s) == s.end = NoTime

\* The session a handler opens for the visitor of event e.
NewSession(e, reentry, count) ==
  [visitor |-> e.visitor, store |-> e.store, start |-> e.time, end |-> NoTime,
   staff |-> e.staff, zones |-> {}, dwell |-> [z \in Zones |-> 0],
   queue |-> {}, reentry |-> reentry, candidate |-> FALSE, count |-> count]

\* _get_or_create_session: the open session of e's visitor, or the implicit
\* one for an event that arrives without an ENTRY.
CurrentSession(e) ==
  IF active[e.visitor] = None THEN NewSession(e, 0, 0)
                              ELSE sessions[active[e.visitor]]

\* put_active: s, appended to the sessions list ss, is the open session of its
\* visitor.
PutActive(ss, s) ==
  /\ sessions' = Append(ss, s)
  /\ active' = [active EXCEPT ![s.visitor] = Len(ss) + 1]

\* The current session of e's visitor becomes s: in place, or registered by
\* put_active when it is new.
Enrich(e, s) ==
  IF active[e.visitor] = None
  THEN PutActive(sessions, s)
  ELSE /\ sessions' = [sessions EXCEPT ![active[e.visitor]] = s]
       /\ UNCHANGED active

\* close_session on the list only: the open session of e's visitor, if any,
\* ends at e's time.
Closed(e) ==
  IF active[e.visitor] = None
  THEN sessions
  ELSE [sessions EXCEPT ![active[e.visitor]].end = e.time]

-----------------------------------------------------------------------------

\* Mutated HandleEntry: the orphaned session is not closed.
EntryKeepsOrphan(e) ==
  /\ e.type = "ENTRY"
  /\ PutActive(sessions, NewSession(e, 0, 1))
  /\ UNCHANGED reentryCounts

\* Mutated HandleEntry: the close comes after the new session is registered.
EntryClosesLast(e) ==
  /\ e.type = "ENTRY"
  /\ sessions' = Append(sessions,
       IF active[e.visitor] = None THEN NewSession(e, 0, 1)
       ELSE [NewSession(e, 0, 1) EXCEPT !.end = e.time])
  /\ active' = [active EXCEPT ![e.visitor] =
       IF @ = None THEN Len(sessions) + 1 ELSE None]
  /\ UNCHANGED reentryCounts

\* _handle_entry: an orphaned open session is closed first.
HandleEntry(e) ==
  /\ e.type = "ENTRY"
  /\ PutActive(Closed(e), NewSession(e, 0, 1))
  /\ UNCHANGED reentryCounts

\* Mutated HandleReentry: the session counts its own re-entries.
ReentryPerSession(e) ==
  LET s == CurrentSession(e)
  IN  /\ e.type = "REENTRY"
      /\ reentryCounts' = [reentryCounts EXCEPT ![e.visitor] = @ + 1]
      /\ Enrich(e, [s EXCEPT !.reentry = @ + 1, !.count = @ + 1])

\* _handle_reentry: the open session continues; without one, a new session
\* carries the visitor's re-entry count.
HandleReentry(e) ==
  LET n == reentryCounts[e.visitor] + 1
      s == CurrentSession(e)
  IN  /\ e.type = "REENTRY"
      /\ reentryCounts' = [reentryCounts EXCEPT ![e.visitor] = n]
      /\ Enrich(e, [s EXCEPT !.reentry = n, !.count = @ + 1])

\* Mutated HandleExitOpen: the closed session stays the active one.
ExitStaysActive(e) ==
  /\ e.type = "EXIT"
  /\ active[e.visitor] # None
  /\ sessions' = [sessions EXCEPT ![active[e.visitor]] =
                    [CurrentSession(e) EXCEPT !.count = @ + 1, !.end = e.time]]
  /\ UNCHANGED <<active, reentryCounts>>

\* _handle_exit of a visitor with an open session.
HandleExitOpen(e) ==
  /\ e.type = "EXIT"
  /\ active[e.visitor] # None
  /\ sessions' = [sessions EXCEPT ![active[e.visitor]] =
                    [CurrentSession(e) EXCEPT !.count = @ + 1, !.end = e.time]]
  /\ active' = [active EXCEPT ![e.visitor] = None]
  /\ UNCHANGED reentryCounts

\* _handle_exit without a session: a stub is opened with event_count 1, counted
\* once more and closed.
HandleExitStub(e) ==
  /\ e.type = "EXIT"
  /\ active[e.visitor] = None
  /\ sessions' = Append(sessions, [NewSession(e, 0, 2) EXCEPT !.end = e.time])
  /\ UNCHANGED <<active, reentryCounts>>

\* _handle_zone_event without a zone_id: the implicit session, if one was
\* needed, stays, and the event is not counted.
HandleZoneless(e) ==
  /\ e.type \in {"ZONE_ENTER", "ZONE_EXIT", "ZONE_DWELL"}
  /\ e.zone = NoZone
  /\ Enrich(e, CurrentSession(e))
  /\ UNCHANGED reentryCounts

\* record_zone_visit
HandleZoneEnter(e) ==
  /\ e.type = "ZONE_ENTER"
  /\ e.zone # NoZone
  /\ Enrich(e, [CurrentSession(e) EXCEPT !.zones = @ \cup {e.zone},
                                         !.count = @ + 1])
  /\ UNCHANGED reentryCounts

\* add_zone_dwell, for ZONE_EXIT and ZONE_DWELL alike
HandleZoneDwell(e) ==
  /\ e.type \in {"ZONE_EXIT", "ZONE_DWELL"}
  /\ e.zone # NoZone
  /\ Enrich(e, [CurrentSession(e) EXCEPT !.dwell[e.zone] = @ + e.dwell,
                                         !.count = @ + 1])
  /\ UNCHANGED reentryCounts

QueueEventOf(e) == [type |-> e.type, time |-> e.time]

\* Mutated HandleQueueJoin: the queue's zone is not recorded as visited.
JoinWithoutVisit(e) ==
  /\ e.type = "BILLING_QUEUE_JOIN"
  /\ Enrich(e, [CurrentSession(e) EXCEPT !.queue = @ \cup {QueueEventOf(e)},
                                         !.candidate = TRUE,
                                         !.count = @ + 1])
  /\ UNCHANGED reentryCounts

\* _handle_queue_join
HandleQueueJoin(e) ==
  LET zone == IF e.zone = NoZone THEN BillingQueue ELSE e.zone
  IN  /\ e.type = "BILLING_QUEUE_JOIN"
      /\ Enrich(e, [CurrentSession(e) EXCEPT
                      !.queue = @ \cup {QueueEventOf(e)},
                      !.candidate = TRUE,
                      !.zones = @ \cup {zone},
                      !.count = @ + 1])
      /\ UNCHANGED reentryCounts

\* _handle_queue_abandon
HandleQueueAbandon(e) ==
  /\ e.type = "BILLING_QUEUE_ABANDON"
  /\ Enrich(e, [CurrentSession(e) EXCEPT !.queue = @ \cup {QueueEventOf(e)},
                                         !.count = @ + 1])
  /\ UNCHANGED reentryCounts

\* process_event
ProcessEvent(e) ==
  \/ HandleEntry(e)
  \/ HandleReentry(e)
  \/ HandleExitOpen(e)
  \/ HandleExitStub(e)
  \/ HandleZoneless(e)
  \/ HandleZoneEnter(e)
  \/ HandleZoneDwell(e)
  \/ HandleQueueJoin(e)
  \/ HandleQueueAbandon(e)

\* The sessionizer alone, fed any event any number of times.
SessionNext == \E e \in Events : ProcessEvent(e)

SessionSpec == SessionInit /\ [][SessionNext]_sessionVars

-----------------------------------------------------------------------------
(***************************************************************************)
(* Properties                                                              *)
(***************************************************************************)

SessionTypeOK ==
  /\ sessions \in Seq(VisitorSession)
  /\ active \in [Visitors -> Nat]
  /\ reentryCounts \in [Visitors -> Nat]

Index == DOMAIN sessions

\* The open session that _active holds for a visitor is a listed session of
\* that visitor and has not ended.
ActiveIsOpen ==
  \A v \in Visitors : active[v] # None =>
    /\ active[v] \in Index
    /\ sessions[active[v]].visitor = v
    /\ IsOpen(sessions[active[v]])

\* No session is orphaned: every listed session without an end_time is the one
\* _active holds for its visitor. With ActiveIsOpen, a visitor never has two
\* open sessions, in one store or across stores.
NoOrphanSession ==
  \A i \in Index : IsOpen(sessions[i]) => active[sessions[i].visitor] = i

\* SessionStore and the sessions agree on who is in the store (the invariants
\* SessionStore's docstring states, sessionizer.py 67-70).
ActiveMatchesOpen == ActiveIsOpen /\ NoOrphanSession

\* The re-entry count a visitor's sessions show is never ahead of the ledger.
ReentryBounded ==
  \A i \in Index : sessions[i].reentry <= reentryCounts[sessions[i].visitor]

\* The latest re-entry of every visitor is recorded on one of the sessions of
\* that visitor: no re-entry is lost when the session it lands on is closed or
\* replaced.
ReentryRecorded ==
  \A v \in Visitors : reentryCounts[v] > 0 =>
    \E i \in Index : /\ sessions[i].visitor = v
                     /\ sessions[i].reentry = reentryCounts[v]

\* The re-entry ledger and the sessions agree.
ReentryLedger == ReentryBounded /\ ReentryRecorded

\* Two sessions of one visitor never carry the same re-entry: the counts grow
\* in the order the sessions were opened (sessionizer.py 25-27, 260).
ReentryOrdered ==
  \A i, j \in Index :
    /\ i < j
    /\ sessions[i].visitor = sessions[j].visitor
    /\ sessions[i].reentry > 0
    /\ sessions[j].reentry > 0
    => sessions[i].reentry < sessions[j].reentry

\* A closed session is never changed again by any event, late, repeated or
\* out of order (sessionizer.py 71).
ClosedSessionsFrozen ==
  [][\A i \in Index : ~IsOpen(sessions[i]) =>
       i \in DOMAIN sessions' /\ sessions'[i] = sessions[i]]_sessions

Joined(s) == \E q \in s.queue : q.type = "BILLING_QUEUE_JOIN"

\* The sum over S of the natural numbers f[i], as the size of the disjoint union
\* of the intervals 1 .. f[i].
Units(f, S) == UNION {{i} \X (1 .. f[i]) : i \in S}

SumOver(f, S) == Cardinality(Units(f, S))

SessionsOf(v) == {i \in Index : sessions[i].visitor = v}

DwellIn(z) == [i \in Index |-> sessions[i].dwell[z]]


=============================================================================
