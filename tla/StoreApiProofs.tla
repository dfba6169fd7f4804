--------------------------- MODULE StoreApiProofs ---------------------------
(***************************************************************************)
(* The ingest endpoint, with the POS correlation after every batch, keeps  *)
(* the session store consistent, gives every purchase candidate a reason   *)
(* and never lets the funnel widen, whatever clients send. The conversions *)
(* are complete when a request is answered, and stay justified.            *)
(*                                                                         *)
(* Handlers only let a session grow (Keeps); the correlation engine only   *)
(* promotes.  The invariant is proved of these two, and then of replays,   *)
(* resets and crashes.  The last part is about what watches the ingestion: *)
(* the audit timeline, the verifier and the calibration.                   *)
(***************************************************************************)
EXTENDS Replay, ObservedIngest, SessionizerProofs, ListLemmas

-----------------------------------------------------------------------------
(***************************************************************************)
(* Ingestion drives the sessionizer as its own specification allows, so    *)
(* that what SessionizerProofs shows of the sessions holds of the API; and *)
(* the store of raw events holds every event at most once.                 *)
(***************************************************************************)

\* Every step of ingestion is a step of the sessionizer or leaves it alone.
LEMMA IngestRefines ==
  [Next]_vars => [SessionNext]_sessionVars
<1> SUFFICES ASSUME [Next]_vars
             PROVE  [SessionNext]_sessionVars
  OBVIOUS
<1>1. CASE \E b \in Requests : StartRequest(b)
  BY <1>1 DEF StartRequest
<1>2. CASE RejectEvent
  BY <1>2 DEF RejectEvent
<1>3. CASE SkipDuplicate
  BY <1>3 DEF SkipDuplicate
<1>4. CASE AcceptEvent
  BY <1>4 DEF AcceptEvent, SessionNext
<1>5. CASE AcceptUnprocessed
  BY <1>5 DEF AcceptUnprocessed
<1>6. CASE EndBatch /\ UNCHANGED sessionVars
  BY <1>6
<1>7. CASE UNCHANGED vars
  BY <1>7 DEF vars, sessionVars
<1>8. QED
  BY <1>1, <1>2, <1>3, <1>4, <1>5, <1>6, <1>7 DEF Next, IngestStep

\* Ingestion implements the sessionizer's specification (ingestion.py 198-202).
THEOREM IngestionRefinesSessionizer == Spec => SessionizerRefined
<1>1. Init => SessionInit
  BY DEF Init
<1>2. [Next]_vars => [SessionNext]_sessionVars
  BY IngestRefines
<1>3. QED
  BY <1>1, <1>2, PTL DEF Spec, SessionSpec, SessionizerRefined

\* Whatever is sent, resent, rejected or swallowed, the open sessions are the
\* ones the store holds as active (sessionizer.py 67-70).
THEOREM IngestionKeepsStoreConsistent == Spec => []ActiveMatchesOpen
  BY IngestionRefinesSessionizer, StoreConsistent, PTL DEF SessionizerRefined

\* No request changes a session that has ended (sessionizer.py 71).
THEOREM IngestionFreezesClosed == Spec => ClosedSessionsFrozen
  BY IngestionRefinesSessionizer, ClosedFrozen, PTL DEF SessionizerRefined

-----------------------------------------------------------------------------

\* The type of the store and of the request under way; the sessions have
\* theirs from the sessionizer.
StoreTypeOK ==
  /\ log \in Seq(Events)
  /\ seen \subseteq Nat
  /\ busy \in BOOLEAN
  /\ batch \in Seq(RawEvent)
  /\ response \in [{"accepted", "duplicates", "rejected"} -> Nat]

StoreInv == StoreTypeOK /\ StoredOnce

LEMMA StoreInitInv ==
  Init => StoreInv
<1> SUFFICES ASSUME Init
             PROVE  StoreInv
  OBVIOUS
<1>1. log = << >> /\ seen = {} /\ busy = FALSE /\ batch = << >> /\ response = NoResponse
  BY DEF Init, IngestInit
<1>2. response \in [{"accepted", "duplicates", "rejected"} -> Nat]
  BY <1>1 DEF NoResponse
<1>3. StoreTypeOK
  BY <1>1, <1>2, EmptySeq DEF StoreTypeOK
<1>4. StoredOnce
  BY <1>1, EmptySeq DEF StoredOnce
<1>5. QED
  BY <1>3, <1>4 DEF StoreInv

\* An event whose id is new extends the log by one, and seen by its id.
LEMMA AppendKeepsStoredOnce ==
  ASSUME log \in Seq(Events), StoredOnce, NEW e \in Events, e.id \notin seen,
         AppendEvent(e)
  PROVE  log' \in Seq(Events) /\ seen' = seen \cup {e.id} /\ StoredOnce'
<1> DEFINE n == Len(log) + 1
<1>1. /\ log' \in Seq(Events)
      /\ Len(log') = n
      /\ log'[n] = e
      /\ \A i \in DOMAIN log : log'[i] = log[i]
      /\ DOMAIN log = 1 .. Len(log)
      /\ Len(log) \in Nat
  BY AppendProperties DEF AppendEvent
<1>2. DOMAIN log' = (DOMAIN log) \cup {n} /\ n \notin DOMAIN log
  BY <1>1
<1>3. seen' = seen \cup {e.id}
  BY DEF AppendEvent
<1>4. seen = {log[i].id : i \in DOMAIN log}
  BY DEF StoredOnce
<1> HIDE DEF n
<1>5. seen' = {log'[i].id : i \in DOMAIN log'}
  BY <1>1, <1>2, <1>3, <1>4
<1>6. ASSUME NEW i \in DOMAIN log', NEW j \in DOMAIN log', log'[i].id = log'[j].id
      PROVE  i = j
  <2>1. \A k \in DOMAIN log : log'[k].id # e.id
    BY <1>1, <1>4
  <2>2. CASE i \in DOMAIN log /\ j \in DOMAIN log
    BY <1>1, <1>6, <2>2 DEF StoredOnce
  <2>3. CASE i = n \/ j = n
    BY <1>1, <1>2, <1>6, <2>1, <2>3
  <2>4. QED
    BY <1>2, <2>2, <2>3
<1>7. QED
  BY <1>1, <1>3, <1>5, <1>6 DEF StoredOnce

\* The batch shrinks and the response counts one more event.
LEMMA NextRawType ==
  ASSUME StoreTypeOK, batch # << >>,
         NEW o \in {"accepted", "duplicates", "rejected"}, NextRaw(o)
  PROVE  /\ busy' \in BOOLEAN
         /\ batch' \in Seq(RawEvent)
         /\ response' \in [{"accepted", "duplicates", "rejected"} -> Nat]
<1>1. batch' \in Seq(RawEvent)
  BY HeadTailProperties DEF StoreTypeOK, NextRaw
<1>2. response' \in [{"accepted", "duplicates", "rejected"} -> Nat]
  BY DEF StoreTypeOK, NextRaw
<1>3. QED
  BY <1>1, <1>2 DEF StoreTypeOK, NextRaw

LEMMA StoreStep ==
  StoreInv /\ [Next]_vars => StoreInv'
<1> SUFFICES ASSUME StoreInv, [Next]_vars
             PROVE  StoreInv'
  OBVIOUS
<1> USE DEF StoreInv
<1>1. CASE UNCHANGED storeVars
  <2>1. StoredOnce'
    BY <1>1 DEF StoredOnce, storeVars
  <2>2. log' = log /\ seen' = seen
    BY <1>1 DEF storeVars
  <2>3. CASE \E b \in Requests : StartRequest(b)
    <3>1. batch' \in Seq(RawEvent)
      BY <2>3, IngestionAssumption DEF StartRequest, RawEvent
    <3>2. response' \in [{"accepted", "duplicates", "rejected"} -> Nat]
      BY <2>3 DEF StartRequest, NoResponse
    <3>3. QED
      BY <2>1, <2>2, <2>3, <3>1, <3>2 DEF StartRequest, StoreTypeOK
  <2>4. CASE RejectEvent
    BY <2>1, <2>2, <2>4, NextRawType DEF RejectEvent, StoreTypeOK
  <2>5. CASE SkipDuplicate
    BY <2>1, <2>2, <2>5, NextRawType DEF SkipDuplicate, StoreTypeOK
  <2>6. CASE EndBatch
    BY <2>1, <2>2, <2>6 DEF EndBatch, StoreTypeOK
  <2>7. CASE UNCHANGED vars
    BY <2>1, <2>2, <2>7 DEF vars, ingestVars, StoreTypeOK
  <2>8. CASE AcceptEvent \/ AcceptUnprocessed
    <3>1. Head(batch) \in Events /\ Head(batch).id \in seen' /\ Head(batch).id \notin seen
      BY <2>8, IngestionAssumption DEF AcceptEvent, AcceptUnprocessed, AppendEvent
    <3>2. QED
      BY <2>2, <3>1
  <2>9. QED
    BY <2>3, <2>4, <2>5, <2>6, <2>7, <2>8 DEF Next, IngestStep
<1>2. CASE AcceptEvent \/ AcceptUnprocessed
  <2> DEFINE e == Head(batch)
  <2>1. /\ batch # << >>
        /\ e \in Events
        /\ e.id \notin seen
        /\ NextRaw("accepted")
        /\ AppendEvent(e)
    BY <1>2, IngestionAssumption DEF AcceptEvent, AcceptUnprocessed
  <2> HIDE DEF e
  <2>2. log' \in Seq(Events) /\ seen' = seen \cup {e.id} /\ StoredOnce'
    BY <2>1, AppendKeepsStoredOnce DEF StoreTypeOK
  <2>3. e.id \in Nat
    BY <2>1, SessionizerAssumption DEF Event
  <2>4. QED
    BY <2>1, <2>2, <2>3, NextRawType DEF StoreTypeOK
<1>3. QED
  <2>1. CASE \E b \in Requests : StartRequest(b)
    BY <1>1, <2>1 DEF StartRequest
  <2>2. CASE RejectEvent \/ SkipDuplicate \/ EndBatch \/ UNCHANGED vars
    BY <1>1, <2>2 DEF RejectEvent, SkipDuplicate, EndBatch, vars, storeVars
  <2>3. QED
    BY <1>2, <2>1, <2>2 DEF Next, IngestStep

\* The API's state keeps its types: sessions, log, response and the batch under
\* way (ingestion.py 41-209).
THEOREM IngestionTyped == Spec => []TypeOK
<1>1. Init => StoreInv
  BY StoreInitInv
<1>2. StoreInv /\ [Next]_vars => StoreInv'
  BY StoreStep
<1>3. Spec => []SessionTypeOK
  BY IngestionRefinesSessionizer, SessionsTyped, PTL DEF SessionizerRefined
<1>4. StoreInv /\ SessionTypeOK => TypeOK
  BY DEF StoreInv, StoreTypeOK, TypeOK
<1>5. QED
  BY <1>1, <1>2, <1>3, <1>4, PTL DEF Spec

\* However often an event is sent, it is in the event store at most once, and
\* the ids the store has seen are those of its events (ingestion.py 46-49).
THEOREM EventsStoredOnce == Spec => []StoredOnce
<1>1. Init => StoreInv
  BY StoreInitInv
<1>2. StoreInv /\ [Next]_vars => StoreInv'
  BY StoreStep
<1>3. StoreInv => StoredOnce
  BY DEF StoreInv
<1>4. QED
  BY <1>1, <1>2, <1>3, PTL DEF Spec

-----------------------------------------------------------------------------
(***************************************************************************)
(* The sessions against the log                                            *)
(***************************************************************************)

LEMMA TalliedSets ==
  ASSUME SessionTypeOK, log \in Seq(Events)
  PROVE  /\ \A v : IsFiniteSet(SessionsOf(v))
         /\ \A v, types : IsFiniteSet(Processed(v, types))
         /\ \A i \in DOMAIN log : log[i] \in Events
         /\ \A i \in Index : sessions[i] \in VisitorSession
<1>1. /\ Index = 1 .. Len(sessions)
      /\ Len(sessions) \in Int
      /\ DOMAIN log = 1 .. Len(log)
      /\ Len(log) \in Int
      /\ 1 \in Int
      /\ \A i \in DOMAIN log : log[i] \in Events
      /\ \A i \in Index : sessions[i] \in VisitorSession
  BY DEF SessionTypeOK, Index
<1>2. IsFiniteSet(Index)
  BY <1>1, FS_Interval
<1>3. IsFiniteSet(DOMAIN log)
  BY <1>1, FS_Interval
<1>4. \A v : SessionsOf(v) \in SUBSET Index
  BY DEF SessionsOf
<1>5. \A v, types : Processed(v, types) \in SUBSET DOMAIN log
  BY DEF Processed
<1>6. \A v : IsFiniteSet(SessionsOf(v))
  BY <1>2, <1>4, FS_Subset
<1>7. \A v, types : IsFiniteSet(Processed(v, types))
  BY <1>3, <1>5, FS_Subset
<1>8. QED
  BY <1>1, <1>6, <1>7

\* An event appended to the log is counted among its visitor's, unless the
\* handler raised.
LEMMA LogGrows ==
  ASSUME log \in Seq(Events), NEW e \in Events, log' = Append(log, e)
  PROVE  /\ Len(log) + 1 \notin DOMAIN log
         /\ DOMAIN log' = DOMAIN log \cup {Len(log) + 1}
         /\ log'[Len(log) + 1] = e
         /\ \A i \in DOMAIN log : log'[i] = log[i]
         /\ \A v, types :
              /\ Len(log) + 1 \notin Processed(v, types)
              /\ Processed(v, types)' =
                   IF e.visitor = v /\ e.type \in types /\ e \notin Raising
                   THEN Processed(v, types) \cup {Len(log) + 1}
                   ELSE Processed(v, types)
<1> DEFINE n == Len(log) + 1
<1>1. /\ Len(log') = n
      /\ log'[n] = e
      /\ \A i \in DOMAIN log : log'[i] = log[i]
      /\ DOMAIN log = 1 .. Len(log)
      /\ DOMAIN log' = 1 .. Len(log')
      /\ Len(log) \in Nat
  BY AppendProperties
<1>2. DOMAIN log' = (DOMAIN log) \cup {n} /\ n \notin DOMAIN log
  BY <1>1
<1> HIDE DEF n
<1>3. ASSUME NEW v, NEW types
      PROVE  /\ n \notin Processed(v, types)
             /\ Processed(v, types)' =
                  IF e.visitor = v /\ e.type \in types /\ e \notin Raising
                  THEN Processed(v, types) \cup {n}
                  ELSE Processed(v, types)
  BY <1>1, <1>2 DEF Processed
<1>4. QED
  BY <1>1, <1>2, <1>3 DEF n

\* The types of what is summed.
LEMMA SummandsType ==
  ASSUME SessionTypeOK, log \in Seq(Events), NEW z \in Zones
  PROVE  /\ \A i \in Index : DwellIn(z)[i] = sessions[i].dwell[z] /\ DwellIn(z)[i] \in Nat
         /\ \A i \in Index : CountOf[i] = sessions[i].count /\ CountOf[i] \in Nat
         /\ \A i \in DOMAIN log :
              /\ SentTo(z)[i] = IF log[i].zone = z THEN log[i].dwell ELSE 0
              /\ SentTo(z)[i] \in Nat
<1>1. /\ \A i \in DOMAIN log : log[i] \in Events
      /\ \A i \in Index : sessions[i] \in VisitorSession
  BY TalliedSets
<1>2. \A i \in DOMAIN log : log[i].dwell \in Nat
  BY EventsTyped, <1>1, EventFields
<1>3. \A i \in Index : sessions[i].dwell \in [Zones -> Nat] /\ sessions[i].count \in Nat
  BY <1>1 DEF VisitorSession
<1>4. QED
  BY <1>2, <1>3 DEF DwellIn, CountOf, SentTo

\* What the step adds to the dwell of the visitor's sessions it adds to the log's.
LEMMA DwellStep ==
  ASSUME SessionInv, log \in Seq(Events), NEW e \in Events, e \notin Raising,
         NEW s, NEW p, Placed(e, s, p), log' = Append(log, e), DwellConserved
  PROVE  DwellConserved'
<1> SUFFICES ASSUME NEW v \in Visitors, NEW z \in Zones
             PROVE  SumOver(DwellIn(z), SessionsOf(v))' =
                    SumOver(SentTo(z), Processed(v, {"ZONE_EXIT", "ZONE_DWELL"}))'
  BY DEF DwellConserved
<1> DEFINE types == {"ZONE_EXIT", "ZONE_DWELL"}
           P  == Processed(v, types)
           P2 == Processed(v, types)'
           g  == SentTo(z)
           g2 == SentTo(z)'
           n  == Len(log) + 1
           X  == SumOver(DwellIn(z), SessionsOf(v))
           X2 == SumOver(DwellIn(z), SessionsOf(v))'
           d  == IF e.visitor = v /\ e.type \in types /\ e.zone = z THEN e.dwell ELSE 0
<1>1. SessionTypeOK /\ e \in Event
  BY SessionizerAssumption DEF SessionInv
<1>2. IsFiniteSet(P) /\ P \subseteq DOMAIN log
  BY <1>1, TalliedSets DEF Processed
<1>3. \A i \in DOMAIN log : /\ g[i] = IF log[i].zone = z THEN log[i].dwell ELSE 0
                            /\ g[i] \in Nat
  BY <1>1, SummandsType
<1>4. /\ DOMAIN log' = DOMAIN log \cup {n}
      /\ log'[n] = e
      /\ \A i \in DOMAIN log : log'[i] = log[i]
      /\ n \notin P
      /\ P2 = IF e.visitor = v /\ e.type \in types THEN P \cup {n} ELSE P
      /\ n \notin DOMAIN log
  BY LogGrows
<1>5. /\ \A i \in DOMAIN log : g2[i] = g[i]
      /\ g2[n] = IF e.zone = z THEN e.dwell ELSE 0
  <2>1. \A i \in DOMAIN log' : g2[i] = IF log'[i].zone = z THEN log'[i].dwell ELSE 0
    BY DEF SentTo
  <2> HIDE DEF g, g2, n, types
  <2>2. QED
    BY <1>3, <1>4, <2>1
<1>6. X = SumOver(g, P)
  BY DEF DwellConserved
<1>7. e.dwell \in Nat
  BY <1>1, EventFields
<1>8. X \in Nat /\ X2 = X + d
  BY <1>1, DwellGrows
<1> HIDE DEF types, P, P2, g, g2, n, X, X2
<1>9. SumOver(g2, P2) = SumOver(g, P) + d
  <2>1. CASE e.visitor = v /\ e.type \in types
    <3>1. P2 = P \cup {n} /\ n \notin P
      BY <1>4, <2>1
    <3>2. g2[n] = d /\ g2[n] \in Nat
      BY <1>5, <1>7, <2>1
    <3>3. \A i \in P : g[i] \in Nat
      BY <1>2, <1>3
    <3>4. \A i \in P : g2[i] = g[i]
      BY <1>2, <1>5
    <3>5. n \notin P /\ g2[n] \in Nat
      BY <3>1, <3>2
    <3>6. IsFiniteSet(P)
      BY <1>2
    <3>7. SumOver(g2, P \cup {n}) = SumOver(g, P) + g2[n]
      BY <3>3, <3>4, <3>5, <3>6, SumExtend
    <3>8. QED
      BY <3>1, <3>2, <3>7
  <2>2. CASE ~(e.visitor = v /\ e.type \in types)
    <3>1. P2 = P /\ d = 0
      BY <1>4, <2>2
    <3>2. \A i \in P : g[i] = g2[i]
      BY <1>2, <1>5
    <3>3. SumOver(g, P) = SumOver(g2, P)
      BY <3>2, SumSame
    <3>4. QED
      BY <1>6, <1>8, <3>1, <3>3
  <2>3. QED
    BY <2>1, <2>2
<1>10. X2 = SumOver(g2, P2)
  BY <1>6, <1>8, <1>9
<1>11. QED
  BY <1>10 DEF X2, P2, g2, types

\* A queue event goes to the session and to the log.
LEMMA QueueStep ==
  ASSUME SessionInv, log \in Seq(Events), NEW e \in Events, e \notin Raising,
         NEW s, NEW p, Placed(e, s, p), log' = Append(log, e), QueueConserved
  PROVE  QueueConserved'
<1> DEFINE types == {"BILLING_QUEUE_JOIN", "BILLING_QUEUE_ABANDON"}
           n  == Len(log) + 1
<1> SUFFICES ASSUME NEW v \in Visitors
             PROVE  UNION {sessions'[i].queue : i \in SessionsOf(v)'} =
                    {QueueEventOf(log'[i]) : i \in Processed(v, types)'}
  BY DEF QueueConserved
<1> DEFINE S  == SessionsOf(v)
           S2 == SessionsOf(v)'
           P  == Processed(v, types)
           P2 == Processed(v, types)'
<1>1. UNION {sessions[i].queue : i \in S} = {QueueEventOf(log[i]) : i \in P}
  BY DEF QueueConserved
<1>2. /\ sessions'[p] = s
      /\ \A i \in Index \ {p} : sessions'[i].queue = sessions[i].queue
      /\ s.queue = IF e.type \in types
                   THEN (IF p \in Index THEN sessions[p].queue ELSE {}) \cup {QueueEventOf(e)}
                   ELSE (IF p \in Index THEN sessions[p].queue ELSE {})
  <2>1. Tallied(e, s, IF p \in Index THEN sessions[p] ELSE NewSession(e, 0, 0))
    BY DEF Placed
  <2>2. NewSession(e, 0, 0).queue = {}
    BY DEF NewSession
  <2>3. QED
    BY <2>1, <2>2 DEF Placed, SameTally, Tallied
<1>3. /\ log'[n] = e
      /\ \A i \in DOMAIN log : log'[i] = log[i]
      /\ n \notin P
      /\ P2 = IF e.visitor = v /\ e.type \in types THEN P \cup {n} ELSE P
      /\ P \subseteq DOMAIN log
  BY LogGrows DEF Processed
<1>4. \/ e.visitor = v /\ S2 = S \cup {p} /\ (p \in S <=> p \in Index)
      \/ e.visitor # v /\ S2 = S /\ p \notin S
  BY EventsTyped, SessionsGrow
<1>5. S \subseteq Index
  BY EventsTyped, SessionsGrow
<1> HIDE DEF types, S, S2, P, P2, n
<1>6. {QueueEventOf(log'[i]) : i \in P} = {QueueEventOf(log[i]) : i \in P}
  BY <1>3
<1>7. CASE e.visitor # v
  <2>1. S2 = S /\ P2 = P /\ p \notin S
    BY <1>3, <1>4, <1>7
  <2>2. {sessions'[i].queue : i \in S} = {sessions[i].queue : i \in S}
    BY <1>2, <1>5, <2>1
  <2>3. UNION {sessions'[i].queue : i \in S2} = {QueueEventOf(log'[i]) : i \in P2}
    BY <1>1, <1>6, <2>1, <2>2
  <2>4. QED
    BY <2>3 DEF S2, P2
<1>8. CASE e.visitor = v
  <2>1. S2 = S \cup {p} /\ (p \in S <=> p \in Index)
    BY <1>4, <1>8
  <2> DEFINE A  == UNION {sessions[i].queue : i \in S}
             A2 == UNION {sessions'[i].queue : i \in S2}
             R  == UNION {sessions[i].queue : i \in S \ {p}}
             L  == {QueueEventOf(log'[i]) : i \in P}
             L2 == {QueueEventOf(log'[i]) : i \in P2}
             q  == IF e.type \in types THEN {QueueEventOf(e)} ELSE {}
  <2>2. A2 = A \cup q
    <3>1. A2 = s.queue \cup R
      <4>1. \A i \in S \ {p} : sessions'[i].queue = sessions[i].queue
        BY <1>2, <1>5
      <4>2. A2 = s.queue \cup UNION {sessions'[i].queue : i \in S \ {p}}
        BY <1>2, <2>1
      <4>3. UNION {sessions'[i].queue : i \in S \ {p}} = R
        BY <4>1
      <4> HIDE DEF A2, R
      <4>4. QED
        BY <4>2, <4>3
    <3>2. p \in S => A = sessions[p].queue \cup R
      OBVIOUS
    <3>3. p \notin S => A = R
      <4> HAVE p \notin S
      <4>1. S \ {p} = S
        OBVIOUS
      <4>2. QED
        BY <4>1
    <3>4. s.queue = (IF p \in S THEN sessions[p].queue ELSE {}) \cup q
      BY <1>2, <2>1
    <3> HIDE DEF A, A2, R, q
    <3>5. QED
      BY <3>1, <3>2, <3>3, <3>4
  <2>3. L2 = L \cup q
    BY <1>3, <1>8
  <2>4. A = L
    BY <1>1, <1>6
  <2> HIDE DEF A, A2, L, L2, q
  <2>5. A2 = L2
    BY <2>2, <2>3, <2>4
  <2>6. QED
    BY <2>5 DEF A2, L2, S2, P2
<1>9. QED
  BY <1>7, <1>8

\* Only a REENTRY advances the ledger, and by one.
LEMMA ReentryStep ==
  ASSUME SessionInv, log \in Seq(Events), NEW e \in Events, e \notin Raising,
         ProcessEvent(e), log' = Append(log, e), ReentryConserved
  PROVE  ReentryConserved'
<1> DEFINE n == Len(log) + 1
<1> SUFFICES ASSUME NEW v \in Visitors
             PROVE  reentryCounts'[v] = Cardinality(Processed(v, {"REENTRY"})')
  BY DEF ReentryConserved
<1> DEFINE P  == Processed(v, {"REENTRY"})
           P2 == Processed(v, {"REENTRY"})'
<1>1. reentryCounts' = IF e.type = "REENTRY"
                       THEN [reentryCounts EXCEPT ![e.visitor] = reentryCounts[e.visitor] + 1]
                       ELSE reentryCounts
  BY DEF ProcessEvent, HandleEntry, HandleReentry, HandleExitOpen, HandleExitStub,
         HandleZoneless, HandleZoneEnter, HandleZoneDwell, HandleQueueJoin,
         HandleQueueAbandon
<1>2. reentryCounts \in [Visitors -> Nat] /\ e.visitor \in Visitors
  BY EventsTyped, EventFields DEF SessionInv, SessionTypeOK
<1>3. /\ n \notin P
      /\ P2 = IF e.visitor = v /\ e.type \in {"REENTRY"} THEN P \cup {n} ELSE P
  BY LogGrows
<1>4. IsFiniteSet(P)
  BY TalliedSets DEF SessionInv
<1>5. reentryCounts[v] = Cardinality(P)
  BY DEF ReentryConserved
<1> HIDE DEF P, P2, n
<1>6. Cardinality(P \cup {n}) = Cardinality(P) + 1
  BY <1>3, <1>4, FS_AddElement
<1>7. reentryCounts'[v] = Cardinality(P2)
  BY <1>1, <1>2, <1>3, <1>5, <1>6
<1>8. QED
  BY <1>7 DEF P2

\* An event adds one to the count of a session of its visitor, two when it is an
\* EXIT that finds none, and nothing when it is a zone event without a zone.
LEMMA CountStep ==
  ASSUME SessionInv, log \in Seq(Events), NEW e \in Events, e \notin Raising,
         NEW s, NEW p, Placed(e, s, p), log' = Append(log, e), EventCountBounds
  PROVE  EventCountBounds'
<1> SUFFICES ASSUME NEW v \in Visitors
             PROVE  /\ SumOver(CountOf, SessionsOf(v))' >= Cardinality(CountedEvents(v))'
                    /\ SumOver(CountOf, SessionsOf(v))' <=
                         Cardinality(CountedEvents(v))' +
                         Cardinality(Processed(v, {"EXIT"}))'
  BY DEF EventCountBounds
<1> DEFINE zoneless == /\ e.type \in {"ZONE_ENTER", "ZONE_EXIT", "ZONE_DWELL"}
                       /\ e.zone = NoZone
           S  == SessionsOf(v)
           S2 == SessionsOf(v)'
           C  == CountedEvents(v)
           C2 == CountedEvents(v)'
           X  == Processed(v, {"EXIT"})
           X2 == Processed(v, {"EXIT"})'
           f  == CountOf
           f2 == CountOf'
           n  == Len(log) + 1
<1>1. SessionTypeOK
  BY DEF SessionInv
<1>2. /\ IsFiniteSet(S) /\ S \subseteq Index
      /\ IsFiniteSet(X)
      /\ IsFiniteSet(C) /\ C \subseteq DOMAIN log
  <2>1. IsFiniteSet(S) /\ IsFiniteSet(X) /\ IsFiniteSet(Processed(v, EventType))
    BY <1>1, TalliedSets
  <2>2. C \in SUBSET Processed(v, EventType)
    BY DEF CountedEvents
  <2>3. S \subseteq Index /\ C \subseteq DOMAIN log
    BY DEF SessionsOf, CountedEvents, Processed
  <2>4. IsFiniteSet(C)
    BY <2>1, <2>2, FS_Subset
  <2>5. QED
    BY <2>1, <2>3, <2>4
<1>3. \A i \in Index : f[i] = sessions[i].count /\ f[i] \in Nat
  <2>1. \A i \in Index : sessions[i] \in VisitorSession
    BY <1>1, TalliedSets
  <2>2. \A i \in Index : sessions[i].count \in Nat
    BY <2>1 DEF VisitorSession
  <2>3. QED
    BY <2>2 DEF CountOf
<1>4. /\ \A i \in Index \ {p} : f2[i] = f[i]
      /\ f2[p] = s.count
      /\ IF zoneless
         THEN s.count = IF p \in Index THEN f[p] ELSE 0
         ELSE \/ s.count = (IF p \in Index THEN f[p] ELSE 0) + 1
              \/ e.type = "EXIT" /\ s.count = (IF p \in Index THEN f[p] ELSE 0) + 2
  <2>1. Tallied(e, s, IF p \in Index THEN sessions[p] ELSE NewSession(e, 0, 0))
    BY DEF Placed
  <2>2. NewSession(e, 0, 0).count = 0
    BY DEF NewSession
  <2>3. \A i \in Index' : f2[i] = sessions'[i].count
    BY DEF CountOf
  <2>4. /\ Index' = Index \cup {p}
        /\ sessions'[p] = s
        /\ \A i \in Index \ {p} : sessions'[i].count = sessions[i].count
    BY DEF Placed, SameTally
  <2>5. (IF p \in Index THEN sessions[p] ELSE NewSession(e, 0, 0)).count =
        IF p \in Index THEN f[p] ELSE 0
    BY <1>3, <2>2
  <2>6. IF zoneless
        THEN s.count = IF p \in Index THEN f[p] ELSE 0
        ELSE \/ s.count = (IF p \in Index THEN f[p] ELSE 0) + 1
             \/ e.type = "EXIT" /\ s.count = (IF p \in Index THEN f[p] ELSE 0) + 2
    BY <2>1, <2>5 DEF Tallied
  <2> HIDE DEF f, f2, zoneless
  <2>7. QED
    BY <1>3, <2>3, <2>4, <2>6
<1>5. /\ n \notin C
      /\ C2 = IF e.visitor = v /\ ~zoneless THEN C \cup {n} ELSE C
      /\ n \notin X
      /\ X2 = IF e.visitor = v /\ e.type = "EXIT" THEN X \cup {n} ELSE X
  <2>1. /\ n \notin DOMAIN log
        /\ log'[n] = e
        /\ \A i \in DOMAIN log : log'[i] = log[i]
        /\ n \notin X
        /\ X2 = IF e.visitor = v /\ e.type \in {"EXIT"} /\ e \notin Raising
                THEN X \cup {n} ELSE X
        /\ Processed(v, EventType)' =
             IF e.visitor = v /\ e.type \in EventType /\ e \notin Raising
             THEN Processed(v, EventType) \cup {n} ELSE Processed(v, EventType)
    BY LogGrows
  <2>2. e.type \in EventType
    BY SessionizerAssumption DEF Event
  <2>3. Processed(v, EventType) \subseteq DOMAIN log
    BY DEF Processed
  <2> HIDE DEF n
  <2>4. C2 = IF e.visitor = v /\ ~zoneless THEN C \cup {n} ELSE C
    BY <2>1, <2>2, <2>3 DEF CountedEvents
  <2>5. QED
    BY <1>2, <2>1, <2>4
<1>6. \/ e.visitor = v /\ S2 = S \cup {p} /\ (p \in S <=> p \in Index)
      \/ e.visitor # v /\ S2 = S /\ p \notin S
  BY EventsTyped, SessionsGrow
<1>7. /\ SumOver(f, S) >= Cardinality(C)
      /\ SumOver(f, S) <= Cardinality(C) + Cardinality(X)
  BY DEF EventCountBounds
<1>8. SumOver(f, S) \in Nat
  <2>1. \A i \in S : f[i] \in Nat
    BY <1>2, <1>3
  <2> HIDE DEF f, S
  <2>2. QED
    BY <1>2, <2>1, SumType
<1> HIDE DEF S, S2, C, C2, X, X2, f, f2, n, zoneless
<1>9. /\ Cardinality(C) \in Nat /\ Cardinality(C \cup {n}) = Cardinality(C) + 1
      /\ Cardinality(X) \in Nat /\ Cardinality(X \cup {n}) = Cardinality(X) + 1
  BY <1>2, <1>5, FS_AddElement, FS_CardinalityType
<1>10. /\ SumOver(f2, S2) >= Cardinality(C2)
       /\ SumOver(f2, S2) <= Cardinality(C2) + Cardinality(X2)
  <2>1. CASE e.visitor # v
    <3>1. S2 = S /\ C2 = C /\ X2 = X /\ p \notin S
      BY <1>5, <1>6, <2>1
    <3>2. \A i \in S : f[i] = f2[i]
      BY <1>2, <1>4, <3>1
    <3>3. SumOver(f, S) = SumOver(f2, S)
      BY <3>2, SumSame
    <3>4. QED
      BY <1>7, <3>1, <3>3
  <2>2. CASE e.visitor = v
    <3> DEFINE old == IF p \in S THEN f[p] ELSE 0
    <3>1. S2 = S \cup {p} /\ (p \in S <=> p \in Index)
      BY <1>6, <2>2
    <3>2. old \in Nat
      BY <1>3, <3>1
    <3>3. IF zoneless
          THEN f2[p] = old
          ELSE f2[p] = old + 1 \/ (e.type = "EXIT" /\ f2[p] = old + 2)
      BY <1>4, <3>1
    <3>4. SumOver(f2, S2) = SumOver(f, S) + f2[p] - old
      <4>1. \A i \in S : f[i] \in Nat
        BY <1>2, <1>3
      <4>2. \A i \in S \ {p} : f2[i] = f[i]
        BY <1>2, <1>4
      <4>3. p \in S2 /\ f2[p] \in Nat
        <5> HIDE DEF old
        <5>1. QED
          BY <3>1, <3>2, <3>3
      <4>4. IsFiniteSet(S) /\ S2 = S \cup {p}
        BY <1>2, <3>1
      <4>5. QED
        BY <4>1, <4>2, <4>3, <4>4, SumStep
    <3> HIDE DEF old
    <3>5. C2 = (IF zoneless THEN C ELSE C \cup {n}) /\ X2 = (IF e.type = "EXIT" THEN X \cup {n} ELSE X)
      BY <1>5, <2>2
    <3>6. CASE zoneless
      <4>1. e.type # "EXIT" /\ SumOver(f2, S2) = SumOver(f, S)
        BY <1>8, <3>2, <3>3, <3>4, <3>6 DEF zoneless
      <4>2. QED
        BY <1>7, <3>5, <3>6, <4>1
    <3>7. CASE ~zoneless
      <4>1. \/ SumOver(f2, S2) = SumOver(f, S) + 1
            \/ e.type = "EXIT" /\ SumOver(f2, S2) = SumOver(f, S) + 2
        BY <1>8, <3>2, <3>3, <3>4, <3>7
      <4>2. Cardinality(C2) = Cardinality(C) + 1
        BY <1>9, <3>5, <3>7
      <4>3. Cardinality(X2) = IF e.type = "EXIT" THEN Cardinality(X) + 1 ELSE Cardinality(X)
        BY <1>9, <3>5
      <4>4. QED
        BY <1>7, <1>8, <1>9, <4>1, <4>2, <4>3
    <3>8. QED
      BY <3>6, <3>7
  <2>3. QED
    BY <2>1, <2>2
<1>11. QED
  BY <1>10 DEF S2, C2, X2, f2

\* Begins and ends are matched at every time, those nothing happened at included.
LEMMA VisitsAnyTime ==
  ASSUME VisitsConserved, NEW v \in Visitors, NEW t, t # NoTime
  PROVE  VisitsAt(v, t)
<1>1. CASE t \in Moments
  BY <1>1 DEF VisitsConserved
<1>2. CASE t \notin Moments
  <2>1. /\ \A i \in DOMAIN log : log[i].time # t
        /\ \A i \in Index : sessions[i].start # t /\ sessions[i].end # t
    BY <1>2 DEF Moments
  <2>2. /\ \A types : ProcessedAt(v, types, t) = {}
        /\ BegunAt(v, t) = {}
        /\ EndedAt(v, t) = {}
    BY <2>1 DEF ProcessedAt, Processed, BegunAt, EndedAt, SessionsOf
  <2>3. Cardinality({}) <= Cardinality({})
    BY FS_EmptySet
  <2>4. QED
    BY <2>2, <2>3 DEF VisitsAt
<1>3. QED
  BY <1>1, <1>2

\* The sets VisitsAt counts are finite.
LEMMA VisitSets ==
  ASSUME SessionTypeOK, log \in Seq(Events), NEW v, NEW t
  PROVE  /\ \A types : IsFiniteSet(ProcessedAt(v, types, t))
         /\ IsFiniteSet(BegunAt(v, t))
         /\ IsFiniteSet(EndedAt(v, t))
<1>1. /\ IsFiniteSet(SessionsOf(v))
      /\ \A types : IsFiniteSet(Processed(v, types))
  BY TalliedSets
<1>2. /\ \A types : ProcessedAt(v, types, t) \in SUBSET Processed(v, types)
      /\ BegunAt(v, t) \in SUBSET SessionsOf(v)
      /\ EndedAt(v, t) \in SUBSET SessionsOf(v)
  BY DEF ProcessedAt, BegunAt, EndedAt
<1>3. QED
  BY <1>1, <1>2, FS_Subset

\* S2 is S with at most one element more, n, when c holds.
OneMore(S2, S, n, c) == n \notin S /\ S2 = IF c THEN S \cup {n} ELSE S

LEMMA CountOneMore ==
  ASSUME NEW S, NEW S2, NEW n, NEW c \in BOOLEAN, IsFiniteSet(S), OneMore(S2, S, n, c)
  PROVE  /\ Cardinality(S) \in Nat
         /\ Cardinality(S2) = Cardinality(S) + (IF c THEN 1 ELSE 0)
<1>1. Cardinality(S) \in Nat /\ Cardinality(S \cup {n}) = Cardinality(S) + 1
  BY FS_AddElement, FS_CardinalityType DEF OneMore
<1>2. QED
  BY <1>1 DEF OneMore

\* An event changes what the log has of its visitor and its time, and, when a
\* session begins or ends, what the sessions have of them.
LEMMA VisitsGrow ==
  ASSUME SessionInv, log \in Seq(Events), NEW e \in Events, e \notin Raising,
         NEW p, NEW x, Visits(e, p, x), log' = Append(log, e),
         NEW v \in Visitors, NEW t, t # NoTime
  PROVE  /\ \A types : OneMore(ProcessedAt(v, types, t)', ProcessedAt(v, types, t), Len(log) + 1,
                             e.visitor = v /\ e.time = t /\ e.type \in types)
         /\ OneMore(BegunAt(v, t)', BegunAt(v, t), p,
                  e.visitor = v /\ e.time = t /\ p # None)
         /\ OneMore(EndedAt(v, t)', EndedAt(v, t), x,
                  e.visitor = v /\ e.time = t /\ x # None)
<1> DEFINE n == Len(log) + 1
<1>1. /\ None \notin Index /\ None \notin Index'
  <2>1. None \notin Index
    BY DEF SessionInv, SessionTypeOK, Index, None
  <2>2. QED
    BY <2>1 DEF Visits
<1>2. ASSUME NEW types
      PROVE  OneMore(ProcessedAt(v, types, t)', ProcessedAt(v, types, t), n,
                   e.visitor = v /\ e.time = t /\ e.type \in types)
  <2>1. /\ n \notin DOMAIN log
        /\ log'[n] = e
        /\ \A i \in DOMAIN log : log'[i] = log[i]
        /\ Processed(v, types)' = IF e.visitor = v /\ e.type \in types /\ e \notin Raising
                                  THEN Processed(v, types) \cup {n}
                                  ELSE Processed(v, types)
    BY LogGrows
  <2>2. Processed(v, types) \subseteq DOMAIN log
    BY DEF Processed
  <2> HIDE DEF n
  <2>3. QED
    BY <2>1, <2>2 DEF OneMore, ProcessedAt
<1> HIDE DEF n
<1>3. OneMore(BegunAt(v, t)', BegunAt(v, t), p,
            e.visitor = v /\ e.time = t /\ p # None)
  BY <1>1 DEF Visits, OneMore, BegunAt, SessionsOf
<1>4. OneMore(EndedAt(v, t)', EndedAt(v, t), x,
            e.visitor = v /\ e.time = t /\ x # None)
  <2>1. \A i \in Index : i \in Index' /\ sessions'[i].visitor = sessions[i].visitor
    BY DEF Visits
  <2>2. \A i \in Index' \ Index : i # x => sessions'[i].end = NoTime
    BY DEF Visits
  <2>3. \A i \in Index : i # x => sessions'[i].end = sessions[i].end
    BY DEF Visits
  <2>4. x \notin EndedAt(v, t)
    BY <1>1 DEF Visits, EndedAt, SessionsOf
  <2>5. x # None => x \in Index' /\ sessions'[x].visitor = e.visitor /\ sessions'[x].end = e.time
    BY DEF Visits
  <2>6. EndedAt(v, t)' = IF e.visitor = v /\ e.time = t /\ x # None
                         THEN EndedAt(v, t) \cup {x} ELSE EndedAt(v, t)
    BY <1>1, <2>1, <2>2, <2>3, <2>4, <2>5 DEF EndedAt, SessionsOf
  <2>7. QED
    BY <2>4, <2>6 DEF OneMore
<1>5. QED
  BY <1>2, <1>3, <1>4 DEF n

\* Every ENTRY and every EXIT has its session, and every session its event.
LEMMA VisitStep ==
  ASSUME SessionInv, log \in Seq(Events), NEW e \in Events, e \notin Raising,
         NEW p, NEW x, Visits(e, p, x), log' = Append(log, e), VisitsConserved
  PROVE  VisitsConserved'
<1> SUFFICES ASSUME NEW v \in Visitors, NEW t, t # NoTime
             PROVE  VisitsAt(v, t)'
  BY DEF VisitsConserved, Moments
<1> DEFINE here  == e.visitor = v /\ e.time = t
           n     == Len(log) + 1
           P(T)  == ProcessedAt(v, T, t)
           All   == Cardinality(P(EventType))
           Entry == Cardinality(P({"ENTRY"}))
           Exit  == Cardinality(P({"EXIT"}))
           Both  == Cardinality(P({"EXIT", "ENTRY"}))
           Begun == Cardinality(BegunAt(v, t))
           Ended == Cardinality(EndedAt(v, t))
<1>1. SessionTypeOK /\ e.type \in EventType
  BY EventsTyped DEF SessionInv, Event
<1>2. /\ \A T : IsFiniteSet(P(T))
      /\ IsFiniteSet(BegunAt(v, t)) /\ IsFiniteSet(EndedAt(v, t))
  BY <1>1, VisitSets
<1>3. /\ \A T : OneMore(P(T)', P(T), n, here /\ e.type \in T)
      /\ OneMore(BegunAt(v, t)', BegunAt(v, t), p, here /\ p # None)
      /\ OneMore(EndedAt(v, t)', EndedAt(v, t), x, here /\ x # None)
  BY VisitsGrow
<1>4. /\ Entry <= Begun /\ Begun <= All
      /\ Exit <= Ended /\ Ended <= Both
  BY VisitsAnyTime DEF VisitsAt
<1>5. /\ e.type = "ENTRY" => p # None
      /\ e.type = "EXIT" => x # None
      /\ x # None => e.type \in {"EXIT", "ENTRY"}
  <2>1. None \notin Index'
    BY <1>1 DEF Visits, SessionTypeOK, Index, None
  <2>2. QED
    BY <2>1 DEF Visits
<1>6. ASSUME NEW T
      PROVE  /\ Cardinality(P(T)) \in Nat
             /\ Cardinality(P(T)') =
                  Cardinality(P(T)) + (IF here /\ e.type \in T THEN 1 ELSE 0)
  <2>1. IsFiniteSet(P(T)) /\ OneMore(P(T)', P(T), n, here /\ e.type \in T)
    BY <1>2, <1>3
  <2> HIDE DEF P, n, here
  <2>2. QED
    BY <2>1, CountOneMore
<1>7. /\ Begun \in Nat
      /\ Begun' = Begun + (IF here /\ p # None THEN 1 ELSE 0)
  BY <1>2, <1>3, CountOneMore
<1>8. /\ Ended \in Nat
      /\ Ended' = Ended + (IF here /\ x # None THEN 1 ELSE 0)
  BY <1>2, <1>3, CountOneMore
<1>9. /\ All \in Nat /\ All' = All + (IF here THEN 1 ELSE 0)
      /\ Entry \in Nat /\ Entry' = Entry + (IF here /\ e.type = "ENTRY" THEN 1 ELSE 0)
      /\ Exit \in Nat /\ Exit' = Exit + (IF here /\ e.type = "EXIT" THEN 1 ELSE 0)
      /\ Both \in Nat
      /\ Both' = Both + (IF here /\ e.type \in {"EXIT", "ENTRY"} THEN 1 ELSE 0)
  BY <1>1, <1>6
<1>10. /\ Entry' <= Begun' /\ Begun' <= All'
       /\ Exit' <= Ended' /\ Ended' <= Both'
  <2> HIDE DEF All, Entry, Exit, Both, Begun, Ended, here
  <2>1. QED
    BY <1>4, <1>5, <1>7, <1>8, <1>9
<1>11. QED
  BY <1>10 DEF VisitsAt

\* An event that is appended and sessionized is accounted once.
LEMMA AcceptKeepsMatch ==
  ASSUME SessionInv, log \in Seq(Events), NEW e \in Events, e \notin Raising,
         ProcessEvent(e), log' = Append(log, e), SessionsMatchLog
  PROVE  SessionsMatchLog'
<1>1. PICK s, p : Placed(e, s, p)
  BY EventsTyped, HandlerPlaces
<1>2. PICK q, x : Visits(e, q, x)
  BY EventsTyped, HandlerVisits
<1>3. VisitsConserved'
  BY <1>2, VisitStep DEF SessionsMatchLog
<1>4. QED
  BY <1>1, <1>3, DwellStep, QueueStep, ReentryStep, CountStep DEF SessionsMatchLog

SameSpan(s, c) == s.start = c.start /\ s.end = c.end

\* A step that counts nothing: a log that grows by events on which the handler
\* raises, and sessions that are promoted or left alone.
LEMMA SameTallyKeepsMatch ==
  ASSUME SessionTypeOK, log \in Seq(Events), SessionsMatchLog,
         Index' = Index,
         \A i \in Index : /\ sessions'[i].visitor = sessions[i].visitor
                          /\ SameTally(sessions'[i], sessions[i])
                          /\ SameSpan(sessions'[i], sessions[i]),
         reentryCounts' = reentryCounts,
         \/ log' = log
         \/ \E e \in Events \cap Raising : log' = Append(log, e)
  PROVE  SessionsMatchLog'
<1>1. /\ \A v, types : Processed(v, types)' = Processed(v, types)
      /\ \A i \in DOMAIN log : i \in DOMAIN log' /\ log'[i] = log[i]
      /\ \A v, types : Processed(v, types) \subseteq DOMAIN log
  <2>1. \A v, types : Processed(v, types) \subseteq DOMAIN log
    BY DEF Processed
  <2>2. CASE log' = log
    BY <2>1, <2>2 DEF Processed
  <2>3. CASE \E e \in Events \cap Raising : log' = Append(log, e)
    BY <2>1, <2>3, LogGrows
  <2>4. QED
    BY <2>2, <2>3
<1>2. \A v : SessionsOf(v)' = SessionsOf(v) /\ SessionsOf(v) \subseteq Index
  BY DEF SessionsOf
<1>3. DwellConserved'
  <2> SUFFICES ASSUME NEW v \in Visitors, NEW z \in Zones
               PROVE  SumOver(DwellIn(z), SessionsOf(v))' =
                      SumOver(SentTo(z), Processed(v, {"ZONE_EXIT", "ZONE_DWELL"}))'
    BY DEF DwellConserved
  <2> DEFINE S == SessionsOf(v)
             P == Processed(v, {"ZONE_EXIT", "ZONE_DWELL"})
  <2>1. \A i \in S : DwellIn(z)[i] = DwellIn(z)'[i]
    BY <1>2 DEF DwellIn, SameTally
  <2>2. \A i \in P : SentTo(z)[i] = SentTo(z)'[i]
    BY <1>1 DEF SentTo
  <2>3. SumOver(DwellIn(z), S) = SumOver(SentTo(z), P)
    BY DEF SessionsMatchLog, DwellConserved
  <2>4. SessionsOf(v)' = S /\ Processed(v, {"ZONE_EXIT", "ZONE_DWELL"})' = P
    BY <1>1, <1>2
  <2> HIDE DEF S, P
  <2>5. SumOver(DwellIn(z), S) = SumOver(DwellIn(z)', S)
    BY <2>1, SumSame
  <2>6. SumOver(SentTo(z), P) = SumOver(SentTo(z)', P)
    BY <2>2, SumSame
  <2>7. QED
    BY <2>3, <2>4, <2>5, <2>6
<1>4. QueueConserved'
  <2> SUFFICES ASSUME NEW v \in Visitors
               PROVE  UNION {sessions'[i].queue : i \in SessionsOf(v)'} =
                      {QueueEventOf(log'[i]) :
                         i \in Processed(v, {"BILLING_QUEUE_JOIN", "BILLING_QUEUE_ABANDON"})'}
    BY DEF QueueConserved
  <2> DEFINE S == SessionsOf(v)
             P == Processed(v, {"BILLING_QUEUE_JOIN", "BILLING_QUEUE_ABANDON"})
  <2>1. UNION {sessions[i].queue : i \in S} = {QueueEventOf(log[i]) : i \in P}
    BY DEF SessionsMatchLog, QueueConserved
  <2>2. SessionsOf(v)' = S /\ P' = P /\ S \subseteq Index /\ P \subseteq DOMAIN log
    BY <1>1, <1>2
  <2> HIDE DEF S, P
  <2>3. {sessions'[i].queue : i \in S} = {sessions[i].queue : i \in S}
    BY <2>2 DEF SameTally
  <2>4. {QueueEventOf(log'[i]) : i \in P} = {QueueEventOf(log[i]) : i \in P}
    BY <1>1, <2>2
  <2>5. QED
    BY <2>1, <2>2, <2>3, <2>4 DEF P
<1>5. ReentryConserved'
  BY <1>1 DEF SessionsMatchLog, ReentryConserved
<1>6. EventCountBounds'
  <2> SUFFICES ASSUME NEW v \in Visitors
               PROVE  /\ SumOver(CountOf, SessionsOf(v))' >= Cardinality(CountedEvents(v))'
                      /\ SumOver(CountOf, SessionsOf(v))' <=
                           Cardinality(CountedEvents(v))' +
                           Cardinality(Processed(v, {"EXIT"}))'
    BY DEF EventCountBounds
  <2> DEFINE S == SessionsOf(v)
  <2>1. /\ SumOver(CountOf, S) >= Cardinality(CountedEvents(v))
        /\ SumOver(CountOf, S) <=
             Cardinality(CountedEvents(v)) + Cardinality(Processed(v, {"EXIT"}))
    BY DEF SessionsMatchLog, EventCountBounds
  <2>2. \A i \in S : CountOf[i] = CountOf'[i]
    BY <1>2 DEF CountOf, SameTally
  <2>3. SessionsOf(v)' = S /\ Processed(v, {"EXIT"})' = Processed(v, {"EXIT"})
    BY <1>1, <1>2
  <2>4. CountedEvents(v)' = CountedEvents(v)
    BY <1>1 DEF CountedEvents
  <2> HIDE DEF S
  <2>5. SumOver(CountOf, S) = SumOver(CountOf', S)
    BY <2>2, SumSame
  <2>6. QED
    BY <2>1, <2>3, <2>4, <2>5
<1>7. VisitsConserved'
  <2> SUFFICES ASSUME NEW v \in Visitors, NEW t, t # NoTime
               PROVE  VisitsAt(v, t)'
    BY DEF VisitsConserved, Moments
  <2>1. VisitsAt(v, t)
    BY VisitsAnyTime DEF SessionsMatchLog
  <2>2. \A types : ProcessedAt(v, types, t)' = ProcessedAt(v, types, t)
    BY <1>1 DEF ProcessedAt
  <2>3. BegunAt(v, t)' = BegunAt(v, t) /\ EndedAt(v, t)' = EndedAt(v, t)
    BY <1>2 DEF BegunAt, EndedAt, SameSpan
  <2>4. QED
    BY <2>1, <2>2, <2>3 DEF VisitsAt
<1>8. QED
  BY <1>3, <1>4, <1>5, <1>6, <1>7 DEF SessionsMatchLog

\* Before any event there is nothing to account.
LEMMA NothingToMatch ==
  sessions = << >> /\ log = << >> /\ reentryCounts = [v \in Visitors |-> 0]
    => SessionsMatchLog
<1> SUFFICES ASSUME sessions = << >>, log = << >>,
                    reentryCounts = [v \in Visitors |-> 0]
             PROVE  SessionsMatchLog
  OBVIOUS
<1>1. Index = {} /\ DOMAIN log = {}
  BY EmptySeq DEF Index
<1>2. /\ \A v : SessionsOf(v) = {}
      /\ \A v, types : Processed(v, types) = {}
      /\ \A v : CountedEvents(v) = {}
  BY <1>1 DEF SessionsOf, Processed, CountedEvents
<1>3. DwellConserved
  BY <1>2, SumEmpty DEF DwellConserved
<1>4. QueueConserved
  BY <1>2 DEF QueueConserved
<1>5. Cardinality({}) = 0
  BY FS_EmptySet
<1>6. ReentryConserved
  BY <1>2, <1>5 DEF ReentryConserved
<1>7. SumOver(CountOf, {}) = 0
  BY SumEmpty
<1>8. EventCountBounds
  <2> SUFFICES ASSUME NEW v \in Visitors
               PROVE  /\ SumOver(CountOf, SessionsOf(v)) >= Cardinality(CountedEvents(v))
                      /\ SumOver(CountOf, SessionsOf(v)) <=
                           Cardinality(CountedEvents(v)) + Cardinality(Processed(v, {"EXIT"}))
    BY DEF EventCountBounds
  <2>1. SessionsOf(v) = {} /\ CountedEvents(v) = {} /\ Processed(v, {"EXIT"}) = {}
    BY <1>2
  <2>2. QED
    BY <1>5, <1>7, <2>1
<1>9. VisitsConserved
  BY <1>1 DEF VisitsConserved, Moments
<1>10. QED
  BY <1>3, <1>4, <1>6, <1>8, <1>9 DEF SessionsMatchLog

LEMMA MatchStep ==
  SessionInv /\ StoreInv /\ SessionsMatchLog /\ [Next]_vars => SessionsMatchLog'
<1> SUFFICES ASSUME SessionInv, StoreInv, SessionsMatchLog, [Next]_vars
             PROVE  SessionsMatchLog'
  OBVIOUS
<1>0. SessionTypeOK /\ log \in Seq(Events)
  BY DEF SessionInv, StoreInv, StoreTypeOK
<1>1. CASE AcceptEvent
  <2>1. /\ Head(batch) \in Events /\ Head(batch) \notin Raising
        /\ ProcessEvent(Head(batch))
        /\ log' = Append(log, Head(batch))
    BY <1>1 DEF AcceptEvent, AppendEvent
  <2>2. QED
    BY <1>0, <2>1, AcceptKeepsMatch
<1>2. CASE AcceptUnprocessed
  <2>1. /\ Head(batch) \in Events \cap Raising
        /\ log' = Append(log, Head(batch))
        /\ sessions' = sessions /\ reentryCounts' = reentryCounts
    BY <1>2, IngestionAssumption DEF AcceptUnprocessed, AppendEvent, sessionVars
  <2>2. Index' = Index
    BY <2>1 DEF Index
  <2>3. QED
    BY <1>0, <2>1, <2>2, SameTallyKeepsMatch DEF SameTally, SameSpan
<1>3. CASE UNCHANGED <<sessionVars, log>>
  <2>1. sessions' = sessions /\ reentryCounts' = reentryCounts /\ log' = log
    BY <1>3 DEF sessionVars
  <2>2. Index' = Index
    BY <2>1 DEF Index
  <2>3. QED
    BY <1>0, <2>1, <2>2, SameTallyKeepsMatch DEF SameTally, SameSpan
<1>4. QED
  <2>1. CASE \E b \in Requests : StartRequest(b)
    BY <1>3, <2>1 DEF StartRequest, storeVars
  <2>2. CASE RejectEvent \/ SkipDuplicate \/ UNCHANGED vars
    BY <1>3, <2>2 DEF RejectEvent, SkipDuplicate, vars, storeVars
  <2>3. CASE EndBatch /\ UNCHANGED sessionVars
    BY <1>3, <2>3 DEF EndBatch, storeVars
  <2>4. QED
    BY <1>1, <1>2, <2>1, <2>2, <2>3 DEF Next, IngestStep

\* What the sessions say of a visitor is what the log holds of it, for any events,
\* batches, resends and raises: the dwell of every zone and the re-entries counted
\* once, the same queue events (as sets), a session of its own begun by every ENTRY
\* and ended by every EXIT, none begun or ended without a stored event of its own
\* at that time, and event counts within their bounds. Events whose processing
\* raised are left out of the account (ingestion.py 180-207, sessionizer.py
\* 207-440).
THEOREM SessionsMatchTheLog == Spec => []SessionsMatchLog
<1> DEFINE I == StoreInv /\ LedgerInv /\ SessionsMatchLog
<1>1. Init => I
  BY StoreInitInv, SessionInitInv, NothingToMatch DEF Init, SessionInit, IngestInit
<1>2. I /\ [Next]_vars => I'
  <2> SUFFICES ASSUME I, [Next]_vars
               PROVE  I'
    OBVIOUS
  <2>1. StoreInv'
    BY StoreStep
  <2>2. LedgerInv'
    BY IngestRefines, SessionStep
  <2>3. SessionsMatchLog'
    BY MatchStep DEF LedgerInv
  <2>4. QED
    BY <2>1, <2>2, <2>3
<1>3. I => SessionsMatchLog
  OBVIOUS
<1>4. QED
  BY <1>1, <1>2, <1>3, PTL DEF Spec

-----------------------------------------------------------------------------
(***************************************************************************)
(* The endpoint: ingestion and the correlation after every batch.          *)
(***************************************************************************)

\* A session that visited no zone is no purchase candidate. This joins the
\* funnel's stages: a JOIN records the zone of the queue, and only a session
\* with a JOIN or a billing zone is converted.
CandidateVisited ==
  \A i \in Index : sessions[i].candidate => sessions[i].zones # {}

ApiInv ==
  /\ SessionInv
  /\ converted \subseteq Index
  /\ CandidateJustified
  /\ CandidateVisited

-----------------------------------------------------------------------------

\* Queue events come from the billing counter. The API does not enforce it; the
\* pipeline names ZONE_BILLING_QUEUE in every JOIN (events.py 319-323), and a JOIN
\* without a zone is placed in it (sessionizer.py 390).
BillingJoins ==
  \A e \in Events :
    e.type = "BILLING_QUEUE_JOIN" => e.zone \in BillingZones \cup {NoZone}

\* A session with JOINs was in a billing zone, and one of the JOINs is the last.
AtBilling(s) == BillingJoins /\ Joined(s) => s.zones \cap BillingZones # {}
HasLatest(s) ==
  Joined(s) => \E t \in JoinTimes(s) : \A u \in JoinTimes(s) : u <= t

\* What a handler may do to a session: zones, queue events and the candidate flag
\* are never taken back, nor is an end; the flag comes with a JOIN, a JOIN brings
\* the flag and a zone.
Keeps(old, new) ==
  /\ new.store = old.store
  /\ new.start = old.start
  /\ new.staff = old.staff
  /\ ~IsOpen(old) => new.end = old.end
  /\ old.queue \subseteq new.queue
  /\ AtBilling(old) => AtBilling(new)
  /\ HasLatest(old) => HasLatest(new)
  /\ old.zones \subseteq new.zones
  /\ Joined(old) => Joined(new)
  /\ old.candidate => new.candidate
  /\ new.candidate => old.candidate \/ Joined(new)
  /\ Joined(new) /\ ~Joined(old) => new.candidate /\ new.zones # {}

\* The same for a session a handler opens.
Fresh(new) ==
  /\ new.candidate <=> Joined(new)
  /\ Joined(new) => new.zones # {}
  /\ AtBilling(new)
  /\ HasLatest(new)

Grows ==
  /\ Index \subseteq Index'
  /\ \A i \in Index : Keeps(sessions[i], sessions'[i])
  /\ \A i \in Index' \ Index : Fresh(sessions'[i])

LEMMA NewSessionFresh ==
  ASSUME NEW e, NEW r, NEW n
  PROVE  /\ ~Joined(NewSession(e, r, n))
         /\ NewSession(e, r, n).zones = {}
         /\ NewSession(e, r, n).candidate = FALSE
  BY DEF NewSession, Joined

\* The fields of a session that no handler changes once it is opened.
SamePlace(old, new) ==
  /\ new.store = old.store
  /\ new.start = old.start
  /\ new.staff = old.staff
  /\ ~IsOpen(old) => new.end = old.end

\* A session that only changes other fields is kept.
LEMMA SameKept ==
  ASSUME NEW old, NEW new, SamePlace(old, new),
         new.zones = old.zones, new.queue = old.queue, new.candidate = old.candidate
  PROVE  Keeps(old, new)
  BY DEF Keeps, SamePlace, Joined, JoinTimes, AtBilling, HasLatest

LEMMA AppendGrows ==
  ASSUME NEW ss \in Seq(VisitorSession), NEW s \in VisitorSession, SessionTypeOK,
         Len(ss) = Len(sessions),
         \A i \in Index : Keeps(sessions[i], ss[i]),
         sessions' = Append(ss, s),
         Fresh(s)
  PROVE  Grows
<1> DEFINE n == Len(sessions) + 1
<1>1. /\ Index = 1 .. Len(sessions)
      /\ Len(sessions) \in Nat
  BY DEF SessionTypeOK, Index
<1>2. /\ Len(sessions') = n
      /\ sessions'[n] = s
      /\ \A i \in Index : sessions'[i] = ss[i]
      /\ sessions' \in Seq(VisitorSession)
  BY <1>1, AppendProperties
<1>3. Index' = 1 .. n
  BY <1>2 DEF Index
<1>4. QED
  BY <1>1, <1>2, <1>3 DEF Grows

LEMMA EnrichGrows ==
  ASSUME NEW e \in Events, NEW s \in VisitorSession, SessionInv, Enrich(e, s),
         Keeps(CurrentSession(e), s)
  PROVE  Grows
<1> DEFINE a == active[e.visitor]
<1>1. sessions \in Seq(VisitorSession) /\ SessionTypeOK
  BY DEF SessionInv, SessionTypeOK
<1>2. CASE a = None
  <2>1. Fresh(s)
    BY <1>2, NewSessionFresh DEF CurrentSession, Keeps, Fresh, AtBilling, HasLatest
  <2>2. sessions' = Append(sessions, s)
    BY <1>2 DEF Enrich, PutActive
  <2>3. \A i \in Index : Keeps(sessions[i], sessions[i])
    BY SameKept DEF SamePlace
  <2>4. QED
    BY <1>1, <2>1, <2>2, <2>3, AppendGrows
<1>3. CASE a # None
  <2>1. a \in Index /\ CurrentSession(e) = sessions[a]
    BY EventsTyped, <1>3, EventFields DEF SessionInv, ActiveMatchesOpen, ActiveIsOpen, CurrentSession
  <2>2. sessions' = [sessions EXCEPT ![a] = s]
    BY <1>3 DEF Enrich
  <2>3. /\ Index' = Index
        /\ \A i \in Index : sessions'[i] = IF i = a THEN s ELSE sessions[i]
    BY <2>1, <2>2 DEF Index
  <2>4. \A i \in Index : Keeps(sessions[i], sessions[i])
    BY SameKept DEF SamePlace
  <2>5. QED
    BY <2>1, <2>3, <2>4 DEF Grows
<1>4. QED
  BY <1>2, <1>3

\* One more JOIN: the later of it and the last one is the last.
LEMMA JoinAddsTime ==
  ASSUME NEW c \in VisitorSession, NEW s, NEW q \in QueueEvent,
         q.type = "BILLING_QUEUE_JOIN",
         s.queue = c.queue \cup {q},
         HasLatest(c)
  PROVE  HasLatest(s)
<1>1. JoinTimes(s) = JoinTimes(c) \cup {q.time}
  BY DEF JoinTimes
<1>2. q.time \in Nat /\ JoinTimes(c) \subseteq Nat
  BY DEF JoinTimes, VisitorSession, QueueEvent, Time
<1>3. CASE JoinTimes(c) = {}
  BY <1>1, <1>2, <1>3 DEF HasLatest
<1>4. CASE JoinTimes(c) # {}
  <2>1. Joined(c)
    BY <1>4 DEF Joined, JoinTimes
  <2>2. PICK t \in JoinTimes(c) : \A u \in JoinTimes(c) : u <= t
    BY <2>1 DEF HasLatest
  <2>3. CASE q.time <= t
    BY <1>1, <2>2, <2>3 DEF HasLatest
  <2>4. CASE ~(q.time <= t)
    <3>1. \A u \in JoinTimes(s) : u <= q.time
      BY <1>1, <1>2, <2>2, <2>4
    <3>2. QED
      BY <1>1, <3>1 DEF HasLatest
  <2>5. QED
    BY <2>3, <2>4
<1>5. QED
  BY <1>3, <1>4

\* No handler takes anything back from a session, and none makes a candidate
\* without a JOIN.
LEMMA HandlerGrows ==
  ASSUME NEW e \in Events, SessionInv, ProcessEvent(e)
  PROVE  Grows
<1> DEFINE c == CurrentSession(e)
<1>0. /\ c \in VisitorSession
      /\ sessions \in Seq(VisitorSession)
      /\ SessionTypeOK
      /\ reentryCounts \in [Visitors -> Nat]
      /\ e.visitor \in Visitors
      /\ IsOpen(c)
  BY EventsTyped, CurrentSessionType, EventFields DEF SessionInv, ActiveMatchesOpen, SessionTypeOK
<1> HIDE DEF c
<1>1. CASE HandleEntry(e)
  <2> DEFINE s == NewSession(e, 0, 1)
  <2>1. s \in VisitorSession /\ Fresh(s)
    BY EventsTyped, NewSessionType, NewSessionFresh DEF Fresh, AtBilling, HasLatest
  <2>2. sessions' = Append(Closed(e), s)
    BY <1>1 DEF HandleEntry, PutActive
  <2>3. Closed(e) \in Seq(VisitorSession) /\ Len(Closed(e)) = Len(sessions)
    BY EventsTyped, ClosedSessions
  <2>4. \A i \in Index : Keeps(sessions[i], Closed(e)[i])
    <3> SUFFICES ASSUME NEW i \in Index
                 PROVE  Keeps(sessions[i], Closed(e)[i])
      OBVIOUS
    <3>1. sessions[i] \in VisitorSession
      BY <1>0 DEF Index
    <3>2. \/ Closed(e)[i] = sessions[i]
          \/ /\ Closed(e)[i] = [sessions[i] EXCEPT !.end = e.time]
             /\ IsOpen(sessions[i])
      BY <1>0 DEF Closed, Index, SessionInv, ActiveMatchesOpen, ActiveIsOpen
    <3>3. /\ Closed(e)[i].zones = sessions[i].zones
          /\ Closed(e)[i].queue = sessions[i].queue
          /\ Closed(e)[i].candidate = sessions[i].candidate
          /\ SamePlace(sessions[i], Closed(e)[i])
      BY <3>1, <3>2 DEF VisitorSession, SamePlace
    <3>4. QED
      BY <3>3, SameKept
  <2> HIDE DEF s
  <2>5. QED
    BY <1>0, <2>1, <2>2, <2>3, <2>4, AppendGrows
<1>2. CASE HandleReentry(e)
  <2> DEFINE n == reentryCounts[e.visitor] + 1
             s == [c EXCEPT !.reentry = n, !.count = @ + 1]
  <2>1. n \in Nat
    BY <1>0
  <2>2. s \in VisitorSession
    <3>1. [c EXCEPT !.reentry = n] \in VisitorSession
      BY <1>0, <2>1, SessionUpdates
    <3>2. QED
      BY <1>0, <3>1, SessionUpdates, SessionReads
  <2>3. /\ s.zones = c.zones
        /\ s.queue = c.queue
        /\ s.candidate = c.candidate
        /\ SamePlace(c, s)
    BY <1>0 DEF VisitorSession, SamePlace, IsOpen
  <2>4. Enrich(e, s)
    BY <1>2 DEF HandleReentry, c
  <2> HIDE DEF s
  <2>5. Keeps(c, s)
    BY <2>3, SameKept
  <2>6. QED
    BY <2>2, <2>4, <2>5, EnrichGrows DEF c
<1>3. CASE HandleExitOpen(e)
  <2> DEFINE a == active[e.visitor]
             s == [c EXCEPT !.count = @ + 1, !.end = e.time]
  <2>1. a \in Index /\ c = sessions[a]
    BY <1>3, <1>0 DEF HandleExitOpen, SessionInv, ActiveMatchesOpen, ActiveIsOpen, CurrentSession, c
  <2>2. sessions' = [sessions EXCEPT ![a] = s]
    BY <1>3 DEF HandleExitOpen, c
  <2>3. /\ s.zones = c.zones
        /\ s.queue = c.queue
        /\ s.candidate = c.candidate
        /\ SamePlace(c, s)
    BY <1>0 DEF VisitorSession, SamePlace, IsOpen
  <2> HIDE DEF s
  <2>4. /\ Index' = Index
        /\ \A i \in Index : sessions'[i] = IF i = a THEN s ELSE sessions[i]
    BY <2>1, <2>2 DEF Index
  <2>5. Keeps(c, s) /\ \A i \in Index : Keeps(sessions[i], sessions[i])
    BY <2>3, SameKept DEF SamePlace
  <2>6. QED
    BY <2>1, <2>4, <2>5 DEF Grows
<1>4. CASE HandleExitStub(e)
  <2> DEFINE n == NewSession(e, 0, 2)
             s == [n EXCEPT !.end = e.time]
  <2>1. n \in VisitorSession /\ ~Joined(n) /\ n.candidate = FALSE
    <3>1. n \in VisitorSession
      BY EventsTyped, NewSessionType
    <3>2. ~Joined(n) /\ n.candidate = FALSE
      BY DEF NewSession, Joined
    <3>3. QED
      BY <3>1, <3>2
  <2> HIDE DEF n
  <2>2. s \in VisitorSession
    BY EventsTyped, <2>1, EventFields, SessionUpdates DEF Time
  <2>3. s.queue = n.queue /\ s.candidate = FALSE
    BY <2>1 DEF VisitorSession
  <2>4. Fresh(s)
    BY <2>1, <2>3 DEF Fresh, Joined, AtBilling, HasLatest
  <2>5. sessions' = Append(sessions, s)
    BY <1>4 DEF HandleExitStub, n
  <2>6. \A i \in Index : Keeps(sessions[i], sessions[i])
    BY SameKept DEF SamePlace
  <2> HIDE DEF s
  <2>7. QED
    BY <1>0, <2>2, <2>4, <2>5, <2>6, AppendGrows
<1>5. CASE HandleZoneless(e)
  <2>1. Keeps(c, c) /\ Enrich(e, c)
    BY <1>5, SameKept DEF HandleZoneless, SamePlace, c
  <2>2. QED
    BY <1>0, <2>1, EnrichGrows DEF c
<1>6. CASE HandleZoneEnter(e)
  <2> DEFINE s == [c EXCEPT !.zones = @ \cup {e.zone}, !.count = @ + 1]
  <2>1. e.zone \in Zones
    BY EventsTyped, <1>6, EventFields DEF HandleZoneEnter
  <2>2. s \in VisitorSession
    <3>1. [c EXCEPT !.zones = @ \cup {e.zone}] \in VisitorSession
      BY <1>0, <2>1, SessionUpdates, SessionReads
    <3>2. QED
      BY <1>0, <3>1, SessionUpdates, SessionReads
  <2>3. /\ s.zones = c.zones \cup {e.zone}
        /\ s.queue = c.queue
        /\ s.candidate = c.candidate
        /\ SamePlace(c, s)
    BY <1>0 DEF VisitorSession, SamePlace, IsOpen
  <2>4. Keeps(c, s)
    BY <2>3 DEF Keeps, SamePlace, Joined, JoinTimes, AtBilling, HasLatest
  <2>5. Enrich(e, s)
    BY <1>6 DEF HandleZoneEnter, c
  <2>6. QED
    BY <2>2, <2>4, <2>5, EnrichGrows DEF c
<1>7. CASE HandleZoneDwell(e)
  <2> DEFINE s == [c EXCEPT !.dwell[e.zone] = @ + e.dwell, !.count = @ + 1]
  <2>1. e.zone \in Zones /\ e.dwell \in Nat
    BY EventsTyped, <1>7, EventFields DEF HandleZoneDwell
  <2>2. s \in VisitorSession
    <3>1. [c EXCEPT !.dwell[e.zone] = @ + e.dwell] \in VisitorSession
      BY <1>0, <2>1, SessionUpdates, SessionReads
    <3>2. QED
      BY <1>0, <3>1, SessionUpdates, SessionReads
  <2>3. /\ s.zones = c.zones
        /\ s.queue = c.queue
        /\ s.candidate = c.candidate
        /\ SamePlace(c, s)
    BY <1>0 DEF VisitorSession, SamePlace, IsOpen
  <2>4. Enrich(e, s)
    BY <1>7 DEF HandleZoneDwell, c
  <2> HIDE DEF s
  <2>5. Keeps(c, s)
    BY <2>3, SameKept
  <2>6. QED
    BY <2>2, <2>4, <2>5, EnrichGrows DEF c
<1>8. CASE HandleQueueJoin(e)
  <2> DEFINE z == IF e.zone = NoZone THEN BillingQueue ELSE e.zone
             q == QueueEventOf(e)
             s == [c EXCEPT !.queue = @ \cup {q}, !.candidate = TRUE,
                            !.zones = @ \cup {z}, !.count = @ + 1]
  <2>1. z \in Zones /\ q \in QueueEvent /\ q.type = "BILLING_QUEUE_JOIN"
    BY <1>8, EventFields, SessionizerAssumption
       DEF HandleQueueJoin, QueueEventOf, QueueEvent, Time
  <2>8. BillingJoins => z \in BillingZones
    BY <1>8, CorrelationAssumption DEF HandleQueueJoin, BillingJoins
  <2> HIDE DEF z, q
  <2>2. s \in VisitorSession
    <3>1. [c EXCEPT !.queue = @ \cup {q}] \in VisitorSession
      BY <1>0, <2>1, SessionUpdates, SessionReads
    <3>2. [c EXCEPT !.queue = @ \cup {q}, !.candidate = TRUE] \in VisitorSession
      BY <3>1, SessionUpdates
    <3>3. [c EXCEPT !.queue = @ \cup {q}, !.candidate = TRUE, !.zones = @ \cup {z}]
            \in VisitorSession
      BY <1>0, <2>1, <3>2, SessionUpdates, SessionReads
    <3>4. QED
      BY <1>0, <3>3, SessionUpdates, SessionReads
  <2>3. /\ s.zones = c.zones \cup {z}
        /\ s.queue = c.queue \cup {q}
        /\ s.candidate = TRUE
        /\ SamePlace(c, s)
    BY <1>0 DEF VisitorSession, SamePlace, IsOpen
  <2>4. Joined(s)
    BY <2>1, <2>3 DEF Joined
  <2>5. Keeps(c, s)
    <3> HIDE DEF s
    <3>1. AtBilling(s)
      BY <2>3, <2>8 DEF AtBilling
    <3>2. HasLatest(c) => HasLatest(s)
      BY <1>0, <2>1, <2>3, JoinAddsTime
    <3>3. QED
      BY <2>3, <2>4, <3>1, <3>2 DEF Keeps, SamePlace
  <2>6. Enrich(e, s)
    BY <1>8 DEF HandleQueueJoin, c, z, q
  <2>7. QED
    BY <2>2, <2>5, <2>6, EnrichGrows DEF c
<1>9. CASE HandleQueueAbandon(e)
  <2> DEFINE q == QueueEventOf(e)
             s == [c EXCEPT !.queue = @ \cup {q}, !.count = @ + 1]
  <2>1. q \in QueueEvent /\ q.type # "BILLING_QUEUE_JOIN"
    BY EventsTyped, <1>9, EventFields DEF HandleQueueAbandon, QueueEventOf, QueueEvent, Time
  <2> HIDE DEF q
  <2>2. s \in VisitorSession
    <3>1. [c EXCEPT !.queue = @ \cup {q}] \in VisitorSession
      BY <1>0, <2>1, SessionUpdates, SessionReads
    <3>2. QED
      BY <1>0, <3>1, SessionUpdates, SessionReads
  <2>3. /\ s.zones = c.zones
        /\ s.queue = c.queue \cup {q}
        /\ s.candidate = c.candidate
        /\ SamePlace(c, s)
    BY <1>0 DEF VisitorSession, SamePlace, IsOpen
  <2>4. (Joined(s) <=> Joined(c)) /\ JoinTimes(s) = JoinTimes(c)
    BY <2>1, <2>3 DEF Joined, JoinTimes
  <2>5. Keeps(c, s)
    <3> HIDE DEF s
    <3>1. QED
      BY <2>3, <2>4 DEF Keeps, SamePlace, AtBilling, HasLatest
  <2>6. Enrich(e, s)
    BY <1>9 DEF HandleQueueAbandon, c, q
  <2>7. QED
    BY <2>2, <2>5, <2>6, EnrichGrows DEF c
<1>10. QED
  BY <1>1, <1>2, <1>3, <1>4, <1>5, <1>6, <1>7, <1>8, <1>9 DEF ProcessEvent

-----------------------------------------------------------------------------

\* What correlate does to a session: the ones it converts are promoted, nothing
\* else changes.
LEMMA Promotes ==
  ASSUME SessionTypeOK, Correlate
  PROVE  /\ sessions' \in Seq(VisitorSession)
         /\ Index' = Index
         /\ converted' = converted \cup ToConvert
         /\ ToConvert \subseteq Index \ converted
         /\ \A i \in Index :
              /\ sessions'[i].visitor = sessions[i].visitor
              /\ SamePlace(sessions[i], sessions'[i])
              /\ SameTally(sessions'[i], sessions[i])
              /\ sessions'[i].reentry = sessions[i].reentry
              /\ sessions'[i].end = sessions[i].end
              /\ sessions'[i].zones = sessions[i].zones
              /\ sessions'[i].queue = sessions[i].queue
              /\ sessions'[i].candidate =
                   (IF i \in ToConvert THEN TRUE ELSE sessions[i].candidate)
<1>1. /\ sessions \in Seq(VisitorSession)
      /\ Index = 1 .. Len(sessions)
      /\ Len(sessions) \in Nat
      /\ \A i \in Index : sessions[i] \in VisitorSession
  BY DEF SessionTypeOK, Index
<1>2. /\ sessions' = [i \in Index |-> IF i \in ToConvert
                                      THEN [sessions[i] EXCEPT !.candidate = TRUE]
                                      ELSE sessions[i]]
      /\ converted' = converted \cup ToConvert
  BY DEF Correlate
<1>3. ToConvert \subseteq Index \ converted
  BY DEF ToConvert, Due
<1> HIDE DEF Index, ToConvert
<1>4. \A i \in Index : [sessions[i] EXCEPT !.candidate = TRUE] \in VisitorSession
  BY <1>1, SessionUpdates
<1>5. sessions' \in [1 .. Len(sessions) -> VisitorSession]
  BY <1>1, <1>2, <1>4
<1>6. sessions' \in Seq(VisitorSession)
  BY <1>1, <1>5, SeqDef
<1>7. Index' = Index
  BY <1>2 DEF Index
<1>8. \A i \in Index :
        /\ sessions'[i].visitor = sessions[i].visitor
        /\ SamePlace(sessions[i], sessions'[i])
        /\ SameTally(sessions'[i], sessions[i])
        /\ sessions'[i].reentry = sessions[i].reentry
        /\ sessions'[i].end = sessions[i].end
        /\ sessions'[i].zones = sessions[i].zones
        /\ sessions'[i].queue = sessions[i].queue
        /\ sessions'[i].candidate =
             (IF i \in ToConvert THEN TRUE ELSE sessions[i].candidate)
  BY <1>1, <1>2 DEF VisitorSession, SamePlace, SameTally
<1>9. QED
  BY <1>2, <1>3, <1>6, <1>7, <1>8

\* A session the correlation engine converts visited a zone: it joined the
\* queue, and is then a candidate already, or it was in a billing zone.
LEMMA ConvertedVisited ==
  ASSUME ApiInv, NEW i \in ToConvert
  PROVE  sessions[i].zones # {}
<1>1. i \in Index /\ LastBilling(sessions[i]) # NoTime
  BY DEF ToConvert, Due
<1>2. Joined(sessions[i]) \/ sessions[i].zones \cap BillingZones # {}
  BY <1>1 DEF LastBilling
<1>3. Joined(sessions[i]) => sessions[i].zones # {}
  BY <1>1 DEF ApiInv, CandidateJustified, CandidateVisited
<1>4. QED
  BY <1>2, <1>3

LEMMA FinishKeepsInv ==
  ASSUME ApiInv, FinishRequest
  PROVE  ApiInv'
<1>1. /\ sessions' \in Seq(VisitorSession)
      /\ Index' = Index
      /\ converted' = converted \cup ToConvert
      /\ ToConvert \subseteq Index \ converted
      /\ \A i \in Index :
           /\ sessions'[i].visitor = sessions[i].visitor
           /\ SamePlace(sessions[i], sessions'[i])
           /\ sessions'[i].end = sessions[i].end
           /\ sessions'[i].zones = sessions[i].zones
           /\ sessions'[i].queue = sessions[i].queue
           /\ sessions'[i].candidate =
                (IF i \in ToConvert THEN TRUE ELSE sessions[i].candidate)
  BY Promotes DEF ApiInv, SessionInv, FinishRequest
<1>2. active' = active /\ reentryCounts' = reentryCounts
  BY DEF FinishRequest
<1>3. SessionInv'
  <2>1. SessionTypeOK'
    BY <1>1, <1>2 DEF ApiInv, SessionInv, SessionTypeOK
  <2>2. ActiveIsOpen'
    BY <1>1, <1>2 DEF ApiInv, SessionInv, ActiveMatchesOpen, ActiveIsOpen, IsOpen
  <2>3. NoOrphanSession'
    BY <1>1, <1>2 DEF ApiInv, SessionInv, ActiveMatchesOpen, NoOrphanSession, IsOpen
  <2>4. LatestIsActive'
    BY <1>1, <1>2 DEF ApiInv, SessionInv, LatestIsActive
  <2>5. QED
    BY <2>1, <2>2, <2>3, <2>4 DEF SessionInv, ActiveMatchesOpen
<1>4. converted' \subseteq Index'
  BY <1>1 DEF ApiInv
<1>5. CandidateJustified'
  <2> SUFFICES ASSUME NEW i \in Index
               PROVE  sessions'[i].candidate <=> (Joined(sessions'[i]) \/ i \in converted')
    BY <1>1 DEF CandidateJustified, Joined
  <2>1. Joined(sessions'[i]) <=> Joined(sessions[i])
    BY <1>1 DEF Joined
  <2>2. sessions[i].candidate <=> (Joined(sessions[i]) \/ i \in converted)
    BY DEF ApiInv, CandidateJustified
  <2>3. QED
    BY <1>1, <2>1, <2>2
<1>6. CandidateVisited'
  <2> SUFFICES ASSUME NEW i \in Index, sessions'[i].candidate
               PROVE  sessions'[i].zones # {}
    BY <1>1 DEF CandidateVisited
  <2>1. CASE i \in ToConvert
    BY <1>1, <2>1, ConvertedVisited
  <2>2. CASE i \notin ToConvert
    BY <1>1, <2>2 DEF ApiInv, CandidateVisited
  <2>3. QED
    BY <2>1, <2>2
<1>7. QED
  BY <1>3, <1>4, <1>5, <1>6 DEF ApiInv

LEMMA ProcessKeepsInv ==
  ASSUME ApiInv, UNCHANGED converted, NEW e \in Events, ProcessEvent(e)
  PROVE  ApiInv'
<1>1. SessionInv'
  <2>1. PICK s, p : Placed(e, s, p)
    BY EventsTyped, HandlerPlaces DEF ApiInv
  <2>2. QED
    BY EventsTyped, <2>1, PlacedKeepsSessionInv DEF ApiInv
<1>2. /\ Index \subseteq Index'
      /\ \A i \in Index : Keeps(sessions[i], sessions'[i])
      /\ \A i \in Index' \ Index : Fresh(sessions'[i])
  BY HandlerGrows DEF ApiInv, Grows
<1>3. converted' = converted /\ converted \subseteq Index
  BY DEF ApiInv
<1>4. CandidateJustified' /\ CandidateVisited'
  <2> SUFFICES ASSUME NEW i \in Index'
               PROVE  /\ sessions'[i].candidate <=> (Joined(sessions'[i]) \/ i \in converted)
                      /\ sessions'[i].candidate => sessions'[i].zones # {}
    BY <1>3 DEF CandidateJustified, CandidateVisited, Joined
  <2>1. CASE i \in Index
    <3>1. /\ sessions[i].candidate <=> (Joined(sessions[i]) \/ i \in converted)
          /\ sessions[i].candidate => sessions[i].zones # {}
      BY <2>1 DEF ApiInv, CandidateJustified, CandidateVisited
    <3>2. Keeps(sessions[i], sessions'[i])
      BY <1>2, <2>1
    <3>3. QED
      BY <3>1, <3>2 DEF Keeps
  <2>2. CASE i \notin Index
    BY <1>2, <1>3, <2>2 DEF Fresh
  <2>3. QED
    BY <2>1, <2>2
<1>5. QED
  BY <1>1, <1>2, <1>3, <1>4 DEF ApiInv

\* The step of a request: ingestion handles an event or leaves the sessions
\* alone, or the request is finished with a correlation.
LEMMA ApiSteps ==
  ASSUME [ApiNext]_apiVars
  PROVE  \/ UNCHANGED <<sessionVars, converted>>
         \/ UNCHANGED converted /\ \E e \in Events : ProcessEvent(e)
         \/ FinishRequest
<1>1. CASE IngestStep /\ UNCHANGED correlationVars
  <2>1. [SessionNext]_sessionVars
    BY <1>1, IngestRefines DEF Next
  <2>2. QED
    BY <1>1, <2>1 DEF SessionNext, correlationVars
<1>2. CASE UNCHANGED apiVars
  BY <1>2 DEF apiVars, vars, correlationVars
<1>3. QED
  BY <1>1, <1>2 DEF ApiNext

LEMMA ApiStep ==
  ApiInv /\ [ApiNext]_apiVars => ApiInv'
<1> SUFFICES ASSUME ApiInv, [ApiNext]_apiVars
             PROVE  ApiInv'
  OBVIOUS
<1>1. CASE UNCHANGED <<sessionVars, converted>>
  BY <1>1 DEF sessionVars, ApiInv, SessionInv, SessionTypeOK, ActiveMatchesOpen,
      ActiveIsOpen, NoOrphanSession, LatestIsActive, CandidateJustified,
      CandidateVisited, Index, IsOpen, Joined
<1>2. CASE UNCHANGED converted /\ \E e \in Events : ProcessEvent(e)
  BY <1>2, ProcessKeepsInv
<1>3. CASE FinishRequest
  BY <1>3, FinishKeepsInv
<1>4. QED
  BY <1>1, <1>2, <1>3, ApiSteps

LEMMA ApiInitInv ==
  ApiInit => ApiInv
<1> SUFFICES ASSUME ApiInit
             PROVE  ApiInv
  OBVIOUS
<1>1. SessionInv
  BY SessionInitInv DEF ApiInit, Init, LedgerInv
<1>2. Index = {} /\ converted = {}
  BY EmptySeq DEF ApiInit, Init, SessionInit, CorrelationInit, Index
<1>3. QED
  BY <1>1, <1>2 DEF ApiInv, CandidateJustified, CandidateVisited

\* The inductive invariant holds in every reachable state of the endpoint.
THEOREM ApiInvariant == ApiSpec => []ApiInv
<1>1. ApiInit => ApiInv
  BY ApiInitInv
<1>2. ApiInv /\ [ApiNext]_apiVars => ApiInv'
  BY ApiStep
<1>3. QED
  BY <1>1, <1>2, PTL DEF ApiSpec

\* The session store stays consistent under requests and the correlation at
\* their end (sessionizer.py 67-70, main.py 208-255).
THEOREM ApiKeepsStoreConsistent == ApiSpec => []ActiveMatchesOpen
<1>1. ApiInv => ActiveMatchesOpen
  BY DEF ApiInv, SessionInv
<1>2. QED
  BY <1>1, ApiInvariant, PTL

\* A session is a purchase candidate exactly when it joined the billing queue or
\* the correlation engine converted it (models.py 209, 229).
THEOREM CandidatesJustified == ApiSpec => []CandidateJustified
<1>1. ApiInv => CandidateJustified
  BY DEF ApiInv
<1>2. QED
  BY <1>1, ApiInvariant, PTL

\* No stage of the funnel ever has a visitor the stage before it does not have,
\* in any store and in the middle of a request (projections.py 141-213).
THEOREM FunnelDoesNarrow == ApiSpec => []FunnelNarrows
<1>1. ApiInv => FunnelNarrows
  <2> SUFFICES ASSUME ApiInv, NEW store \in Stores
               PROVE  /\ PurchaseStage(store) \subseteq BillingStage(store)
                      /\ BillingStage(store) \subseteq ZoneStage(store)
                      /\ ZoneStage(store) \subseteq EntryStage(store)
    BY DEF FunnelNarrows
  <2>1. \A i \in CustomerSessions(store) :
          /\ CountsAsConverted(i) => sessions[i].candidate
          /\ sessions[i].candidate => sessions[i].zones # {}
    BY DEF ApiInv, CandidateJustified, CandidateVisited, CustomerSessions, CountsAsConverted
  <2>2. PurchaseStage(store) \subseteq BillingStage(store)
    BY DEF PurchaseStage, BillingStage, VisitorsOf
  <2>3. BillingStage(store) \subseteq ZoneStage(store)
    BY <2>1 DEF BillingStage, ZoneStage, VisitorsOf
  <2>4. ZoneStage(store) \subseteq EntryStage(store)
    BY DEF ZoneStage, EntryStage, VisitorsOf
  <2>5. QED
    BY <2>2, <2>3, <2>4
<1>2. QED
  BY <1>1, ApiInvariant, PTL

\* Once a session has ended, nothing but its conversion ever changes it, and
\* that only once (sessionizer.py 71, correlation.py 229).
THEOREM ClosedPromotedOnly == ApiSpec => ClosedOnlyPromoted
<1>1. ApiInv /\ [ApiNext]_apiVars =>
        [\A i \in Index : ~IsOpen(sessions[i]) =>
           /\ i \in DOMAIN sessions'
           /\ \/ sessions'[i] = sessions[i]
              \/ /\ i \in converted' \ converted
                 /\ sessions'[i] = [sessions[i] EXCEPT !.candidate = TRUE]]_apiVars
  <2> SUFFICES ASSUME ApiInv, [ApiNext]_apiVars, NEW i \in Index, ~IsOpen(sessions[i])
               PROVE  /\ i \in DOMAIN sessions'
                      /\ \/ sessions'[i] = sessions[i]
                         \/ /\ i \in converted' \ converted
                            /\ sessions'[i] = [sessions[i] EXCEPT !.candidate = TRUE]
    OBVIOUS
  <2>1. CASE UNCHANGED <<sessionVars, converted>>
    BY <2>1 DEF sessionVars, Index
  <2>2. CASE \E e \in Events : ProcessEvent(e)
    <3>1. PICK e \in Events : ProcessEvent(e)
      BY <2>2
    <3>2. PICK s, p : Placed(e, s, p)
      BY EventsTyped, <3>1, HandlerPlaces DEF ApiInv
    <3>3. i \in Index' /\ sessions'[i] = sessions[i]
      BY EventsTyped, <3>2, PlacedFreezesClosed DEF ApiInv
    <3>4. QED
      BY <3>3 DEF Index
  <2>3. CASE FinishRequest
    <3>1. /\ Index' = Index
          /\ converted' = converted \cup ToConvert
          /\ ToConvert \subseteq Index \ converted
      BY <2>3, Promotes DEF ApiInv, SessionInv, FinishRequest
    <3>2. sessions'[i] = IF i \in ToConvert
                         THEN [sessions[i] EXCEPT !.candidate = TRUE]
                         ELSE sessions[i]
      BY <2>3 DEF FinishRequest, Correlate
    <3>3. QED
      BY <3>1, <3>2 DEF Index
  <2>4. QED
    BY <2>1, <2>2, <2>3, ApiSteps
<1>2. QED
  BY <1>1, ApiInvariant, PTL DEF ApiSpec, ClosedOnlyPromoted

-----------------------------------------------------------------------------

\* What ConvertedJustified says of one session, with the transactions T.
PaidFor(T, s) ==
  /\ ~s.staff
  /\ s.candidate
  /\ s.zones \cap BillingZones # {}
  /\ \E t \in T[s.store],
        from \in JoinTimes(s) \cup ({s.start, s.end} \ {NoTime}) :
       t # Unparsed /\ InWindow(from, t)

\* The inductive invariant of the conversions: the JOINs of a session put it in a
\* billing zone and one of them is the last, so that the moment the correlation
\* engine chooses is one of the session's.
ConversionInv ==
  /\ ApiInv
  /\ \A i \in Index : AtBilling(sessions[i]) /\ HasLatest(sessions[i])
  /\ BillingJoins => \A i \in converted : PaidFor(transactions, sessions[i])

\* A session that was paid for stays so.
LEMMA KeepsPaid ==
  ASSUME NEW T, NEW old, NEW new, Keeps(old, new), PaidFor(T, old)
  PROVE  PaidFor(T, new)
<1>1. JoinTimes(old) \subseteq JoinTimes(new)
  BY DEF Keeps, JoinTimes
<1>2. {old.start, old.end} \ {NoTime} \subseteq {new.start, new.end} \ {NoTime}
  BY DEF Keeps, IsOpen
<1>3. \E t \in T[new.store],
         from \in JoinTimes(new) \cup ({new.start, new.end} \ {NoTime}) :
        t # Unparsed /\ InWindow(from, t)
  BY <1>1, <1>2 DEF PaidFor, Keeps
<1>4. QED
  BY <1>3 DEF PaidFor, Keeps

LEMMA LatestIsLast ==
  ASSUME NEW S \in SUBSET Nat, \E t \in S : \A u \in S : u <= t
  PROVE  Latest(S) \in S
  BY DEF Latest

\* The session the correlation engine converts was paid for.
LEMMA ToConvertPaid ==
  ASSUME ConversionInv, BillingJoins, NEW i \in ToConvert
  PROVE  /\ ~sessions[i].staff
         /\ sessions[i].zones \cap BillingZones # {}
         /\ \E t \in transactions[sessions[i].store],
               from \in JoinTimes(sessions[i]) \cup
                          ({sessions[i].start, sessions[i].end} \ {NoTime}) :
              t # Unparsed /\ InWindow(from, t)
<1> DEFINE s == sessions[i]
<1>1. /\ i \in Index
      /\ ~s.staff
      /\ LastBilling(s) # NoTime
      /\ s.store \notin Unreadable
      /\ \E t \in transactions[s.store] : InWindow(LastBilling(s), t)
  BY DEF ToConvert, Due
<1>2. s \in VisitorSession /\ AtBilling(s) /\ HasLatest(s)
  BY <1>1 DEF ConversionInv, ApiInv, SessionInv, SessionTypeOK, Index
<1>6. Unparsed \notin transactions[s.store]
  BY <1>1, <1>2 DEF Unreadable, VisitorSession
<1> HIDE DEF s
<1>3. s.zones \cap BillingZones # {}
  BY <1>1, <1>2 DEF AtBilling, LastBilling
<1>4. LastBilling(s) \in JoinTimes(s) \cup ({s.start, s.end} \ {NoTime})
  <2>1. CASE Joined(s)
    <3>1. JoinTimes(s) \subseteq Nat
      BY <1>2 DEF JoinTimes, VisitorSession, QueueEvent, Time
    <3>2. Latest(JoinTimes(s)) \in JoinTimes(s)
      BY <1>2, <2>1, <3>1, LatestIsLast DEF HasLatest
    <3>3. QED
      BY <2>1, <3>2 DEF LastBilling
  <2>2. CASE ~Joined(s)
    BY <1>1, <2>2 DEF LastBilling
  <2>3. QED
    BY <2>1, <2>2
<1>5. QED
  BY <1>1, <1>3, <1>4, <1>6 DEF s

LEMMA FinishKeepsConversions ==
  ASSUME ConversionInv, FinishRequest
  PROVE  ConversionInv'
<1>1. /\ Index' = Index
      /\ converted' = converted \cup ToConvert
      /\ ToConvert \subseteq Index \ converted
      /\ \A i \in Index :
           /\ SamePlace(sessions[i], sessions'[i])
           /\ sessions'[i].end = sessions[i].end
           /\ sessions'[i].zones = sessions[i].zones
           /\ sessions'[i].queue = sessions[i].queue
           /\ sessions'[i].candidate =
                (IF i \in ToConvert THEN TRUE ELSE sessions[i].candidate)
  BY Promotes DEF ConversionInv, ApiInv, SessionInv, FinishRequest
<1>2. UNCHANGED transactions
  BY DEF FinishRequest, Correlate
<1>3. ApiInv'
  BY FinishKeepsInv DEF ConversionInv
<1>4. ASSUME NEW i \in Index
      PROVE  AtBilling(sessions'[i]) /\ HasLatest(sessions'[i])
  BY <1>1 DEF ConversionInv, AtBilling, HasLatest, Joined, JoinTimes
<1>5. ASSUME BillingJoins, NEW i \in converted'
      PROVE  PaidFor(transactions', sessions'[i])
  <2>1. i \in Index
    BY <1>1, <1>5 DEF ConversionInv, ApiInv
  <2>2. CASE i \in ToConvert
    <3>1. /\ ~sessions[i].staff
          /\ sessions[i].zones \cap BillingZones # {}
          /\ \E t \in transactions[sessions[i].store],
                from \in JoinTimes(sessions[i]) \cup
                           ({sessions[i].start, sessions[i].end} \ {NoTime}) :
               t # Unparsed /\ InWindow(from, t)
      BY <1>5, <2>2, ToConvertPaid
    <3>2. JoinTimes(sessions'[i]) = JoinTimes(sessions[i])
      BY <1>1, <2>1 DEF JoinTimes
    <3>3. QED
      BY <1>1, <1>2, <2>1, <2>2, <3>1, <3>2 DEF PaidFor, SamePlace
  <2>3. CASE i \in converted
    <3>1. PaidFor(transactions, sessions[i])
      BY <1>5, <2>3 DEF ConversionInv
    <3>2. JoinTimes(sessions'[i]) = JoinTimes(sessions[i])
      BY <1>1, <2>1 DEF JoinTimes
    <3>3. QED
      BY <1>1, <1>2, <2>1, <3>1, <3>2 DEF PaidFor, SamePlace
  <2>4. QED
    BY <1>1, <1>5, <2>2, <2>3
<1>6. QED
  BY <1>1, <1>3, <1>4, <1>5 DEF ConversionInv, BillingJoins, AtBilling, HasLatest, Joined, JoinTimes

LEMMA ProcessKeepsConversions ==
  ASSUME ConversionInv, UNCHANGED correlationVars, NEW e \in Events, ProcessEvent(e)
  PROVE  ConversionInv'
<1>1. ApiInv' /\ converted' = converted /\ UNCHANGED transactions
  BY ProcessKeepsInv DEF ConversionInv, correlationVars
<1>2. /\ Index \subseteq Index'
      /\ \A i \in Index : Keeps(sessions[i], sessions'[i])
      /\ \A i \in Index' \ Index : Fresh(sessions'[i])
  BY HandlerGrows DEF ConversionInv, ApiInv, Grows
<1>3. ASSUME NEW i \in Index'
      PROVE  AtBilling(sessions'[i]) /\ HasLatest(sessions'[i])
  BY <1>2 DEF ConversionInv, Keeps, Fresh
<1>4. ASSUME BillingJoins, NEW i \in converted'
      PROVE  PaidFor(transactions', sessions'[i])
  <2>1. i \in converted /\ i \in Index
    BY <1>1, <1>4 DEF ConversionInv, ApiInv
  <2>2. Keeps(sessions[i], sessions'[i]) /\ PaidFor(transactions, sessions[i])
    BY <1>2, <1>4, <2>1 DEF ConversionInv
  <2>3. QED
    BY <1>1, <2>2, KeepsPaid
<1>5. QED
  BY <1>1, <1>3, <1>4 DEF ConversionInv, BillingJoins, AtBilling, HasLatest, Joined, JoinTimes

LEMMA ConversionStep ==
  ConversionInv /\ [ApiNext]_apiVars => ConversionInv'
<1> SUFFICES ASSUME ConversionInv, [ApiNext]_apiVars
             PROVE  ConversionInv'
  OBVIOUS
<1>1. CASE FinishRequest
  BY <1>1, FinishKeepsConversions
<1>2. CASE ~FinishRequest
  <2>1. UNCHANGED correlationVars
    BY <1>2 DEF ApiNext, apiVars
  <2>2. \/ UNCHANGED <<sessionVars, converted>>
        \/ \E e \in Events : ProcessEvent(e)
    BY <1>2, ApiSteps
  <2>3. CASE \E e \in Events : ProcessEvent(e)
    BY <2>1, <2>3, ProcessKeepsConversions
  <2>4. CASE UNCHANGED <<sessionVars, converted>>
    <3>1. ApiInv'
      BY ApiStep DEF ConversionInv
    <3>2. sessions' = sessions /\ converted' = converted /\ transactions' = transactions
      BY <2>1, <2>4 DEF sessionVars, correlationVars
    <3>3. Index' = Index
      BY <3>2 DEF Index
    <3>4. QED
      BY <3>1, <3>2, <3>3
         DEF ConversionInv, PaidFor, AtBilling, HasLatest, Joined, JoinTimes, InWindow,
             BillingJoins
  <2>5. QED
    BY <2>2, <2>3, <2>4
<1>3. QED
  BY <1>1, <1>2

\* If queue events come from the billing counter, every converted session is a
\* customer's and a transaction of its store follows, within the window, a moment
\* it was there, whatever came later (correlation.py 186-251).
THEOREM ConversionsJustified == ApiSpec => [](BillingJoins => ConvertedJustified)
<1>1. ApiInit => ConversionInv
  <2> SUFFICES ASSUME ApiInit
               PROVE  ConversionInv
    OBVIOUS
  <2>1. ApiInv
    BY ApiInitInv
  <2>2. Index = {} /\ converted = {}
    BY EmptySeq DEF ApiInit, Init, SessionInit, CorrelationInit, Index
  <2>3. QED
    BY <2>1, <2>2 DEF ConversionInv
<1>2. ConversionInv /\ [ApiNext]_apiVars => ConversionInv'
  BY ConversionStep
<1>3. ConversionInv => (BillingJoins => ConvertedJustified)
  BY DEF ConversionInv, ApiInv, PaidFor, ConvertedJustified
<1>4. QED
  BY <1>1, <1>2, <1>3, PTL DEF ApiSpec

-----------------------------------------------------------------------------

\* Between requests there is no batch, so that only a request starts a step; until
\* a request has an event accepted, the correlation has nothing to do.
SettledInv ==
  /\ ApiInv
  /\ batch \in Seq(RawEvent)
  /\ response \in [{"accepted", "duplicates", "rejected"} -> Nat]
  /\ Idle => batch = << >>
  /\ Idle \/ response.accepted = 0 => ToConvert = {}

\* A second run of correlate finds nothing: what it reads of a session, the first
\* run did not change.
LEMMA CorrelateSettles ==
  ASSUME ApiInv, Correlate
  PROVE  ToConvert' = {}
<1>1. /\ Index' = Index
      /\ converted' = converted \cup ToConvert
      /\ \A i \in Index :
           /\ SamePlace(sessions[i], sessions'[i])
           /\ sessions'[i].end = sessions[i].end
           /\ sessions'[i].zones = sessions[i].zones
           /\ sessions'[i].queue = sessions[i].queue
  BY Promotes DEF ApiInv, SessionInv
<1>2. UNCHANGED transactions
  BY DEF Correlate
<1> SUFFICES ASSUME NEW i \in ToConvert'
             PROVE  FALSE
  OBVIOUS
<1>3. /\ i \in Index
      /\ i \notin converted
      /\ i \notin ToConvert
      /\ sessions'[i].store \notin Unreadable
      /\ ~sessions'[i].staff
      /\ LastBilling(sessions'[i]) # NoTime
      /\ \E t \in transactions[sessions'[i].store] : InWindow(LastBilling(sessions'[i]), t)
      /\ \A j \in Index : sessions'[j].store \in Unreadable =>
           \E k \in 1..(j - 1) : sessions'[k].store = sessions'[i].store
  <2>1. Unreadable' = Unreadable
    BY <1>2 DEF Unreadable
  <2>2. i \in Due' /\ Reached(sessions[i].store)'
    BY DEF ToConvert
  <2>3. \A j \in Index' : sessions'[j].store \in Unreadable =>
          \E k \in 1..(j - 1) : sessions'[k].store = sessions'[i].store
    BY <2>1, <2>2 DEF Reached
  <2>4. /\ i \in Index' \ converted'
        /\ sessions'[i].store \notin Unreadable
        /\ ~sessions'[i].staff
        /\ LastBilling(sessions'[i]) # NoTime
        /\ \E t \in transactions'[sessions'[i].store] : InWindow(LastBilling(sessions'[i]), t)
    BY <2>1, <2>2 DEF Due
  <2>5. QED
    BY <1>1, <1>2, <2>3, <2>4
<1>4. LastBilling(sessions'[i]) = LastBilling(sessions[i])
  <2>1. JoinTimes(sessions'[i]) = JoinTimes(sessions[i])
    BY <1>1, <1>3 DEF JoinTimes
  <2>2. Joined(sessions'[i]) <=> Joined(sessions[i])
    BY <1>1, <1>3 DEF Joined
  <2>3. IsOpen(sessions'[i]) <=> IsOpen(sessions[i])
    BY <1>1, <1>3 DEF IsOpen
  <2>4. QED
    BY <1>1, <1>3, <2>1, <2>2, <2>3 DEF LastBilling, SamePlace
<1>5. i \in ToConvert
  <2>1. \A j \in Index : sessions'[j].store = sessions[j].store
    BY <1>1 DEF SamePlace
  <2>2. \A j \in Index : \A k \in 1..(j - 1) : k \in Index
    BY DEF ApiInv, SessionInv, SessionTypeOK, Index
  <2>3. Reached(sessions[i].store)
    BY <1>3, <2>1, <2>2 DEF Reached
  <2>4. i \in Due
    BY <1>3, <1>4, <2>1, <1>1 DEF Due, SamePlace
  <2>5. QED
    BY <2>3, <2>4 DEF ToConvert
<1>6. QED
  BY <1>3, <1>5

LEMMA SettledStays ==
  ASSUME UNCHANGED <<sessions, transactions, converted>>
  PROVE  ToConvert' = ToConvert
  BY DEF ToConvert, Due, Reached, Unreadable, Index, LastBilling, JoinTimes, Joined, IsOpen,
         Latest, InWindow

\* An event is rejected or a duplicate, or it is accepted and counted as such.
LEMMA IngestSettled ==
  ASSUME SettledInv, IngestStep, UNCHANGED correlationVars
  PROVE  SettledInv'
<1>1. ApiInv'
  <2>1. ApiNext
    BY DEF ApiNext
  <2>2. QED
    BY <2>1, ApiStep DEF SettledInv
<1>2. UNCHANGED <<transactions, converted>>
  BY DEF correlationVars
<1>3. CASE \E b \in Requests : StartRequest(b)
  <2>1. /\ ~busy /\ busy' /\ batch' \in Seq(RawEvent)
        /\ response' = NoResponse
        /\ UNCHANGED <<sessions, transactions, converted>>
    BY <1>2, <1>3, IngestionAssumption DEF StartRequest, sessionVars, RawEvent
  <2>2. ToConvert' = {}
    BY <2>1, SettledStays DEF SettledInv, Idle
  <2>3. QED
    BY <1>1, <2>1, <2>2 DEF SettledInv, Idle, NoResponse
<1>4. ASSUME NEW outcome \in {"accepted", "duplicates", "rejected"},
             batch # << >>, NextRaw(outcome)
      PROVE  /\ busy' /\ batch' \in Seq(RawEvent)
             /\ response' \in [{"accepted", "duplicates", "rejected"} -> Nat]
             /\ outcome = "accepted" => response'.accepted # 0
             /\ outcome # "accepted" => response'.accepted = response.accepted
  <2>1. busy' = busy /\ busy
    BY <1>4 DEF NextRaw, SettledInv, Idle
  <2>2. batch' \in Seq(RawEvent)
    BY <1>4 DEF NextRaw, SettledInv
  <2>3. response' = [response EXCEPT ![outcome] = response[outcome] + 1]
    BY <1>4 DEF NextRaw
  <2>4. QED
    BY <2>1, <2>2, <2>3 DEF SettledInv
<1>5. CASE RejectEvent \/ SkipDuplicate
  <2>1. /\ batch # << >>
        /\ NextRaw("rejected") \/ NextRaw("duplicates")
        /\ UNCHANGED <<sessions, transactions, converted>>
    BY <1>2, <1>5 DEF RejectEvent, SkipDuplicate, sessionVars
  <2>2. /\ busy' /\ batch' \in Seq(RawEvent)
        /\ response' \in [{"accepted", "duplicates", "rejected"} -> Nat]
        /\ response'.accepted = response.accepted
    BY <1>4, <2>1
  <2>3. ToConvert' = ToConvert
    BY <2>1, SettledStays
  <2>4. QED
    BY <1>1, <2>2, <2>3 DEF SettledInv, Idle
<1>6. CASE AcceptEvent \/ AcceptUnprocessed
  <2>1. batch # << >> /\ NextRaw("accepted")
    BY <1>6 DEF AcceptEvent, AcceptUnprocessed
  <2>2. /\ busy' /\ batch' \in Seq(RawEvent)
        /\ response' \in [{"accepted", "duplicates", "rejected"} -> Nat]
        /\ response'.accepted # 0
    BY <1>4, <2>1
  <2>3. QED
    BY <1>1, <2>2 DEF SettledInv, Idle
<1>7. QED
  BY <1>3, <1>5, <1>6 DEF IngestStep

LEMMA SettledInitInv ==
  ApiInit => SettledInv
<1> SUFFICES ASSUME ApiInit
             PROVE  SettledInv
  OBVIOUS
<1>1. ApiInv
  BY ApiInitInv
<1>2. Index = {} /\ batch = << >> /\ response = NoResponse
  BY EmptySeq DEF ApiInit, Init, SessionInit, IngestInit, Index
<1>3. batch \in Seq(RawEvent)
  BY <1>2, EmptySeq
<1>4. QED
  BY <1>1, <1>2, <1>3 DEF SettledInv, ToConvert, Due, NoResponse

LEMMA SettledStep ==
  SettledInv /\ [ApiNext]_apiVars => SettledInv'
<1> SUFFICES ASSUME SettledInv, [ApiNext]_apiVars
             PROVE  SettledInv'
  OBVIOUS
<1>1. ApiInv'
  BY ApiStep DEF SettledInv
<1>2. CASE FinishRequest
  <2>1. ToConvert' = {}
    BY <1>2, CorrelateSettles DEF SettledInv, FinishRequest
  <2>2. UNCHANGED <<batch, response>> /\ batch = << >>
    BY <1>2 DEF FinishRequest, EndBatch
  <2>3. QED
    BY <1>1, <2>1, <2>2 DEF SettledInv
<1>3. CASE UNCHANGED apiVars
  <2>1. UNCHANGED <<batch, response, busy, sessions, transactions, converted>>
    BY <1>3 DEF apiVars, vars, sessionVars, ingestVars, correlationVars
  <2>2. ToConvert' = ToConvert
    BY <2>1, SettledStays
  <2>3. QED
    BY <1>1, <2>1, <2>2 DEF SettledInv, Idle
<1>4. QED
  BY <1>2, <1>3, IngestSettled DEF ApiNext

\* Whenever no request is being handled, no session has a conversion still due, unless
\* the correlation raises: then only sessions of stores that it does not get to, because
\* it raises for a store whose sessions began before theirs (correlation.py 14,
\* main.py 237-254).
THEOREM ConversionsSettle == ApiSpec => []CorrelationSettled
<1>1. SettledInv => CorrelationSettled
  <2> SUFFICES ASSUME SettledInv, Idle, NEW i \in Due
               PROVE  /\ Raises
                      /\ \E j \in 1..(i - 1) :
                           /\ sessions[j].store \in Unreadable
                           /\ \A k \in 1..j : sessions[k].store # sessions[i].store
    BY DEF CorrelationSettled
  <2>1. ~Reached(sessions[i].store)
    BY DEF SettledInv, ToConvert
  <2>2. PICK j \in Index : /\ sessions[j].store \in Unreadable
                          /\ \A k \in 1..(j - 1) : sessions[k].store # sessions[i].store
    BY <2>1 DEF Reached
  <2>3. i \in Index /\ sessions[i].store \notin Unreadable
    BY DEF Due
  <2>4. i \in Nat \ {0} /\ j \in Nat \ {0}
    BY <2>2, <2>3 DEF SettledInv, ApiInv, SessionInv, SessionTypeOK, Index
  <2>5. j < i
    BY <2>2, <2>3, <2>4
  <2>6. Raises
    BY <2>2 DEF Raises
  <2>7. QED
    BY <2>2, <2>3, <2>4, <2>5, <2>6
<1>2. QED
  BY <1>1, SettledInitInv, SettledStep, PTL DEF ApiSpec

\* A batch that was sent before, or whose events were all stored by others, changes
\* nothing: its events are duplicates, and the correlation that runs at its end
\* finds every conversion made already (main.py 224, ingestion.py 46-49).
THEOREM ResendingIsSafe == ApiSpec => ResendChangesNothing
<1> DEFINE Resent == /\ busy /\ \A i \in DOMAIN batch :
                                  batch[i] \in Events => batch[i].id \in seen
                     /\ response.accepted = 0
           Nothing == UNCHANGED <<sessionVars, storeVars, converted>>
<1>1. SettledInv /\ [ApiNext]_apiVars => [Resent => Nothing]_apiVars
  <2> SUFFICES ASSUME SettledInv, ApiNext, Resent
               PROVE  Nothing
    OBVIOUS
  <2>1. CASE IngestStep /\ UNCHANGED correlationVars
    <3>1. ~AcceptEvent /\ ~AcceptUnprocessed
      <4> SUFFICES ASSUME batch # << >>, Head(batch) \in Events, Head(batch).id \notin seen
                   PROVE  FALSE
        BY IngestionAssumption DEF AcceptEvent, AcceptUnprocessed
      <4>1. Head(batch) = batch[1] /\ 1 \in DOMAIN batch
        BY DEF SettledInv
      <4>2. QED
        BY <4>1
    <3>2. QED
      BY <2>1, <3>1
         DEF IngestStep, StartRequest, RejectEvent, SkipDuplicate, correlationVars
  <2>2. CASE FinishRequest
    <3>1. ToConvert = {}
      BY DEF SettledInv
    <3>2. sessions' = sessions
      <4>1. sessions \in Seq(VisitorSession) /\ Index = DOMAIN sessions
        BY DEF SettledInv, ApiInv, SessionInv, SessionTypeOK, Index
      <4>2. sessions' = [i \in Index |-> sessions[i]]
        BY <2>2, <3>1 DEF FinishRequest, Correlate
      <4>3. QED
        BY <4>1, <4>2
    <3>3. QED
      BY <2>2, <3>1, <3>2
         DEF FinishRequest, EndBatch, Correlate, sessionVars
  <2>3. QED
    BY <2>1, <2>2 DEF ApiNext
<1> HIDE DEF Resent, Nothing
<1>2. QED
  BY <1>1, SettledInitInv, SettledStep, PTL
     DEF ApiSpec, ResendChangesNothing, Resent, Nothing

-----------------------------------------------------------------------------
(***************************************************************************)
(* Replays and crashes reset the stores at any moment between two requests *)
(* or, for a crash, in the middle of one; what the endpoint keeps true     *)
(* stays true through them, for any events, requests and files.            *)
(***************************************************************************)

-----------------------------------------------------------------------------
(***************************************************************************)
(* Sorting: the positions of a finite set are ranked one by one, those of  *)
(* smaller keys first and equal keys in the order of the positions.        *)
(***************************************************************************)

LEMMA KeysAreTimes ==
  \A raw : SortKey(raw) \in Nat
  BY EventsTyped, EventFields DEF SortKey

\* An earlier position in the order has a smaller rank.
LEMMA RanksGrow ==
  ASSUME NEW raws, NEW K \in SUBSET Nat, IsFiniteSet(K),
         NEW i \in K, NEW j \in K, i # j, Precedes(raws, i, j)
  PROVE  Rank(raws, K, i) < Rank(raws, K, j)
<1> DEFINE D(x) == {y \in K : Precedes(raws, y, x)}
           key == [x \in K |-> SortKey(raws[x])]
<1>1. \A x \in K : key[x] \in Nat /\ x \in Nat
  BY KeysAreTimes
<1>2. \A x, y \in K : Precedes(raws, x, y) <=> key[x] < key[y] \/ (key[x] = key[y] /\ x <= y)
  BY DEF Precedes
<1> HIDE DEF key
<1>3. D(i) \subseteq D(j) /\ j \in D(j) /\ j \notin D(i)
  <2>1. ASSUME NEW x \in K, Precedes(raws, x, i)
        PROVE  Precedes(raws, x, j)
    BY <1>1, <1>2, <2>1
  <2>2. Precedes(raws, j, j) /\ ~Precedes(raws, j, i)
    BY <1>1, <1>2
  <2>3. QED
    BY <2>1, <2>2
<1>4. D(j) \in SUBSET K /\ D(i) \in SUBSET (D(j) \ {j})
  BY <1>3
<1>5. /\ Rank(raws, K, i) = Cardinality(D(i))
      /\ Rank(raws, K, j) = Cardinality(D(j))
  BY DEF Rank
<1>6. j \in D(j)
  BY <1>3
<1> HIDE DEF D
<1>7. IsFiniteSet(D(j))
  BY <1>4, FS_Subset
<1>8. IsFiniteSet(D(j) \ {j}) /\ Cardinality(D(j) \ {j}) = Cardinality(D(j)) - 1
  BY <1>6, <1>7, FS_RemoveElement
<1>9. IsFiniteSet(D(i)) /\ Cardinality(D(i)) <= Cardinality(D(j) \ {j})
  BY <1>4, <1>8, FS_Subset
<1>10. Cardinality(D(i)) \in Nat /\ Cardinality(D(j)) \in Nat
  BY <1>7, <1>9, FS_CardinalityType
<1>11. QED
  BY <1>5, <1>8, <1>9, <1>10

\* Every rank from 1 to the number of positions is taken, by one position.
LEMMA RanksAreTaken ==
  ASSUME NEW raws, NEW K \in SUBSET Nat, IsFiniteSet(K)
  PROVE  /\ Cardinality(K) \in Nat
         /\ \A k \in 1 .. Cardinality(K) :
              /\ Ranked(raws, K, k) \in K
              /\ Rank(raws, K, Ranked(raws, K, k)) = k
         /\ \A i \in K : /\ Rank(raws, K, i) \in 1 .. Cardinality(K)
                         /\ Ranked(raws, K, Rank(raws, K, i)) = i
<1> DEFINE N == Cardinality(K)
           rank == [i \in K |-> Rank(raws, K, i)]
<1>1. N \in Nat
  BY FS_CardinalityType
<1>2. ASSUME NEW i \in K
      PROVE  Rank(raws, K, i) \in 1 .. N
  <2> DEFINE D == {j \in K : Precedes(raws, j, i)}
  <2>1. D \in SUBSET K /\ i \in D
    BY KeysAreTimes DEF Precedes
  <2>2. Rank(raws, K, i) = Cardinality(D)
    BY DEF Rank
  <2> HIDE DEF D
  <2>3. IsFiniteSet(D) /\ Cardinality(D) <= N
    BY <2>1, FS_Subset
  <2>4. Cardinality(D) \in Nat /\ Cardinality(D) # 0
    BY <2>1, <2>3, FS_CardinalityType, FS_EmptySet
  <2>5. QED
    BY <1>1, <2>2, <2>3, <2>4
<1>3. \A i, j \in K : Rank(raws, K, i) = Rank(raws, K, j) => i = j
  <2> SUFFICES ASSUME NEW i \in K, NEW j \in K, i # j
               PROVE  Rank(raws, K, i) # Rank(raws, K, j)
    OBVIOUS
  <2>1. Precedes(raws, i, j) \/ Precedes(raws, j, i)
    <3>1. SortKey(raws[i]) \in Nat /\ SortKey(raws[j]) \in Nat /\ i \in Nat /\ j \in Nat
      BY KeysAreTimes
    <3>2. QED
      BY <3>1 DEF Precedes
  <2>2. Rank(raws, K, i) \in Nat /\ Rank(raws, K, j) \in Nat
    BY <1>2
  <2>3. Precedes(raws, i, j) => Rank(raws, K, i) < Rank(raws, K, j)
    BY RanksGrow
  <2>4. Precedes(raws, j, i) => Rank(raws, K, j) < Rank(raws, K, i)
    BY RanksGrow
  <2>5. QED
    BY <2>1, <2>2, <2>3, <2>4
<1>4. rank \in Injection(K, 1 .. N)
  BY <1>2, <1>3 DEF Injection, IsInjective
<1>5. rank \in Surjection(K, 1 .. N)
  <2>1. 1 \in Int /\ N \in Int
    BY <1>1
  <2>2. IsFiniteSet(1 .. N) /\ Cardinality(1 .. N) = IF 1 > N THEN 0 ELSE N - 1 + 1
    BY <2>1, FS_Interval
  <2>3. Cardinality(1 .. N) = N
    BY <1>1, <2>2
  <2> HIDE DEF rank
  <2>4. QED
    BY <1>4, <2>2, <2>3, FS_Injection
<1>6. \A k \in 1 .. N : \E i \in K : Rank(raws, K, i) = k
  BY <1>5 DEF Surjection
<1>7. \A k \in 1 .. N : Ranked(raws, K, k) \in K /\ Rank(raws, K, Ranked(raws, K, k)) = k
  BY <1>6 DEF Ranked
<1>8. \A i \in K : Ranked(raws, K, Rank(raws, K, i)) = i
  BY <1>2, <1>3, <1>7
<1>9. QED
  BY <1>1, <1>2, <1>7, <1>8

\* What is replayed are the raws of the positions, each once, in timestamp order.
LEMMA SortedType ==
  ASSUME NEW R, NEW raws \in Seq(R), NEW K \in SUBSET DOMAIN raws
  PROVE  /\ Sorted(raws, K) \in Seq(R)
         /\ IsFiniteSet(K) /\ K \in SUBSET Nat
<1>1. DOMAIN raws = 1 .. Len(raws) /\ Len(raws) \in Int /\ 1 \in Int
  OBVIOUS
<1>2. IsFiniteSet(DOMAIN raws)
  BY <1>1, FS_Interval
<1>3. IsFiniteSet(K)
  BY <1>2, FS_Subset
<1>4. K \in SUBSET Nat
  BY <1>1
<1>5. \A i \in K : raws[i] \in R
  BY <1>1
<1>6. /\ Cardinality(K) \in Nat
      /\ \A k \in 1 .. Cardinality(K) : Ranked(raws, K, k) \in K
  BY <1>3, <1>4, RanksAreTaken
<1>7. Sorted(raws, K) \in [1 .. Cardinality(K) -> R]
  BY <1>5, <1>6 DEF Sorted
<1>8. Sorted(raws, K) \in Seq(R)
  BY <1>6, <1>7, SeqDef
<1>9. QED
  BY <1>3, <1>4, <1>8

-----------------------------------------------------------------------------

\* The sessions, the conversions, the re-entry ledger and the log are each
\* consistent, whether they were built live or by a replay.
ReplayInv ==
  /\ ConversionInv
  /\ LedgerInv
  /\ log \in Seq(Events)
  /\ StoredOnce
  /\ SessionsMatchLog

\* What the invariant reads.
inventory == <<sessionVars, storeVars, correlationVars>>

\* The stores after a reset.
Emptied ==
  /\ sessions = << >>
  /\ active = [v \in Visitors |-> None]
  /\ reentryCounts = [v \in Visitors |-> 0]
  /\ log = << >>
  /\ seen = {}
  /\ converted = {}

LEMMA EmptyStores ==
  Emptied => ReplayInv
<1> SUFFICES ASSUME Emptied
             PROVE  ReplayInv
  OBVIOUS
<1> USE DEF Emptied
<1>1. Index = {} /\ DOMAIN log = {} /\ log \in Seq(Events)
  BY EmptySeq DEF Index
<1>2. LedgerInv
  BY SessionInitInv DEF SessionInit
<1>3. ConversionInv
  BY <1>1, <1>2
     DEF ConversionInv, ApiInv, LedgerInv, CandidateJustified, CandidateVisited
<1>4. StoredOnce
  BY <1>1 DEF StoredOnce
<1>5. SessionsMatchLog
  BY NothingToMatch
<1>6. QED
  BY <1>1, <1>2, <1>3, <1>4, <1>5 DEF ReplayInv

\* After a reset, of a replay, of a replay that fails to sort, or of a restart,
\* nothing of the state before is left.
LEMMA ResetKeepsInv ==
  ASSUME ResetAllState
  PROVE  ReplayInv'
<1>1. Emptied'
  BY DEF ResetAllState, Emptied
<1>2. Emptied' => ReplayInv'
  BY EmptyStores, PTL
<1>3. QED
  BY <1>1, <1>2

LEMMA InventoryKeepsInv ==
  ASSUME ReplayInv, UNCHANGED inventory
  PROVE  ReplayInv'
<1>1. /\ sessions' = sessions /\ active' = active /\ reentryCounts' = reentryCounts
      /\ log' = log /\ seen' = seen
      /\ converted' = converted /\ transactions' = transactions
  BY DEF inventory, sessionVars, storeVars, correlationVars
<1>2. LedgerInv'
  BY <1>1, SessionStep DEF ReplayInv, sessionVars
<1>3. UNCHANGED <<sessionVars, converted>> /\ Index' = Index
  BY <1>1 DEF sessionVars, Index
<1>4. ApiInv'
  BY <1>1, <1>2, <1>3
     DEF ReplayInv, LedgerInv, ConversionInv, ApiInv, CandidateJustified,
         CandidateVisited, Joined
<1>5. ConversionInv'
  BY <1>1, <1>3, <1>4
     DEF ReplayInv, ConversionInv, PaidFor, AtBilling, HasLatest, Joined, JoinTimes,
         InWindow, BillingJoins
<1>6. StoredOnce'
  BY <1>1 DEF ReplayInv, StoredOnce
<1>7. SessionsMatchLog'
  BY <1>1, <1>3, SameTallyKeepsMatch
     DEF ReplayInv, LedgerInv, SessionInv, SameTally, SameSpan
<1>8. QED
  BY <1>1, <1>2, <1>5, <1>6, <1>7 DEF ReplayInv

\* An event that is accepted is appended; it is sessionized unless the handler
\* raises.
LEMMA AcceptKeepsInv ==
  ASSUME ReplayInv, UNCHANGED correlationVars, AcceptEvent \/ AcceptUnprocessed
  PROVE  ReplayInv'
<1> DEFINE e == Head(batch)
<1>1. e \in Events /\ e.id \notin seen /\ AppendEvent(e)
  BY IngestionAssumption DEF AcceptEvent, AcceptUnprocessed
<1>2. ProcessEvent(e) \/ UNCHANGED sessionVars
  BY DEF AcceptEvent, AcceptUnprocessed
<1>3. SessionInv /\ SessionTypeOK /\ log \in Seq(Events) /\ SessionsMatchLog
  BY DEF ReplayInv, LedgerInv, SessionInv
<1>4. SessionsMatchLog'
  <2>1. CASE AcceptEvent
    <3>1. e \notin Raising /\ ProcessEvent(e) /\ log' = Append(log, e)
      BY <2>1 DEF AcceptEvent, AppendEvent
    <3> HIDE DEF e
    <3>2. QED
      BY <1>1, <1>3, <3>1, AcceptKeepsMatch
  <2>2. CASE AcceptUnprocessed
    <3>1. /\ e \in Events \cap Raising
          /\ log' = Append(log, e)
          /\ sessions' = sessions /\ reentryCounts' = reentryCounts
      BY <1>1, <2>2 DEF AcceptUnprocessed, AppendEvent, sessionVars
    <3> HIDE DEF e
    <3>2. Index' = Index
      BY <3>1 DEF Index
    <3>3. QED
      BY <1>3, <3>1, <3>2, SameTallyKeepsMatch DEF SameTally, SameSpan
  <2>3. QED
    BY <2>1, <2>2
<1> HIDE DEF e
<1>5. log' \in Seq(Events) /\ StoredOnce'
  BY <1>1, AppendKeepsStoredOnce DEF ReplayInv
<1>6. LedgerInv'
  BY <1>1, <1>2, SessionStep DEF ReplayInv, SessionNext
<1>7. ConversionInv'
  <2>1. CASE ProcessEvent(e)
    BY <1>1, <2>1, ProcessKeepsConversions DEF ReplayInv
  <2>2. CASE UNCHANGED sessionVars
    <3>1. sessions' = sessions /\ converted' = converted /\ transactions' = transactions
      BY <2>2 DEF sessionVars, correlationVars
    <3>2. Index' = Index
      BY <3>1 DEF Index
    <3>3. ApiInv'
      BY <1>6, <3>1, <3>2
         DEF ReplayInv, LedgerInv, ConversionInv, ApiInv, CandidateJustified,
             CandidateVisited, Joined
    <3>4. QED
      BY <3>1, <3>2, <3>3
         DEF ReplayInv, ConversionInv, PaidFor, AtBilling, HasLatest, Joined, JoinTimes,
             InWindow, BillingJoins
  <2>3. QED
    BY <1>2, <2>1, <2>2
<1>8. QED
  BY <1>5, <1>6, <1>7, <1>4 DEF ReplayInv

\* The end of a request or of a replay: the correlation promotes sessions, and
\* leaves the re-entries alone.
LEMMA FinishKeepsAll ==
  ASSUME ReplayInv, FinishRequest
  PROVE  ReplayInv'
<1>1. ConversionInv'
  BY FinishKeepsConversions DEF ReplayInv
<1>2. /\ Index' = Index
      /\ \A i \in Index : /\ sessions'[i].visitor = sessions[i].visitor
                          /\ sessions'[i].reentry = sessions[i].reentry
                          /\ SameTally(sessions'[i], sessions[i])
                          /\ SameSpan(sessions'[i], sessions[i])
  BY Promotes DEF ReplayInv, LedgerInv, SessionInv, FinishRequest, SamePlace, SameSpan
<1>3. reentryCounts' = reentryCounts /\ UNCHANGED storeVars
  BY DEF FinishRequest, EndBatch
<1>4. ReentryLedger' /\ ReentryOrdered'
  BY <1>2, <1>3
     DEF ReplayInv, LedgerInv, ReentryLedger, ReentryBounded, ReentryRecorded, ReentryOrdered
<1>5. LedgerInv'
  BY <1>1, <1>4 DEF ConversionInv, ApiInv, LedgerInv
<1>6. log' \in Seq(Events) /\ StoredOnce'
  BY <1>3 DEF ReplayInv, storeVars, StoredOnce
<1>7. SessionsMatchLog'
  <2>1. log' = log
    BY <1>3 DEF storeVars
  <2>2. QED
    BY <1>2, <1>3, <2>1, SameTallyKeepsMatch DEF ReplayInv, LedgerInv, SessionInv
<1>8. QED
  BY <1>1, <1>5, <1>6, <1>7 DEF ReplayInv

LEMMA ReplayStep ==
  ReplayInv /\ [ReplayNext]_allVars => ReplayInv'
<1> SUFFICES ASSUME ReplayInv, [ReplayNext]_allVars
             PROVE  ReplayInv'
  OBVIOUS
<1>1. CASE LiveStart
  BY <1>1, InventoryKeepsInv DEF LiveStart, StartRequest, inventory
<1>2. CASE IngestOne
  <2>1. CASE RejectEvent \/ RejectNaive \/ SkipDuplicate
    BY <1>2, <2>1, InventoryKeepsInv
       DEF IngestOne, RejectEvent, RejectNaive, SkipDuplicate, inventory
  <2>2. CASE AcceptEvent \/ AcceptUnprocessed
    BY <1>2, <2>2, AcceptKeepsInv DEF IngestOne
  <2>3. QED
    BY <1>2, <2>1, <2>2 DEF IngestOne
<1>3. CASE LiveFinish \/ FinishReplay
  BY <1>3, FinishKeepsAll DEF LiveFinish, FinishReplay
<1>4. CASE \E s \in Stores : ReplayFile(s) \/ ReplayStore(s)
  <2>1. ResetAllState
    BY <1>4 DEF ReplayFile, ReplayStore, StartReplay, FailReplay
  <2>2. QED
    BY <2>1, ResetKeepsInv
<1>5. CASE Crash
  BY <1>5, ResetKeepsInv DEF Crash
<1>6. CASE UNCHANGED allVars
  BY <1>6, InventoryKeepsInv DEF allVars, apiVars, vars, inventory
<1>7. QED
  BY <1>1, <1>2, <1>3, <1>4, <1>5, <1>6 DEF ReplayNext

\* The invariant holds through replays and crashes.
THEOREM ReplayInvariant == ReplaySpec => []ReplayInv
<1>1. ReplayInit => ReplayInv
  BY EmptyStores
     DEF Emptied, ReplayInit, ApiInit, Init, SessionInit, IngestInit, CorrelationInit
<1>2. ReplayInv /\ [ReplayNext]_allVars => ReplayInv'
  BY ReplayStep
<1>3. QED
  BY <1>1, <1>2, PTL DEF ReplaySpec

\* Through replays, replays that fail half-way and crashes: the open sessions are
\* those the store holds as active, no re-entry is lost or repeated, and an event is
\* stored once (replay.py 207, 262-275).
THEOREM StoresStayConsistent ==
  ReplaySpec => [](ActiveMatchesOpen /\ ReentryLedger /\ StoredOnce)
<1>1. ReplayInv => ActiveMatchesOpen /\ ReentryLedger /\ StoredOnce
  BY DEF ReplayInv, LedgerInv, SessionInv
<1>2. QED
  BY <1>1, ReplayInvariant, PTL

\* Nor does a reset leave a conversion without the transaction that justifies it:
\* the converted set is never cleared, and no session after a reset is in it
\* (replay.py 262-275, correlation.py 186-251).
THEOREM ReplayedConversionsJustified ==
  ReplaySpec => [](BillingJoins => ConvertedJustified)
<1>1. ReplayInv => (BillingJoins => ConvertedJustified)
  BY DEF ReplayInv, ConversionInv, ApiInv, PaidFor, ConvertedJustified
<1>2. QED
  BY <1>1, ReplayInvariant, PTL

-----------------------------------------------------------------------------

\* The types of what a request, a replay or a crash sets.
RequestTyped ==
  /\ transactions \in [Stores -> SUBSET PosTimes]
  /\ batch \in Seq(RawEvent \cup Naive)
  /\ busy \in BOOLEAN
  /\ replaying \in BOOLEAN

\* The raws of a store of the file are in the order of their timestamps, those of
\* the EventStore are events.
LEMMA ReplayBatchType ==
  ASSUME log \in Seq(Events), NEW s
  PROVE  /\ Sorted(File, Loaded(s)) \in Seq(RawEvent \cup Naive)
         /\ Sorted(log, Stored(s)) \in Seq(RawEvent \cup Naive)
<1>1. Loaded(s) \in SUBSET DOMAIN File /\ Stored(s) \in SUBSET DOMAIN log
  BY DEF Loaded, Stored
<1>2. Sorted(File, Loaded(s)) \in Seq(RawEvent \cup Naive)
  BY <1>1, ReplayAssumption, SortedType
<1>3. Sorted(log, Stored(s)) \in Seq(Events)
  BY <1>1, SortedType
<1>4. Events \subseteq RawEvent \cup Naive
  BY DEF RawEvent
<1>5. QED
  BY <1>2, <1>3, <1>4, SeqMonotonic

LEMMA RequestTypedStep ==
  ReplayInv /\ RequestTyped /\ [ReplayNext]_allVars => RequestTyped'
<1> SUFFICES ASSUME ReplayInv, RequestTyped, [ReplayNext]_allVars
             PROVE  RequestTyped'
  OBVIOUS
<1> DEFINE Raw == RawEvent \cup Naive
<1>1. Tail(batch) \in Seq(Raw) \/ batch = << >>
  BY HeadTailProperties DEF RequestTyped
<1>2. << >> \in Seq(Raw)
  BY EmptySeq
<1>3. CASE LiveStart
  <2>1. PICK b \in Requests : StartRequest(b)
    BY <1>3 DEF LiveStart
  <2>2. b \in Seq(Events \cup {Malformed})
    BY IngestionAssumption
  <2>3. Events \cup {Malformed} \subseteq Raw
    BY DEF RawEvent
  <2>4. b \in Seq(Raw)
    BY <2>2, <2>3, SeqMonotonic
  <2>5. QED
    BY <1>3, <2>1, <2>4 DEF LiveStart, StartRequest, RequestTyped, correlationVars
<1>4. CASE IngestOne
  <2>1. /\ batch # << >>
        /\ batch' = Tail(batch) /\ busy' = busy
        /\ transactions' = transactions /\ replaying' = replaying
    BY <1>4 DEF IngestOne, RejectEvent, RejectNaive, SkipDuplicate, AcceptEvent,
                AcceptUnprocessed, NextRaw, correlationVars, replayVars
  <2>2. QED
    BY <1>1, <2>1 DEF RequestTyped
<1>5. CASE LiveFinish \/ FinishReplay
  BY <1>5 DEF LiveFinish, FinishReplay, FinishRequest, EndBatch, Correlate, RequestTyped,
              replayVars
<1>6. CASE \E s \in Stores : ReplayFile(s) \/ ReplayStore(s)
  <2>1. PICK s \in Stores : ReplayFile(s) \/ ReplayStore(s)
    BY <1>6
  <2>2. /\ Sorted(File, Loaded(s)) \in Seq(Raw)
        /\ Sorted(log, Stored(s)) \in Seq(Raw)
    BY ReplayBatchType DEF ReplayInv
  <2>3. CASE FailReplay(File, Loaded(s))
    BY <2>3 DEF FailReplay, ResetAllState, RequestTyped, ingestVars
  <2>4. CASE \/ StartReplay(FromFile(s), File, Loaded(s))
             \/ StartReplay(FromStore(s), log, Stored(s))
    BY <2>2, <2>4 DEF StartReplay, ResetAllState, RequestTyped
  <2>5. QED
    BY <2>1, <2>3, <2>4 DEF ReplayFile, ReplayStore
<1>7. CASE Crash
  BY <1>2, <1>7 DEF Crash, ResetAllState, RequestTyped
<1>8. CASE UNCHANGED allVars
  BY <1>8 DEF allVars, apiVars, vars, ingestVars, correlationVars, replayVars, RequestTyped
<1>9. QED
  BY <1>3, <1>4, <1>5, <1>6, <1>7, <1>8 DEF ReplayNext

\* Through replays, replays that fail half-way, requests that are cut off and crashes,
\* the stores keep their types, the open sessions are those held as active, no
\* re-entry is lost or repeated, an event is stored once, and the sessions are what
\* the log says: nothing of the state before a reset survives it (replay.py 207,
\* 262-275).
THEOREM ConsistencySurvivesResets == ReplaySpec => []ConsistentAcrossResets
<1> DEFINE I == ReplayInv /\ RequestTyped
<1>1. ReplayInit => I
  <2>1. ReplayInit => ReplayInv
    BY EmptyStores
       DEF Emptied, ReplayInit, ApiInit, Init, SessionInit, IngestInit, CorrelationInit
  <2>2. ReplayInit => RequestTyped
    BY EmptySeq DEF ReplayInit, ApiInit, Init, IngestInit, CorrelationInit, RequestTyped
  <2>3. QED
    BY <2>1, <2>2
<1>2. I /\ [ReplayNext]_allVars => I'
  BY ReplayStep, RequestTypedStep
<1>3. I => ConsistentAcrossResets
  <2> SUFFICES ASSUME I
               PROVE  ConsistentAcrossResets
    OBVIOUS
  <2>1. /\ SessionTypeOK /\ ActiveMatchesOpen /\ ReentryLedger
        /\ SessionsMatchLog /\ StoredOnce /\ log \in Seq(Events)
    BY DEF ReplayInv, LedgerInv, SessionInv
  <2>2. seen \subseteq Nat
    <3>1. \A i \in DOMAIN log : log[i] \in Events
      BY <2>1
    <3>2. \A i \in DOMAIN log : log[i].id \in Nat
      BY <3>1, SessionizerAssumption DEF Event
    <3>3. QED
      BY <2>1, <3>2 DEF StoredOnce
  <2>3. converted \subseteq Nat
    BY <2>1 DEF ReplayInv, ConversionInv, ApiInv, Index, SessionTypeOK
  <2>4. CorrelationTypeOK
    BY <2>3 DEF RequestTyped, CorrelationTypeOK
  <2>5. ReplayTypeOK
    BY <2>1, <2>2, <2>4 DEF RequestTyped, ReplayTypeOK
  <2>6. QED
    BY <2>1, <2>5 DEF ConsistentAcrossResets
<1>4. QED
  BY <1>1, <1>2, <1>3, PTL DEF ReplaySpec

-----------------------------------------------------------------------------
(***************************************************************************)
(* A replay is reproducible: the stores it builds are a function of the    *)
(* raws it is fed.  They are compared without what the correlation adds    *)
(* to the sessions.                                                        *)
(***************************************************************************)

\* What the stores hold, and what a replay starts from.
Whole ==
  [log |-> log, sessions |-> Unpromoted(sessions), active |-> active,
   counts |-> reentryCounts]

AtStart ==
  [log |-> << >>, sessions |-> << >>, active |-> [v \in Visitors |-> None],
   counts |-> [v \in Visitors |-> 0]]

\* The session that event e continues in the stores st.
Continued(st, e) ==
  IF st.active[e.visitor] # None THEN st.sessions[st.active[e.visitor]]
  ELSE NewSession(e, 0, IF e.type = "EXIT" THEN 1 ELSE 0)

\* What event e makes of the session c, n being the number of a re-entry.
Changed(e, c, n) ==
  IF e.type = "ENTRY" THEN NewSession(e, 0, 1)
  ELSE IF e.type = "REENTRY" THEN [c EXCEPT !.reentry = n, !.count = @ + 1]
  ELSE IF e.type = "EXIT" THEN [c EXCEPT !.end = e.time, !.count = @ + 1]
  ELSE IF e.type = "BILLING_QUEUE_JOIN"
       THEN [c EXCEPT !.queue = @ \cup {QueueEventOf(e)}, !.candidate = TRUE,
                      !.zones = @ \cup {IF e.zone = NoZone THEN BillingQueue ELSE e.zone},
                      !.count = @ + 1]
  ELSE IF e.type = "BILLING_QUEUE_ABANDON"
       THEN [c EXCEPT !.queue = @ \cup {QueueEventOf(e)}, !.count = @ + 1]
  ELSE IF e.zone = NoZone THEN c
  ELSE IF e.type = "ZONE_ENTER" THEN [c EXCEPT !.zones = @ \cup {e.zone}, !.count = @ + 1]
  ELSE [c EXCEPT !.dwell[e.zone] = @ + e.dwell, !.count = @ + 1]

\* The sessions ss with s at position p, the next one or one of theirs.
PutAt(ss, p, s) == IF p = Len(ss) + 1 THEN Append(ss, s) ELSE [ss EXCEPT ![p] = s]

\* Where the session of event e goes, and the sessions before it does: an ENTRY ends
\* the open one.
Target(st, e) ==
  LET a == st.active[e.visitor]
  IN  IF a = None \/ e.type = "ENTRY" THEN Len(st.sessions) + 1 ELSE a

Ended(st, e) ==
  LET a == st.active[e.visitor]
  IN  IF e.type = "ENTRY" /\ a # None THEN [st.sessions EXCEPT ![a].end = e.time]
                                      ELSE st.sessions

\* The stores st after event e has been processed.
Sessionized(st, e) ==
  LET p == Target(st, e)
      n == st.counts[e.visitor] + 1
  IN  [log      |-> Append(st.log, e),
       sessions |-> PutAt(Ended(st, e), p, Changed(e, Continued(st, e), n)),
       active   |-> [st.active EXCEPT ![e.visitor] = IF e.type = "EXIT" THEN None ELSE p],
       counts   |-> IF e.type = "REENTRY" THEN [st.counts EXCEPT ![e.visitor] = n]
                                          ELSE st.counts]

\* The stores st after a raw has been ingested: rejected, a duplicate, stored only,
\* or stored and processed.
Fed(st, raw) ==
  IF raw \notin Events \/ (\E i \in DOMAIN st.log : st.log[i].id = raw.id) THEN st
  ELSE IF raw \in Raising THEN [st EXCEPT !.log = Append(@, raw)]
  ELSE Sessionized(st, raw)

\* The stores tr[0], tr[1], ... while the first k raws are fed.
Feeding(raws, tr, k) ==
  /\ tr[0] = AtStart
  /\ \A i \in 1 .. k : tr[i] = Fed(tr[i - 1], raws[i])

\* The stores are st when `left` is left of the raws: that is where every feeding of
\* the raws is then, and there is one up to here.
Halfway(raws, left, st) ==
  LET k == Len(raws) - Len(left)
  IN  /\ k \in Nat
      /\ \A i \in 1 .. Len(left) : left[i] = raws[k + i]
      /\ \A tr : Feeding(raws, tr, Len(raws)) => st = tr[k]
      /\ \E tr : Feeding(raws, tr, k) /\ st = tr[k]

-----------------------------------------------------------------------------

\* A session without what the correlation added to it.
Cleaned(s) == [s EXCEPT !.candidate = Joined(s)]

LEMMA CleanedType ==
  ASSUME NEW s \in VisitorSession
  PROVE  /\ Cleaned(s) \in VisitorSession
         /\ Joined(s) \in BOOLEAN
<1>1. Joined(s) \in BOOLEAN
  BY DEF Joined
<1>2. QED
  BY <1>1 DEF Cleaned, VisitorSession

LEMMA UnpromotedSays ==
  ASSUME NEW ss \in Seq(VisitorSession)
  PROVE  /\ Unpromoted(ss) \in Seq(VisitorSession)
         /\ Len(Unpromoted(ss)) = Len(ss)
         /\ DOMAIN Unpromoted(ss) = DOMAIN ss
         /\ \A i \in DOMAIN ss : Unpromoted(ss)[i] = Cleaned(ss[i])
<1>1. DOMAIN ss = 1 .. Len(ss) /\ Len(ss) \in Nat
  OBVIOUS
<1>2. \A i \in DOMAIN ss : Cleaned(ss[i]) \in VisitorSession
  BY CleanedType
<1>3. Unpromoted(ss) = [i \in DOMAIN ss |-> Cleaned(ss[i])]
  BY DEF Unpromoted, Cleaned
<1>4. Unpromoted(ss) \in [1 .. Len(ss) -> VisitorSession]
  BY <1>1, <1>2, <1>3
<1>5. Unpromoted(ss) \in Seq(VisitorSession)
  BY <1>1, <1>4, SeqDef
<1>6. QED
  BY <1>1, <1>3, <1>4, <1>5

\* A session is put at its place before or after the cleaning.
LEMMA PutCleaned ==
  ASSUME NEW ss \in Seq(VisitorSession), NEW s \in VisitorSession,
         NEW p \in 1 .. Len(ss) + 1
  PROVE  /\ PutAt(ss, p, s) \in Seq(VisitorSession)
         /\ Unpromoted(PutAt(ss, p, s)) = PutAt(Unpromoted(ss), p, Cleaned(s))
<1> DEFINE us == Unpromoted(ss)
           c == Cleaned(s)
<1>1. /\ us \in Seq(VisitorSession) /\ Len(us) = Len(ss) /\ Len(ss) \in Nat
      /\ \A i \in 1 .. Len(ss) : us[i] = Cleaned(ss[i])
      /\ c \in VisitorSession
  BY UnpromotedSays, CleanedType
<1>2. PICK rr : rr = PutAt(ss, p, s)
  OBVIOUS
<1>3. /\ rr \in Seq(VisitorSession)
      /\ Len(rr) = IF p = Len(ss) + 1 THEN p ELSE Len(ss)
      /\ \A i \in 1 .. Len(rr) : rr[i] = IF i = p THEN s ELSE ss[i]
  BY <1>1, <1>2 DEF PutAt
<1> DEFINE ur == Unpromoted(rr)
           pr == PutAt(us, p, c)
<1>4. /\ ur \in Seq(VisitorSession) /\ Len(ur) = Len(rr)
      /\ \A i \in 1 .. Len(rr) : ur[i] = Cleaned(rr[i])
  BY <1>3, UnpromotedSays
<1> HIDE DEF us, c
<1>5. /\ pr \in Seq(VisitorSession)
      /\ Len(pr) = IF p = Len(ss) + 1 THEN p ELSE Len(ss)
      /\ \A i \in 1 .. Len(pr) : pr[i] = IF i = p THEN c ELSE us[i]
  BY <1>1 DEF PutAt
<1> HIDE DEF ur, pr
<1>6. \A i \in 1 .. Len(rr) : ur[i] = pr[i]
  <2> SUFFICES ASSUME NEW i \in 1 .. Len(rr)
               PROVE  ur[i] = pr[i]
    OBVIOUS
  <2>1. CASE i = p
    BY <1>3, <1>4, <1>5, <2>1 DEF c
  <2>2. CASE i # p
    <3>1. i \in 1 .. Len(ss)
      BY <1>1, <1>3, <2>2
    <3>2. QED
      BY <1>1, <1>3, <1>4, <1>5, <2>2, <3>1
  <2>3. QED
    BY <2>1, <2>2
<1>7. ur = pr
  BY <1>3, <1>4, <1>5, <1>6
<1>8. QED
  BY <1>2, <1>3, <1>7 DEF ur, pr, us, c

\* What an event makes of a session does not depend on what the correlation added.
LEMMA ChangedCleaned ==
  ASSUME NEW e \in Event, NEW c \in VisitorSession, NEW n \in Nat
  PROVE  /\ e.type = "REENTRY" =>
              Cleaned([c EXCEPT !.reentry = n, !.count = @ + 1]) = Changed(e, Cleaned(c), n)
         /\ e.type = "EXIT" =>
              Cleaned([c EXCEPT !.count = @ + 1, !.end = e.time]) = Changed(e, Cleaned(c), n)
         /\ e.type \in {"ZONE_ENTER", "ZONE_EXIT", "ZONE_DWELL"} /\ e.zone = NoZone =>
              Cleaned(c) = Changed(e, Cleaned(c), n)
         /\ e.type = "ZONE_ENTER" /\ e.zone # NoZone =>
              Cleaned([c EXCEPT !.zones = @ \cup {e.zone}, !.count = @ + 1])
                = Changed(e, Cleaned(c), n)
         /\ e.type \in {"ZONE_EXIT", "ZONE_DWELL"} /\ e.zone # NoZone =>
              Cleaned([c EXCEPT !.dwell[e.zone] = @ + e.dwell, !.count = @ + 1])
                = Changed(e, Cleaned(c), n)
         /\ e.type = "BILLING_QUEUE_JOIN" =>
              Cleaned([c EXCEPT !.queue = @ \cup {QueueEventOf(e)}, !.candidate = TRUE,
                         !.zones = @ \cup {IF e.zone = NoZone THEN BillingQueue ELSE e.zone},
                         !.count = @ + 1]) = Changed(e, Cleaned(c), n)
         /\ e.type = "BILLING_QUEUE_ABANDON" =>
              Cleaned([c EXCEPT !.queue = @ \cup {QueueEventOf(e)}, !.count = @ + 1])
                = Changed(e, Cleaned(c), n)
<1>1. e.type = "REENTRY" =>
        Cleaned([c EXCEPT !.reentry = n, !.count = @ + 1]) = Changed(e, Cleaned(c), n)
  BY DEF Changed, Cleaned, Joined, VisitorSession
<1>2. e.type = "EXIT" =>
        Cleaned([c EXCEPT !.count = @ + 1, !.end = e.time]) = Changed(e, Cleaned(c), n)
  BY DEF Changed, Cleaned, Joined, VisitorSession
<1>3. e.type \in {"ZONE_ENTER", "ZONE_EXIT", "ZONE_DWELL"} /\ e.zone = NoZone =>
        Cleaned(c) = Changed(e, Cleaned(c), n)
  BY DEF Changed
<1>4. e.type = "ZONE_ENTER" /\ e.zone # NoZone =>
        Cleaned([c EXCEPT !.zones = @ \cup {e.zone}, !.count = @ + 1])
          = Changed(e, Cleaned(c), n)
  BY DEF Changed, Cleaned, Joined, VisitorSession
<1>5. e.type \in {"ZONE_EXIT", "ZONE_DWELL"} /\ e.zone # NoZone =>
        Cleaned([c EXCEPT !.dwell[e.zone] = @ + e.dwell, !.count = @ + 1])
          = Changed(e, Cleaned(c), n)
  BY DEF Changed, Cleaned, Joined, VisitorSession
<1>6. ASSUME e.type = "BILLING_QUEUE_JOIN"
      PROVE  Cleaned([c EXCEPT !.queue = @ \cup {QueueEventOf(e)}, !.candidate = TRUE,
                        !.zones = @ \cup {IF e.zone = NoZone THEN BillingQueue ELSE e.zone},
                        !.count = @ + 1]) = Changed(e, Cleaned(c), n)
  <2> DEFINE q == QueueEventOf(e)
             z == IF e.zone = NoZone THEN BillingQueue ELSE e.zone
             d == [c EXCEPT !.queue = @ \cup {q}, !.candidate = TRUE,
                            !.zones = @ \cup {z}, !.count = @ + 1]
  <2>1. q.type = "BILLING_QUEUE_JOIN"
    BY <1>6 DEF QueueEventOf
  <2> HIDE DEF q, z
  <2>2. d.queue = c.queue \cup {q}
    BY DEF VisitorSession
  <2>3. Joined(d)
    BY <2>1, <2>2 DEF Joined
  <2>4. Cleaned(d) = [d EXCEPT !.candidate = TRUE]
    BY <2>3 DEF Cleaned, Joined
  <2>5. Changed(e, Cleaned(c), n) = [Cleaned(c) EXCEPT !.queue = @ \cup {q}, !.candidate = TRUE,
                                                       !.zones = @ \cup {z}, !.count = @ + 1]
    BY <1>6 DEF Changed, q, z
  <2>6. QED
    BY <2>4, <2>5 DEF Cleaned, VisitorSession, q, z
<1>7. ASSUME e.type = "BILLING_QUEUE_ABANDON"
      PROVE  Cleaned([c EXCEPT !.queue = @ \cup {QueueEventOf(e)}, !.count = @ + 1])
               = Changed(e, Cleaned(c), n)
  <2> DEFINE q == QueueEventOf(e)
             d == [c EXCEPT !.queue = @ \cup {q}, !.count = @ + 1]
  <2>1. q.type # "BILLING_QUEUE_JOIN"
    BY <1>7 DEF QueueEventOf
  <2> HIDE DEF q
  <2>2. d.queue = c.queue \cup {q}
    BY DEF VisitorSession
  <2>3. Joined(d) = Joined(c)
    BY <2>1, <2>2 DEF Joined
  <2>4. Cleaned(d) = [d EXCEPT !.candidate = Joined(c)]
    BY <2>3 DEF Cleaned
  <2>5. Changed(e, Cleaned(c), n) = [Cleaned(c) EXCEPT !.queue = @ \cup {q}, !.count = @ + 1]
    BY <1>7 DEF Changed, q
  <2>6. QED
    BY <2>4, <2>5 DEF Cleaned, VisitorSession, q
<1>8. QED
  BY <1>1, <1>2, <1>3, <1>4, <1>5, <1>6, <1>7

\* The visitor of an event, and the sessions there are.
LEMMA StoresTyped ==
  ASSUME SessionInv, NEW e \in Events
  PROVE  /\ e \in Event /\ e.visitor \in Visitors /\ e.time \in Nat
         /\ sessions \in Seq(VisitorSession) /\ Len(sessions) \in Nat
         /\ active \in [Visitors -> Nat] /\ reentryCounts \in [Visitors -> Nat]
         /\ active[e.visitor] # None => /\ active[e.visitor] \in 1 .. Len(sessions)
                                        /\ sessions[active[e.visitor]] \in VisitorSession
         /\ CurrentSession(e) \in VisitorSession
         /\ CurrentSession(e).visitor = e.visitor
<1>1. e \in Event /\ e.visitor \in Visitors /\ e.time \in Nat
  BY EventsTyped, EventFields
<1>2. /\ sessions \in Seq(VisitorSession) /\ active \in [Visitors -> Nat]
      /\ reentryCounts \in [Visitors -> Nat]
      /\ \A v \in Visitors : active[v] # None => active[v] \in DOMAIN sessions
  BY DEF SessionInv, SessionTypeOK, ActiveMatchesOpen, ActiveIsOpen, Index
<1>3. CurrentSession(e) \in VisitorSession /\ CurrentSession(e).visitor = e.visitor
  BY <1>1, CurrentSessionType DEF SessionInv, ActiveMatchesOpen, SessionTypeOK
<1>4. Len(sessions) \in Nat /\ DOMAIN sessions = 1 .. Len(sessions)
  BY <1>2
<1>5. \A i \in DOMAIN sessions : sessions[i] \in VisitorSession
  BY <1>2
<1>6. QED
  BY <1>1, <1>2, <1>3, <1>4, <1>5

\* The stores after a step that puts a session s at its place.
LEMMA PutGives ==
  ASSUME SessionInv, NEW e \in Events, NEW X \in Seq(VisitorSession), NEW s \in VisitorSession,
         Len(X) = Len(sessions),
         sessions' = PutAt(X, Target(Whole, e), s),
         Unpromoted(X) = Ended(Whole, e),
         Cleaned(s) = Changed(e, Continued(Whole, e), reentryCounts[e.visitor] + 1),
         active' = [active EXCEPT ![e.visitor] = IF e.type = "EXIT" THEN None
                                                 ELSE Target(Whole, e)],
         reentryCounts' = IF e.type = "REENTRY"
                          THEN [reentryCounts EXCEPT ![e.visitor] = @ + 1] ELSE reentryCounts,
         log' = Append(log, e)
  PROVE  Whole' = Sessionized(Whole, e)
<1>1. PICK p : p = Target(Whole, e)
  OBVIOUS
<1>2. p \in 1 .. Len(X) + 1
  <2>1. Len(Unpromoted(sessions)) = Len(sessions)
    BY StoresTyped, UnpromotedSays
  <2>2. p = IF active[e.visitor] = None \/ e.type = "ENTRY" THEN Len(sessions) + 1
            ELSE active[e.visitor]
    BY <1>1, <2>1 DEF Target, Whole
  <2>3. QED
    BY <2>2, StoresTyped
<1>3. Unpromoted(PutAt(X, p, s)) = PutAt(Unpromoted(X), p, Cleaned(s))
  BY <1>2, PutCleaned
<1>4. PICK ss : ss = sessions'
  OBVIOUS
<1>5. Unpromoted(ss) = PutAt(Ended(Whole, e), p, Changed(e, Continued(Whole, e), reentryCounts[e.visitor] + 1))
  BY <1>1, <1>3, <1>4
<1>6. Whole' = [log |-> log', sessions |-> Unpromoted(ss), active |-> active',
                counts |-> reentryCounts']
  BY <1>4 DEF Whole, Unpromoted, Joined
<1>7. reentryCounts' = IF e.type = "REENTRY"
                       THEN [reentryCounts EXCEPT ![e.visitor] = reentryCounts[e.visitor] + 1]
                       ELSE reentryCounts
  OBVIOUS
<1>8. /\ Whole.log = log /\ Whole.active = active /\ Whole.counts = reentryCounts
  BY DEF Whole
<1> HIDE DEF Whole
<1>9. QED
  BY <1>1, <1>5, <1>6, <1>7, <1>8 DEF Sessionized

\* A new session has nothing to clean.
LEMMA NewIsClean ==
  ASSUME NEW e \in Event, NEW r \in Nat, NEW k \in Nat
  PROVE  /\ Cleaned(NewSession(e, r, k)) = NewSession(e, r, k)
         /\ \A t : Cleaned([NewSession(e, r, k) EXCEPT !.end = t])
                     = [NewSession(e, r, k) EXCEPT !.end = t]
<1> DEFINE s == NewSession(e, r, k)
<1>1. s \in VisitorSession /\ s.queue = {} /\ s.candidate = FALSE
  BY NewSessionType DEF NewSession
<1> HIDE DEF s
<1>2. Joined(s) = FALSE
  BY <1>1 DEF Joined
<1>3. Cleaned(s) = s
  BY <1>1, <1>2 DEF Cleaned, VisitorSession
<1>4. ASSUME NEW t
      PROVE  Cleaned([s EXCEPT !.end = t]) = [s EXCEPT !.end = t]
  <2> DEFINE d == [s EXCEPT !.end = t]
  <2>1. d.queue = {} /\ d.candidate = FALSE
    BY <1>1 DEF VisitorSession
  <2>2. Joined(d) = FALSE
    BY <2>1 DEF Joined
  <2>3. [d EXCEPT !.candidate = FALSE] = d
    BY <1>1 DEF VisitorSession
  <2>4. QED
    BY <2>2, <2>3 DEF Cleaned
<1>5. QED
  BY <1>3, <1>4 DEF s

\* What the stores hold, without the correlation, of the session an event continues.
LEMMA ContinuedSays ==
  ASSUME SessionInv, NEW e \in Events
  PROVE  /\ Target(Whole, e) = IF active[e.visitor] = None \/ e.type = "ENTRY"
                               THEN Len(sessions) + 1 ELSE active[e.visitor]
         /\ e.type # "ENTRY" => Ended(Whole, e) = Unpromoted(sessions)
         /\ e.type # "EXIT" => Continued(Whole, e) = Cleaned(CurrentSession(e))
         /\ active[e.visitor] # None => Continued(Whole, e) = Cleaned(CurrentSession(e))
<1>1. /\ Len(Unpromoted(sessions)) = Len(sessions)
      /\ \A i \in 1 .. Len(sessions) : Unpromoted(sessions)[i] = Cleaned(sessions[i])
  BY StoresTyped, UnpromotedSays
<1>2. active[e.visitor] # None =>
        /\ Unpromoted(sessions)[active[e.visitor]] = Cleaned(sessions[active[e.visitor]])
        /\ CurrentSession(e) = sessions[active[e.visitor]]
  BY <1>1, StoresTyped DEF CurrentSession
<1>3. Cleaned(NewSession(e, 0, 0)) = NewSession(e, 0, 0)
  BY StoresTyped, NewIsClean
<1>4. active[e.visitor] = None => CurrentSession(e) = NewSession(e, 0, 0)
  BY DEF CurrentSession
<1>5. Whole.sessions = Unpromoted(sessions) /\ Whole.active = active
  BY DEF Whole
<1> HIDE DEF Whole
<1>6. QED
  BY <1>1, <1>2, <1>3, <1>4, <1>5 DEF Target, Ended, Continued

\* An event that enriches the current session.
LEMMA EnrichGives ==
  ASSUME SessionInv, NEW e \in Events, e.type \notin {"ENTRY", "EXIT"},
         NEW s \in VisitorSession, s.visitor = e.visitor, Enrich(e, s),
         Cleaned(s) = Changed(e, Cleaned(CurrentSession(e)), reentryCounts[e.visitor] + 1),
         reentryCounts' = IF e.type = "REENTRY"
                          THEN [reentryCounts EXCEPT ![e.visitor] = @ + 1] ELSE reentryCounts,
         log' = Append(log, e)
  PROVE  Whole' = Sessionized(Whole, e)
<1> DEFINE a == active[e.visitor]
           p == IF a = None THEN Len(sessions) + 1 ELSE a
<1>1. Target(Whole, e) = p /\ Ended(Whole, e) = Unpromoted(sessions)
      /\ Continued(Whole, e) = Cleaned(CurrentSession(e))
  BY ContinuedSays
<1>2. sessions' = PutAt(sessions, p, s) /\ active' = [active EXCEPT ![e.visitor] = p]
  <2>1. CASE a = None
    BY <2>1, StoresTyped DEF Enrich, PutActive, PutAt
  <2>2. CASE a # None
    <3>1. sessions' = [sessions EXCEPT ![a] = s] /\ active' = active
      BY <2>2 DEF Enrich
    <3>2. p # Len(sessions) + 1
      BY <2>2, StoresTyped
    <3>3. active = [active EXCEPT ![e.visitor] = p]
      BY <2>2, StoresTyped
    <3>4. QED
      BY <2>2, <3>1, <3>2, <3>3 DEF PutAt
  <2>3. QED
    BY <2>1, <2>2
<1> HIDE DEF p, a
<1>3. sessions \in Seq(VisitorSession)
  BY StoresTyped
<1>4. active' = [active EXCEPT ![e.visitor] = IF e.type = "EXIT" THEN None
                                              ELSE Target(Whole, e)]
  BY <1>1, <1>2
<1>5. sessions' = PutAt(sessions, Target(Whole, e), s) /\ Unpromoted(sessions) = Ended(Whole, e)
      /\ Cleaned(s) = Changed(e, Continued(Whole, e), reentryCounts[e.visitor] + 1)
  BY <1>1, <1>2
<1>6. QED
  BY <1>3, <1>4, <1>5, PutGives

\* Every event, processed, leaves the stores that are computed for it.
LEMMA ProcessGives ==
  ASSUME SessionInv, NEW e \in Events, ProcessEvent(e), log' = Append(log, e)
  PROVE  Whole' = Sessionized(Whole, e)
<1> DEFINE v == e.visitor
           a == active[v]
           c == CurrentSession(e)
           n == reentryCounts[v] + 1
<1>1. /\ e \in Event /\ v \in Visitors /\ c \in VisitorSession /\ c.visitor = v /\ n \in Nat
      /\ e.dwell \in Nat /\ e.time \in Nat /\ e.zone \in Zones \cup {NoZone}
      /\ QueueEventOf(e) = [type |-> e.type, time |-> e.time]
  BY StoresTyped, EventFields DEF QueueEventOf
<1>2. CASE HandleEntry(e)
  <2> DEFINE s == NewSession(e, 0, 1)
  <2>1. s \in VisitorSession /\ s.visitor = v
    <3>1. e \in Event /\ 0 \in Nat /\ 1 \in Nat
      BY <1>1
    <3>2. QED
      BY <3>1, NewSessionType
  <2>2. /\ e.type = "ENTRY" /\ reentryCounts' = reentryCounts
        /\ sessions' = Append(Closed(e), s)
        /\ active' = [active EXCEPT ![v] = Len(Closed(e)) + 1]
    BY <1>2, <2>1 DEF HandleEntry, PutActive
  <2>3. Closed(e) \in Seq(VisitorSession) /\ Len(Closed(e)) = Len(sessions)
    BY <1>1, ClosedSessions
  <2>4. Target(Whole, e) = Len(sessions) + 1
    BY <2>2, ContinuedSays
  <2>5. Unpromoted(Closed(e)) = Ended(Whole, e)
    <3>1. Whole.sessions = Unpromoted(sessions) /\ Whole.active = active
      BY DEF Whole
    <3>2. CASE a = None
      BY <3>1, <3>2 DEF Closed, Ended
    <3>3. CASE a # None
      <4> DEFINE b == [sessions[a] EXCEPT !.end = e.time]
      <4>1. a \in 1 .. Len(sessions) /\ sessions[a] \in VisitorSession
            /\ sessions \in Seq(VisitorSession) /\ Len(sessions) \in Nat
        BY <3>3, StoresTyped
      <4>2. b \in VisitorSession
        BY <1>1, <4>1 DEF VisitorSession, Time
      <4>3. Cleaned(b) = [Cleaned(sessions[a]) EXCEPT !.end = e.time]
        BY <4>1 DEF Cleaned, Joined, VisitorSession
      <4>4. Closed(e) = PutAt(sessions, a, b)
        BY <3>3, <4>1 DEF Closed, PutAt
      <4> HIDE DEF b
      <4>5. Unpromoted(Closed(e)) = PutAt(Unpromoted(sessions), a, Cleaned(b))
        BY <4>1, <4>2, <4>4, PutCleaned
      <4>6. Unpromoted(sessions)[a] = Cleaned(sessions[a])
            /\ Len(Unpromoted(sessions)) = Len(sessions)
        BY <4>1, UnpromotedSays
      <4>7. Ended(Whole, e) = [Unpromoted(sessions) EXCEPT ![a] =
                                 [Unpromoted(sessions)[a] EXCEPT !.end = e.time]]
        BY <2>2, <3>1, <3>3 DEF Ended
      <4>8. a # Len(sessions) + 1
        BY <4>1
      <4>9. QED
        BY <4>3, <4>5, <4>6, <4>7, <4>8 DEF PutAt
    <3>4. QED
      BY <3>2, <3>3
  <2>6. Cleaned(s) = Changed(e, Continued(Whole, e), n)
    <3>1. e \in Event /\ 0 \in Nat /\ 1 \in Nat
      BY <1>1
    <3>2. Cleaned(NewSession(e, 0, 1)) = NewSession(e, 0, 1)
      BY <3>1, NewIsClean
    <3>3. QED
      BY <2>2, <3>2 DEF Changed
  <2>7. sessions' = PutAt(Closed(e), Target(Whole, e), s)
    BY <2>2, <2>3, <2>4 DEF PutAt
  <2> HIDE DEF s
  <2>8. QED
    BY <2>1, <2>2, <2>3, <2>4, <2>5, <2>6, <2>7, PutGives
<1>3. CASE HandleReentry(e)
  <2> DEFINE s == [c EXCEPT !.reentry = n, !.count = @ + 1]
  <2>1. /\ e.type = "REENTRY" /\ Enrich(e, s)
        /\ reentryCounts' = [reentryCounts EXCEPT ![v] = @ + 1]
    BY <1>3 DEF HandleReentry
  <2>2. Cleaned(s) = Changed(e, Cleaned(c), n)
    BY <1>1, <2>1, ChangedCleaned
  <2>3. s \in VisitorSession /\ s.visitor = v
    <3>1. [c EXCEPT !.reentry = n] \in VisitorSession
      BY <1>1, SessionUpdates
    <3>2. s \in VisitorSession
      BY <1>1, <3>1, SessionUpdates, SessionReads
    <3>3. QED
      BY <1>1, <3>2 DEF VisitorSession
  <2> HIDE DEF s
  <2>4. QED
    BY <2>1, <2>2, <2>3, EnrichGives
<1>4. CASE HandleExitOpen(e)
  <2> DEFINE s == [c EXCEPT !.count = @ + 1, !.end = e.time]
  <2>1. /\ e.type = "EXIT" /\ a # None
        /\ sessions' = [sessions EXCEPT ![a] = s]
        /\ active' = [active EXCEPT ![v] = None]
        /\ reentryCounts' = reentryCounts
    BY <1>4 DEF HandleExitOpen
  <2>2. Cleaned(s) = Changed(e, Cleaned(c), n)
    BY <1>1, <2>1, ChangedCleaned
  <2>3. s \in VisitorSession
    <3>1. [c EXCEPT !.count = @ + 1] \in VisitorSession
      BY <1>1, SessionUpdates, SessionReads
    <3>2. QED
      BY <1>1, <3>1, SessionUpdates DEF Time
  <2>4. /\ Target(Whole, e) = a /\ Ended(Whole, e) = Unpromoted(sessions)
        /\ Continued(Whole, e) = Cleaned(c)
    BY <2>1, ContinuedSays
  <2> HIDE DEF s
  <2>5. sessions' = PutAt(sessions, Target(Whole, e), s) /\ sessions \in Seq(VisitorSession)
    BY <2>1, <2>4, StoresTyped DEF PutAt
  <2>6. QED
    BY <2>1, <2>2, <2>3, <2>4, <2>5, PutGives
<1>5. CASE HandleExitStub(e)
  <2> DEFINE s == [NewSession(e, 0, 2) EXCEPT !.end = e.time]
  <2>1. /\ e.type = "EXIT" /\ a = None
        /\ sessions' = Append(sessions, s)
        /\ active' = active
        /\ reentryCounts' = reentryCounts
    BY <1>5 DEF HandleExitStub
  <2>2. s \in VisitorSession
    <3>1. NewSession(e, 0, 2) \in VisitorSession
      BY <1>1, NewSessionType
    <3>2. QED
      BY <1>1, <3>1, SessionUpdates DEF Time
  <2>3. Cleaned(s) = s
    <3>1. e \in Event /\ 0 \in Nat /\ 2 \in Nat
      BY <1>1
    <3>2. \A t : Cleaned([NewSession(e, 0, 2) EXCEPT !.end = t])
                  = [NewSession(e, 0, 2) EXCEPT !.end = t]
      BY <3>1, NewIsClean
    <3>3. QED
      BY <3>2
  <2>4. Continued(Whole, e) = NewSession(e, 0, 1)
    <3>1. Whole.active = active
      BY DEF Whole
    <3>2. QED
      BY <2>1, <3>1 DEF Continued
  <2>5. Changed(e, NewSession(e, 0, 1), n) = s
    <3>1. [NewSession(e, 0, 1) EXCEPT !.count = @ + 1] = NewSession(e, 0, 2)
      <4> DEFINE f == NewSession(e, 0, 1)
                 g == NewSession(e, 0, 2)
      <4>1. f \in VisitorSession /\ g \in VisitorSession
        BY <1>1, NewSessionType
      <4>2. /\ f.visitor = g.visitor /\ f.store = g.store /\ f.start = g.start
            /\ f.end = g.end /\ f.staff = g.staff /\ f.zones = g.zones
            /\ f.dwell = g.dwell /\ f.queue = g.queue /\ f.reentry = g.reentry
            /\ f.candidate = g.candidate /\ f.count = 1 /\ g.count = 2
        BY DEF NewSession
      <4> HIDE DEF f, g
      <4>3. [f EXCEPT !.count = @ + 1] = g
        BY <4>1, <4>2 DEF VisitorSession
      <4>4. QED
        BY <4>3 DEF f, g
    <3>2. [NewSession(e, 0, 1) EXCEPT !.end = e.time, !.count = @ + 1]
            = [[NewSession(e, 0, 1) EXCEPT !.count = @ + 1] EXCEPT !.end = e.time]
      BY <1>1, NewSessionType DEF VisitorSession
    <3>3. QED
      BY <2>1, <3>1, <3>2 DEF Changed
  <2>6. /\ Target(Whole, e) = Len(sessions) + 1
        /\ Ended(Whole, e) = Unpromoted(sessions)
    BY <2>1, ContinuedSays
  <2>7. active' = [active EXCEPT ![v] = None]
    BY <2>1, StoresTyped
  <2> HIDE DEF s
  <2>8. sessions' = PutAt(sessions, Target(Whole, e), s) /\ sessions \in Seq(VisitorSession)
    BY <2>1, <2>6, StoresTyped DEF PutAt
  <2>9. QED
    BY <2>1, <2>2, <2>3, <2>4, <2>5, <2>6, <2>7, <2>8, PutGives
<1>6. CASE HandleZoneless(e)
  <2>1. /\ e.type \in {"ZONE_ENTER", "ZONE_EXIT", "ZONE_DWELL"} /\ e.zone = NoZone
        /\ Enrich(e, c) /\ reentryCounts' = reentryCounts
    BY <1>6 DEF HandleZoneless
  <2>2. Cleaned(c) = Changed(e, Cleaned(c), n)
    BY <1>1, <2>1, ChangedCleaned
  <2> HIDE DEF c
  <2>3. QED
    BY <1>1, <2>1, <2>2, EnrichGives DEF c
<1>7. CASE HandleZoneEnter(e)
  <2> DEFINE s == [c EXCEPT !.zones = @ \cup {e.zone}, !.count = @ + 1]
  <2>1. /\ e.type = "ZONE_ENTER" /\ e.zone # NoZone
        /\ Enrich(e, s) /\ reentryCounts' = reentryCounts
    BY <1>7 DEF HandleZoneEnter
  <2>2. Cleaned(s) = Changed(e, Cleaned(c), n)
    BY <1>1, <2>1, ChangedCleaned
  <2>3. s \in VisitorSession /\ s.visitor = v
    <3>1. [c EXCEPT !.zones = @ \cup {e.zone}] \in VisitorSession
      BY <1>1, <2>1, SessionUpdates, SessionReads
    <3>2. s \in VisitorSession
      BY <1>1, <3>1, SessionUpdates, SessionReads
    <3>3. QED
      BY <1>1, <3>2 DEF VisitorSession
  <2> HIDE DEF s
  <2>4. QED
    BY <2>1, <2>2, <2>3, EnrichGives
<1>8. CASE HandleZoneDwell(e)
  <2> DEFINE s == [c EXCEPT !.dwell[e.zone] = @ + e.dwell, !.count = @ + 1]
  <2>1. /\ e.type \in {"ZONE_EXIT", "ZONE_DWELL"} /\ e.zone # NoZone
        /\ Enrich(e, s) /\ reentryCounts' = reentryCounts
    BY <1>8 DEF HandleZoneDwell
  <2>2. Cleaned(s) = Changed(e, Cleaned(c), n)
    BY <1>1, <2>1, ChangedCleaned
  <2>3. s \in VisitorSession /\ s.visitor = v
    <3>1. [c EXCEPT !.dwell[e.zone] = @ + e.dwell] \in VisitorSession
      BY <1>1, <2>1, SessionUpdates, SessionReads
    <3>2. s \in VisitorSession
      BY <1>1, <3>1, SessionUpdates, SessionReads
    <3>3. QED
      BY <1>1, <3>2 DEF VisitorSession
  <2> HIDE DEF s
  <2>4. QED
    BY <2>1, <2>2, <2>3, EnrichGives
<1>9. CASE HandleQueueJoin(e)
  <2> DEFINE z == IF e.zone = NoZone THEN BillingQueue ELSE e.zone
             s == [c EXCEPT !.queue = @ \cup {QueueEventOf(e)}, !.candidate = TRUE,
                            !.zones = @ \cup {z}, !.count = @ + 1]
  <2>1. /\ e.type = "BILLING_QUEUE_JOIN"
        /\ Enrich(e, s) /\ reentryCounts' = reentryCounts
    BY <1>9 DEF HandleQueueJoin
  <2>2. Cleaned(s) = Changed(e, Cleaned(c), n)
    BY <1>1, <2>1, ChangedCleaned
  <2>3. s \in VisitorSession /\ s.visitor = v
    <3>1. z \in Zones /\ QueueEventOf(e) \in QueueEvent
      BY <1>1, <2>1, SessionizerAssumption DEF QueueEvent, Time
    <3>2. [c EXCEPT !.queue = @ \cup {QueueEventOf(e)}] \in VisitorSession
      BY <1>1, <3>1, SessionUpdates, SessionReads
    <3>3. [c EXCEPT !.queue = @ \cup {QueueEventOf(e)}, !.candidate = TRUE] \in VisitorSession
      BY <3>2, SessionUpdates
    <3>4. [c EXCEPT !.queue = @ \cup {QueueEventOf(e)}, !.candidate = TRUE,
                    !.zones = @ \cup {z}] \in VisitorSession
      BY <1>1, <3>1, <3>3, SessionUpdates, SessionReads
    <3>5. s \in VisitorSession
      BY <1>1, <3>4, SessionUpdates, SessionReads
    <3>6. QED
      BY <1>1, <3>5 DEF VisitorSession
  <2> HIDE DEF s
  <2>4. QED
    BY <2>1, <2>2, <2>3, EnrichGives
<1>10. CASE HandleQueueAbandon(e)
  <2> DEFINE s == [c EXCEPT !.queue = @ \cup {QueueEventOf(e)}, !.count = @ + 1]
  <2>1. /\ e.type = "BILLING_QUEUE_ABANDON"
        /\ Enrich(e, s) /\ reentryCounts' = reentryCounts
    BY <1>10 DEF HandleQueueAbandon
  <2>2. Cleaned(s) = Changed(e, Cleaned(c), n)
    BY <1>1, <2>1, ChangedCleaned
  <2>3. s \in VisitorSession /\ s.visitor = v
    <3>1. QueueEventOf(e) \in QueueEvent
      BY <1>1, <2>1 DEF QueueEvent, Time
    <3>2. [c EXCEPT !.queue = @ \cup {QueueEventOf(e)}] \in VisitorSession
      BY <1>1, <3>1, SessionUpdates, SessionReads
    <3>3. s \in VisitorSession
      BY <1>1, <3>2, SessionUpdates, SessionReads
    <3>4. QED
      BY <1>1, <3>3 DEF VisitorSession
  <2> HIDE DEF s
  <2>4. QED
    BY <2>1, <2>2, <2>3, EnrichGives
<1>11. QED
  BY <1>2, <1>3, <1>4, <1>5, <1>6, <1>7, <1>8, <1>9, <1>10 DEF ProcessEvent

-----------------------------------------------------------------------------

\* A raw without a time zone is no event.
LEMMA NaiveIsNoEvent ==
  /\ \A raw \in Naive : raw \notin Events
  /\ Malformed \notin Events
<1>1. ASSUME NEW raw \in Naive
      PROVE  raw \notin Event
  <2>1. DOMAIN raw = {"store", "timezone"}
    BY DEF Naive
  <2>2. \A e \in Event : "id" \in DOMAIN e
    BY DEF Event
  <2>3. "id" \notin {"store", "timezone"}
    OBVIOUS
  <2>4. QED
    BY <2>1, <2>2, <2>3
<1>2. Events \subseteq Event
  BY SessionizerAssumption
<1>3. QED
  BY <1>1, <1>2, IngestionAssumption

LEMMA SameWhole ==
  ASSUME log' = log, UNCHANGED sessionVars
  PROVE  Whole' = Whole
<1>1. sessions' = sessions /\ active' = active /\ reentryCounts' = reentryCounts
  BY DEF sessionVars
<1>2. QED
  BY <1>1 DEF Whole, Unpromoted, Joined

\* When no event lies in the future, an ingest does what is computed for the raw.
LEMMA IngestFeeds ==
  ASSUME Skewed = {}, ReplayInv, IngestOne
  PROVE  /\ batch # << >> /\ batch' = Tail(batch)
         /\ Whole' = Fed(Whole, Head(batch))
         /\ \/ log' = log /\ Whole' = Whole
            \/ log' = Append(log, Head(batch)) /\ Head(batch) \in Events
<1> DEFINE e == Head(batch)
<1>1. batch # << >> /\ batch' = Tail(batch)
  BY DEF IngestOne, RejectEvent, RejectNaive, SkipDuplicate, AcceptEvent, AcceptUnprocessed,
         NextRaw
<1>2. /\ Whole.log = log
      /\ e.id \in seen <=> \E i \in DOMAIN Whole.log : Whole.log[i].id = e.id
  BY DEF Whole, ReplayInv, StoredOnce
<1>3. CASE RejectEvent \/ RejectNaive \/ SkipDuplicate
  <2>1. log' = log /\ UNCHANGED sessionVars
    BY <1>3 DEF RejectEvent, RejectNaive, SkipDuplicate, storeVars
  <2>2. e \notin Events \/ e.id \in seen
    BY <1>3, NaiveIsNoEvent DEF RejectEvent, RejectNaive, SkipDuplicate
  <2> HIDE DEF e
  <2>3. Fed(Whole, e) = Whole
    BY <1>2, <2>2 DEF Fed
  <2>4. QED
    BY <1>1, <2>1, <2>3, SameWhole DEF e
<1>4. CASE AcceptEvent
  <2>1. /\ e \in Events /\ e \notin Raising /\ e.id \notin seen
        /\ ProcessEvent(e) /\ log' = Append(log, e)
    BY <1>4 DEF AcceptEvent, AppendEvent
  <2>2. SessionInv
    BY DEF ReplayInv, LedgerInv
  <2> HIDE DEF e
  <2>3. Whole' = Sessionized(Whole, e)
    BY <2>1, <2>2, ProcessGives
  <2>4. Fed(Whole, e) = Sessionized(Whole, e)
    BY <1>2, <2>1 DEF Fed
  <2>5. QED
    BY <1>1, <2>1, <2>3, <2>4 DEF e
<1>5. CASE AcceptUnprocessed
  <2>1. /\ e \in Events /\ e \in Raising /\ e.id \notin seen
        /\ UNCHANGED sessionVars /\ log' = Append(log, e)
    BY <1>5, IngestionAssumption DEF AcceptUnprocessed, AppendEvent
  <2> HIDE DEF e
  <2>2. Whole' = [Whole EXCEPT !.log = Append(@, e)]
    <3>1. sessions' = sessions /\ active' = active /\ reentryCounts' = reentryCounts
      BY <2>1 DEF sessionVars
    <3>2. Whole' = [log |-> Append(log, e), sessions |-> Unpromoted(sessions),
                    active |-> active, counts |-> reentryCounts]
      BY <2>1, <3>1 DEF Whole, Unpromoted, Joined
    <3>3. [Whole EXCEPT !.log = Append(@, e)]
            = [log |-> Append(log, e), sessions |-> Unpromoted(sessions),
               active |-> active, counts |-> reentryCounts]
      BY DEF Whole
    <3>4. QED
      BY <3>2, <3>3
  <2>3. Fed(Whole, e) = [Whole EXCEPT !.log = Append(@, e)]
    BY <1>2, <2>1 DEF Fed
  <2>4. QED
    BY <1>1, <2>1, <2>2, <2>3 DEF e
<1>6. QED
  BY <1>3, <1>4, <1>5 DEF IngestOne

-----------------------------------------------------------------------------

\* Before anything is fed.
LEMMA HalfwayBegins ==
  ASSUME NEW R, NEW raws \in Seq(R)
  PROVE  Halfway(raws, raws, AtStart)
<1>1. Len(raws) \in Nat /\ Len(raws) - Len(raws) = 0
  OBVIOUS
<1>2. \A i \in 1 .. Len(raws) : raws[i] = raws[0 + i]
  BY <1>1
<1>3. \A tr : Feeding(raws, tr, Len(raws)) => AtStart = tr[0]
  BY DEF Feeding
<1>4. \E tr : Feeding(raws, tr, 0) /\ AtStart = tr[0]
  <2> DEFINE tr == [i \in {0} |-> AtStart]
  <2>1. Feeding(raws, tr, 0) /\ AtStart = tr[0]
    BY DEF Feeding
  <2> HIDE DEF tr
  <2>2. QED
    BY <2>1
<1>5. QED
  BY <1>1, <1>2, <1>3, <1>4 DEF Halfway

\* The next raw is fed.
LEMMA HalfwayGoesOn ==
  ASSUME NEW R, NEW raws \in Seq(R), NEW Q, NEW left \in Seq(Q), NEW st,
         Halfway(raws, left, st), left # << >>
  PROVE  Halfway(raws, Tail(left), Fed(st, Head(left)))
<1> DEFINE n == Len(raws)
           k == n - Len(left)
<1>1. /\ n \in Nat /\ Len(left) \in Nat /\ k \in Nat /\ k + 1 <= n
      /\ Tail(left) \in Seq(Q) /\ Len(Tail(left)) = Len(left) - 1
      /\ \A i \in 1 .. Len(left) - 1 : Tail(left)[i] = left[i + 1]
      /\ Head(left) = left[1] /\ 1 <= Len(left)
  BY DEF Halfway
<1>2. /\ n - Len(Tail(left)) = k + 1
      /\ Head(left) = raws[k + 1]
  BY <1>1 DEF Halfway
<1>3. \A i \in 1 .. Len(Tail(left)) : Tail(left)[i] = raws[k + 1 + i]
  <2> SUFFICES ASSUME NEW i \in 1 .. Len(Tail(left))
               PROVE  Tail(left)[i] = raws[k + 1 + i]
    OBVIOUS
  <2>1. i + 1 \in 1 .. Len(left) /\ k + (i + 1) = k + 1 + i
    BY <1>1
  <2>2. left[i + 1] = raws[k + (i + 1)]
    BY <2>1 DEF Halfway
  <2>3. QED
    BY <1>1, <2>1, <2>2
<1>4. ASSUME NEW tr, Feeding(raws, tr, n)
      PROVE  Fed(st, Head(left)) = tr[k + 1]
  <2>1. st = tr[k]
    BY <1>4 DEF Halfway
  <2>2. k + 1 \in 1 .. n /\ k + 1 - 1 = k
    BY <1>1
  <2>3. tr[k + 1] = Fed(tr[k], raws[k + 1])
    BY <1>4, <2>2 DEF Feeding
  <2>4. QED
    BY <1>2, <2>1, <2>3
<1>5. \E tr : Feeding(raws, tr, k + 1) /\ Fed(st, Head(left)) = tr[k + 1]
  <2>1. PICK old : Feeding(raws, old, k) /\ st = old[k]
    BY DEF Halfway
  <2> DEFINE tr == [i \in 0 .. k + 1 |-> IF i = k + 1 THEN Fed(st, Head(left)) ELSE old[i]]
  <2>2. /\ tr[k + 1] = Fed(st, Head(left))
        /\ \A i \in 0 .. k : tr[i] = old[i]
    BY <1>1
  <2> HIDE DEF tr, n
  <2>3. tr[0] = AtStart
    BY <1>1, <2>1, <2>2 DEF Feeding
  <2>4. ASSUME NEW i \in 1 .. k + 1
        PROVE  tr[i] = Fed(tr[i - 1], raws[i])
    <3>1. CASE i = k + 1
      <4>1. k \in 0 .. k /\ i - 1 = k
        BY <1>1, <3>1
      <4>2. tr[i - 1] = st
        BY <2>1, <2>2, <4>1
      <4>3. QED
        BY <1>2, <2>2, <3>1, <4>2
    <3>2. CASE i # k + 1
      <4>1. i \in 1 .. k /\ i \in 0 .. k /\ i - 1 \in 0 .. k
        BY <1>1, <3>2
      <4>2. QED
        BY <2>1, <2>2, <4>1 DEF Feeding
    <3>3. QED
      BY <3>1, <3>2
  <2>5. Feeding(raws, tr, k + 1)
    BY <2>3, <2>4 DEF Feeding
  <2>6. QED
    BY <2>2, <2>5
<1> HIDE DEF n, k
<1>6. k + 1 \in Nat
  BY <1>1
<1>7. QED
  BY <1>2, <1>3, <1>4, <1>5, <1>6 DEF Halfway, n

\* When nothing is left, every feeding of the raws ends here, and one does.
LEMMA HalfwayEnds ==
  ASSUME NEW R, NEW raws \in Seq(R), NEW st, Halfway(raws, << >>, st)
  PROVE  /\ \A tr : Feeding(raws, tr, Len(raws)) => st = tr[Len(raws)]
         /\ \E tr : Feeding(raws, tr, Len(raws)) /\ st = tr[Len(raws)]
<1>1. Len(raws) \in Nat /\ Len(<< >>) = 0 /\ Len(raws) - Len(<< >>) = Len(raws)
  OBVIOUS
<1>2. QED
  BY <1>1 DEF Halfway

-----------------------------------------------------------------------------

\* The stores w are what feeding the log lg leads to.
Explains(lg, w) == \E tr : Feeding(lg, tr, Len(lg)) /\ w = tr[Len(lg)]

\* What the replay of a source feeds, the log having been lg before it.
FedFrom(src, lg) ==
  IF src.kind = "file" THEN Sorted(File, Loaded(src.store))
                       ELSE Sorted(lg, {i \in DOMAIN lg : lg[i].store = src.store})

\* What is known of the stores before a replay.
Remembered(bf) ==
  /\ bf.log \in Seq(Events)
  /\ \E w : Explains(bf.log, w) /\ w.log = bf.log /\ w.sessions = Unpromoted(bf.sessions)

\* A replay of src, that began from bf, has `left` still to feed, the stores being w.
UnderWay(src, bf, left, w) ==
  /\ src.kind \in {"file", "store"}
  /\ src.store \in Stores
  /\ Remembered(bf)
  /\ Halfway(FedFrom(src, bf.log), left, w)

\* What the correlation makes of fresh sessions, and so a replay of its raws.
Converts(ss, i, tx) ==
  LET s == ss[i]
      unreadable == {u \in Stores : Unparsed \in tx[u]}
  IN  /\ s.store \notin unreadable
      /\ \A j \in DOMAIN ss : ss[j].store \in unreadable =>
            \E k \in 1..(j - 1) : ss[k].store = s.store
      /\ ~s.staff
      /\ LastBilling(s) # NoTime
      /\ \E t \in tx[s.store] : InWindow(LastBilling(s), t)

Correlated(ss, tx) ==
  [i \in DOMAIN ss |-> IF Converts(ss, i, tx) THEN [ss[i] EXCEPT !.candidate = TRUE] ELSE ss[i]]

Outcome(raws, tx, res) ==
  \E w : Explains(raws, w) /\ res = [sessions |-> Correlated(w.sessions, tx), log |-> w.log]

\* The stores are a function of the log, a replay is on its way through its raws, and
\* the results kept are what these come to.
RunInv ==
  /\ Explains(log, Whole)
  /\ source.kind # "none" => UnderWay(source, before, batch, Whole)
  /\ replaying => busy /\ source.kind # "none" /\ converted = {}
  /\ ~busy => batch = << >>
  /\ result = [s \in Stores |-> result[s]]
  /\ \A s \in Stores : result[s] # NoResult =>
       Outcome(Sorted(File, Loaded(s)), transactions, result[s])

AllInv == ReplayInv /\ RequestTyped /\ RunInv

LEMMA ExplainsNothing ==
  Explains(<< >>, AtStart)
<1> DEFINE tr == [i \in {0} |-> AtStart]
<1>1. Feeding(<< >>, tr, 0) /\ AtStart = tr[0] /\ Len(<< >>) = 0
  BY DEF Feeding
<1> HIDE DEF tr
<1>2. QED
  BY <1>1 DEF Explains

LEMMA ExplainsMore ==
  ASSUME NEW lg \in Seq(Events), NEW w, Explains(lg, w), NEW e \in Events
  PROVE  Explains(Append(lg, e), Fed(w, e))
<1> DEFINE n == Len(lg)
<1>1. PICK lf : lf = Append(lg, e)
  OBVIOUS
<1>2. /\ n \in Nat /\ Len(lf) = n + 1 /\ lf[n + 1] = e
      /\ \A i \in 1 .. n : lf[i] = lg[i]
  BY <1>1
<1>3. PICK old : Feeding(lg, old, n) /\ w = old[n]
  BY DEF Explains
<1> DEFINE tr == [i \in 0 .. n + 1 |-> IF i = n + 1 THEN Fed(w, e) ELSE old[i]]
<1>4. /\ tr[n + 1] = Fed(w, e)
      /\ \A i \in 0 .. n : tr[i] = old[i]
  BY <1>2
<1> HIDE DEF tr, n
<1>5. tr[0] = AtStart
  BY <1>2, <1>3, <1>4 DEF Feeding
<1>6. ASSUME NEW i \in 1 .. n + 1
      PROVE  tr[i] = Fed(tr[i - 1], lf[i])
  <2>1. CASE i = n + 1
    <3>1. n \in 0 .. n /\ i - 1 = n
      BY <1>2, <2>1
    <3>2. tr[i - 1] = w
      BY <1>3, <1>4, <3>1
    <3>3. QED
      BY <1>2, <1>4, <2>1, <3>2
  <2>2. CASE i # n + 1
    <3>1. i \in 1 .. n /\ i \in 0 .. n /\ i - 1 \in 0 .. n
      BY <1>2, <2>2
    <3>2. QED
      BY <1>2, <1>3, <1>4, <3>1 DEF Feeding
  <2>3. QED
    BY <2>1, <2>2
<1>7. Feeding(lf, tr, n + 1)
  BY <1>5, <1>6 DEF Feeding
<1>8. Explains(lf, Fed(w, e))
  BY <1>2, <1>4, <1>7 DEF Explains
<1>9. QED
  BY <1>1, <1>8

\* What a replay feeds is a list of raws.
LEMMA FedFromType ==
  ASSUME NEW src, NEW lg \in Seq(Events)
  PROVE  FedFrom(src, lg) \in Seq(RawEvent \cup Naive)
<1>1. Loaded(src.store) \in SUBSET DOMAIN File
  BY DEF Loaded
<1>2. Sorted(File, Loaded(src.store)) \in Seq(RawEvent \cup Naive)
  BY <1>1, ReplayAssumption, SortedType
<1>3. {i \in DOMAIN lg : lg[i].store = src.store} \in SUBSET DOMAIN lg
  OBVIOUS
<1>4. Sorted(lg, {i \in DOMAIN lg : lg[i].store = src.store}) \in Seq(Events)
  BY <1>3, SortedType
<1>5. Events \subseteq RawEvent \cup Naive
  BY DEF RawEvent
<1>6. Sorted(lg, {i \in DOMAIN lg : lg[i].store = src.store}) \in Seq(RawEvent \cup Naive)
  BY <1>4, <1>5, SeqMonotonic
<1>7. QED
  BY <1>2, <1>6 DEF FedFrom

\* The correlation promotes sessions; the rest of the stores is not touched.
LEMMA FinishSameWhole ==
  ASSUME SessionInv, FinishRequest
  PROVE  Whole' = Whole
<1>1. /\ log' = log /\ active' = active /\ reentryCounts' = reentryCounts
      /\ sessions' = [i \in Index |-> IF i \in ToConvert
                                      THEN [sessions[i] EXCEPT !.candidate = TRUE]
                                      ELSE sessions[i]]
  BY DEF FinishRequest, EndBatch, Correlate, storeVars
<1>2. PICK ss : ss = sessions'
  OBVIOUS
<1>3. DOMAIN ss = DOMAIN sessions
  BY <1>1, <1>2 DEF Index
<1>4. ASSUME NEW i \in DOMAIN sessions
      PROVE  [ss[i] EXCEPT !.candidate = Joined(ss[i])]
               = [sessions[i] EXCEPT !.candidate = Joined(sessions[i])]
  <2>1. sessions[i] \in VisitorSession
    BY DEF SessionInv, SessionTypeOK
  <2>2. ss[i] = sessions[i] \/ ss[i] = [sessions[i] EXCEPT !.candidate = TRUE]
    BY <1>1, <1>2 DEF Index
  <2>3. PICK s \in VisitorSession : s = sessions[i]
    BY <2>1
  <2>4. Joined([s EXCEPT !.candidate = TRUE]) = Joined(s)
    BY DEF Joined, VisitorSession
  <2>5. [[s EXCEPT !.candidate = TRUE] EXCEPT !.candidate = Joined(s)]
          = [s EXCEPT !.candidate = Joined(s)]
    OBVIOUS
  <2>6. QED
    BY <2>2, <2>3, <2>4, <2>5
<1>5. Unpromoted(ss) = Unpromoted(sessions)
  BY <1>3, <1>4 DEF Unpromoted
<1>6. Whole' = [log |-> log', sessions |-> Unpromoted(ss), active |-> active',
                counts |-> reentryCounts']
  BY <1>2 DEF Whole, Unpromoted, Joined
<1>7. QED
  BY <1>1, <1>5, <1>6 DEF Whole

\* After a reset.
LEMMA ResetWhole ==
  ASSUME ResetAllState
  PROVE  log' = << >> /\ Whole' = AtStart /\ converted' = {} /\ transactions' = transactions
<1>1. PICK ss : ss = sessions'
  OBVIOUS
<1>2. ss = << >>
  BY <1>1 DEF ResetAllState
<1>3. Unpromoted(ss) = << >>
  BY <1>2 DEF Unpromoted
<1>4. Whole' = [log |-> log', sessions |-> Unpromoted(ss), active |-> active',
                counts |-> reentryCounts']
  BY <1>1 DEF Whole, Unpromoted, Joined
<1>5. QED
  BY <1>3, <1>4 DEF ResetAllState, AtStart

\* The stores before a replay are explained by their log.
LEMMA RemembersNow ==
  ASSUME log \in Seq(Events), Explains(log, Whole)
  PROVE  Remembered([sessions |-> sessions, log |-> log])
<1>1. PICK w : w = Whole
  OBVIOUS
<1>2. w.log = log /\ w.sessions = Unpromoted(sessions)
  BY <1>1 DEF Whole
<1>3. Explains(log, w)
  BY <1>1
<1>4. QED
  BY <1>2, <1>3 DEF Remembered

\* A replay of the file or of the event store begins.
LEMMA BeginsUnderWay ==
  ASSUME log \in Seq(Events), Explains(log, Whole), NEW s \in Stores
  PROVE  /\ UnderWay(FromFile(s), [sessions |-> sessions, log |-> log],
                     Sorted(File, Loaded(s)), AtStart)
         /\ UnderWay(FromStore(s), [sessions |-> sessions, log |-> log],
                     Sorted(log, Stored(s)), AtStart)
<1> DEFINE bf == [sessions |-> sessions, log |-> log]
<1>1. Remembered(bf)
  BY RemembersNow
<1>2. bf.log = log
  OBVIOUS
<1>3. /\ FromFile(s).kind = "file" /\ FromFile(s).store = s
      /\ FromStore(s).kind = "store" /\ FromStore(s).store = s
  BY DEF FromFile, FromStore
<1> HIDE DEF bf
<1>4. FedFrom(FromFile(s), bf.log) = Sorted(File, Loaded(s))
  BY <1>3 DEF FedFrom
<1>5. FedFrom(FromStore(s), bf.log) = Sorted(log, Stored(s))
  BY <1>2, <1>3 DEF FedFrom, Stored
<1>6. /\ Sorted(File, Loaded(s)) \in Seq(RawEvent \cup Naive)
      /\ Sorted(log, Stored(s)) \in Seq(RawEvent \cup Naive)
  BY ReplayBatchType
<1>7. /\ Halfway(Sorted(File, Loaded(s)), Sorted(File, Loaded(s)), AtStart)
      /\ Halfway(Sorted(log, Stored(s)), Sorted(log, Stored(s)), AtStart)
  BY <1>6, HalfwayBegins
<1>8. QED
  BY <1>1, <1>3, <1>4, <1>5, <1>7 DEF UnderWay, bf

\* At the end of a replay the sessions are fresh, so that the correlation makes of
\* them what it makes of them after any other replay of the same raws.
LEMMA FinishCorrelates ==
  ASSUME ReplayInv, converted = {}, FinishRequest
  PROVE  sessions' = Correlated(Whole.sessions, transactions)
<1>1. sessions \in Seq(VisitorSession) /\ \A i \in Index : sessions[i] \in VisitorSession
  BY DEF ReplayInv, LedgerInv, SessionInv, SessionTypeOK, Index
<1>2. \A i \in Index : sessions[i].candidate <=> Joined(sessions[i])
  BY DEF ReplayInv, ConversionInv, ApiInv, CandidateJustified
<1>3. ASSUME NEW i \in Index
      PROVE  [sessions[i] EXCEPT !.candidate = Joined(sessions[i])] = sessions[i]
  <2>1. PICK s \in VisitorSession : s = sessions[i]
    BY <1>1
  <2>2. s.candidate \in BOOLEAN /\ Joined(s) \in BOOLEAN
    BY DEF VisitorSession, Joined
  <2>3. s.candidate = Joined(s)
    BY <1>2, <2>1, <2>2
  <2>4. [s EXCEPT !.candidate = s.candidate] = s
    BY DEF VisitorSession
  <2>5. QED
    BY <2>1, <2>3, <2>4
<1>4. Unpromoted(sessions) = [i \in Index |-> sessions[i]]
  BY <1>3 DEF Unpromoted, Index
<1>5. Unpromoted(sessions) = sessions
  BY <1>1, <1>4 DEF Index
<1>6. Whole.sessions = sessions
  BY <1>5 DEF Whole
<1>7. \A i \in Index : i \in ToConvert <=> Converts(sessions, i, transactions)
  BY DEF ToConvert, Due, Reached, Unreadable, Converts, Index
<1>8. sessions' = [i \in Index |-> IF i \in ToConvert
                                   THEN [sessions[i] EXCEPT !.candidate = TRUE]
                                   ELSE sessions[i]]
  BY DEF FinishRequest, Correlate
<1>9. Correlated(sessions, transactions)
        = [i \in Index |-> IF Converts(sessions, i, transactions)
                           THEN [sessions[i] EXCEPT !.candidate = TRUE] ELSE sessions[i]]
  BY DEF Correlated, Index
<1>10. QED
  BY <1>6, <1>7, <1>8, <1>9

\* What has been replayed of a file when its replay ends.
LEMMA FinishedReplay ==
  ASSUME AllInv, FinishReplay, source.kind = "file"
  PROVE  /\ source.store \in Stores
         /\ \E w : /\ Explains(Sorted(File, Loaded(source.store)), w)
                   /\ \A x : Explains(Sorted(File, Loaded(source.store)), x) => x = w
                   /\ result'[source.store] = [sessions |-> Correlated(w.sessions, transactions),
                                               log |-> w.log]
         /\ \A s \in Stores : s # source.store => result'[s] = result[s]
<1> DEFINE raws == Sorted(File, Loaded(source.store))
<1>1. /\ UnderWay(source, before, batch, Whole) /\ converted = {} /\ batch = << >>
      /\ FinishRequest /\ ReplayInv /\ log \in Seq(Events)
      /\ result = [s \in Stores |-> result[s]]
  BY DEF AllInv, RunInv, FinishReplay, FinishRequest, EndBatch, ReplayInv
<1>2. source.store \in Stores
  BY <1>1 DEF UnderWay
<1>3. raws \in Seq(RawEvent \cup Naive)
  BY <1>1, ReplayBatchType
<1>4. Halfway(raws, << >>, Whole)
  BY <1>1 DEF UnderWay, FedFrom
<1> HIDE DEF raws
<1>5. PICK w : w = Whole
  OBVIOUS
<1>6. /\ \A tr : Feeding(raws, tr, Len(raws)) => w = tr[Len(raws)]
      /\ \E tr : Feeding(raws, tr, Len(raws)) /\ w = tr[Len(raws)]
  BY <1>3, <1>4, <1>5, HalfwayEnds
<1>7. Explains(raws, w) /\ \A x : Explains(raws, x) => x = w
  BY <1>6 DEF Explains
<1>8. sessions' = Correlated(w.sessions, transactions)
  BY <1>1, <1>5, FinishCorrelates
<1>9. w.log = log
  BY <1>5 DEF Whole
<1>10. result' = [result EXCEPT ![source.store] = [sessions |-> sessions', log |-> log]]
  BY DEF FinishReplay
<1>11. result'[source.store] = [sessions |-> Correlated(w.sessions, transactions), log |-> w.log]
  BY <1>1, <1>2, <1>8, <1>9, <1>10
<1>12. \A s \in Stores : s # source.store => result'[s] = result[s]
  BY <1>1, <1>10
<1>13. QED
  BY <1>2, <1>7, <1>11, <1>12 DEF raws

LEMMA RunStep ==
  ASSUME Skewed = {}, AllInv, [ReplayNext]_allVars
  PROVE  RunInv'
<1>1. /\ ReplayInv /\ RequestTyped /\ RunInv /\ SessionInv /\ log \in Seq(Events)
      /\ batch \in Seq(RawEvent \cup Naive)
  BY DEF AllInv, ReplayInv, LedgerInv, RequestTyped
<1>2. ASSUME log' = log, Whole' = Whole, batch' = batch, busy' = busy, replaying' = replaying,
             source' = source, before' = before, result' = result,
             transactions' = transactions, converted' = converted
      PROVE  RunInv'
  BY <1>1, <1>2 DEF RunInv
<1>3. CASE LiveStart
  <2>1. /\ log' = log /\ Whole' = Whole /\ source'.kind = "none" /\ busy' /\ ~replaying'
        /\ result' = result /\ transactions' = transactions
    <3>1. log' = log /\ UNCHANGED sessionVars
      BY <1>3 DEF LiveStart, StartRequest, storeVars
    <3>2. ~busy /\ busy' = TRUE /\ replaying' = replaying /\ source' = NoSource
          /\ result' = result /\ transactions' = transactions
      BY <1>3 DEF LiveStart, StartRequest, correlationVars
    <3>3. QED
      BY <1>1, <3>1, <3>2, SameWhole DEF RunInv, NoSource
  <2>2. QED
    BY <1>1, <2>1 DEF RunInv
<1>4. CASE IngestOne
  <2>1. /\ batch # << >> /\ batch' = Tail(batch)
        /\ Whole' = Fed(Whole, Head(batch))
        /\ \/ log' = log /\ Whole' = Whole
           \/ log' = Append(log, Head(batch)) /\ Head(batch) \in Events
    BY <1>1, <1>4, IngestFeeds
  <2>2. /\ replaying' = replaying /\ source' = source /\ before' = before /\ result' = result
        /\ transactions' = transactions /\ converted' = converted /\ busy' = busy
    BY <1>4 DEF IngestOne, correlationVars, replayVars, RejectEvent, RejectNaive,
                SkipDuplicate, AcceptEvent, AcceptUnprocessed, NextRaw
  <2>3. PICK w : w = Whole
    OBVIOUS
  <2>4. PICK h : h = Head(batch)
    OBVIOUS
  <2>5. PICK t : t = Tail(batch)
    OBVIOUS
  <2>6. Explains(log', Whole')
    <3>1. Explains(log, w)
      BY <1>1, <2>3 DEF RunInv
    <3>2. CASE log' = log /\ Whole' = Whole
      BY <3>1, <3>2, <2>3
    <3>3. CASE log' = Append(log, h) /\ h \in Events
      BY <1>1, <2>1, <2>3, <2>4, <3>1, <3>3, ExplainsMore
    <3>4. QED
      BY <2>1, <2>4, <3>2, <3>3
  <2>7. ASSUME source.kind # "none"
        PROVE  UnderWay(source, before, t, Fed(w, h))
    <3>1. UnderWay(source, before, batch, w)
      BY <1>1, <2>3, <2>7 DEF RunInv
    <3>2. before.log \in Seq(Events)
      BY <3>1 DEF UnderWay, Remembered
    <3>3. PICK raws : raws = FedFrom(source, before.log)
      OBVIOUS
    <3>4. raws \in Seq(RawEvent \cup Naive)
      BY <3>2, <3>3, FedFromType
    <3>5. Halfway(raws, batch, w)
      BY <3>1, <3>3 DEF UnderWay
    <3>6. Halfway(raws, t, Fed(w, h))
      BY <1>1, <2>1, <2>4, <2>5, <3>4, <3>5, HalfwayGoesOn
    <3>7. QED
      BY <3>1, <3>3, <3>6 DEF UnderWay
  <2>8. busy
    BY <1>1, <2>1 DEF RunInv
  <2>9. batch' = t /\ Whole' = Fed(w, h)
    BY <2>1, <2>3, <2>4, <2>5
  <2>10. QED
    BY <1>1, <2>2, <2>6, <2>7, <2>8, <2>9 DEF RunInv
<1>5. CASE LiveFinish
  <2>1. /\ FinishRequest /\ ~replaying /\ busy' = FALSE /\ batch = << >> /\ batch' = batch
        /\ replaying' = replaying /\ source' = source /\ before' = before /\ result' = result
        /\ transactions' = transactions /\ log' = log
    BY <1>5 DEF LiveFinish, FinishRequest, EndBatch, Correlate, replayVars, storeVars
  <2>2. Whole' = Whole
    BY <1>1, <2>1, FinishSameWhole
  <2>3. QED
    BY <1>1, <2>1, <2>2 DEF RunInv
<1>6. CASE FinishReplay
  <2>1. /\ FinishRequest /\ replaying /\ busy' = FALSE /\ batch = << >> /\ batch' = batch
        /\ replaying' = FALSE /\ source' = source /\ before' = before
        /\ transactions' = transactions /\ log' = log
    BY <1>6 DEF FinishReplay, FinishRequest, EndBatch, Correlate, storeVars
  <2>2. Whole' = Whole
    BY <1>1, <2>1, FinishSameWhole
  <2>3. result' = [s \in Stores |-> result'[s]]
    BY <1>1, <1>6 DEF RunInv, FinishReplay
  <2>4. ASSUME NEW s \in Stores, result'[s] # NoResult
        PROVE  Outcome(Sorted(File, Loaded(s)), transactions, result'[s])
    <3>1. CASE source.kind = "file" /\ s = source.store
      BY <1>6, <3>1, FinishedReplay DEF Outcome
    <3>2. CASE ~(source.kind = "file" /\ s = source.store)
      <4>1. result'[s] = result[s]
        BY <1>6, <3>2, FinishedReplay DEF FinishReplay
      <4>2. QED
        BY <1>1, <2>4, <4>1 DEF RunInv
    <3>3. QED
      BY <3>1, <3>2
  <2>5. QED
    BY <1>1, <2>1, <2>2, <2>3, <2>4 DEF RunInv
<1>7. CASE \E s \in Stores : ReplayFile(s) \/ ReplayStore(s)
  <2>1. PICK s \in Stores : ReplayFile(s) \/ ReplayStore(s)
    BY <1>7
  <2>2. /\ ResetAllState /\ ~busy /\ ~replaying /\ result' = result
    BY <2>1 DEF ReplayFile, ReplayStore, StartReplay, FailReplay
  <2>3. log' = << >> /\ Whole' = AtStart /\ converted' = {} /\ transactions' = transactions
    BY <2>2, ResetWhole
  <2>4. Explains(log', Whole')
    BY <2>3, ExplainsNothing
  <2>5. CASE FailReplay(File, Loaded(s))
    <3>1. source'.kind = "none" /\ replaying' = replaying /\ busy' = busy /\ batch' = batch
      BY <2>5 DEF FailReplay, NoSource, ingestVars
    <3>2. QED
      BY <1>1, <2>2, <2>3, <2>4, <3>1 DEF RunInv
  <2>6. CASE \/ StartReplay(FromFile(s), File, Loaded(s))
             \/ StartReplay(FromStore(s), log, Stored(s))
    <3> DEFINE bf == [sessions |-> sessions, log |-> log]
    <3>1. /\ busy' = TRUE /\ replaying' = TRUE /\ before' = bf
          /\ \/ source' = FromFile(s) /\ batch' = Sorted(File, Loaded(s))
             \/ source' = FromStore(s) /\ batch' = Sorted(log, Stored(s))
      BY <2>6 DEF StartReplay
    <3>2. /\ UnderWay(FromFile(s), bf, Sorted(File, Loaded(s)), AtStart)
          /\ UnderWay(FromStore(s), bf, Sorted(log, Stored(s)), AtStart)
      BY <1>1, BeginsUnderWay DEF RunInv
    <3> HIDE DEF bf
    <3>3. UnderWay(source', before', batch', Whole')
      BY <2>3, <3>1, <3>2
    <3>4. source'.kind # "none"
      BY <3>1 DEF FromFile, FromStore
    <3>5. QED
      BY <1>1, <2>2, <2>3, <2>4, <3>1, <3>3, <3>4 DEF RunInv
  <2>7. QED
    BY <2>1, <2>5, <2>6 DEF ReplayFile, ReplayStore
<1>8. CASE Crash
  <2>1. /\ ResetAllState /\ busy' = FALSE /\ batch' = << >> /\ replaying' = FALSE
        /\ source'.kind = "none" /\ result' = result
    BY <1>8 DEF Crash, NoSource
  <2>2. log' = << >> /\ Whole' = AtStart /\ converted' = {} /\ transactions' = transactions
    BY <2>1, ResetWhole
  <2>3. Explains(log', Whole')
    BY <2>2, ExplainsNothing
  <2>4. QED
    BY <1>1, <2>1, <2>2, <2>3 DEF RunInv
<1>9. CASE UNCHANGED allVars
  <2>1. /\ log' = log /\ UNCHANGED sessionVars /\ batch' = batch /\ busy' = busy
        /\ replaying' = replaying /\ source' = source /\ before' = before /\ result' = result
        /\ transactions' = transactions /\ converted' = converted
    BY <1>9 DEF allVars, apiVars, vars, storeVars, ingestVars, correlationVars, replayVars
  <2>2. QED
    BY <1>2, <2>1, SameWhole
<1>10. QED
  BY <1>3, <1>4, <1>5, <1>6, <1>7, <1>8, <1>9 DEF ReplayNext

-----------------------------------------------------------------------------

\* Sorting events that are in the order of their timestamps changes nothing: the
\* sort is stable.
LEMMA SortedAlready ==
  ASSUME NEW lg \in Seq(Events),
         \A i, j \in DOMAIN lg : i < j => lg[i].time <= lg[j].time
  PROVE  Sorted(lg, DOMAIN lg) = lg
<1> DEFINE n == Len(lg)
           K == 1 .. n
<1>1. n \in Nat /\ DOMAIN lg = K /\ \A i \in K : lg[i] \in Events
  OBVIOUS
<1>2. \A i \in K : SortKey(lg[i]) = lg[i].time /\ lg[i].time \in Nat
  BY <1>1, EventsTyped, EventFields DEF SortKey
<1>3. \A i, j \in K : Precedes(lg, i, j) <=> i <= j
  <2> SUFFICES ASSUME NEW i \in K, NEW j \in K
               PROVE  Precedes(lg, i, j) <=> i <= j
    OBVIOUS
  <2>1. i \in Nat /\ j \in Nat /\ (i < j \/ i = j \/ j < i)
    BY <1>1
  <2>2. (i < j => lg[i].time <= lg[j].time) /\ (j < i => lg[j].time <= lg[i].time)
    BY <1>1
  <2>3. lg[i].time \in Nat /\ lg[j].time \in Nat
        /\ SortKey(lg[i]) = lg[i].time /\ SortKey(lg[j]) = lg[j].time
    BY <1>2
  <2>4. QED
    BY <2>1, <2>2, <2>3 DEF Precedes
<1>4. IsFiniteSet(K) /\ Cardinality(K) = n /\ K \in SUBSET Nat
  <2>1. 1 \in Int /\ n \in Int
    BY <1>1
  <2>2. IsFiniteSet(1 .. n) /\ Cardinality(1 .. n) = IF 1 > n THEN 0 ELSE n - 1 + 1
    BY <2>1, FS_Interval
  <2>3. QED
    BY <1>1, <2>2
<1>5. ASSUME NEW i \in K
      PROVE  Rank(lg, K, i) = i
  <2>1. {j \in K : Precedes(lg, j, i)} = 1 .. i
    BY <1>1, <1>3
  <2>2. i \in Nat /\ i >= 1
    BY <1>1
  <2>3. 1 \in Int /\ i \in Int
    BY <2>2
  <2>4. Cardinality(1 .. i) = IF 1 > i THEN 0 ELSE i - 1 + 1
    BY <2>3, FS_Interval
  <2>5. Cardinality(1 .. i) = i
    BY <2>2, <2>4
  <2>6. QED
    BY <2>1, <2>5 DEF Rank
<1> HIDE DEF K, n
<1>6. \A k \in K : Ranked(lg, K, k) = k
  <2>1. \A i \in K : Ranked(lg, K, Rank(lg, K, i)) = i
    BY <1>4, RanksAreTaken
  <2>2. QED
    BY <1>5, <2>1
<1>7. Sorted(lg, K) = [k \in 1 .. n |-> lg[Ranked(lg, K, k)]]
  BY <1>4 DEF Sorted
<1>8. Sorted(lg, K) = [k \in 1 .. n |-> lg[k]]
  BY <1>6, <1>7 DEF K
<1>9. lg = [k \in 1 .. n |-> lg[k]]
  BY <1>1 DEF K
<1>10. QED
  BY <1>1, <1>8, <1>9

\* The stores are a function of what they were fed: the log explains them at any
\* time, a replay is on its way through its raws, and what a replay of a file left is
\* what the file comes to. No event lies in the future: one that does is rejected or
\* accepted depending on when it is sent (models.py 135).
THEOREM StoresExplained ==
  ASSUME Skewed = {}
  PROVE  ReplaySpec => []AllInv
<1>1. ReplayInit => AllInv
  <2> SUFFICES ASSUME ReplayInit
               PROVE  AllInv
    OBVIOUS
  <2>1. Emptied /\ busy = FALSE /\ batch = << >>
    BY DEF Emptied, ReplayInit, ApiInit, Init, SessionInit, IngestInit, CorrelationInit
  <2>2. ReplayInv
    BY <2>1, EmptyStores
  <2>3. RequestTyped
    BY EmptySeq DEF ReplayInit, ApiInit, Init, IngestInit, CorrelationInit, RequestTyped
  <2>4. Unpromoted(<< >>) = << >>
    BY DEF Unpromoted
  <2>5. Whole = AtStart /\ log = << >>
    BY <2>1, <2>4 DEF Emptied, Whole, AtStart
  <2>6. RunInv
    BY <2>1, <2>5, ExplainsNothing DEF RunInv, ReplayInit, NoSource
  <2>7. QED
    BY <2>2, <2>3, <2>6 DEF AllInv
<1>2. AllInv /\ [ReplayNext]_allVars => AllInv'
  BY ReplayStep, RequestTypedStep, RunStep DEF AllInv
<1>3. QED
  BY <1>1, <1>2, PTL DEF ReplaySpec

\* A replay of the event store, whose events came in the order of their timestamps,
\* rebuilds the sessions and the log that the live system had built (replay.py 15-18).
THEOREM ReplayDoesRebuild ==
  ASSUME Skewed = {}
  PROVE  ReplaySpec => []ReplayRebuildsSessions
<1>1. AllInv => ReplayRebuildsSessions
  <2> SUFFICES ASSUME AllInv, ReplayedStore, Chronological
               PROVE  /\ log = before.log
                      /\ Unpromoted(sessions) = Unpromoted(before.sessions)
    BY DEF ReplayRebuildsSessions
  <2>1. /\ source.kind = "store" /\ batch = << >> /\ UnderWay(source, before, batch, Whole)
        /\ \A i \in DOMAIN before.log : before.log[i].store = source.store
    BY DEF AllInv, RunInv, ReplayedStore, Idle
  <2>2. PICK lg : lg = before.log
    OBVIOUS
  <2>3. lg \in Seq(Events)
    BY <2>1, <2>2 DEF UnderWay, Remembered
  <2>4. {i \in DOMAIN lg : lg[i].store = source.store} = DOMAIN lg
    BY <2>1, <2>2
  <2>5. \A i, j \in DOMAIN lg : i < j => lg[i].time <= lg[j].time
    BY <2>2 DEF Chronological
  <2>6. Sorted(lg, DOMAIN lg) = lg
    BY <2>3, <2>5, SortedAlready
  <2>7. FedFrom(source, lg) = lg
    BY <2>1, <2>4, <2>6 DEF FedFrom
  <2>8. Halfway(lg, << >>, Whole)
    BY <2>1, <2>2, <2>7 DEF UnderWay
  <2>9. \A tr : Feeding(lg, tr, Len(lg)) => Whole = tr[Len(lg)]
    BY <2>3, <2>8, HalfwayEnds
  <2>10. PICK w : Explains(lg, w) /\ w.log = lg /\ w.sessions = Unpromoted(before.sessions)
    BY <2>1, <2>2 DEF UnderWay, Remembered
  <2>11. Whole = w
    BY <2>9, <2>10 DEF Explains
  <2>12. Whole.log = log /\ Whole.sessions = Unpromoted(sessions)
    BY DEF Whole
  <2>13. QED
    BY <2>2, <2>10, <2>11, <2>12
<1>2. QED
  BY <1>1, StoresExplained, PTL

\* A replay of the file of a store leaves the log and the sessions that every replay
\* of it before has left, whatever came in between: requests, other replays, replays
\* that failed, crashes (replay.py 13).
THEOREM ReplaysAreReproducible ==
  ASSUME Skewed = {}
  PROVE  ReplaySpec => ReplayReproducible
<1>1. ASSUME AllInv, [ReplayNext]_allVars
      PROVE  [\A s \in Stores : result[s] # NoResult => result'[s] = result[s]]_allVars
  <2>1. CASE FinishReplay /\ source.kind = "file"
    <3>1. PICK w : /\ Explains(Sorted(File, Loaded(source.store)), w)
                   /\ \A x : Explains(Sorted(File, Loaded(source.store)), x) => x = w
                   /\ result'[source.store] = [sessions |-> Correlated(w.sessions, transactions),
                                               log |-> w.log]
      BY <1>1, <2>1, FinishedReplay
    <3>2. ASSUME NEW s \in Stores, result[s] # NoResult
          PROVE  result'[s] = result[s]
      <4>1. CASE s = source.store
        <5>1. PICK x : /\ Explains(Sorted(File, Loaded(s)), x)
                       /\ result[s] = [sessions |-> Correlated(x.sessions, transactions),
                                       log |-> x.log]
          BY <1>1, <3>2 DEF AllInv, RunInv, Outcome
        <5>2. x = w
          BY <3>1, <4>1, <5>1
        <5>3. QED
          BY <3>1, <4>1, <5>1, <5>2
      <4>2. CASE s # source.store
        BY <1>1, <2>1, <4>2, FinishedReplay
      <4>3. QED
        BY <4>1, <4>2
    <3>3. QED
      BY <3>2
  <2>2. CASE ~(FinishReplay /\ source.kind = "file")
    <3>1. result' = result
      BY <1>1, <2>2
         DEF ReplayNext, LiveStart, IngestOne, LiveFinish, ReplayFile, ReplayStore, StartReplay,
             FailReplay, FinishReplay, Crash, replayVars, allVars
    <3>2. QED
      BY <3>1
  <2>3. QED
    BY <2>1, <2>2
<1>2. QED
  BY <1>1, StoresExplained, PTL DEF ReplaySpec, ReplayReproducible

-----------------------------------------------------------------------------
(***************************************************************************)
(* What watches the ingestion.  The calibration first: the profiles keep   *)
(* their types, and a threshold is one of the observations.                *)
(***************************************************************************)

Profile ==
  [conf : [Cameras -> Seq(Int)], reid : Seq(Int), queue : Seq(Int), zone : Seq(Int),
   trust : [Cameras -> Lowest.trust .. Highest.trust],
   reidThreshold : Lowest.reid .. Highest.reid,
   queueThreshold : Lowest.queue .. Highest.queue,
   dwellThreshold : Lowest.dwell .. Highest.dwell, events : Nat, runs : Nat]

ProfileOK(f) == f \in Profile /\ \A c \in Cameras : Len(f.conf[c]) <= Window.conf

\* The windows and the numbers of observations needed are positive.
LEMMA SettingsTyped ==
  /\ Window.conf \in Nat \ {0} /\ Window.reid \in Nat \ {0}
  /\ Window.queue \in Nat \ {0} /\ Window.zone \in Nat \ {0}
  /\ Needed.conf \in Nat \ {0} /\ Needed.reid \in Nat \ {0}
  /\ Needed.queue \in Nat \ {0} /\ Needed.zone \in Nat \ {0}
<1> DEFINE R == [{"conf", "reid", "queue", "zone"} -> Nat \ {0}]
<1>1. Window \in R /\ Needed \in R
  BY WatchAssumption
<1>2. QED
  BY <1>1

\* A window of observations never outgrows its size.
LEMMA ObservedType ==
  ASSUME NEW obs \in Seq(Int), NEW x \in Int, NEW n \in Nat \ {0}, Len(obs) <= n
  PROVE  Observed(obs, x, n) \in Seq(Int) /\ Len(Observed(obs, x, n)) <= n
<1>1. CASE Len(obs) >= n
  <2>1. obs # << >> /\ Tail(obs) \in Seq(Int) /\ Len(Tail(obs)) = Len(obs) - 1
    BY <1>1
  <2>2. Observed(obs, x, n) = Append(Tail(obs), x)
    BY <1>1 DEF Observed
  <2>3. Append(Tail(obs), x) \in Seq(Int) /\ Len(Append(Tail(obs), x)) = Len(Tail(obs)) + 1
    BY <2>1, AppendProperties
  <2>4. QED
    BY <2>1, <2>2, <2>3
<1>2. CASE ~(Len(obs) >= n)
  BY <1>2 DEF Observed
<1>3. QED
  BY <1>1, <1>2

\* The same of a window whose size nothing says of.
LEMMA ObservedSeq ==
  ASSUME NEW obs \in Seq(Int), NEW x \in Int, NEW n \in Nat \ {0}
  PROVE  Observed(obs, x, n) \in Seq(Int)
<1>1. CASE Len(obs) >= n
  <2>1. obs # << >> /\ Tail(obs) \in Seq(Int)
    BY <1>1
  <2>2. QED
    BY <1>1, <2>1, AppendProperties DEF Observed
<1>2. CASE ~(Len(obs) >= n)
  BY <1>2 DEF Observed
<1>3. QED
  BY <1>1, <1>2

IsPercentile(obs, p, x) ==
  LET below == {i \in DOMAIN obs : obs[i] < x}
  IN  /\ x \in Int
      /\ IsFiniteSet(below)
      /\ 100 * Cardinality(below) <= p * Len(obs)

\* The p-th percentile of the observations is above a p-th part of them at most.
LEMMA PercentileType ==
  ASSUME NEW obs \in Seq(Int), Len(obs) >= 1, NEW p \in 1 .. 100
  PROVE  IsPercentile(obs, p, Percentile(obs, p))
<1> DEFINE n == Len(obs)
           index == (p * n) \div 100 - 1
           k == 1 + (IF index > 0 THEN index ELSE 0)
           below == {i \in DOMAIN obs : obs[i] < Percentile(obs, p)}
<1>1. n \in Nat /\ n >= 1 /\ DOMAIN obs = 1 .. n
  OBVIOUS
<1>2. p * n \in Nat /\ p * n <= 100 * n /\ 0 <= p * n
  BY <1>1, Z3
<1>3. /\ (p * n) \div 100 \in Int
      /\ 100 * ((p * n) \div 100) <= p * n
      /\ (p * n) \div 100 <= n
  <2> DEFINE m == p * n
  <2> HIDE DEF m
  <2>1. m \in Nat /\ m <= 100 * n
    BY <1>2 DEF m
  <2>2. (m \div 100) \in Int /\ 100 * (m \div 100) <= m /\ m \div 100 <= n
    BY <1>1, <2>1
  <2>3. QED
    BY <2>2 DEF m
<1>4. k \in 1 .. n /\ 100 * (k - 1) <= p * n
  <2> DEFINE d == (p * n) \div 100
             m == p * n
  <2>1. d \in Int /\ m \in Nat /\ 100 * d <= m /\ d <= n /\ k = 1 + (IF d - 1 > 0 THEN d - 1 ELSE 0)
    BY <1>2, <1>3
  <2> HIDE DEF d, m, k
  <2>2. k \in 1 .. n /\ 100 * (k - 1) <= m
    BY <1>1, <2>1
  <2>3. QED
    BY <2>2 DEF m
<1>5. Percentile(obs, p) = Smallest(obs, k)
  BY DEF Percentile
<1> HIDE DEF k
<1>6. Smallest(obs, k) \in Int /\ Cardinality({i \in DOMAIN obs : obs[i] < Smallest(obs, k)}) < k
  BY <1>4, SmallestExists
<1>7. below \in SUBSET (1 .. n)
  BY <1>1
<1>8. below = {i \in DOMAIN obs : obs[i] < Smallest(obs, k)}
  BY <1>5
<1> HIDE DEF below
<1>9. IsFiniteSet(below) /\ Cardinality(below) \in Nat
  BY <1>1, <1>7, StretchSize, FS_Subset, FS_CardinalityType
<1>10. Cardinality(below) <= k - 1
  BY <1>4, <1>6, <1>8, <1>9
<1>11. 100 * Cardinality(below) <= p * n
  <2> DEFINE m == p * n
             c == Cardinality(below)
  <2>1. m \in Nat /\ c \in Nat /\ c <= k - 1 /\ 100 * (k - 1) <= m /\ k \in Nat
    BY <1>2, <1>4, <1>9, <1>10
  <2> HIDE DEF m, c
  <2>2. 100 * c <= m
    BY <2>1
  <2>3. QED
    BY <2>2 DEF m, c
<1>12. QED
  BY <1>5, <1>6, <1>9, <1>11 DEF below, IsPercentile

\* The thresholds begin in their ranges.
LEMMA RangesTyped ==
  \A kind \in {"reid", "queue", "dwell", "trust"} :
    /\ Lowest[kind] \in Int
    /\ Highest[kind] \in Int
    /\ Lowest[kind] <= Highest[kind]
    /\ Default[kind] \in Lowest[kind] .. Highest[kind]
  BY DEF Lowest, Highest, Default

\* A threshold stays in its range.
LEMMA CalibratedType ==
  ASSUME NEW kind \in {"reid", "queue", "dwell", "trust"},
         NEW old \in Lowest[kind] .. Highest[kind],
         NEW obs \in Seq(Int), NEW needed \in Nat \ {0}, NEW p \in 1 .. 100
  PROVE  Calibrated(old, obs, needed, p, kind) \in Lowest[kind] .. Highest[kind]
<1>1. CASE Len(obs) >= needed
  <2> DEFINE x == Percentile(obs, p)
  <2>1. Len(obs) >= 1
    BY <1>1
  <2>2. IsPercentile(obs, p, x)
    BY <2>1, PercentileType
  <2> HIDE DEF x
  <2>3. x \in Int
    BY <2>2 DEF IsPercentile
  <2>4. Clamp(x, Lowest[kind], Highest[kind]) \in Lowest[kind] .. Highest[kind]
    <3>1. /\ Lowest[kind] \in Int /\ Highest[kind] \in Int
          /\ Lowest[kind] <= Highest[kind]
      BY RangesTyped
    <3>2. QED
      BY <2>3, <3>1 DEF Clamp
  <2>5. QED
    BY <1>1, <2>4 DEF Calibrated, x
<1>2. CASE ~(Len(obs) >= needed)
  BY <1>2 DEF Calibrated
<1>3. QED
  BY <1>1, <1>2

\* A calibration keeps the observations and the ranges.
LEMMA RecalibratedType ==
  ASSUME NEW f, ProfileOK(f)
  PROVE  /\ ProfileOK(Recalibrated(f))
         /\ Recalibrated(f).conf = f.conf
         /\ Recalibrated(f).trust =
              [c \in Cameras |-> Calibrated(f.trust[c], f.conf[c], Needed.conf, 25, "trust")]
<1> DEFINE r == Calibrated(f.reidThreshold, f.reid, Needed.reid, 10, "reid")
           q == Calibrated(f.queueThreshold, f.queue, Needed.queue, 10, "queue")
           d == Calibrated(f.dwellThreshold, f.zone, Needed.zone, 5, "dwell")
           t == [c \in Cameras |-> Calibrated(f.trust[c], f.conf[c], Needed.conf, 25, "trust")]
<1>1. f \in Profile
  BY DEF ProfileOK
<1>2. /\ f.reidThreshold \in Lowest["reid"] .. Highest["reid"]
      /\ f.queueThreshold \in Lowest["queue"] .. Highest["queue"]
      /\ f.dwellThreshold \in Lowest["dwell"] .. Highest["dwell"]
      /\ f.runs \in Nat
      /\ f.reid \in Seq(Int) /\ f.queue \in Seq(Int) /\ f.zone \in Seq(Int)
      /\ f.trust \in [Cameras -> Lowest["trust"] .. Highest["trust"]]
      /\ f.conf \in [Cameras -> Seq(Int)]
  BY <1>1 DEF Profile
<1>3. 5 \in 1 .. 100 /\ 10 \in 1 .. 100 /\ 25 \in 1 .. 100
  OBVIOUS
<1>4. r \in Lowest["reid"] .. Highest["reid"]
  BY <1>2, <1>3, SettingsTyped, CalibratedType
<1>5. q \in Lowest["queue"] .. Highest["queue"]
  BY <1>2, <1>3, SettingsTyped, CalibratedType
<1>6. d \in Lowest["dwell"] .. Highest["dwell"]
  BY <1>2, <1>3, SettingsTyped, CalibratedType
<1>7. t \in [Cameras -> Lowest["trust"] .. Highest["trust"]]
  <2>1. ASSUME NEW c \in Cameras
        PROVE  Calibrated(f.trust[c], f.conf[c], Needed.conf, 25, "trust")
                 \in Lowest["trust"] .. Highest["trust"]
    <3>1. f.trust[c] \in Lowest["trust"] .. Highest["trust"] /\ f.conf[c] \in Seq(Int)
      BY <1>2
    <3>2. QED
      BY <1>3, <3>1, SettingsTyped, CalibratedType
  <2>2. QED
    BY <2>1
<1>8. Recalibrated(f) = [f EXCEPT !.reidThreshold = r, !.queueThreshold = q,
                                  !.dwellThreshold = d, !.trust = t, !.runs = f.runs + 1]
  BY DEF Recalibrated
<1> HIDE DEF r, q, d, t
<1>9. /\ Recalibrated(f) \in Profile
      /\ Recalibrated(f).conf = f.conf
      /\ Recalibrated(f).trust = t
  <2>1. f.runs + 1 \in Nat
    BY <1>2
  <2>2. QED
    BY <1>1, <1>4, <1>5, <1>6, <1>7, <1>8, <2>1 DEF Profile
<1>10. QED
  BY <1>9 DEF ProfileOK, t

\* What a move of a trust from that of f to that of g says of the confidences.
TrustMoves(f, g, c) ==
  g.trust[c] # f.trust[c] /\ g.trust[c] > Lowest.trust =>
    LET below == {i \in DOMAIN g.conf[c] : g.conf[c][i] < g.trust[c]}
    IN  4 * Cardinality(below) <= Len(g.conf[c])

\* A calibration that moves a trust leaves a quarter below it at most.
LEMMA RecalibratedTrust ==
  ASSUME NEW f, ProfileOK(f), NEW c \in Cameras
  PROVE  TrustMoves(f, Recalibrated(f), c)
<1> DEFINE obs == f.conf[c]
           x == Percentile(obs, 25)
           t == Recalibrated(f).trust[c]
           B == {i \in DOMAIN obs : obs[i] < t}
           D == {i \in DOMAIN obs : obs[i] < x}
<1>1. obs \in Seq(Int) /\ f.trust[c] \in Lowest["trust"] .. Highest["trust"]
  BY DEF ProfileOK, Profile
<1>2. /\ t = Calibrated(f.trust[c], obs, Needed.conf, 25, "trust")
      /\ Recalibrated(f).conf[c] = obs
  <2> DEFINE F == Recalibrated(f)
             T(b) == Calibrated(f.trust[b], f.conf[b], Needed.conf, 25, "trust")
  <2>1. F.conf = f.conf /\ F.trust = [b \in Cameras |-> T(b)]
    BY RecalibratedType
  <2> HIDE DEF F, T
  <2>2. F.trust[c] = T(c) /\ F.conf[c] = f.conf[c]
    BY <2>1
  <2>3. QED
    BY <2>2 DEF F, T
<1>3. Lowest["trust"] \in Int /\ Highest["trust"] \in Int /\ Lowest["trust"] <= Highest["trust"]
  BY RangesTyped
<1> SUFFICES ASSUME t # f.trust[c], t > Lowest["trust"]
             PROVE  4 * Cardinality(B) <= Len(obs)
  BY <1>2 DEF TrustMoves
<1> HIDE DEF t
<1>4. Len(obs) >= Needed.conf /\ t = Clamp(x, Lowest["trust"], Highest["trust"])
  BY <1>2 DEF Calibrated
<1>5. Len(obs) >= 1
  BY <1>1, <1>4, SettingsTyped
<1>6. IsPercentile(obs, 25, x)
  <2>1. 25 \in 1 .. 100
    OBVIOUS
  <2>2. QED
    BY <1>1, <1>5, <2>1, PercentileType
<1> HIDE DEF x, obs
<1>7. x \in Int /\ IsFiniteSet(D) /\ 100 * Cardinality(D) <= 25 * Len(obs)
  BY <1>6 DEF IsPercentile
<1>8. t \in Int /\ t <= x
  BY <1>3, <1>4, <1>7 DEF Clamp
<1>9. B \in SUBSET D
  <2>1. \A i \in DOMAIN obs : obs[i] \in Int
    BY <1>1
  <2>2. QED
    BY <1>7, <1>8, <2>1
<1> HIDE DEF B, D
<1>10. /\ Cardinality(B) <= Cardinality(D)
       /\ Cardinality(B) \in Nat /\ Cardinality(D) \in Nat
  BY <1>7, <1>9, FS_Subset, FS_CardinalityType
<1>11. Len(obs) \in Nat
  BY <1>1
<1>12. QED
  BY <1>7, <1>10, <1>11

\* What the handler of an event reports keeps the profile well formed, and moves
\* a trust by a calibration only.
LEMMA WithEventType ==
  ASSUME NEW f, ProfileOK(f), NEW e \in Events
  PROVE  /\ ProfileOK(WithEvent(f, e))
         /\ \A c \in Cameras : TrustMoves(f, WithEvent(f, e), c)
<1> DEFINE d == Detail[e.id]
<1>1. /\ d.camera \in Cameras /\ d.conf \in Int
      /\ d.reid # NoValue => d.reid \in Int
  BY WatchAssumption DEF EventDetails
<1>2. e.dwell \in Int /\ e.type \in EventType
  BY EventsTyped DEF Event
<1>3. f \in Profile /\ \A c \in Cameras : Len(f.conf[c]) <= Window.conf
  BY DEF ProfileOK
<1>4. /\ f.conf \in [Cameras -> Seq(Int)] /\ f.events \in Nat
      /\ f.reid \in Seq(Int) /\ f.queue \in Seq(Int) /\ f.zone \in Seq(Int)
  BY <1>3 DEF Profile
<1>5. ASSUME NEW g \in Profile, g.conf = f.conf, g.trust = f.trust, g = WithEvent(f, e)
      PROVE  /\ ProfileOK(WithEvent(f, e))
             /\ \A c \in Cameras : TrustMoves(f, WithEvent(f, e), c)
  BY <1>3, <1>5 DEF ProfileOK, TrustMoves
<1>6. CASE e.type \in {"ENTRY", "EXIT"}
  <2> DEFINE obs == Observed(f.conf[d.camera], d.conf, Window.conf)
             g == [f EXCEPT !.conf[d.camera] = obs, !.events = f.events + 1]
  <2>1. f.conf[d.camera] \in Seq(Int) /\ Len(f.conf[d.camera]) <= Window.conf
    BY <1>1, <1>3, <1>4
  <2>2. obs \in Seq(Int) /\ Len(obs) <= Window.conf
    BY <1>1, <2>1, SettingsTyped, ObservedType
  <2>3. WithEvent(f, e) = IF g.events % CalibrateEvery = 0 THEN Recalibrated(g) ELSE g
    BY <1>6 DEF WithEvent, WithCameraEvent
  <2> HIDE DEF obs
  <2>4. ProfileOK(g) /\ g.trust = f.trust
    <3>1. [f.conf EXCEPT ![d.camera] = obs] \in [Cameras -> Seq(Int)]
      BY <1>4, <2>2
    <3>2. g = [f EXCEPT !.conf = [f.conf EXCEPT ![d.camera] = obs], !.events = f.events + 1]
      BY <1>3 DEF Profile
    <3>3. f.events + 1 \in Nat
      BY <1>4
    <3> DEFINE h == [f.conf EXCEPT ![d.camera] = obs]
    <3>4. \A c \in Cameras : Len(h[c]) <= Window.conf
      BY <1>3, <1>4, <2>2
    <3> HIDE DEF h, d
    <3>5. g \in Profile /\ g.conf = h /\ g.trust = f.trust
      BY <1>3, <3>1, <3>2, <3>3 DEF Profile, h
    <3>6. QED
      BY <3>4, <3>5 DEF ProfileOK
  <2> HIDE DEF g
  <2>5. CASE g.events % CalibrateEvery = 0
    <3>1. \A c \in Cameras : TrustMoves(g, Recalibrated(g), c)
      BY <2>4, RecalibratedTrust
    <3>2. \A c \in Cameras : TrustMoves(f, Recalibrated(g), c)
      BY <2>4, <3>1 DEF TrustMoves
    <3>3. QED
      BY <2>3, <2>4, <2>5, <3>2, RecalibratedType
  <2>6. CASE ~(g.events % CalibrateEvery = 0)
    <3>1. WithEvent(f, e) = g
      BY <2>3, <2>6
    <3>2. QED
      BY <2>4, <3>1 DEF TrustMoves
  <2>7. QED
    BY <2>5, <2>6
<1>7. CASE e.type = "REENTRY"
  <2>1. CASE d.reid = NoValue
    <3>1. WithEvent(f, e) = f
      BY <1>7, <2>1 DEF WithEvent
    <3>2. QED
      BY <1>3, <1>5, <3>1
  <2>2. CASE d.reid # NoValue
    <3> DEFINE obs == Observed(f.reid, d.reid, Window.reid)
               g == [f EXCEPT !.reid = obs]
    <3>1. obs \in Seq(Int)
      BY <1>1, <1>4, <2>2, SettingsTyped, ObservedSeq
    <3>2. WithEvent(f, e) = g
      BY <1>7, <2>2 DEF WithEvent
    <3> HIDE DEF obs
    <3>3. g \in Profile /\ g.conf = f.conf /\ g.trust = f.trust
      BY <1>3, <3>1 DEF Profile
    <3> HIDE DEF g
    <3>4. QED
      BY <1>5, <3>2, <3>3
  <2>3. QED
    BY <2>1, <2>2
<1>8. CASE e.type \in {"BILLING_QUEUE_JOIN", "BILLING_QUEUE_ABANDON"}
  <2>1. CASE e.dwell = 0
    <3>1. WithEvent(f, e) = f
      BY <1>8, <2>1 DEF WithEvent
    <3>2. QED
      BY <1>3, <1>5, <3>1
  <2>2. CASE e.dwell # 0
    <3> DEFINE obs == Observed(f.queue, e.dwell, Window.queue)
               g == [f EXCEPT !.queue = obs]
    <3>1. obs \in Seq(Int)
      BY <1>2, <1>4, <2>2, SettingsTyped, ObservedSeq
    <3>2. WithEvent(f, e) = g
      BY <1>8, <2>2 DEF WithEvent
    <3> HIDE DEF obs
    <3>3. g \in Profile /\ g.conf = f.conf /\ g.trust = f.trust
      BY <1>3, <3>1 DEF Profile
    <3> HIDE DEF g
    <3>4. QED
      BY <1>5, <3>2, <3>3
  <2>3. QED
    BY <2>1, <2>2
<1>9. CASE e.type \in {"ZONE_ENTER", "ZONE_EXIT", "ZONE_DWELL"}
  <2>1. CASE e.zone = NoZone \/ e.dwell = 0
    <3>1. WithEvent(f, e) = f
      BY <1>9, <2>1 DEF WithEvent
    <3>2. QED
      BY <1>3, <1>5, <3>1
  <2>2. CASE ~(e.zone = NoZone \/ e.dwell = 0)
    <3> DEFINE obs == Observed(f.zone, e.dwell, Window.zone)
               g == [f EXCEPT !.zone = obs]
    <3>1. obs \in Seq(Int)
      BY <1>2, <1>4, <2>2, SettingsTyped, ObservedSeq
    <3>2. WithEvent(f, e) = g
      BY <1>9, <2>2 DEF WithEvent
    <3> HIDE DEF obs
    <3>3. g \in Profile /\ g.conf = f.conf /\ g.trust = f.trust
      BY <1>3, <3>1 DEF Profile
    <3> HIDE DEF g
    <3>4. QED
      BY <1>5, <3>2, <3>3
  <2>3. QED
    BY <2>1, <2>2
<1>10. QED
  BY <1>2, <1>6, <1>7, <1>8, <1>9 DEF EventType

-----------------------------------------------------------------------------
(***************************************************************************)
(* The verifier's warnings and the session that the handler of an event    *)
(* works on.                                                               *)
(***************************************************************************)

Codes == {"QUEUE_DEPTH_NEGATIVE", "CONFIDENCE_CLIFF", "IMPOSSIBLE_CAMERA_TRANSITION",
          "ENTRY_WITHOUT_DOORWAY", "REENTRY_TOO_FAST", "STAFF_COUNT_EXPLOSION"}

\* The warnings that are about an event.
EventWarning ==
  [code : Codes, store : Stores, time : Time, visitors : SUBSET Visitors]

\* A check leaves at most one warning.
LEMMA WhenType ==
  ASSUME NEW p, NEW S, NEW w \in S
  PROVE  When(p, w) \in Seq(S)
  BY DEF When

\* The checks of an event raise warnings about it, whatever the tables say.
LEMMA WarningsTyped ==
  ASSUME NEW e \in Events, NEW sight, NEW exit, NEW bucket
  PROVE  WarningsOf(e, sight, exit, bucket) \in Seq(EventWarning)
<1>1. e.visitor \in Visitors /\ e.store \in Stores /\ e.time \in Time
  BY EventsTyped, EventFields DEF Time
<1>2. \A code \in Codes : Warning(code, e) \in EventWarning
  BY <1>1 DEF Warning, EventWarning
<1>3. /\ "QUEUE_DEPTH_NEGATIVE" \in Codes /\ "CONFIDENCE_CLIFF" \in Codes
      /\ "IMPOSSIBLE_CAMERA_TRANSITION" \in Codes /\ "ENTRY_WITHOUT_DOORWAY" \in Codes
      /\ "REENTRY_TOO_FAST" \in Codes /\ "STAFF_COUNT_EXPLOSION" \in Codes
  BY DEF Codes
<1>4. [Warning("STAFF_COUNT_EXPLOSION", e) EXCEPT !.visitors = {}] \in EventWarning
  BY <1>2, <1>3 DEF EventWarning
<1> DEFINE W == EventWarning
           a == When(NegativeDepth(e), Warning("QUEUE_DEPTH_NEGATIVE", e))
           b == When(ConfidenceDropped(sight, e), Warning("CONFIDENCE_CLIFF", e))
           c == When(CameraJumped(sight, e), Warning("IMPOSSIBLE_CAMERA_TRANSITION", e))
           d == When(EntryElsewhere(e), Warning("ENTRY_WITHOUT_DOORWAY", e))
           f == When(ReentryTooFast(exit, e), Warning("REENTRY_TOO_FAST", e))
           g == When(StaffExploded(bucket),
                     [Warning("STAFF_COUNT_EXPLOSION", e) EXCEPT !.visitors = {}])
<1>5. /\ a \in Seq(W) /\ b \in Seq(W) /\ c \in Seq(W)
      /\ d \in Seq(W) /\ f \in Seq(W) /\ g \in Seq(W)
  BY <1>2, <1>3, <1>4, WhenType
<1>6. WarningsOf(e, sight, exit, bucket) = a \o b \o c \o d \o f \o g
  BY DEF WarningsOf
<1> HIDE DEF a, b, c, d, f, g, W
<1>7. a \o b \o c \o d \o f \o g \in Seq(W)
  <2>1. a \o b \in Seq(W)
    BY <1>5, ConcatProperties
  <2>2. a \o b \o c \in Seq(W)
    BY <1>5, <2>1, ConcatProperties
  <2>3. a \o b \o c \o d \in Seq(W)
    BY <1>5, <2>2, ConcatProperties
  <2>4. a \o b \o c \o d \o f \in Seq(W)
    BY <1>5, <2>3, ConcatProperties
  <2>5. QED
    BY <1>5, <2>4, ConcatProperties
<1>8. QED
  BY <1>6, <1>7 DEF W

\* What is kept of a list of warnings.
LEMMA CappedType ==
  ASSUME NEW S, NEW ws \in Seq(S)
  PROVE  Capped(ws) \in Seq(S) /\ Len(Capped(ws)) <= WarningCap
<1>1. WarningCap \in Nat \ {0} /\ Len(ws) \in Nat
  BY WatchAssumption
<1>2. CASE Len(ws) <= WarningCap
  BY <1>2 DEF Capped
<1>3. CASE ~(Len(ws) <= WarningCap)
  <2>1. /\ Len(ws) - WarningCap + 1 \in 1 .. Len(ws)
        /\ Len(ws) \in 1 .. Len(ws)
        /\ Capped(ws) = SubSeq(ws, Len(ws) - WarningCap + 1, Len(ws))
    BY <1>1, <1>3 DEF Capped
  <2>2. QED
    BY <1>1, <2>1, SubSeqProperties
<1>4. QED
  BY <1>2, <1>3

\* A short list is kept whole.
LEMMA CappedShort ==
  ASSUME NEW ws, Len(ws) <= WarningCap
  PROVE  Capped(ws) = ws
  BY DEF Capped

\* No visitor has two open sessions in a list of sessions.
OneOpenEach(ss) ==
  \A i, j \in DOMAIN ss :
    IsOpen(ss[i]) /\ IsOpen(ss[j]) /\ ss[i].visitor = ss[j].visitor => i = j

\* Then the verifier finds no duplicate to report.
LEMMA NothingDoubled ==
  ASSUME NEW ss, OneOpenEach(ss)
  PROVE  DuplicateSessions(ss) = << >>
<1> DEFINE open(s, v) == {i \in DOMAIN ss :
                            ss[i].visitor = v /\ ss[i].store = s /\ IsOpen(ss[i])}
           D == {p \in Stores \X Visitors : \E i, j \in open(p[1], p[2]) : i # j}
           twice == SetToSeq(D)
<1>1. D = {}
  BY DEF OneOpenEach
<1>2. twice \in [1 .. 0 -> D] /\ Len(twice) = 0 /\ twice \in Seq(D)
  <2>1. IsFiniteSet(D) /\ Cardinality(D) = 0
    BY <1>1, FS_EmptySet
  <2> HIDE DEF D
  <2>2. QED
    BY <2>1, ListOfSet
<1> HIDE DEF twice
<1>3. DOMAIN twice = {}
  BY <1>2
<1>4. DuplicateSessions(ss) =
        [k \in DOMAIN twice |->
           [code |-> "DUPLICATE_ACTIVE_SESSION", store |-> twice[k][1], time |-> NoTime,
            visitors |-> {twice[k][2]}]]
  BY DEF DuplicateSessions, twice
<1>5. QED
  BY <1>3, <1>4

\* What a handler does to the sessions that records name: n is the session it
\* works on.
Names(e, n) ==
  /\ n \in Index'
  /\ sessions'[n].visitor = e.visitor
  /\ n \in Index => IsOpen(sessions[n])
  /\ e.type = "ENTRY" => sessions'[n].start = e.time
  /\ e.type = "EXIT" => sessions'[n].end = e.time
  /\ \A i \in Index : /\ i \in Index'
                      /\ sessions'[i].visitor = sessions[i].visitor
                      /\ sessions'[i].start = sessions[i].start

\* A handler that opens a session.
LEMMA OpeningNames ==
  ASSUME NEW e \in Events, NEW ss \in Seq(VisitorSession), NEW s \in VisitorSession,
         SessionInv,
         Len(ss) = Len(sessions),
         \A i \in Index : ss[i].visitor = sessions[i].visitor /\ ss[i].start = sessions[i].start,
         sessions' = Append(ss, s),
         s.visitor = e.visitor,
         e.type = "ENTRY" => s.start = e.time,
         e.type = "EXIT" => s.end = e.time
  PROVE  Names(e, Len(sessions) + 1)
<1> DEFINE n == Len(sessions) + 1
<1>1. Index = 1 .. Len(sessions) /\ Len(sessions) \in Nat
  BY DEF SessionInv, SessionTypeOK, Index
<1>2. /\ Len(sessions') = n
      /\ sessions'[n] = s
      /\ \A i \in Index : sessions'[i] = ss[i]
      /\ sessions' \in Seq(VisitorSession)
  BY <1>1, AppendProperties
<1>3. Index' = 1 .. n
  BY <1>2 DEF Index
<1>4. n \in Index' /\ n \notin Index /\ \A i \in Index : i \in Index'
  BY <1>1, <1>3
<1> HIDE DEF n
<1>5. Names(e, n)
  BY <1>2, <1>4 DEF Names
<1>6. QED
  BY <1>5 DEF n

\* A handler that changes the open session.
LEMMA ChangingNames ==
  ASSUME NEW e \in Events, NEW s \in VisitorSession, SessionInv,
         active[e.visitor] # None,
         sessions' = [sessions EXCEPT ![active[e.visitor]] = s],
         s.visitor = e.visitor,
         s.start = sessions[active[e.visitor]].start,
         e.type # "ENTRY",
         e.type = "EXIT" => s.end = e.time
  PROVE  Names(e, active[e.visitor])
<1> DEFINE a == active[e.visitor]
<1>1. a \in Index /\ sessions[a].visitor = e.visitor /\ IsOpen(sessions[a])
  <2>1. e.visitor \in Visitors
    BY EventsTyped, EventFields
  <2>2. QED
    BY <2>1 DEF SessionInv, ActiveMatchesOpen, ActiveIsOpen
<1> HIDE DEF a
<1>2. Index' = Index /\ \A i \in Index : sessions'[i] = IF i = a THEN s ELSE sessions[i]
  BY <1>1 DEF Index, a
<1>3. s.start = sessions[a].start
  BY DEF a
<1>4. Names(e, a)
  BY <1>1, <1>2, <1>3 DEF Names
<1>5. QED
  BY <1>4 DEF a

\* A handler that goes on with the visitor's session, found or opened.
LEMMA EnrichNames ==
  ASSUME NEW e \in Events, NEW s \in VisitorSession, SessionInv,
         Enrich(e, s),
         s.visitor = e.visitor,
         s.start = CurrentSession(e).start,
         e.type \notin {"ENTRY", "EXIT"}
  PROVE  Names(e, SessionIndex(e))
<1>1. CASE active[e.visitor] = None
  <2>1. sessions' = Append(sessions, s) /\ sessions \in Seq(VisitorSession)
    BY <1>1 DEF Enrich, PutActive, SessionInv, SessionTypeOK
  <2>2. Names(e, Len(sessions) + 1)
    BY <2>1, OpeningNames
  <2>3. QED
    BY <1>1, <2>2 DEF SessionIndex
<1>2. CASE active[e.visitor] # None
  <2>1. /\ sessions' = [sessions EXCEPT ![active[e.visitor]] = s]
        /\ s.start = sessions[active[e.visitor]].start
    BY <1>2 DEF Enrich, CurrentSession
  <2>2. Names(e, active[e.visitor])
    BY <1>2, <2>1, ChangingNames
  <2>3. QED
    BY <1>2, <2>2 DEF SessionIndex
<1>3. QED
  BY <1>1, <1>2

\* The session of the records is the one that the handler works on, for every
\* handler.
LEMMA HandlerNames ==
  ASSUME NEW e \in Events, SessionInv, ProcessEvent(e)
  PROVE  Names(e, SessionIndex(e))
<1> DEFINE c == CurrentSession(e)
<1>0. /\ c \in VisitorSession /\ c.visitor = e.visitor
      /\ sessions \in Seq(VisitorSession)
      /\ reentryCounts \in [Visitors -> Nat]
      /\ e \in Event /\ e.visitor \in Visitors /\ e.time \in Time
  BY EventsTyped, EventFields, CurrentSessionType
     DEF SessionInv, ActiveMatchesOpen, SessionTypeOK, Time
<1> HIDE DEF c
<1>1. CASE HandleEntry(e)
  <2> DEFINE s == NewSession(e, 0, 1)
  <2>1. s \in VisitorSession /\ s.visitor = e.visitor /\ s.start = e.time
    BY <1>0, NewSessionType DEF NewSession
  <2>2. sessions' = Append(Closed(e), s) /\ e.type = "ENTRY"
    BY <1>1 DEF HandleEntry, PutActive
  <2>3. /\ Closed(e) \in Seq(VisitorSession) /\ Len(Closed(e)) = Len(sessions)
        /\ \A i \in Index : Closed(e)[i].visitor = sessions[i].visitor
    BY <1>0, ClosedSessions
  <2>4. \A i \in Index : Closed(e)[i].start = sessions[i].start
    <3> TAKE i \in Index
    <3>1. sessions[i] \in VisitorSession
      BY <1>0 DEF Index
    <3>2. \/ Closed(e)[i] = sessions[i]
          \/ Closed(e)[i] = [sessions[i] EXCEPT !.end = e.time]
      BY <1>0 DEF Closed, Index
    <3>3. QED
      BY <3>1, <3>2 DEF VisitorSession
  <2> HIDE DEF s
  <2>5. Names(e, Len(sessions) + 1)
    BY <2>1, <2>2, <2>3, <2>4, OpeningNames
  <2>6. QED
    BY <2>2, <2>5 DEF SessionIndex
<1>2. CASE HandleExitOpen(e)
  <2> DEFINE s == [c EXCEPT !.count = @ + 1, !.end = e.time]
  <2>1. /\ e.type = "EXIT" /\ active[e.visitor] # None
        /\ sessions' = [sessions EXCEPT ![active[e.visitor]] = s]
        /\ c = sessions[active[e.visitor]]
    BY <1>2 DEF HandleExitOpen, CurrentSession, c
  <2>2. s \in VisitorSession
    <3>1. [c EXCEPT !.count = @ + 1] \in VisitorSession
      BY <1>0, SessionUpdates, SessionReads
    <3>2. QED
      BY <1>0, <3>1, SessionUpdates
  <2>3. s.visitor = e.visitor /\ s.start = c.start /\ s.end = e.time
    BY <1>0 DEF VisitorSession
  <2> HIDE DEF s
  <2>4. Names(e, active[e.visitor])
    BY <2>1, <2>2, <2>3, ChangingNames
  <2>5. QED
    BY <2>1, <2>4 DEF SessionIndex
<1>3. CASE HandleExitStub(e)
  <2> DEFINE n == NewSession(e, 0, 2)
             s == [n EXCEPT !.end = e.time]
  <2>1. n \in VisitorSession /\ n.visitor = e.visitor
    <3>1. e \in Event
      BY <1>0
    <3>2. n \in VisitorSession
      BY <3>1, NewSessionType
    <3>3. QED
      BY <3>2 DEF NewSession
  <2>2. sessions' = Append(sessions, s) /\ e.type = "EXIT" /\ active[e.visitor] = None
    BY <1>3 DEF HandleExitStub
  <2> HIDE DEF n
  <2>3. s \in VisitorSession /\ s.visitor = e.visitor /\ s.end = e.time
    BY <1>0, <2>1, SessionUpdates DEF VisitorSession
  <2> HIDE DEF s
  <2>4. Names(e, Len(sessions) + 1)
    BY <1>0, <2>2, <2>3, OpeningNames
  <2>5. QED
    BY <2>2, <2>4 DEF SessionIndex
<1>4. CASE HandleReentry(e)
  <2> DEFINE k == reentryCounts[e.visitor] + 1
             s == [c EXCEPT !.reentry = k, !.count = @ + 1]
  <2>1. k \in Nat
    BY <1>0
  <2>2. s \in VisitorSession
    <3>1. [c EXCEPT !.reentry = k] \in VisitorSession
      BY <1>0, <2>1, SessionUpdates
    <3>2. QED
      BY <1>0, <3>1, SessionUpdates, SessionReads
  <2>3. s.visitor = e.visitor /\ s.start = c.start
    BY <1>0 DEF VisitorSession
  <2>4. Enrich(e, s) /\ e.type = "REENTRY"
    BY <1>4 DEF HandleReentry, c
  <2> HIDE DEF s
  <2>5. QED
    BY <2>2, <2>3, <2>4, EnrichNames DEF c
<1>5. CASE HandleZoneless(e)
  <2>1. Enrich(e, c) /\ e.type \notin {"ENTRY", "EXIT"}
    BY <1>5 DEF HandleZoneless, c
  <2>2. QED
    BY <1>0, <2>1, EnrichNames DEF c
<1>6. CASE HandleZoneEnter(e)
  <2> DEFINE s == [c EXCEPT !.zones = @ \cup {e.zone}, !.count = @ + 1]
  <2>1. e.zone \in Zones
    BY <1>0, <1>6, EventFields DEF HandleZoneEnter
  <2>2. s \in VisitorSession
    <3>1. [c EXCEPT !.zones = @ \cup {e.zone}] \in VisitorSession
      BY <1>0, <2>1, SessionUpdates, SessionReads
    <3>2. QED
      BY <1>0, <3>1, SessionUpdates, SessionReads
  <2>3. s.visitor = e.visitor /\ s.start = c.start
    BY <1>0 DEF VisitorSession
  <2>4. Enrich(e, s) /\ e.type \notin {"ENTRY", "EXIT"}
    BY <1>6 DEF HandleZoneEnter, c
  <2> HIDE DEF s
  <2>5. QED
    BY <2>2, <2>3, <2>4, EnrichNames DEF c
<1>7. CASE HandleZoneDwell(e)
  <2> DEFINE s == [c EXCEPT !.dwell[e.zone] = @ + e.dwell, !.count = @ + 1]
  <2>1. e.zone \in Zones /\ e.dwell \in Nat
    BY <1>0, <1>7, EventFields DEF HandleZoneDwell
  <2>2. s \in VisitorSession
    <3>1. [c EXCEPT !.dwell[e.zone] = @ + e.dwell] \in VisitorSession
      BY <1>0, <2>1, SessionUpdates, SessionReads
    <3>2. QED
      BY <1>0, <3>1, SessionUpdates, SessionReads
  <2>3. s.visitor = e.visitor /\ s.start = c.start
    BY <1>0 DEF VisitorSession
  <2>4. Enrich(e, s) /\ e.type \notin {"ENTRY", "EXIT"}
    BY <1>7 DEF HandleZoneDwell, c
  <2> HIDE DEF s
  <2>5. QED
    BY <2>2, <2>3, <2>4, EnrichNames DEF c
<1>8. CASE HandleQueueJoin(e)
  <2> DEFINE z == IF e.zone = NoZone THEN BillingQueue ELSE e.zone
             q == QueueEventOf(e)
             s == [c EXCEPT !.queue = @ \cup {q}, !.candidate = TRUE,
                            !.zones = @ \cup {z}, !.count = @ + 1]
  <2>1. z \in Zones /\ q \in QueueEvent
    BY <1>0, <1>8, EventFields, SessionizerAssumption
       DEF HandleQueueJoin, QueueEventOf, QueueEvent, Time
  <2> HIDE DEF z, q
  <2>2. s \in VisitorSession
    <3>1. [c EXCEPT !.queue = @ \cup {q}] \in VisitorSession
      BY <1>0, <2>1, SessionUpdates, SessionReads
    <3>2. [c EXCEPT !.queue = @ \cup {q}, !.candidate = TRUE] \in VisitorSession
      BY <3>1, SessionUpdates
    <3>3. [c EXCEPT !.queue = @ \cup {q}, !.candidate = TRUE, !.zones = @ \cup {z}]
            \in VisitorSession
      BY <1>0, <2>1, <3>2, SessionUpdates, SessionReads
    <3>4. QED
      BY <1>0, <3>3, SessionUpdates, SessionReads
  <2>3. s.visitor = e.visitor /\ s.start = c.start
    BY <1>0 DEF VisitorSession
  <2>4. Enrich(e, s) /\ e.type \notin {"ENTRY", "EXIT"}
    BY <1>8 DEF HandleQueueJoin, c, z, q
  <2> HIDE DEF s
  <2>5. QED
    BY <2>2, <2>3, <2>4, EnrichNames DEF c
<1>9. CASE HandleQueueAbandon(e)
  <2> DEFINE q == QueueEventOf(e)
             s == [c EXCEPT !.queue = @ \cup {q}, !.count = @ + 1]
  <2>1. q \in QueueEvent
    BY <1>0, <1>9, EventFields DEF HandleQueueAbandon, QueueEventOf, QueueEvent, Time
  <2> HIDE DEF q
  <2>2. s \in VisitorSession
    <3>1. [c EXCEPT !.queue = @ \cup {q}] \in VisitorSession
      BY <1>0, <2>1, SessionUpdates, SessionReads
    <3>2. QED
      BY <1>0, <3>1, SessionUpdates, SessionReads
  <2>3. s.visitor = e.visitor /\ s.start = c.start
    BY <1>0 DEF VisitorSession
  <2>4. Enrich(e, s) /\ e.type \notin {"ENTRY", "EXIT"}
    BY <1>9 DEF HandleQueueAbandon, c, q
  <2> HIDE DEF s
  <2>5. QED
    BY <2>2, <2>3, <2>4, EnrichNames DEF c
<1>10. QED
  BY <1>1, <1>2, <1>3, <1>4, <1>5, <1>6, <1>7, <1>8, <1>9 DEF ProcessEvent

-----------------------------------------------------------------------------
(***************************************************************************)
(* The timelines: what a list of records tells of a list of sessions.      *)
(***************************************************************************)

Record ==
  [category : {"DETECTION", "SESSION", "REENTRY", "EXIT", "ZONE", "QUEUE", "TRACKING"},
   type : EventType \cup Codes, time : Time, session : Nat]

\* Record r of visitor v names one of the sessions ss as it should.
NamesSession(ss, v, r) ==
  /\ r.category # "TRACKING" => r.session \in DOMAIN ss
  /\ r.session # None =>
       /\ r.session \in DOMAIN ss
       /\ ss[r.session].visitor = v
       /\ r.category = "EXIT" => ss[r.session].end = r.time
       /\ r.category = "SESSION" => ss[r.session].start = r.time

\* Every record of the timeline tl does, and a session ends once.
Tells(ss, v, tl) ==
  /\ \A i \in DOMAIN tl : NamesSession(ss, v, tl[i])
  /\ \A i, j \in DOMAIN tl :
       tl[i].category = "EXIT" /\ tl[j].category = "EXIT" /\ tl[i].session = tl[j].session
       => i = j

\* What records that are added to a timeline tl have to say.
Adds(ss, v, tl, more) ==
  /\ \A i \in DOMAIN more : NamesSession(ss, v, more[i])
  /\ \A i, j \in DOMAIN more : more[i].category = "EXIT" /\ more[j].category = "EXIT" => i = j
  /\ \A i \in DOMAIN tl, j \in DOMAIN more :
       tl[i].category = "EXIT" /\ more[j].category = "EXIT" => tl[i].session # more[j].session

\* Records that say what they have to can be added to a timeline.
LEMMA TellsMore ==
  ASSUME NEW ss, NEW v, NEW tl \in Seq(Record), NEW more \in Seq(Record),
         Tells(ss, v, tl), Adds(ss, v, tl, more)
  PROVE  Tells(ss, v, tl \o more)
<1> DEFINE t == tl \o more
           m == Len(tl)
<1>1. /\ m \in Nat /\ DOMAIN tl = 1 .. m /\ DOMAIN more = 1 .. Len(more) /\ Len(more) \in Nat
      /\ DOMAIN t = 1 .. m + Len(more)
      /\ \A i \in 1 .. m : t[i] = tl[i]
      /\ \A j \in 1 .. Len(more) : t[m + j] = more[j]
  OBVIOUS
<1> HIDE DEF t, m
<1>2. \A i \in DOMAIN t :
        \/ i \in DOMAIN tl /\ t[i] = tl[i]
        \/ i - m \in DOMAIN more /\ t[i] = more[i - m]
  <2> TAKE i \in DOMAIN t
  <2>1. CASE i \in 1 .. m
    BY <1>1, <2>1
  <2>2. CASE i \notin 1 .. m
    <3>1. i - m \in 1 .. Len(more) /\ m + (i - m) = i
      BY <1>1, <2>2
    <3>2. t[m + (i - m)] = more[i - m]
      BY <1>1, <3>1
    <3>3. QED
      BY <1>1, <3>1, <3>2
  <2>3. QED
    BY <2>1, <2>2
<1>3. \A i \in DOMAIN t : NamesSession(ss, v, t[i])
  BY <1>2 DEF Tells, Adds
<1>4. ASSUME NEW i \in DOMAIN t, NEW j \in DOMAIN t, t[i].category = "EXIT",
             t[j].category = "EXIT", t[i].session = t[j].session
      PROVE  i = j
  <2>1. CASE i \in DOMAIN tl /\ t[i] = tl[i] /\ j \in DOMAIN tl /\ t[j] = tl[j]
    BY <1>4, <2>1 DEF Tells
  <2>2. CASE i \in DOMAIN tl /\ t[i] = tl[i] /\ j - m \in DOMAIN more /\ t[j] = more[j - m]
    BY <1>4, <2>2 DEF Adds
  <2>3. CASE j \in DOMAIN tl /\ t[j] = tl[j] /\ i - m \in DOMAIN more /\ t[i] = more[i - m]
    BY <1>4, <2>3 DEF Adds
  <2>4. CASE /\ i - m \in DOMAIN more /\ t[i] = more[i - m]
             /\ j - m \in DOMAIN more /\ t[j] = more[j - m]
    <3>1. i - m = j - m
      BY <1>4, <2>4 DEF Adds
    <3>2. i \in Nat /\ j \in Nat
      BY <1>1
    <3>3. QED
      BY <1>1, <3>1, <3>2
  <2>5. QED
    BY <1>2, <2>1, <2>2, <2>3, <2>4
<1>5. QED
  BY <1>3, <1>4 DEF Tells, t

\* A handler leaves what the records say true.
LEMMA TellsAfter ==
  ASSUME NEW e \in Events, NEW n, SessionInv, ProcessEvent(e), Names(e, n),
         NEW v, NEW tl \in Seq(Record), Tells(sessions, v, tl)
  PROVE  Tells(sessions', v, tl)
<1>1. \A i \in Index : ~IsOpen(sessions[i]) => sessions'[i] = sessions[i]
  <2>1. PICK s, p : Placed(e, s, p)
    BY EventsTyped, HandlerPlaces
  <2>2. QED
    BY <2>1, EventsTyped, PlacedFreezesClosed
<1>2. \A i \in DOMAIN tl : tl[i].time \in Time
  <2>1. \A i \in DOMAIN tl : tl[i] \in Record
    OBVIOUS
  <2>2. QED
    BY <2>1 DEF Record
<1>3. ASSUME NEW i \in DOMAIN tl
      PROVE  NamesSession(sessions', v, tl[i])
  <2> DEFINE k == tl[i].session
  <2>1. NamesSession(sessions, v, tl[i])
    BY DEF Tells
  <2>2. k \in DOMAIN sessions => /\ k \in DOMAIN sessions'
                                 /\ sessions'[k].visitor = sessions[k].visitor
                                 /\ sessions'[k].start = sessions[k].start
    BY DEF Names, Index
  <2>3. k \in DOMAIN sessions /\ sessions[k].end = tl[i].time => sessions'[k] = sessions[k]
    BY <1>1, <1>2, SessionizerAssumption DEF IsOpen, Index, Time
  <2>4. QED
    BY <2>1, <2>2, <2>3 DEF NamesSession
<1>4. QED
  BY <1>3 DEF Tells

\* The records of a handler name the session that it works on, that of an EXIT is
\* alone and its session had not ended before.
LEMMA HandlerAdds ==
  ASSUME NEW e \in Events, SessionInv, Names(e, SessionIndex(e)),
         NEW tl \in Seq(Record), Tells(sessions, e.visitor, tl)
  PROVE  /\ HandlerRecords(e) \in Seq(Record)
         /\ Adds(sessions', e.visitor, tl, HandlerRecords(e))
<1> DEFINE n == SessionIndex(e)
           H == HandlerRecords(e)
           R(category) == AuditRecord(category, e.type, e.time, n)
<1>1. e.type \in EventType /\ e.time \in Time /\ e.visitor \in Visitors /\ e.time # NoTime
  BY EventsTyped, EventFields, SessionizerAssumption DEF Event, Time
<1>2. n \in Nat /\ n # None
  <2>1. sessions \in Seq(VisitorSession) /\ active \in [Visitors -> Nat]
    BY DEF SessionInv, SessionTypeOK
  <2>2. Len(sessions) \in Nat
    BY <2>1
  <2>3. QED
    BY <1>1, <2>1, <2>2 DEF SessionIndex, None
<1>3. /\ n \in DOMAIN sessions' /\ sessions'[n].visitor = e.visitor
      /\ n \in DOMAIN sessions => IsOpen(sessions[n])
      /\ e.type = "ENTRY" => sessions'[n].start = e.time
      /\ e.type = "EXIT" => sessions'[n].end = e.time
  BY DEF Names, Index
<1>4. \/ e.type = "ENTRY" /\ H = << R("DETECTION"), R("SESSION") >>
      \/ e.type = "EXIT" /\ H = << R("EXIT") >>
      \/ H = << >>
      \/ \E category \in {"REENTRY", "ZONE", "QUEUE"} : H = << R(category) >>
  <2> DEFINE Of(category) == << R(category) >>
  <2>1. H = CASE e.type = "ENTRY" -> Of("DETECTION") \o Of("SESSION")
              [] e.type = "REENTRY" -> Of("REENTRY")
              [] e.type = "EXIT" -> Of("EXIT")
              [] e.type \in {"ZONE_ENTER", "ZONE_EXIT", "ZONE_DWELL"} ->
                   IF e.zone = NoZone THEN << >> ELSE Of("ZONE")
              [] e.type \in {"BILLING_QUEUE_JOIN", "BILLING_QUEUE_ABANDON"} -> Of("QUEUE")
    BY DEF HandlerRecords
  <2> HIDE DEF H, R
  <2>2. Of("DETECTION") \o Of("SESSION") = << R("DETECTION"), R("SESSION") >>
    BY TwoLines
  <2>3. CASE e.type = "ENTRY"
    BY <2>1, <2>2, <2>3
  <2>4. CASE e.type = "EXIT"
    BY <2>1, <2>4
  <2>5. CASE e.type = "REENTRY"
    BY <2>1, <2>5
  <2>6. CASE e.type \in {"ZONE_ENTER", "ZONE_EXIT", "ZONE_DWELL"}
    BY <2>1, <2>6
  <2>7. CASE e.type \in {"BILLING_QUEUE_JOIN", "BILLING_QUEUE_ABANDON"}
    BY <2>1, <2>7
  <2>8. QED
    BY <1>1, <2>3, <2>4, <2>5, <2>6, <2>7 DEF EventType
<1>5. \A category \in {"DETECTION", "SESSION", "REENTRY", "EXIT", "ZONE", "QUEUE"} :
        /\ R(category) \in Record
        /\ R(category).category = category
        /\ R(category).session = n
        /\ R(category).time = e.time
  BY <1>1, <1>2 DEF AuditRecord, Record
<1> HIDE DEF n, H, R
<1>6. ASSUME NEW category \in {"DETECTION", "SESSION", "REENTRY", "EXIT", "ZONE", "QUEUE"},
             category = "SESSION" => e.type = "ENTRY",
             category = "EXIT" => e.type = "EXIT"
      PROVE  NamesSession(sessions', e.visitor, R(category))
  BY <1>3, <1>5, <1>6 DEF NamesSession
<1>7. H \in Seq(Record)
  <2>1. \A category \in {"DETECTION", "SESSION", "REENTRY", "EXIT", "ZONE", "QUEUE"} :
          R(category) \in Record
    BY <1>5
  <2>2. << R("DETECTION"), R("SESSION") >> \in Seq(Record)
    BY <2>1
  <2>3. \A category \in {"REENTRY", "EXIT", "ZONE", "QUEUE"} : << R(category) >> \in Seq(Record)
    BY <2>1
  <2>4. << >> \in Seq(Record)
    OBVIOUS
  <2>5. CASE H = << R("EXIT") >>
    BY <2>3, <2>5
  <2>6. ASSUME NEW category \in {"REENTRY", "ZONE", "QUEUE"}, H = << R(category) >>
        PROVE  H \in Seq(Record)
    BY <2>3, <2>6
  <2>7. QED
    BY <1>4, <2>2, <2>4, <2>5, <2>6
<1>8. \A i \in DOMAIN H : NamesSession(sessions', e.visitor, H[i])
  <2>1. CASE e.type = "ENTRY" /\ H = << R("DETECTION"), R("SESSION") >>
    BY <1>6, <2>1
  <2>2. CASE e.type = "EXIT" /\ H = << R("EXIT") >>
    BY <1>6, <2>2
  <2>3. CASE H = << >>
    BY <2>3
  <2>4. ASSUME NEW category \in {"REENTRY", "ZONE", "QUEUE"}, H = << R(category) >>
        PROVE  \A i \in DOMAIN H : NamesSession(sessions', e.visitor, H[i])
    BY <1>6, <2>4
  <2>5. QED
    BY <1>4, <2>1, <2>2, <2>3, <2>4
<1>9. \A i \in DOMAIN H : H[i].category = "EXIT" => H[i].session = n /\ i = 1
  BY <1>4, <1>5
<1>10. \A i \in DOMAIN tl : tl[i].category = "EXIT" => tl[i].session # n
  <2> SUFFICES ASSUME NEW i \in DOMAIN tl, tl[i].category = "EXIT", tl[i].session = n
               PROVE  FALSE
    OBVIOUS
  <2>1. NamesSession(sessions, e.visitor, tl[i]) /\ tl[i].time \in Time
    <3>1. tl[i] \in Record
      OBVIOUS
    <3>2. QED
      BY <3>1 DEF Tells, Record
  <2>2. n \in DOMAIN sessions /\ sessions[n].end = tl[i].time
    BY <1>2, <2>1 DEF NamesSession
  <2>3. QED
    BY <1>3, <2>1, <2>2, SessionizerAssumption DEF IsOpen, Time
<1>11. QED
  BY <1>7, <1>8, <1>9, <1>10 DEF Adds, H

\* The records of the warnings name the session that is open after the event.
LEMMA TrackingAdds ==
  ASSUME NEW v \in Visitors, SessionInv', NEW ws \in Seq(EventWarning), NEW tl
  PROVE  /\ TrackingRecords(ws, active'[v]) \in Seq(Record)
         /\ Adds(sessions', v, tl, TrackingRecords(ws, active'[v]))
<1> DEFINE a == active'[v]
           T == TrackingRecords(ws, a)
<1>1. a \in Nat
  BY DEF SessionInv, SessionTypeOK
<1>2. a # None => a \in DOMAIN sessions' /\ sessions'[a].visitor = v
  BY DEF SessionInv, ActiveMatchesOpen, ActiveIsOpen, Index
<1> HIDE DEF a
<1>3. \A i \in DOMAIN ws : ws[i].code \in Codes /\ ws[i].time \in Time
  <2>1. \A i \in DOMAIN ws : ws[i] \in EventWarning
    OBVIOUS
  <2>2. QED
    BY <2>1 DEF EventWarning
<1>4. \A i \in DOMAIN ws : /\ AuditRecord("TRACKING", ws[i].code, ws[i].time, a) \in Record
                           /\ AuditRecord("TRACKING", ws[i].code, ws[i].time, a).category = "TRACKING"
                           /\ AuditRecord("TRACKING", ws[i].code, ws[i].time, a).session = a
  BY <1>1, <1>3 DEF AuditRecord, Record
<1>5. T = [i \in DOMAIN ws |-> AuditRecord("TRACKING", ws[i].code, ws[i].time, a)]
  BY DEF TrackingRecords
<1> HIDE DEF T
<1>6. T \in Seq(Record) /\ \A i \in DOMAIN T : T[i].category = "TRACKING" /\ T[i].session = a
  BY <1>4, <1>5
<1>7. QED
  BY <1>2, <1>6 DEF Adds, NamesSession, T, a

-----------------------------------------------------------------------------
(***************************************************************************)
(* The inductive invariant of the endpoint with the layers that watch it.  *)
(***************************************************************************)

WatchInv ==
  /\ SessionInv
  /\ log \in Seq(Events)
  /\ toReplay \in Seq(Events)
  /\ profiles \in [Stores -> Profile] /\ \A s \in Stores : ProfileOK(profiles[s])
  /\ warnings \in Seq(EventWarning) /\ Len(warnings) <= WarningCap
  /\ timelines \in [Visitors -> Seq(Record)]
  /\ \A v \in Visitors : Tells(sessions, v, timelines[v])

\* The invariant says what the run checks.
LEMMA WatchInvSays ==
  WatchInv => WatchConsistent
<1> SUFFICES ASSUME WatchInv
             PROVE  WatchConsistent
  OBVIOUS
<1>1. WatchTypeOK
  <2>1. ToSet(log) \subseteq Events /\ ToSet(toReplay) \subseteq Events
    BY DEF WatchInv, ToSet
  <2>2. ASSUME NEW s \in Stores
        PROVE  /\ profiles[s].reidThreshold \in Lowest.reid .. Highest.reid
               /\ profiles[s].queueThreshold \in Lowest.queue .. Highest.queue
               /\ profiles[s].dwellThreshold \in Lowest.dwell .. Highest.dwell
               /\ \A c \in Cameras : /\ profiles[s].trust[c] \in Lowest.trust .. Highest.trust
                                     /\ Len(profiles[s].conf[c]) <= Window.conf
    <3>1. ProfileOK(profiles[s])
      BY DEF WatchInv
    <3>2. QED
      BY <3>1 DEF ProfileOK, Profile
  <2>3. QED
    BY <2>1, <2>2 DEF WatchTypeOK, WatchInv, SessionInv
<1>2. NeverDuplicateSession
  <2>1. \A i \in DOMAIN warnings : warnings[i] \in EventWarning
    BY DEF WatchInv
  <2>2. QED
    BY <2>1 DEF NeverDuplicateSession, EventWarning, Codes
<1>3. RecordsNameSessions
  BY DEF WatchInv, Tells, NamesSession, RecordsNameSessions, Index
<1>4. QED
  BY <1>1, <1>2, <1>3 DEF WatchConsistent

\* The profile of a store nobody has calibrated yet.
LEMMA NewProfileType ==
  ProfileOK(NewProfile)
<1>1. /\ Default.reid \in Lowest.reid .. Highest.reid
      /\ Default.queue \in Lowest.queue .. Highest.queue
      /\ Default.dwell \in Lowest.dwell .. Highest.dwell
      /\ Default.trust \in Lowest.trust .. Highest.trust
  BY RangesTyped
<1>2. << >> \in Seq(Int) /\ Len(<< >>) = 0
  OBVIOUS
<1>3. NewProfile \in Profile
  BY <1>1, <1>2 DEF NewProfile, Profile
<1>4. \A c \in Cameras : NewProfile.conf[c] = << >>
  BY DEF NewProfile
<1>5. QED
  BY <1>2, <1>3, <1>4, SettingsTyped DEF ProfileOK

\* What a reset leaves, and the start as well.
LEMMA EmptiedWatch ==
  ASSUME sessions' = << >>, active' = [v \in Visitors |-> None],
         reentryCounts' = [v \in Visitors |-> 0],
         log' = << >>, toReplay' \in Seq(Events), warnings' = << >>,
         timelines' = [v \in Visitors |-> << >>],
         profiles' \in [Stores -> Profile], \A s \in Stores : ProfileOK(profiles'[s])
  PROVE  WatchInv'
<1>1. SessionInv'
  BY EmptySeq DEF SessionInv, SessionTypeOK, ActiveMatchesOpen, ActiveIsOpen,
                  NoOrphanSession, LatestIsActive, Index, None
<1>2. << >> \in Seq(Record) /\ << >> \in Seq(EventWarning) /\ << >> \in Seq(Events)
      /\ Len(<< >>) = 0
  OBVIOUS
<1>3. \A v \in Visitors : timelines'[v] = << >>
  OBVIOUS
<1>4. \A v : Tells(<< >>, v, << >>)
  BY DEF Tells
<1>5. QED
  BY <1>1, <1>2, <1>3, <1>4, WatchAssumption DEF WatchInv

\* The start.
LEMMA WatchInitInv ==
  WatchInit => WatchInv
<1> SUFFICES ASSUME WatchInit
             PROVE  WatchInv
  OBVIOUS
<1>1. SessionInv
  BY SessionInitInv DEF WatchInit, LedgerInv
<1>2. << >> \in Seq(Record) /\ << >> \in Seq(EventWarning) /\ << >> \in Seq(Events)
      /\ Len(<< >>) = 0
  OBVIOUS
<1>3. \A v \in Visitors : timelines[v] = << >> /\ timelines \in [Visitors -> {<< >>}]
  BY DEF WatchInit, AuditInit
<1>4. \A v : Tells(<< >>, v, << >>)
  BY DEF Tells
<1>5. profiles \in [Stores -> Profile] /\ \A s \in Stores : ProfileOK(profiles[s])
  <2>1. NewProfile \in Profile
    BY NewProfileType DEF ProfileOK
  <2>2. QED
    BY <2>1, NewProfileType DEF WatchInit, CalibrationInit
<1>6. timelines \in [Visitors -> Seq(Record)]
  BY <1>2 DEF WatchInit, AuditInit
<1>7. QED
  BY <1>1, <1>2, <1>3, <1>4, <1>5, <1>6, WatchAssumption
     DEF WatchInv, WatchInit, VerifierInit, SessionInit

\* What an event leaves of the warnings: those of the sessions add nothing.
LEMMA IngestWarns ==
  ASSUME NEW e \in Events, WatchInv, SessionInv', Ingest(e)
  PROVE  /\ RaisedBy(e) \in Seq(EventWarning)
         /\ warnings' = Capped(warnings \o RaisedBy(e))
         /\ warnings' \in Seq(EventWarning)
         /\ Len(warnings') <= WarningCap
<1> DEFINE W == EventWarning
           ws == Capped(warnings \o RaisedBy(e))
<1>1. RaisedBy(e) \in Seq(W)
  BY WarningsTyped DEF RaisedBy
<1>2. warnings \o RaisedBy(e) \in Seq(W)
  BY <1>1, ConcatProperties DEF WatchInv
<1>3. ws \in Seq(W) /\ Len(ws) <= WarningCap
  BY <1>2, CappedType
<1>4. DuplicateSessions(sessions') = << >>
  <2>1. PICK ss : ss = sessions'
    OBVIOUS
  <2>2. OneOpenEach(ss)
    BY <2>1 DEF SessionInv, ActiveMatchesOpen, NoOrphanSession, Index, OneOpenEach
  <2>3. QED
    BY <2>1, <2>2, NothingDoubled
<1>5. warnings' = Capped(ws \o << >>)
  BY <1>4 DEF Ingest
<1> HIDE DEF ws, W
<1>6. ws \o << >> = ws
  BY <1>3, ConcatEmptySeq
<1>7. warnings' = ws
  BY <1>3, <1>5, <1>6, CappedShort
<1>8. QED
  BY <1>1, <1>3, <1>7 DEF ws, W

\* An event that is ingested keeps the invariant, and moves a trust only by a
\* calibration.
LEMMA IngestKeepsWatch ==
  ASSUME NEW e \in Events, WatchInv, Ingest(e), toReplay' \in Seq(Events)
  PROVE  /\ WatchInv'
         /\ \A s \in Stores, c \in Cameras : TrustMoves(profiles[s], profiles'[s], c)
<1>1. /\ SessionInv /\ ProcessEvent(e) /\ e.visitor \in Visitors /\ e.store \in Stores
  BY EventsTyped, EventFields DEF WatchInv, Ingest
<1>2. SessionInv'
  <2>1. PICK s, p : Placed(e, s, p)
    BY <1>1, EventsTyped, HandlerPlaces
  <2>2. QED
    BY <1>1, <2>1, EventsTyped, PlacedKeepsSessionInv
<1>3. log' \in Seq(Events)
  BY AppendProperties DEF WatchInv, Ingest, AppendEvent
<1>4. /\ profiles' \in [Stores -> Profile]
      /\ \A s \in Stores : ProfileOK(profiles'[s])
      /\ \A s \in Stores, c \in Cameras : TrustMoves(profiles[s], profiles'[s], c)
  <2> DEFINE g == WithEvent(profiles[e.store], e)
  <2>1. /\ profiles \in [Stores -> Profile] /\ \A s \in Stores : ProfileOK(profiles[s])
        /\ profiles' = [profiles EXCEPT ![e.store] = g]
    BY DEF WatchInv, Ingest
  <2>2. ProfileOK(g) /\ \A c \in Cameras : TrustMoves(profiles[e.store], g, c)
    BY <1>1, <2>1, WithEventType
  <2> HIDE DEF g
  <2>3. g \in Profile
    BY <2>2 DEF ProfileOK
  <2>4. \A s \in Stores : profiles'[s] = IF s = e.store THEN g ELSE profiles[s]
    BY <2>1
  <2>5. \A s \in Stores, c \in Cameras : TrustMoves(profiles[s], profiles[s], c)
    BY DEF TrustMoves
  <2>6. profiles' \in [Stores -> Profile]
    BY <2>1, <2>3
  <2>7. QED
    BY <2>1, <2>2, <2>4, <2>5, <2>6
<1>5. /\ RaisedBy(e) \in Seq(EventWarning)
      /\ warnings' \in Seq(EventWarning)
      /\ Len(warnings') <= WarningCap
  BY <1>2, IngestWarns
<1>6. /\ timelines' \in [Visitors -> Seq(Record)]
      /\ \A v \in Visitors : Tells(sessions', v, timelines'[v])
  <2> DEFINE u == e.visitor
             tl == timelines[u]
             H == HandlerRecords(e)
             T == TrackingRecords(RaisedBy(e), active'[u])
  <2>1. Names(e, SessionIndex(e))
    BY <1>1, HandlerNames
  <2>2. ASSUME NEW v \in Visitors
        PROVE  timelines[v] \in Seq(Record) /\ Tells(sessions', v, timelines[v])
    <3>1. timelines[v] \in Seq(Record) /\ Tells(sessions, v, timelines[v])
      BY DEF WatchInv
    <3>2. QED
      BY <1>1, <2>1, <3>1, TellsAfter
  <2>3. tl \in Seq(Record) /\ Tells(sessions', u, tl) /\ Tells(sessions, u, tl)
    BY <1>1, <2>2 DEF WatchInv
  <2>4. H \in Seq(Record) /\ Adds(sessions', u, tl, H)
    BY <1>1, <2>1, <2>3, HandlerAdds
  <2>5. T \in Seq(Record) /\ Adds(sessions', u, tl \o H, T)
    BY <1>1, <1>2, <1>5, TrackingAdds
  <2>6. timelines' = [timelines EXCEPT ![u] = tl \o H \o T]
    BY DEF Ingest
  <2> HIDE DEF tl, H, T
  <2>7. tl \o H \in Seq(Record) /\ Tells(sessions', u, tl \o H)
    BY <2>3, <2>4, TellsMore, ConcatProperties
  <2>8. (tl \o H) \o T \in Seq(Record) /\ Tells(sessions', u, (tl \o H) \o T)
    BY <2>5, <2>7, TellsMore, ConcatProperties
  <2>9. timelines \in [Visitors -> Seq(Record)]
    BY DEF WatchInv
  <2> HIDE DEF u
  <2>10. /\ timelines' \in [Visitors -> Seq(Record)]
         /\ \A v \in Visitors :
              timelines'[v] = IF v = u THEN (tl \o H) \o T ELSE timelines[v]
    BY <2>6, <2>8, <2>9
  <2>11. QED
    BY <2>2, <2>8, <2>10
<1>7. QED
  BY <1>2, <1>3, <1>4, <1>5, <1>6 DEF WatchInv

\* Every step keeps the invariant, and moves a trust only by a calibration.
LEMMA WatchStep ==
  ASSUME WatchInv, [WatchNext]_watchVars
  PROVE  /\ WatchInv'
         /\ \A s \in Stores, c \in Cameras : TrustMoves(profiles[s], profiles'[s], c)
<1>1. CASE UNCHANGED watchVars
  BY <1>1 DEF watchVars, sessionVars, storeVars, verifierVars, WatchInv, SessionInv,
      SessionTypeOK, ActiveMatchesOpen, ActiveIsOpen, NoOrphanSession, LatestIsActive,
      Index, IsOpen, TrustMoves
<1>2. ASSUME NEW e \in Events, Request(e)
      PROVE  /\ WatchInv'
             /\ \A s \in Stores, c \in Cameras : TrustMoves(profiles[s], profiles'[s], c)
  <2>1. Ingest(e) /\ toReplay' \in Seq(Events)
    BY <1>2 DEF Request, WatchInv
  <2>2. QED
    BY <2>1, IngestKeepsWatch
<1>3. ASSUME NEW s \in Stores, BeginReplay(s)
      PROVE  /\ WatchInv'
             /\ \A t \in Stores, c \in Cameras : TrustMoves(profiles[t], profiles'[t], c)
  <2>1. toReplay' \in Seq(Events)
    <3>1. log \in Seq(Events) /\ Stored(s) \in SUBSET DOMAIN log
      BY DEF WatchInv, Stored
    <3>2. QED
      BY <1>3, <3>1, SortedType DEF BeginReplay
  <2>2. profiles' = profiles
    BY <1>3 DEF BeginReplay
  <2>3. WatchInv'
    BY <1>3, <2>1, <2>2, EmptiedWatch DEF BeginReplay, ResetStores, VerifierClear, WatchInv
  <2>4. QED
    BY <2>2, <2>3 DEF TrustMoves
<1>4. CASE IngestNext
  <2> DEFINE e == Head(toReplay)
  <2>1. toReplay \in Seq(Events) /\ toReplay # << >>
    BY <1>4 DEF IngestNext, WatchInv
  <2>2. e \in Events /\ Tail(toReplay) \in Seq(Events)
    BY <2>1, HeadTailProperties
  <2>3. Ingest(e) /\ toReplay' \in Seq(Events)
    BY <1>4, <2>2 DEF IngestNext
  <2> HIDE DEF e
  <2>4. QED
    BY <2>2, <2>3, IngestKeepsWatch
<1>5. QED
  BY <1>1, <1>2, <1>3, <1>4 DEF WatchNext

\* The inductive invariant holds in every reachable state.
THEOREM WatchInvariant == WatchSpec => []WatchInv
<1>1. WatchInit => WatchInv
  BY WatchInitInv
<1>2. WatchInv /\ [WatchNext]_watchVars => WatchInv'
  BY WatchStep
<1>3. QED
  BY <1>1, <1>2, PTL DEF WatchSpec

\* The verifier never finds two open sessions of one visitor (verifier.py 332-358),
\* every record of the timeline names a session of its visitor, with its start or
\* its end (sessionizer.py 207-397, audit.py 181-321), and the thresholds stay in
\* their ranges (calibration.py 49-56), through any requests and replays.
THEOREM WatchStaysConsistent == WatchSpec => []WatchConsistent
<1>1. WatchInv => WatchConsistent
  BY WatchInvSays
<1>2. QED
  BY <1>1, WatchInvariant, PTL

\* A calibration that moves the trust of a camera leaves at most a quarter of the
\* confidences it saw below it, for any window and any number needed
\* (calibration.py 94-102).
THEOREM CalibrationIsCautious == WatchSpec => TrustIsCautious
<1> DEFINE Cautious ==
      \A s \in Stores, c \in Cameras :
        profiles'[s].trust[c] # profiles[s].trust[c] /\ profiles'[s].trust[c] > Lowest.trust =>
          LET f == profiles'[s]
              below == {i \in DOMAIN f.conf[c] : f.conf[c][i] < f.trust[c]}
          IN  4 * Cardinality(below) <= Len(f.conf[c])
<1>1. WatchInv /\ [WatchNext]_watchVars => [Cautious]_profiles
  <2> SUFFICES ASSUME WatchInv, [WatchNext]_watchVars
               PROVE  Cautious
    OBVIOUS
  <2>1. \A s \in Stores, c \in Cameras : TrustMoves(profiles[s], profiles'[s], c)
    BY WatchStep
  <2>2. QED
    BY <2>1 DEF TrustMoves
<1>2. QED
  BY <1>1, WatchInvariant, PTL DEF WatchSpec, TrustIsCautious

-----------------------------------------------------------------------------
(***************************************************************************)
(* The timelines tell the log.                                             *)
(***************************************************************************)

Mark == (EventType \cup Codes) \X Time

\* The mark of each record.
MarkOf == [r \in Record |-> <<r.type, r.time>>]

\* The records of a timeline that are not the verifier's.
Shown(tl) == {i \in DOMAIN tl : tl[i].category # "TRACKING"}

\* What a timeline tells, as the marks of its records.
LEMMA ToldMarks ==
  ASSUME NEW tl \in Seq(Record)
  PROVE  LET picked == Picked(tl, Shown(tl)) IN
         /\ picked \in Seq(Record)
         /\ Told(tl) = Mapped(MarkOf, picked)
<1> DEFINE K == Shown(tl)
           picked == Picked(tl, K)
<1>1. K \in SUBSET DOMAIN tl
  BY DEF Shown
<1>2. picked \in Seq(Record)
  <2> HIDE DEF K
  <2>1. PICK n \in Nat : \E p : InOrder(n, p, K)
    BY <1>1, PositionsInOrder
  <2>2. PICK p : InOrder(n, p, K)
    BY <2>1
  <2>3. PickedSays(Record, tl, K, n, p)
    BY <1>1, <2>2, PickedListed
  <2>4. QED
    BY <2>3 DEF PickedSays
<1>3. Told(tl) = [i \in DOMAIN picked |-> <<picked[i].type, picked[i].time>>]
  BY DEF Told, Shown
<1> HIDE DEF picked
<1>4. \A i \in DOMAIN picked : MarkOf[picked[i]] = <<picked[i].type, picked[i].time>>
  <2>1. \A i \in DOMAIN picked : picked[i] \in Record
    BY <1>2
  <2>2. QED
    BY <2>1 DEF MarkOf
<1>5. QED
  BY <1>2, <1>3, <1>4 DEF picked, Mapped

\* What two timelines tell, one after the other.
LEMMA ToldConcat ==
  ASSUME NEW x \in Seq(Record), NEW y \in Seq(Record)
  PROVE  /\ Told(x \o y) = Told(x) \o Told(y)
         /\ Told(x) \in Seq(Mark)
         /\ Told(y) \in Seq(Mark)
<1> DEFINE K == Shown(x)
           L == Shown(y)
           a == Picked(x, K)
           b == Picked(y, L)
           z == x \o y
           ab == a \o b
<1>1. Follows(z, x, y)
  BY DEF Follows
<1>2. /\ z \in Seq(Record) /\ Len(z) = Len(x) + Len(y)
      /\ \A i \in 1 .. Len(x) : z[i] = x[i]
      /\ \A j \in 1 .. Len(y) : z[Len(x) + j] = y[j]
  BY ConcatSays
<1> HIDE DEF z
<1>3. Shown(z) = K \cup {Len(x) + j : j \in L}
  <2>1. Len(x) \in Nat /\ Len(y) \in Nat /\ DOMAIN z = 1 .. Len(x) + Len(y)
    BY <1>2
  <2>2. ASSUME NEW i \in DOMAIN z
        PROVE  i \in Shown(z) <=> i \in K \cup {Len(x) + j : j \in L}
    <3>1. CASE i \in 1 .. Len(x)
      BY <1>2, <2>1, <3>1 DEF Shown
    <3>2. CASE i \notin 1 .. Len(x)
      <4>1. PICK j \in 1 .. Len(y) : i = Len(x) + j
        <5>1. i - Len(x) \in 1 .. Len(y) /\ i = Len(x) + (i - Len(x))
          BY <2>1, <3>2
        <5>2. QED
          BY <5>1
      <4>2. i \in Shown(z) <=> j \in L
        BY <1>2, <4>1 DEF Shown
      <4>3. \A k \in L : i = Len(x) + k => k = j
        BY <2>1, <4>1 DEF Shown
      <4>4. i \notin K
        BY <3>2 DEF Shown
      <4>5. QED
        BY <4>1, <4>2, <4>3, <4>4
    <3>3. QED
      BY <3>1, <3>2
  <2>3. K \cup {Len(x) + j : j \in L} \subseteq DOMAIN z
    BY <2>1 DEF Shown
  <2>4. Shown(z) \subseteq DOMAIN z
    BY DEF Shown
  <2>5. QED
    BY <2>2, <2>3, <2>4
<1>4. K \in SUBSET DOMAIN x /\ L \in SUBSET DOMAIN y
  BY DEF Shown
<1>5. Picked(z, Shown(z)) = a \o b /\ a \in Seq(Record) /\ b \in Seq(Record)
  <2> HIDE DEF K, L
  <2>1. PICK M : M = K \cup Shifted(Len(x), L)
    OBVIOUS
  <2>2. /\ Follows(Picked(z, M), Picked(x, K), Picked(y, L))
        /\ Picked(x, K) \in Seq(Record) /\ Picked(y, L) \in Seq(Record)
    BY <1>1, <1>4, <2>1, PickedConcat
  <2>3. QED
    BY <1>3, <2>1, <2>2 DEF Shifted, Follows
<1>6. /\ Told(z) = Mapped(MarkOf, ab)
      /\ Told(x) = Mapped(MarkOf, a)
      /\ Told(y) = Mapped(MarkOf, b)
  BY <1>2, <1>5, ToldMarks
<1>7. MarkOf \in [Record -> Mark]
  BY DEF MarkOf, Mark, Record
<1>8. Follows(ab, a, b)
  BY DEF Follows
<1> HIDE DEF a, b, ab, K, L
<1>9. /\ Follows(Mapped(MarkOf, ab), Mapped(MarkOf, a), Mapped(MarkOf, b))
      /\ Mapped(MarkOf, a) \in Seq(Mark)
      /\ Mapped(MarkOf, b) \in Seq(Mark)
  BY <1>5, <1>7, <1>8, MappedConcat
<1>10. QED
  BY <1>1, <1>6, <1>9 DEF Follows

\* The records of the handlers are told, those of the verifier are not.
LEMMA ToldRecords ==
  ASSUME NEW e \in Events, HandlerRecords(e) \in Seq(Record)
  PROVE  Told(HandlerRecords(e)) = TraceOf(e)
<1> DEFINE n == SessionIndex(e)
           H == HandlerRecords(e)
           R(category) == AuditRecord(category, e.type, e.time, n)
           mark == <<e.type, e.time>>
<1>1. e.type \in EventType
  BY EventsTyped DEF Event
<1>2. \/ e.type = "ENTRY" /\ H = << R("DETECTION"), R("SESSION") >>
         /\ TraceOf(e) = <<mark, mark>>
      \/ H = << >> /\ TraceOf(e) = << >>
      \/ \E category \in {"REENTRY", "ZONE", "QUEUE", "EXIT"} :
           H = << R(category) >> /\ TraceOf(e) = <<mark>>
  <2> DEFINE Of(category) == << R(category) >>
  <2>1. H = CASE e.type = "ENTRY" -> Of("DETECTION") \o Of("SESSION")
              [] e.type = "REENTRY" -> Of("REENTRY")
              [] e.type = "EXIT" -> Of("EXIT")
              [] e.type \in {"ZONE_ENTER", "ZONE_EXIT", "ZONE_DWELL"} ->
                   IF e.zone = NoZone THEN << >> ELSE Of("ZONE")
              [] e.type \in {"BILLING_QUEUE_JOIN", "BILLING_QUEUE_ABANDON"} -> Of("QUEUE")
    BY DEF HandlerRecords
  <2>2. TraceOf(e) = IF e.type \in {"ZONE_ENTER", "ZONE_EXIT", "ZONE_DWELL"} /\ e.zone = NoZone
                     THEN << >>
                     ELSE IF e.type = "ENTRY" THEN <<mark, mark>> ELSE <<mark>>
    BY DEF TraceOf
  <2> HIDE DEF H, R, mark
  <2>3. Of("DETECTION") \o Of("SESSION") = << R("DETECTION"), R("SESSION") >>
    BY TwoLines
  <2>4. CASE e.type = "ENTRY"
    BY <2>1, <2>2, <2>3, <2>4
  <2>5. CASE e.type = "EXIT"
    BY <2>1, <2>2, <2>5
  <2>6. CASE e.type = "REENTRY"
    BY <2>1, <2>2, <2>6
  <2>7. CASE e.type \in {"ZONE_ENTER", "ZONE_EXIT", "ZONE_DWELL"}
    BY <2>1, <2>2, <2>7
  <2>8. CASE e.type \in {"BILLING_QUEUE_JOIN", "BILLING_QUEUE_ABANDON"}
    BY <2>1, <2>2, <2>8
  <2>9. QED
    BY <1>1, <2>4, <2>5, <2>6, <2>7, <2>8 DEF EventType
<1>3. \A category \in {"DETECTION", "SESSION", "REENTRY", "EXIT", "ZONE", "QUEUE"} :
        /\ R(category).category = category
        /\ R(category).type = e.type /\ R(category).time = e.time
  BY DEF AuditRecord
<1> HIDE DEF n, H, R
<1>4. Shown(H) = DOMAIN H /\ TraceOf(e) = [i \in DOMAIN H |-> <<H[i].type, H[i].time>>]
  <2>1. CASE H = << R("DETECTION"), R("SESSION") >> /\ TraceOf(e) = <<mark, mark>>
    BY <1>3, <2>1 DEF Shown
  <2>2. CASE H = << >> /\ TraceOf(e) = << >>
    BY <2>2 DEF Shown
  <2>3. ASSUME NEW category \in {"REENTRY", "ZONE", "QUEUE", "EXIT"},
               H = << R(category) >>, TraceOf(e) = <<mark>>
        PROVE  Shown(H) = DOMAIN H /\ TraceOf(e) = [i \in DOMAIN H |-> <<H[i].type, H[i].time>>]
    BY <1>3, <2>3 DEF Shown
  <2>4. QED
    BY <1>2, <2>1, <2>2, <2>3
<1>5. Picked(H, Shown(H)) = H
  BY <1>4, PickedEnds DEF H
<1>6. QED
  BY <1>4, <1>5 DEF Told, Shown, H

\* The verifier's records are not told.
LEMMA TrackingUntold ==
  ASSUME NEW ws, NEW s, TrackingRecords(ws, s) \in Seq(Record)
  PROVE  Told(TrackingRecords(ws, s)) = << >>
<1> DEFINE T == TrackingRecords(ws, s)
<1>1. Shown(T) = {}
  BY DEF TrackingRecords, AuditRecord, Shown
<1>2. Picked(T, {}) = << >>
  <2> HIDE DEF T
  <2>1. QED
    BY PickedEnds DEF T
<1>3. Told(T) = [i \in DOMAIN Picked(T, Shown(T)) |->
                   <<Picked(T, Shown(T))[i].type, Picked(T, Shown(T))[i].time>>]
  BY DEF Told, Shown
<1> HIDE DEF T
<1>4. QED
  BY <1>1, <1>2, <1>3 DEF T

\* What an event that is added to a log adds to its trace.
LEMMA TraceGrows ==
  ASSUME NEW lg \in Seq(Events), NEW e \in Events, NEW v
  PROVE  /\ TraceOfLog(lg, v) \in Seq(Mark)
         /\ TraceOfLog(Append(lg, e), v)
              = IF e.visitor = v THEN TraceOfLog(lg, v) \o TraceOf(e) ELSE TraceOfLog(lg, v)
<1> DEFINE Piece(f) == IF f.visitor = v THEN TraceOf(f) ELSE << >>
           ss == [i \in DOMAIN lg |-> Piece(lg[i])]
           lf == Append(lg, e)
           tt == [i \in DOMAIN lf |-> Piece(lf[i])]
<1>1. \A f \in Events : Piece(f) \in Seq(Mark)
  <2> SUFFICES ASSUME NEW f \in Events
               PROVE  Piece(f) \in Seq(Mark)
    OBVIOUS
  <2>1. <<f.type, f.time>> \in Mark
    BY EventsTyped DEF Event, Mark
  <2>2. QED
    BY <2>1 DEF TraceOf
<1>2. /\ lf \in Seq(Events) /\ Len(lf) = Len(lg) + 1 /\ lf[Len(lg) + 1] = e
      /\ \A i \in 1 .. Len(lg) : lf[i] = lg[i]
      /\ Len(lg) \in Nat
  BY AppendProperties
<1>3. TraceOfLog(lg, v) = FlattenSeq(ss) /\ TraceOfLog(lf, v) = FlattenSeq(tt)
  BY DEF TraceOfLog
<1> HIDE DEF lf, Piece
<1>4. ss \in Seq(Seq(Mark)) /\ Len(ss) = Len(lg)
  <2>1. \A i \in 1 .. Len(lg) : lg[i] \in Events
    OBVIOUS
  <2>2. \A i \in 1 .. Len(lg) : Piece(lg[i]) \in Seq(Mark)
    BY <1>1, <2>1
  <2>3. QED
    BY <1>2, <2>2
<1>5. tt = Append(ss, Piece(e))
  BY <1>2, <1>4
<1> HIDE DEF ss, tt
<1>6. FlattenSeq(ss) \in Seq(Mark) /\ FlattenSeq(tt) = FlattenSeq(ss) \o Piece(e)
  BY <1>1, <1>4, <1>5, FlattenAppend
<1>7. FlattenSeq(ss) \o << >> = FlattenSeq(ss)
  BY <1>6, ConcatEmptySeq
<1>8. QED
  BY <1>3, <1>6, <1>7 DEF Piece, lf

-----------------------------------------------------------------------------
(***************************************************************************)
(* The tables of the verifier follow the log.                              *)
(***************************************************************************)

\* A set of positions up to n has a last one.
LEMMA LastPosition ==
  ASSUME NEW n \in Nat, NEW K \in SUBSET (1 .. n), K # {}
  PROVE  Max(K) \in K /\ \A k \in K : k <= Max(K)
<1> DEFINE B == {b \in Nat : \A k \in K : k <= b}
<1>1. n \in B
  OBVIOUS
<1>2. B \in SUBSET Nat /\ B # {}
  BY <1>1
<1>3. PICK b \in B : \A c \in B : b <= c
  <2> HIDE DEF B
  <2>1. QED
    BY <1>2, LeastNumber
<1>4. b \in K
  <2> SUFFICES ASSUME b \notin K
               PROVE  FALSE
    OBVIOUS
  <2>1. \A k \in K : k \in Nat /\ k >= 1 /\ k <= b /\ k # b
    BY <1>3
  <2>2. b \in Nat /\ b # 0
    <3>1. PICK k \in K : TRUE
      OBVIOUS
    <3>2. k \in Nat /\ k >= 1 /\ k <= b /\ b \in Nat
      BY <1>3, <2>1
    <3>3. QED
      BY <3>2
  <2>3. b - 1 \in B
    BY <2>1, <2>2
  <2>4. QED
    BY <1>3, <2>2, <2>3
<1>5. \A k \in K : b >= k /\ k \in Nat /\ b \in Nat
  BY <1>3
<1> HIDE DEF B
<1>6. \E m \in K : \A k \in K : m >= k
  BY <1>4, <1>5
<1>7. Max(K) \in K /\ \A k \in K : Max(K) >= k
  BY <1>6 DEF Max
<1>8. QED
  BY <1>7

\* The last of some positions and a later one.
LEMMA LaterPosition ==
  ASSUME NEW n \in Nat, NEW K \in SUBSET (1 .. n)
  PROVE  Max(K \cup {n + 1}) = n + 1
<1> DEFINE M == K \cup {n + 1}
<1>1. M \in SUBSET (1 .. n + 1) /\ M # {} /\ n + 1 \in M
  OBVIOUS
<1>2. Max(M) \in M /\ \A k \in M : k <= Max(M)
  <2> HIDE DEF M
  <2>1. n + 1 \in Nat
    OBVIOUS
  <2>2. QED
    BY <1>1, <2>1, LastPosition
<1>3. Max(M) \in 1 .. n + 1 /\ n + 1 <= Max(M)
  BY <1>1, <1>2
<1>4. QED
  BY <1>3

\* The positions of a visitor in a log, what the last of them shows of the visitor,
\* and the last exit among them.
OfVisitor(lg, v) == {j \in DOMAIN lg : lg[j].visitor = v}

SightOf(e) == [camera |-> Detail[e.id].camera, time |-> e.time, conf |-> Detail[e.id].conf]

SightAmong(lg, K) == IF K = {} THEN NoSight ELSE SightOf(lg[Max(K)])

ExitsAmong(lg, K) == {j \in K : lg[j].type = "EXIT"}

ExitAmong(lg, K) ==
  IF ExitsAmong(lg, K) = {} THEN NoTime ELSE lg[Max(ExitsAmong(lg, K))].time

\* The log lf has the event e after those of lg.
LogGains(lg, e, lf) ==
  /\ lg \in Seq(Events) /\ e \in Events /\ lf \in Seq(Events)
  /\ Len(lg) \in Nat /\ Len(lf) = Len(lg) + 1 /\ lf[Len(lg) + 1] = e
  /\ \A i \in 1 .. Len(lg) : lf[i] = lg[i]

\* Positions of the log before the event say what they said.
LEMMA AmongEarlier ==
  ASSUME NEW lg, NEW e, NEW lf, LogGains(lg, e, lf), NEW K \in SUBSET (1 .. Len(lg))
  PROVE  /\ SightAmong(lf, K) = SightAmong(lg, K)
         /\ ExitAmong(lf, K) = ExitAmong(lg, K)
<1>1. Len(lg) \in Nat /\ \A i \in 1 .. Len(lg) : lf[i] = lg[i]
  BY DEF LogGains
<1>2. SightAmong(lf, K) = SightAmong(lg, K)
  <2>1. K # {} => Max(K) \in K
    BY <1>1, LastPosition
  <2>2. K # {} => lf[Max(K)] = lg[Max(K)]
    BY <1>1, <2>1
  <2>3. QED
    BY <2>2 DEF SightAmong
<1>3. ExitAmong(lf, K) = ExitAmong(lg, K)
  <2> DEFINE X == ExitsAmong(lg, K)
  <2>1. ExitsAmong(lf, K) = X /\ X \in SUBSET (1 .. Len(lg))
    BY <1>1 DEF ExitsAmong
  <2> HIDE DEF X
  <2>2. X # {} => Max(X) \in X
    BY <1>1, <2>1, LastPosition
  <2>3. X # {} => lf[Max(X)] = lg[Max(X)]
    BY <1>1, <2>1, <2>2
  <2>4. QED
    BY <2>1, <2>3 DEF ExitAmong, X
<1>4. QED
  BY <1>2, <1>3

\* What the event at the end shows of its visitor.
LEMMA AmongLatest ==
  ASSUME NEW lg, NEW e, NEW lf, LogGains(lg, e, lf), NEW K \in SUBSET (1 .. Len(lg))
  PROVE  /\ SightAmong(lf, K \cup {Len(lg) + 1}) = SightOf(e)
         /\ ExitAmong(lf, K \cup {Len(lg) + 1})
              = IF e.type = "EXIT" THEN e.time ELSE ExitAmong(lg, K)
<1> DEFINE n == Len(lg)
           M == K \cup {n + 1}
<1>1. n \in Nat /\ lf[n + 1] = e /\ \A i \in 1 .. n : lf[i] = lg[i]
  BY DEF LogGains
<1>2. SightAmong(lf, M) = SightOf(e)
  <2>1. M # {} /\ Max(M) = n + 1
    BY <1>1, LaterPosition
  <2> HIDE DEF M
  <2>2. QED
    BY <1>1, <2>1 DEF SightAmong
<1>3. CASE e.type = "EXIT"
  <2> DEFINE X == ExitsAmong(lf, K)
  <2>1. ExitsAmong(lf, M) = X \cup {n + 1} /\ X \in SUBSET (1 .. n)
    BY <1>1, <1>3 DEF ExitsAmong
  <2> HIDE DEF X, M
  <2>2. Max(X \cup {n + 1}) = n + 1
    BY <1>1, <2>1, LaterPosition
  <2>3. ExitAmong(lf, M) = e.time
    BY <1>1, <2>1, <2>2 DEF ExitAmong
  <2>4. QED
    BY <1>2, <1>3, <2>3 DEF M
<1>4. CASE e.type # "EXIT"
  <2>1. ExitsAmong(lf, M) = ExitsAmong(lf, K)
    BY <1>1, <1>4 DEF ExitsAmong
  <2> HIDE DEF M
  <2>2. ExitAmong(lf, M) = ExitAmong(lf, K)
    BY <2>1 DEF ExitAmong
  <2>3. QED
    BY <1>2, <1>4, <2>2, AmongEarlier DEF M
<1>5. QED
  BY <1>3, <1>4

\* The positions of a visitor after the event, and before the event at a position.
LEMMA VisitorPositions ==
  ASSUME NEW lg, NEW e, NEW lf, LogGains(lg, e, lf), NEW v
  PROVE  /\ OfVisitor(lg, v) \in SUBSET (1 .. Len(lg))
         /\ OfVisitor(lf, v) = IF e.visitor = v THEN OfVisitor(lg, v) \cup {Len(lg) + 1}
                                                ELSE OfVisitor(lg, v)
         /\ EarlierOf(lf, Len(lg) + 1) = OfVisitor(lg, e.visitor)
         /\ \A i \in 1 .. Len(lg) : /\ EarlierOf(lf, i) = EarlierOf(lg, i)
                                    /\ EarlierOf(lg, i) \in SUBSET (1 .. Len(lg))
<1> DEFINE n == Len(lg)
<1>1. /\ n \in Nat /\ DOMAIN lg = 1 .. n /\ DOMAIN lf = 1 .. n + 1
      /\ lf[n + 1] = e /\ \A i \in 1 .. n : lf[i] = lg[i]
  BY DEF LogGains
<1> HIDE DEF n
<1>2. OfVisitor(lg, v) \in SUBSET (1 .. n)
  BY <1>1 DEF OfVisitor
<1>3. OfVisitor(lf, v) = IF e.visitor = v THEN OfVisitor(lg, v) \cup {n + 1}
                                          ELSE OfVisitor(lg, v)
  BY <1>1 DEF OfVisitor
<1>4. EarlierOf(lf, n + 1) = OfVisitor(lg, e.visitor)
  BY <1>1 DEF OfVisitor, EarlierOf
<1>5. ASSUME NEW i \in 1 .. n
      PROVE  EarlierOf(lf, i) = EarlierOf(lg, i) /\ EarlierOf(lg, i) \in SUBSET (1 .. n)
  BY <1>1 DEF EarlierOf
<1>6. QED
  BY <1>2, <1>3, <1>4, <1>5 DEF n

\* What the verifier knew before an event.
LEMMA BeforeSays ==
  ASSUME NEW lg, NEW i
  PROVE  /\ SightBefore(lg, i) = SightAmong(lg, EarlierOf(lg, i))
         /\ ExitBefore(lg, i) = ExitAmong(lg, EarlierOf(lg, i))
  BY DEF SightBefore, ExitBefore, SightAmong, ExitAmong, ExitsAmong, SightOf

\* The line that an event leaves in the bucket of its store.
Line == [staff : BOOLEAN, time : Time]
LineOf(e) == [staff |-> e.staff, time |-> e.time]
Lines(lg) == [i \in DOMAIN lg |-> LineOf(lg[i])]

\* A bucket is the lines at some positions of the log.
LEMMA BucketLines ==
  ASSUME NEW lg \in Seq(Events), NEW n \in 0 .. Len(lg), NEW s
  PROVE  /\ Lines(lg) \in Seq(Line) /\ DOMAIN Lines(lg) = DOMAIN lg
         /\ RecentAt(lg, n, s) \in SUBSET (1 .. n)
         /\ BucketAt(lg, n, s) = Picked(Lines(lg), RecentAt(lg, n, s))
         /\ BucketAt(lg, n, s) \in Seq(Line)
<1> DEFINE K == RecentAt(lg, n, s)
<1>1. Lines(lg) \in Seq(Line) /\ DOMAIN Lines(lg) = DOMAIN lg
  <2>1. \A i \in DOMAIN lg : lg[i] \in Events
    OBVIOUS
  <2>2. \A i \in DOMAIN lg : LineOf(lg[i]) \in Line
    BY <2>1, EventsTyped, EventFields DEF LineOf, Line, Time
  <2>3. QED
    BY <2>2 DEF Lines
<1>2. K \in SUBSET (1 .. n) /\ K \in SUBSET DOMAIN lg
  BY DEF RecentAt
<1> DEFINE b == BucketAt(lg, n, s)
<1>3. b = [i \in DOMAIN Picked(lg, K) |-> [staff |-> Picked(lg, K)[i].staff,
                                           time |-> Picked(lg, K)[i].time]]
  BY DEF BucketAt
<1> HIDE DEF K, b
<1>4. PICK m \in Nat : \E p : InOrder(m, p, K)
  BY <1>2, PositionsInOrder
<1>5. PICK p : InOrder(m, p, K)
  BY <1>4
<1>6. Picked(lg, K) = [k \in 1 .. m |-> lg[p[k]]]
  <2>1. PickedSays(Events, lg, K, m, p)
    BY <1>2, <1>5, PickedListed
  <2>2. QED
    BY <2>1 DEF PickedSays
<1>7. Picked(Lines(lg), K) = [k \in 1 .. m |-> Lines(lg)[p[k]]] /\ Picked(Lines(lg), K) \in Seq(Line)
  <2>1. PickedSays(Line, Lines(lg), K, m, p)
    BY <1>1, <1>2, <1>5, PickedListed
  <2>2. QED
    BY <2>1 DEF PickedSays
<1>8. \A k \in 1 .. m : Lines(lg)[p[k]] = LineOf(lg[p[k]])
  <2>1. \A k \in 1 .. m : p[k] \in DOMAIN lg
    BY <1>2, <1>5 DEF InOrder
  <2>2. QED
    BY <2>1 DEF Lines
<1>9. b = [k \in 1 .. m |-> LineOf(lg[p[k]])]
  BY <1>3, <1>6 DEF LineOf
<1>10. b = Picked(Lines(lg), K)
  BY <1>7, <1>8, <1>9
<1>11. QED
  BY <1>1, <1>2, <1>7, <1>10 DEF K, b

\* A bucket of the log before the event does not change.
LEMMA BucketEarlier ==
  ASSUME NEW lg, NEW e, NEW lf, LogGains(lg, e, lf), NEW n \in 0 .. Len(lg), NEW s
  PROVE  BucketAt(lf, n, s) = BucketAt(lg, n, s)
<1>1. /\ lg \in Seq(Events) /\ lf \in Seq(Events)
      /\ Len(lg) \in Nat /\ Len(lf) = Len(lg) + 1
      /\ DOMAIN lg = 1 .. Len(lg) /\ DOMAIN lf = 1 .. Len(lf)
      /\ \A i \in 1 .. Len(lg) : lf[i] = lg[i]
  BY DEF LogGains
<1> DEFINE K == RecentAt(lg, n, s)
<1>2. n \in 0 .. Len(lf) /\ \A i \in 1 .. n : i \in 1 .. Len(lg) /\ lf[i] = lg[i]
  BY <1>1
<1>3. RecentAt(lf, n, s) = K
  BY <1>2 DEF RecentAt
<1>4. /\ Lines(lg) \in Seq(Line) /\ Lines(lf) \in Seq(Line)
      /\ DOMAIN Lines(lg) = DOMAIN lg /\ DOMAIN Lines(lf) = DOMAIN lf
      /\ K \in SUBSET (1 .. n)
      /\ BucketAt(lg, n, s) = Picked(Lines(lg), K)
      /\ BucketAt(lf, n, s) = Picked(Lines(lf), RecentAt(lf, n, s))
  BY <1>1, <1>2, BucketLines
<1> HIDE DEF K
<1>5. K \in SUBSET DOMAIN Lines(lg) /\ K \in SUBSET DOMAIN Lines(lf)
  BY <1>1, <1>2, <1>4
<1>6. PICK m \in Nat : \E p : InOrder(m, p, K)
  BY <1>4, <1>5, PositionsInOrder
<1>7. PICK p : InOrder(m, p, K)
  BY <1>6
<1>8. Picked(Lines(lg), K) = [k \in 1 .. m |-> Lines(lg)[p[k]]]
  <2>1. PickedSays(Line, Lines(lg), K, m, p)
    BY <1>4, <1>5, <1>7, PickedListed
  <2>2. QED
    BY <2>1 DEF PickedSays
<1>9. Picked(Lines(lf), K) = [k \in 1 .. m |-> Lines(lf)[p[k]]]
  <2>1. PickedSays(Line, Lines(lf), K, m, p)
    BY <1>4, <1>5, <1>7, PickedListed
  <2>2. QED
    BY <2>1 DEF PickedSays
<1>10. \A k \in 1 .. m : Lines(lf)[p[k]] = Lines(lg)[p[k]]
  <2>1. \A k \in 1 .. m : p[k] \in 1 .. n
    BY <1>4, <1>7 DEF InOrder
  <2>2. QED
    BY <1>1, <1>2, <2>1 DEF Lines
<1>11. QED
  BY <1>3, <1>4, <1>8, <1>9, <1>10

\* The bucket of another store does not change.
LEMMA BucketElsewhere ==
  ASSUME NEW lg, NEW e, NEW lf, LogGains(lg, e, lf), NEW s, s # e.store
  PROVE  BucketAt(lf, Len(lf), s) = BucketAt(lg, Len(lg), s)
<1>1. /\ Len(lg) \in Nat /\ Len(lf) = Len(lg) + 1 /\ lf[Len(lg) + 1] = e
      /\ Len(lg) \in 0 .. Len(lg)
  BY DEF LogGains
<1>2. RecentAt(lf, Len(lf), s) = RecentAt(lf, Len(lg), s)
  <2>1. {j \in 1 .. Len(lf) : lf[j].store = s} = {j \in 1 .. Len(lg) : lf[j].store = s}
    BY <1>1
  <2>2. QED
    BY <2>1 DEF RecentAt
<1>3. BucketAt(lf, Len(lf), s) = BucketAt(lf, Len(lg), s)
  BY <1>2 DEF BucketAt
<1>4. QED
  BY <1>1, <1>3, BucketEarlier

\* The events of the store of e that are recent after e: those that were, less those
\* that e has pushed out of the window, and e.
LEMMA RecentAfter ==
  ASSUME NEW lg, NEW e, NEW lf, LogGains(lg, e, lf)
  PROVE  RecentAt(lf, Len(lf), e.store)
           = {j \in RecentAt(lg, Len(lg), e.store) \cup {Len(lg) + 1} :
                lf[j].time > e.time - StaffWindow}
<1> DEFINE n == Len(lg)
           s == e.store
           F == {j \in 1 .. n + 1 : lf[j].store = s}
           G == {j \in 1 .. n : lg[j].store = s}
           D == {j \in RecentAt(lg, n, s) \cup {n + 1} : lf[j].time > e.time - StaffWindow}
<1>1. /\ n \in Nat /\ Len(lf) = n + 1 /\ lf[n + 1] = e /\ lf \in Seq(Events)
      /\ \A i \in 1 .. n : lf[i] = lg[i]
  BY DEF LogGains
<1>2. \A i \in 1 .. n + 1 : lf[i].time \in Nat
  <2>1. \A i \in 1 .. n + 1 : lf[i] \in Events
    BY <1>1
  <2>2. QED
    BY <2>1, EventsTyped, EventFields
<1>3. e.time \in Nat /\ e.time > e.time - StaffWindow
  <2>1. n + 1 \in 1 .. n + 1
    BY <1>1
  <2>2. e.time \in Nat
    BY <1>1, <1>2, <2>1
  <2>3. QED
    BY <2>2 DEF StaffWindow
<1>4. F = G \cup {n + 1}
  BY <1>1
<1>5. RecentAt(lf, n + 1, s)
        = {j \in F : \A k \in F : j <= k => lf[j].time > lf[k].time - StaffWindow}
  BY DEF RecentAt
<1>6. RecentAt(lg, n, s)
        = {j \in G : \A k \in G : j <= k => lg[j].time > lg[k].time - StaffWindow}
  BY DEF RecentAt
<1>7. G \subseteq 1 .. n
  OBVIOUS
<1> HIDE DEF F, G, n, s
<1>8. ASSUME NEW j
      PROVE  j \in RecentAt(lf, n + 1, s) <=> j \in D
  <2>1. CASE j = n + 1
    <3>1. \A k \in G : ~(j <= k)
      BY <1>1, <1>7, <2>1
    <3>2. j \in RecentAt(lf, n + 1, s)
      BY <1>1, <1>3, <1>4, <1>5, <2>1, <3>1
    <3>3. j \in D
      BY <1>1, <1>3, <2>1
    <3>4. QED
      BY <3>2, <3>3
  <2>2. CASE j \in G
    <3>1. j \in 1 .. n /\ j <= n + 1 /\ j # n + 1 /\ lf[j] = lg[j]
      <4>1. j \in 1 .. n
        BY <1>7, <2>2
      <4>2. QED
        BY <1>1, <4>1
    <3>2. \A k \in G : lf[k] = lg[k]
      BY <1>1, <1>7
    <3>3. j \in RecentAt(lf, n + 1, s)
            <=> /\ \A k \in G : j <= k => lg[j].time > lg[k].time - StaffWindow
                /\ lf[j].time > e.time - StaffWindow
      BY <1>1, <1>4, <1>5, <2>2, <3>1, <3>2
    <3>4. j \in RecentAt(lg, n, s)
            <=> \A k \in G : j <= k => lg[j].time > lg[k].time - StaffWindow
      BY <1>6, <2>2
    <3>5. QED
      BY <3>1, <3>3, <3>4
  <2>3. CASE j \notin G /\ j # n + 1
    BY <1>4, <1>5, <1>6, <2>3
  <2>4. QED
    BY <2>1, <2>2, <2>3
<1>9. RecentAt(lf, n + 1, s) = D
  BY <1>8
<1>10. QED
  BY <1>1, <1>9 DEF n, s

\* The bucket of the store after the event: the line of the event is added and what
\* lies outside the window is dropped.
LEMMA BucketAfter ==
  ASSUME NEW lg, NEW e, NEW lf, LogGains(lg, e, lf),
         NEW b, b = Append(BucketAt(lg, Len(lg), e.store), LineOf(e))
  PROVE  Picked(b, {i \in DOMAIN b : b[i].time > e.time - StaffWindow})
           = BucketAt(lf, Len(lf), e.store)
<1> DEFINE n == Len(lg)
           s == e.store
           K == RecentAt(lg, n, s)
           M == K \cup {n + 1}
           c == BucketAt(lg, n, s)
           L == {i \in DOMAIN b : b[i].time > e.time - StaffWindow}
<1>1. /\ n \in Nat /\ Len(lf) = n + 1 /\ lf[n + 1] = e
      /\ lg \in Seq(Events) /\ lf \in Seq(Events) /\ e \in Events
      /\ n \in 0 .. Len(lg) /\ n + 1 \in 0 .. Len(lf)
      /\ DOMAIN lf = 1 .. n + 1 /\ DOMAIN lg = 1 .. n
      /\ \A i \in 1 .. n : lf[i] = lg[i]
  BY DEF LogGains
<1>2. /\ Lines(lg) \in Seq(Line) /\ DOMAIN Lines(lg) = DOMAIN lg
      /\ Lines(lf) \in Seq(Line) /\ DOMAIN Lines(lf) = DOMAIN lf
      /\ K \in SUBSET (1 .. n) /\ c = Picked(Lines(lg), K) /\ c \in Seq(Line)
      /\ BucketAt(lf, n + 1, s) = Picked(Lines(lf), RecentAt(lf, n + 1, s))
  <2> HIDE DEF n, s, K, c
  <2>1. /\ Lines(lg) \in Seq(Line) /\ DOMAIN Lines(lg) = DOMAIN lg
        /\ RecentAt(lg, n, s) \in SUBSET (1 .. n)
        /\ BucketAt(lg, n, s) = Picked(Lines(lg), RecentAt(lg, n, s))
        /\ BucketAt(lg, n, s) \in Seq(Line)
    BY <1>1, BucketLines
  <2>2. /\ Lines(lf) \in Seq(Line) /\ DOMAIN Lines(lf) = DOMAIN lf
        /\ BucketAt(lf, n + 1, s) = Picked(Lines(lf), RecentAt(lf, n + 1, s))
    BY <1>1, BucketLines
  <2>3. QED
    BY <2>1, <2>2 DEF K, c
<1>3. LineOf(e) \in Line
  BY <1>1, EventsTyped, EventFields DEF LineOf, Line, Time
<1>4. \A i \in 1 .. n : Lines(lf)[i] = Lines(lg)[i]
  BY <1>1 DEF Lines
<1>5. Lines(lf)[n + 1] = LineOf(e)
  BY <1>1 DEF Lines
<1> HIDE DEF K, c
<1>6. PICK m \in Nat : \E p : InOrder(m, p, K)
  BY <1>1, <1>2, PositionsInOrder
<1>7. PICK p : InOrder(m, p, K)
  BY <1>6
<1>8. c = [k \in 1 .. m |-> Lines(lg)[p[k]]] /\ Len(c) = m
  <2>1. PickedSays(Line, Lines(lg), K, m, p)
    BY <1>1, <1>2, <1>7, PickedListed
  <2>2. QED
    BY <1>2, <2>1 DEF PickedSays
<1> DEFINE q == [k \in 1 .. m + 1 |-> IF k <= m THEN p[k] ELSE n + 1]
<1>9. /\ \A k \in 1 .. m : p[k] \in K /\ p[k] \in 1 .. n
      /\ \A k, l \in 1 .. m : k < l => p[k] < p[l]
      /\ \A i \in K : \E k \in 1 .. m : p[k] = i
  BY <1>2, <1>7 DEF InOrder
<1>10. /\ \A k \in 1 .. m : q[k] = p[k]
       /\ q[m + 1] = n + 1
       /\ \A k \in 1 .. m + 1 : k \in 1 .. m \/ k = m + 1
       /\ m + 1 \in 1 .. m + 1 /\ \A k \in 1 .. m : k \in 1 .. m + 1 /\ k < m + 1
  OBVIOUS
<1>11. DOMAIN q = 1 .. m + 1 /\ q = [k \in 1 .. m + 1 |-> q[k]]
  OBVIOUS
<1> HIDE DEF q, n
<1>12. InOrder(m + 1, q, M)
  <2>1. q \in [1 .. m + 1 -> M]
    <3>1. \A k \in 1 .. m + 1 : q[k] \in M
      BY <1>9, <1>10
    <3>2. QED
      BY <1>11, <3>1
  <2>2. \A k, l \in 1 .. m + 1 : k < l => q[k] < q[l]
    <3> SUFFICES ASSUME NEW k \in 1 .. m + 1, NEW l \in 1 .. m + 1, k < l
                 PROVE  q[k] < q[l]
      OBVIOUS
    <3>1. CASE l \in 1 .. m
      <4>1. k \in 1 .. m
        BY <3>1
      <4>2. QED
        BY <1>9, <1>10, <3>1, <4>1
    <3>2. CASE l = m + 1
      <4>1. k \in 1 .. m
        BY <3>2
      <4>2. q[k] = p[k] /\ p[k] \in 1 .. n /\ q[l] = n + 1
        BY <1>9, <1>10, <3>2, <4>1
      <4>3. QED
        BY <1>1, <4>2
    <3>3. QED
      BY <1>10, <3>1, <3>2
  <2>3. \A i \in M : \E k \in 1 .. m + 1 : q[k] = i
    <3> SUFFICES ASSUME NEW i \in M
                 PROVE  \E k \in 1 .. m + 1 : q[k] = i
      OBVIOUS
    <3>1. CASE i \in K
      <4>1. PICK k \in 1 .. m : p[k] = i
        BY <1>9, <3>1
      <4>2. k \in 1 .. m + 1 /\ q[k] = i
        BY <1>10, <4>1
      <4>3. QED
        BY <4>2
    <3>2. CASE i = n + 1
      BY <1>10, <3>2
    <3>3. QED
      BY <3>1, <3>2
  <2>4. QED
    BY <2>1, <2>2, <2>3 DEF InOrder
<1>13. M \in SUBSET DOMAIN Lines(lf)
  BY <1>1, <1>2
<1> HIDE DEF M
<1>14. Picked(Lines(lf), M) = [k \in 1 .. m + 1 |-> Lines(lf)[q[k]]]
  <2>1. m + 1 \in Nat
    OBVIOUS
  <2>2. PickedSays(Line, Lines(lf), M, m + 1, q)
    BY <1>2, <1>12, <1>13, <2>1, PickedListed
  <2>3. QED
    BY <2>2 DEF PickedSays
<1>15. b = Append(c, LineOf(e))
  BY DEF c, n
<1>16. DOMAIN b = 1 .. m + 1 /\ \A k \in 1 .. m + 1 : b[k] = Lines(lf)[q[k]]
  <2>1. /\ b \in Seq(Line) /\ Len(b) = m + 1
        /\ b[m + 1] = LineOf(e) /\ \A k \in 1 .. m : b[k] = c[k]
    BY <1>2, <1>3, <1>8, <1>15, AppendProperties
  <2>2. DOMAIN b = 1 .. m + 1
    BY <2>1
  <2>3. ASSUME NEW k \in 1 .. m
        PROVE  b[k] = Lines(lf)[q[k]]
    <3>1. c[k] = Lines(lg)[p[k]]
      BY <1>8
    <3>2. QED
      BY <1>4, <1>9, <1>10, <2>1, <3>1
  <2>4. b[m + 1] = Lines(lf)[q[m + 1]]
    BY <1>5, <1>10, <2>1
  <2>5. QED
    BY <1>10, <2>2, <2>3, <2>4
<1>17. b = Picked(Lines(lf), M)
  <2>1. b = [k \in 1 .. m + 1 |-> b[k]]
    <3>1. b \in Seq(Line)
      BY <1>2, <1>3, <1>15, AppendProperties
    <3>2. QED
      BY <1>16, <3>1
  <2>2. QED
    BY <1>14, <1>16, <2>1
<1>18. L \in SUBSET (1 .. m + 1)
  BY <1>16
<1>19. {q[k] : k \in L} = {j \in M : lf[j].time > e.time - StaffWindow}
  <2>1. \A k \in 1 .. m + 1 : q[k] \in M /\ b[k].time = lf[q[k]].time
    <3>1. \A k \in 1 .. m + 1 : q[k] \in M /\ q[k] \in DOMAIN lf
      BY <1>2, <1>12, <1>13 DEF InOrder
    <3>2. \A j \in DOMAIN lf : Lines(lf)[j].time = lf[j].time
      BY DEF Lines, LineOf
    <3>3. QED
      BY <1>16, <3>1, <3>2
  <2>2. \A j \in M : \E k \in 1 .. m + 1 : q[k] = j
    BY <1>12 DEF InOrder
  <2>3. QED
    BY <1>16, <2>1, <2>2
<1> HIDE DEF L
<1>20. Picked(b, L) = Picked(Lines(lf), Through(q, L))
  <2>1. m + 1 \in Nat
    OBVIOUS
  <2>2. Picked(Picked(Lines(lf), M), L) = Picked(Lines(lf), Through(q, L))
    BY <1>2, <1>12, <1>13, <1>18, <2>1, PickedTwice
  <2>3. QED
    BY <1>17, <2>2
<1>21. RecentAt(lf, n + 1, s) = Through(q, L)
  <2>1. RecentAt(lf, Len(lf), e.store)
          = {j \in RecentAt(lg, Len(lg), e.store) \cup {Len(lg) + 1} :
               lf[j].time > e.time - StaffWindow}
    BY RecentAfter
  <2>2. RecentAt(lf, n + 1, s) = {j \in M : lf[j].time > e.time - StaffWindow}
    BY <1>1, <2>1 DEF M, K, n
  <2>3. QED
    BY <1>19, <2>2 DEF Through
<1>22. QED
  BY <1>1, <1>2, <1>20, <1>21 DEF L, n

-----------------------------------------------------------------------------
(***************************************************************************)
(* The warnings follow the log.                                            *)
(***************************************************************************)

\* What is kept of warnings is their end.
LEMMA CappedSays ==
  ASSUME NEW S, NEW ws \in Seq(S)
  PROVE  /\ Capped(ws) \in Seq(S)
         /\ Len(Capped(ws)) = IF Len(ws) <= WarningCap THEN Len(ws) ELSE WarningCap
         /\ \A k \in 1 .. Len(Capped(ws)) :
              Capped(ws)[k] = ws[Len(ws) - Len(Capped(ws)) + k]
<1>1. WarningCap \in Nat \ {0} /\ Len(ws) \in Nat
  BY WatchAssumption
<1>2. CASE Len(ws) <= WarningCap
  <2>1. Capped(ws) = ws
    BY <1>2 DEF Capped
  <2>2. \A k \in 1 .. Len(ws) : Len(ws) - Len(ws) + k = k
    BY <1>1
  <2>3. QED
    BY <1>2, <2>1, <2>2
<1>3. CASE ~(Len(ws) <= WarningCap)
  <2> DEFINE a == Len(ws) - WarningCap + 1
             b == Len(ws)
  <2>1. a \in 1 .. b /\ b \in 1 .. b /\ b - a + 1 = WarningCap
    BY <1>1, <1>3
  <2>2. Capped(ws) = SubSeq(ws, a, b)
    BY <1>3 DEF Capped
  <2>3. /\ SubSeq(ws, a, b) \in Seq(S)
        /\ Len(SubSeq(ws, a, b)) = WarningCap
        /\ \A k \in 1 .. WarningCap : SubSeq(ws, a, b)[k] = ws[a + k - 1]
    BY <1>1, <2>1, SubSeqProperties
  <2>4. \A k \in 1 .. WarningCap : a + k - 1 = Len(ws) - WarningCap + k
    BY <1>1
  <2>5. QED
    BY <1>3, <2>2, <2>3, <2>4
<1>4. QED
  BY <1>2, <1>3

\* Keeping the newest warnings as they come is keeping the newest at the end.
LEMMA CappedConcat ==
  ASSUME NEW S, NEW d \in Seq(S), NEW r \in Seq(S)
  PROVE  Capped(Capped(d) \o r) = Capped(d \o r)
<1> DEFINE c == Capped(d)
           x == c \o r
           y == d \o r
           p == Capped(x)
           q == Capped(y)
<1>1. WarningCap \in Nat \ {0} /\ Len(d) \in Nat /\ Len(r) \in Nat
  BY WatchAssumption
<1>2. /\ c \in Seq(S)
      /\ Len(c) = IF Len(d) <= WarningCap THEN Len(d) ELSE WarningCap
      /\ \A k \in 1 .. Len(c) : c[k] = d[Len(d) - Len(c) + k]
  BY CappedSays
<1> HIDE DEF c
<1>3. /\ x \in Seq(S) /\ Len(x) = Len(c) + Len(r)
      /\ \A k \in 1 .. Len(c) : x[k] = c[k]
      /\ \A k \in 1 .. Len(r) : x[Len(c) + k] = r[k]
  <2>1. c \in Seq(S)
    BY <1>2
  <2>2. QED
    BY <2>1, ConcatSays
<1>4. /\ y \in Seq(S) /\ Len(y) = Len(d) + Len(r)
      /\ \A k \in 1 .. Len(d) : y[k] = d[k]
      /\ \A k \in 1 .. Len(r) : y[Len(d) + k] = r[k]
  BY ConcatSays
<1> HIDE DEF x, y
<1>5. /\ p \in Seq(S)
      /\ Len(p) = IF Len(x) <= WarningCap THEN Len(x) ELSE WarningCap
      /\ \A k \in 1 .. Len(p) : p[k] = x[Len(x) - Len(p) + k]
  BY <1>3, CappedSays
<1>6. /\ q \in Seq(S)
      /\ Len(q) = IF Len(y) <= WarningCap THEN Len(y) ELSE WarningCap
      /\ \A k \in 1 .. Len(q) : q[k] = y[Len(y) - Len(q) + k]
  BY <1>4, CappedSays
<1> HIDE DEF p, q
<1>7. /\ Len(p) \in Nat /\ Len(q) = Len(p) /\ Len(c) \in Nat /\ Len(c) <= Len(d)
      /\ Len(p) <= Len(c) + Len(r)
  BY <1>1, <1>2, <1>3, <1>4, <1>5, <1>6
<1>8. ASSUME NEW k \in 1 .. Len(p)
      PROVE  p[k] = q[k]
  <2> DEFINE i == Len(x) - Len(p) + k
             j == Len(y) - Len(p) + k
  <2>1. i \in 1 .. Len(x) /\ i \in Int /\ j = Len(d) - Len(c) + i
    BY <1>1, <1>3, <1>4, <1>7
  <2>2. p[k] = x[i] /\ q[k] = y[j]
    BY <1>5, <1>6, <1>7
  <2> HIDE DEF i, j
  <2>3. CASE i \in 1 .. Len(c)
    <3>1. x[i] = c[i] /\ c[i] = d[Len(d) - Len(c) + i]
      BY <1>2, <1>3, <2>3
    <3>2. j \in 1 .. Len(d) /\ y[j] = d[j]
      <4>1. j \in 1 .. Len(d)
        BY <1>1, <1>7, <2>1, <2>3
      <4>2. QED
        BY <1>4, <4>1
    <3>3. QED
      BY <2>1, <2>2, <3>1, <3>2
  <2>4. CASE i \notin 1 .. Len(c)
    <3>1. i - Len(c) \in 1 .. Len(r) /\ i = Len(c) + (i - Len(c)) /\ j = Len(d) + (i - Len(c))
      BY <1>1, <1>3, <1>7, <2>1, <2>4
    <3>2. x[i] = r[i - Len(c)] /\ y[j] = r[i - Len(c)]
      BY <1>3, <1>4, <3>1
    <3>3. QED
      BY <2>2, <3>2
  <2>5. QED
    BY <2>3, <2>4
<1>9. p = q
  <2>1. p \in Seq(S) /\ q \in Seq(S) /\ Len(p) = Len(q)
    BY <1>5, <1>6, <1>7
  <2>2. QED
    BY <1>8, <2>1
<1>10. QED
  BY <1>9 DEF p, q, x, y, c

\* The warnings due are about events.
LEMMA DueTyped ==
  ASSUME NEW lg \in Seq(Events)
  PROVE  WarningsDue(lg) \in Seq(EventWarning)
<1> DEFINE W == EventWarning
           Piece(i) == WarningsOf(lg[i], SightBefore(lg, i), ExitBefore(lg, i),
                                  BucketAt(lg, i, lg[i].store))
           ss == [i \in DOMAIN lg |-> Piece(i)]
<1>1. \A i \in DOMAIN lg : lg[i] \in Events
  OBVIOUS
<1>2. \A i \in DOMAIN lg : Piece(i) \in Seq(W)
  BY <1>1, WarningsTyped
<1>3. WarningsDue(lg) = FlattenSeq(ss)
  BY DEF WarningsDue
<1> HIDE DEF Piece, W
<1>4. ss \in Seq(Seq(W))
  BY <1>2
<1> HIDE DEF ss
<1>5. << >> \in Seq(W)
  OBVIOUS
<1>6. FlattenSeq(ss) \in Seq(W)
  BY <1>4, <1>5, FlattenAppend
<1>7. QED
  BY <1>3, <1>6 DEF W

\* The warnings due after an event: those due before, and those of the event.
LEMMA DueGrows ==
  ASSUME NEW lg, NEW e, NEW lf, LogGains(lg, e, lf)
  PROVE  /\ WarningsDue(lg) \in Seq(EventWarning)
         /\ WarningsDue(lf) = WarningsDue(lg)
              \o WarningsOf(e, SightAmong(lg, OfVisitor(lg, e.visitor)),
                            ExitAmong(lg, OfVisitor(lg, e.visitor)),
                            BucketAt(lf, Len(lf), e.store))
<1> DEFINE W == EventWarning
           n == Len(lg)
           Piece(h, i) == WarningsOf(h[i], SightBefore(h, i), ExitBefore(h, i),
                                     BucketAt(h, i, h[i].store))
           ss == [i \in DOMAIN lg |-> Piece(lg, i)]
           tt == [i \in DOMAIN lf |-> Piece(lf, i)]
           last == WarningsOf(e, SightAmong(lg, OfVisitor(lg, e.visitor)),
                              ExitAmong(lg, OfVisitor(lg, e.visitor)),
                              BucketAt(lf, Len(lf), e.store))
<1>1. /\ n \in Nat /\ Len(lf) = n + 1 /\ lf[n + 1] = e
      /\ lg \in Seq(Events) /\ lf \in Seq(Events) /\ e \in Events
      /\ DOMAIN lg = 1 .. n /\ DOMAIN lf = 1 .. n + 1
      /\ \A i \in 1 .. n : lf[i] = lg[i] /\ lg[i] \in Events
  BY DEF LogGains
<1>2. WarningsDue(lg) = FlattenSeq(ss) /\ WarningsDue(lf) = FlattenSeq(tt)
  BY DEF WarningsDue
<1>3. \A i \in 1 .. n : Piece(lg, i) \in Seq(W)
  BY <1>1, WarningsTyped
<1>4. last \in Seq(W)
  BY <1>1, WarningsTyped
<1>5. ASSUME NEW i \in 1 .. n
      PROVE  Piece(lf, i) = Piece(lg, i)
  <2> DEFINE K == EarlierOf(lg, i)
  <2>1. EarlierOf(lf, i) = K /\ K \in SUBSET (1 .. Len(lg))
    BY VisitorPositions
  <2> HIDE DEF K
  <2>2. SightAmong(lf, K) = SightAmong(lg, K) /\ ExitAmong(lf, K) = ExitAmong(lg, K)
    BY <2>1, AmongEarlier
  <2>3. /\ SightBefore(lf, i) = SightAmong(lf, EarlierOf(lf, i))
        /\ SightBefore(lg, i) = SightAmong(lg, EarlierOf(lg, i))
        /\ ExitBefore(lf, i) = ExitAmong(lf, EarlierOf(lf, i))
        /\ ExitBefore(lg, i) = ExitAmong(lg, EarlierOf(lg, i))
    BY BeforeSays
  <2>4. SightBefore(lf, i) = SightBefore(lg, i) /\ ExitBefore(lf, i) = ExitBefore(lg, i)
    BY <2>1, <2>2, <2>3 DEF K
  <2>5. BucketAt(lf, i, lg[i].store) = BucketAt(lg, i, lg[i].store)
    <3>1. i \in 0 .. Len(lg)
      BY <1>1
    <3>2. QED
      BY <3>1, BucketEarlier
  <2>6. QED
    BY <1>1, <2>4, <2>5
<1>6. Piece(lf, n + 1) = last
  <2> DEFINE K == OfVisitor(lg, e.visitor)
  <2>1. EarlierOf(lf, n + 1) = K /\ K \in SUBSET (1 .. Len(lg))
    BY VisitorPositions
  <2> HIDE DEF K
  <2>2. SightAmong(lf, K) = SightAmong(lg, K) /\ ExitAmong(lf, K) = ExitAmong(lg, K)
    BY <2>1, AmongEarlier
  <2>3. /\ SightBefore(lf, n + 1) = SightAmong(lf, EarlierOf(lf, n + 1))
        /\ ExitBefore(lf, n + 1) = ExitAmong(lf, EarlierOf(lf, n + 1))
    BY BeforeSays
  <2>4. QED
    BY <1>1, <2>1, <2>2, <2>3 DEF K
<1> HIDE DEF Piece, last, W, n
<1>7. ss \in Seq(Seq(W)) /\ Len(ss) = n
  BY <1>1, <1>3
<1>8. tt = Append(ss, last)
  BY <1>1, <1>5, <1>6, <1>7
<1> HIDE DEF ss, tt
<1>9. FlattenSeq(ss) \in Seq(W) /\ FlattenSeq(tt) = FlattenSeq(ss) \o last
  BY <1>4, <1>7, <1>8, FlattenAppend
<1>10. QED
  BY <1>2, <1>9 DEF last, W

-----------------------------------------------------------------------------
(***************************************************************************)
(* The inductive invariant with the log.  The verifier keeps tables from   *)
(* which the warnings of the next event are computed; that they say what   *)
(* the log says is what makes the warnings those that the log justifies.   *)
(***************************************************************************)

LogInv ==
  /\ WatchInv
  /\ lastSight = [v \in Visitors |-> SightAmong(log, OfVisitor(log, v))]
  /\ lastExit = [v \in Visitors |-> ExitAmong(log, OfVisitor(log, v))]
  /\ staffBuckets = [s \in Stores |-> BucketAt(log, Len(log), s)]
  /\ warnings = Capped(WarningsDue(log))
  /\ \A v \in Visitors : Told(timelines[v]) = TraceOfLog(log, v)

\* What an empty log says.
LEMMA EmptyLog ==
  /\ \A v : SightAmong(<< >>, OfVisitor(<< >>, v)) = NoSight
  /\ \A v : ExitAmong(<< >>, OfVisitor(<< >>, v)) = NoTime
  /\ \A s : BucketAt(<< >>, Len(<< >>), s) = << >>
  /\ Capped(WarningsDue(<< >>)) = << >>
  /\ Told(<< >>) = << >>
  /\ \A v : TraceOfLog(<< >>, v) = << >>
<1>1. << >> \in Seq(Events) /\ Len(<< >>) = 0 /\ DOMAIN << >> = {} /\ << >> \in Seq(Line)
  OBVIOUS
<1>2. \A v : OfVisitor(<< >>, v) = {}
  BY <1>1 DEF OfVisitor
<1>3. Picked(<< >>, {}) = << >>
  BY <1>1, PickedEnds
<1>4. \A s : RecentAt(<< >>, 0, s) = {}
  BY DEF RecentAt
<1>5. \A s : BucketAt(<< >>, 0, s) = << >>
  <2> SUFFICES ASSUME NEW s
               PROVE  BucketAt(<< >>, 0, s) = << >>
    OBVIOUS
  <2>1. /\ Lines(<< >>) \in Seq(Line)
        /\ BucketAt(<< >>, 0, s) = Picked(Lines(<< >>), RecentAt(<< >>, 0, s))
    <3>1. PICK lg : lg = << >>
      OBVIOUS
    <3>2. lg \in Seq(Events) /\ 0 \in 0 .. Len(lg)
      BY <1>1, <3>1
    <3>3. Lines(lg) \in Seq(Line) /\ BucketAt(lg, 0, s) = Picked(Lines(lg), RecentAt(lg, 0, s))
      BY <3>2, BucketLines
    <3>4. QED
      BY <3>1, <3>3
  <2>2. Picked(Lines(<< >>), {}) = << >>
    <3>1. PICK ls : ls = Lines(<< >>)
      OBVIOUS
    <3>2. ls = << >>
      BY <1>1, <3>1 DEF Lines
    <3>3. QED
      BY <1>3, <3>1, <3>2
  <2>3. QED
    BY <1>4, <2>1, <2>2
<1>6. FlattenSeq(<< >>) = << >>
  BY <1>1 DEF FlattenSeq
<1>7. WarningsDue(<< >>) = << >>
  BY <1>1, <1>6 DEF WarningsDue
<1>8. Capped(<< >>) = << >>
  BY <1>1, CappedShort, WatchAssumption
<1>9. \A v : TraceOfLog(<< >>, v) = << >>
  BY <1>1, <1>6 DEF TraceOfLog
<1>10. Told(<< >>) = << >>
  <2>1. {i \in DOMAIN << >> : << >>[i].category # "TRACKING"} = {}
    BY <1>1
  <2>2. QED
    BY <1>1, <1>3, <2>1 DEF Told
<1>11. QED
  BY <1>1, <1>2, <1>5, <1>7, <1>8, <1>9, <1>10 DEF SightAmong, ExitAmong, ExitsAmong

\* What an event leaves in the tables of the verifier.
LEMMA TablesFollow ==
  ASSUME NEW e \in Events, LogInv, Ingest(e)
  PROVE  /\ RaisedBy(e) = WarningsOf(e, SightAmong(log, OfVisitor(log, e.visitor)),
                                     ExitAmong(log, OfVisitor(log, e.visitor)),
                                     BucketAt(log', Len(log'), e.store))
         /\ lastSight' = [v \in Visitors |-> SightAmong(log', OfVisitor(log', v))]
         /\ lastExit' = [v \in Visitors |-> ExitAmong(log', OfVisitor(log', v))]
         /\ staffBuckets' = [s \in Stores |-> BucketAt(log', Len(log'), s)]
<1>1. e.visitor \in Visitors /\ e.store \in Stores
  BY EventsTyped, EventFields
<1>2. PICK lg : lg = log
  OBVIOUS
<1>3. PICK lf : lf = log'
  OBVIOUS
<1>4. LogGains(lg, e, lf)
  <2>1. lg \in Seq(Events) /\ lf = Append(lg, e)
    BY <1>2, <1>3 DEF LogInv, WatchInv, Ingest, AppendEvent
  <2>2. QED
    BY <2>1, AppendProperties DEF LogGains
<1>5. /\ lastSight = [v \in Visitors |-> SightAmong(lg, OfVisitor(lg, v))]
      /\ lastExit = [v \in Visitors |-> ExitAmong(lg, OfVisitor(lg, v))]
      /\ staffBuckets = [s \in Stores |-> BucketAt(lg, Len(lg), s)]
  BY <1>2 DEF LogInv
<1>6. /\ lastSight' = [lastSight EXCEPT ![e.visitor] = SightOf(e)]
      /\ lastExit' = IF e.type = "EXIT" THEN [lastExit EXCEPT ![e.visitor] = e.time]
                                        ELSE lastExit
      /\ staffBuckets' = [staffBuckets EXCEPT ![e.store] = BucketWith(e)]
  BY DEF Ingest, Remember, SightOf
<1>7. BucketWith(e) = BucketAt(lf, Len(lf), e.store)
  <2>1. PICK b : b = Append(BucketAt(lg, Len(lg), e.store), LineOf(e))
    OBVIOUS
  <2>2. Picked(b, {i \in DOMAIN b : b[i].time > e.time - StaffWindow})
          = BucketAt(lf, Len(lf), e.store)
    BY <1>4, <2>1, BucketAfter
  <2>3. b = Append(staffBuckets[e.store], [staff |-> e.staff, time |-> e.time])
    BY <1>1, <1>5, <2>1 DEF LineOf
  <2>4. BucketWith(e) = Picked(b, {i \in DOMAIN b : b[i].time > e.time - StaffWindow})
    BY <2>3 DEF BucketWith
  <2>5. QED
    BY <2>2, <2>4
<1>8. ASSUME NEW v \in Visitors
      PROVE  /\ SightAmong(lf, OfVisitor(lf, v))
                  = IF e.visitor = v THEN SightOf(e) ELSE SightAmong(lg, OfVisitor(lg, v))
             /\ ExitAmong(lf, OfVisitor(lf, v))
                  = IF e.visitor = v /\ e.type = "EXIT" THEN e.time
                                                        ELSE ExitAmong(lg, OfVisitor(lg, v))
  <2> DEFINE K == OfVisitor(lg, v)
  <2>1. /\ K \in SUBSET (1 .. Len(lg))
        /\ OfVisitor(lf, v) = IF e.visitor = v THEN K \cup {Len(lg) + 1} ELSE K
    BY <1>4, VisitorPositions
  <2> HIDE DEF K
  <2>2. SightAmong(lf, K) = SightAmong(lg, K) /\ ExitAmong(lf, K) = ExitAmong(lg, K)
    BY <1>4, <2>1, AmongEarlier
  <2>3. /\ SightAmong(lf, K \cup {Len(lg) + 1}) = SightOf(e)
        /\ ExitAmong(lf, K \cup {Len(lg) + 1})
             = IF e.type = "EXIT" THEN e.time ELSE ExitAmong(lg, K)
    BY <1>4, <2>1, AmongLatest
  <2>4. QED
    BY <2>1, <2>2, <2>3 DEF K
<1>9. ASSUME NEW s \in Stores
      PROVE  BucketAt(lf, Len(lf), s) = IF s = e.store THEN BucketWith(e)
                                                       ELSE BucketAt(lg, Len(lg), s)
  BY <1>4, <1>7, BucketElsewhere
<1>10. lastSight' = [v \in Visitors |-> SightAmong(lf, OfVisitor(lf, v))]
  BY <1>1, <1>5, <1>6, <1>8
<1>11. lastExit' = [v \in Visitors |-> ExitAmong(lf, OfVisitor(lf, v))]
  BY <1>1, <1>5, <1>6, <1>8
<1>12. staffBuckets' = [s \in Stores |-> BucketAt(lf, Len(lf), s)]
  BY <1>1, <1>5, <1>6, <1>9
<1>13. RaisedBy(e) = WarningsOf(e, SightAmong(lg, OfVisitor(lg, e.visitor)),
                                ExitAmong(lg, OfVisitor(lg, e.visitor)),
                                BucketAt(lf, Len(lf), e.store))
  BY <1>1, <1>5, <1>7 DEF RaisedBy
<1>14. QED
  BY <1>2, <1>3, <1>10, <1>11, <1>12, <1>13

\* An event that is ingested adds to the warnings and the timelines what it adds to
\* what the log justifies and tells.
LEMMA IngestFollowsLog ==
  ASSUME NEW e \in Events, LogInv, Ingest(e), toReplay' \in Seq(Events)
  PROVE  LogInv'
<1>1. WatchInv'
  BY IngestKeepsWatch DEF LogInv
<1>2. WatchInv /\ SessionInv /\ SessionInv' /\ e.visitor \in Visitors
  BY <1>1, EventsTyped, EventFields DEF LogInv, WatchInv
<1>3. PICK lg : lg = log
  OBVIOUS
<1>4. PICK lf : lf = log'
  OBVIOUS
<1>5. LogGains(lg, e, lf) /\ lg \in Seq(Events) /\ lf = Append(lg, e)
  <2>1. lg \in Seq(Events) /\ lf = Append(lg, e)
    BY <1>3, <1>4 DEF LogInv, WatchInv, Ingest, AppendEvent
  <2>2. QED
    BY <2>1, AppendProperties DEF LogGains
<1>6. warnings' = Capped(WarningsDue(lf))
  <2> DEFINE r == RaisedBy(e)
             d == WarningsDue(lg)
  <2>1. r \in Seq(EventWarning) /\ warnings' = Capped(warnings \o r)
    BY <1>2, IngestWarns
  <2>2. d \in Seq(EventWarning) /\ WarningsDue(lf) = d \o r
    <3>1. /\ d \in Seq(EventWarning)
          /\ WarningsDue(lf) = d \o WarningsOf(e, SightAmong(lg, OfVisitor(lg, e.visitor)),
                                              ExitAmong(lg, OfVisitor(lg, e.visitor)),
                                              BucketAt(lf, Len(lf), e.store))
      BY <1>5, DueGrows
    <3>2. r = WarningsOf(e, SightAmong(lg, OfVisitor(lg, e.visitor)),
                         ExitAmong(lg, OfVisitor(lg, e.visitor)),
                         BucketAt(lf, Len(lf), e.store))
      BY <1>3, <1>4, TablesFollow
    <3>3. QED
      BY <3>1, <3>2
  <2>3. warnings = Capped(d)
    BY <1>3 DEF LogInv
  <2> HIDE DEF r, d
  <2>4. Capped(Capped(d) \o r) = Capped(d \o r)
    BY <2>1, <2>2, CappedConcat
  <2>5. QED
    BY <2>1, <2>2, <2>3, <2>4
<1>7. \A v \in Visitors : Told(timelines'[v]) = TraceOfLog(lf, v)
  <2> DEFINE u == e.visitor
             tl == timelines[u]
             H == HandlerRecords(e)
             T == TrackingRecords(RaisedBy(e), active'[u])
  <2>1. /\ tl \in Seq(Record)
        /\ timelines \in [Visitors -> Seq(Record)]
        /\ \A v \in Visitors : Told(timelines[v]) = TraceOfLog(lg, v)
        /\ Tells(sessions, u, tl)
    BY <1>2, <1>3 DEF LogInv, WatchInv
  <2>2. H \in Seq(Record) /\ Told(H) = TraceOf(e)
    <3>1. ProcessEvent(e)
      BY DEF Ingest
    <3>2. Names(e, SessionIndex(e))
      BY <1>2, <3>1, HandlerNames
    <3>3. H \in Seq(Record)
      BY <1>2, <2>1, <3>2, HandlerAdds
    <3>4. QED
      BY <3>3, ToldRecords
  <2>3. T \in Seq(Record) /\ Told(T) = << >>
    <3>1. RaisedBy(e) \in Seq(EventWarning)
      BY <1>2, IngestWarns
    <3>2. T \in Seq(Record)
      BY <1>2, <3>1, TrackingAdds
    <3>3. QED
      BY <3>2, TrackingUntold
  <2>4. timelines' = [timelines EXCEPT ![u] = tl \o H \o T]
    BY DEF Ingest
  <2> HIDE DEF tl, H, T
  <2>5. /\ tl \o H \in Seq(Record)
        /\ Told(tl \o H) = Told(tl) \o Told(H)
        /\ Told(tl) \in Seq(Mark) /\ Told(H) \in Seq(Mark)
    BY <2>1, <2>2, ToldConcat, ConcatProperties
  <2>6. Told((tl \o H) \o T) = Told(tl) \o Told(H)
    <3>1. Told((tl \o H) \o T) = Told(tl \o H) \o Told(T)
      BY <2>3, <2>5, ToldConcat
    <3>2. Told(tl) \o Told(H) \in Seq(Mark)
      BY <2>5, ConcatProperties
    <3>3. (Told(tl) \o Told(H)) \o << >> = Told(tl) \o Told(H)
      BY <3>2, ConcatEmptySeq
    <3>4. QED
      BY <2>3, <2>5, <3>1, <3>3
  <2>7. \A v : TraceOfLog(lf, v) = IF u = v THEN TraceOfLog(lg, v) \o TraceOf(e)
                                            ELSE TraceOfLog(lg, v)
    BY <1>5, TraceGrows
  <2>8. Told(tl) = TraceOfLog(lg, u)
    BY <1>2, <2>1 DEF tl
  <2> HIDE DEF u
  <2>9. \A v \in Visitors : timelines'[v] = IF v = u THEN (tl \o H) \o T ELSE timelines[v]
    BY <2>1, <2>4
  <2>10. QED
    BY <2>1, <2>2, <2>6, <2>7, <2>8, <2>9
<1>8. /\ lastSight' = [v \in Visitors |-> SightAmong(lf, OfVisitor(lf, v))]
      /\ lastExit' = [v \in Visitors |-> ExitAmong(lf, OfVisitor(lf, v))]
      /\ staffBuckets' = [s \in Stores |-> BucketAt(lf, Len(lf), s)]
  BY <1>4, TablesFollow
<1>9. QED
  BY <1>1, <1>4, <1>6, <1>7, <1>8 DEF LogInv

\* Every step keeps the invariant.
LEMMA LogStep ==
  ASSUME LogInv, [WatchNext]_watchVars
  PROVE  LogInv'
<1>1. WatchInv'
  BY WatchStep DEF LogInv
<1>2. CASE UNCHANGED watchVars
  BY <1>1, <1>2 DEF watchVars, storeVars, verifierVars, LogInv
<1>3. ASSUME NEW e \in Events, Request(e)
      PROVE  LogInv'
  <2>1. Ingest(e) /\ toReplay' \in Seq(Events)
    BY <1>3 DEF Request, LogInv, WatchInv
  <2>2. QED
    BY <2>1, IngestFollowsLog
<1>4. ASSUME NEW s \in Stores, BeginReplay(s)
      PROVE  LogInv'
  <2>1. /\ log' = << >> /\ warnings' = << >>
        /\ lastSight' = [v \in Visitors |-> NoSight]
        /\ lastExit' = [v \in Visitors |-> NoTime]
        /\ staffBuckets' = [t \in Stores |-> << >>]
        /\ timelines' = [v \in Visitors |-> << >>]
    BY <1>4 DEF BeginReplay, ResetStores, VerifierClear
  <2>2. QED
    BY <1>1, <2>1, EmptyLog DEF LogInv
<1>5. CASE IngestNext
  <2> DEFINE e == Head(toReplay)
  <2>1. toReplay \in Seq(Events) /\ toReplay # << >>
    BY <1>5 DEF IngestNext, LogInv, WatchInv
  <2>2. e \in Events /\ Tail(toReplay) \in Seq(Events)
    BY <2>1, HeadTailProperties
  <2>3. Ingest(e) /\ toReplay' \in Seq(Events)
    BY <1>5, <2>2 DEF IngestNext
  <2> HIDE DEF e
  <2>4. QED
    BY <2>2, <2>3, IngestFollowsLog
<1>6. QED
  BY <1>2, <1>3, <1>4, <1>5 DEF WatchNext

\* The invariant with the log holds in every reachable state.
THEOREM LogInvariant == WatchSpec => []LogInv
<1>1. WatchInit => LogInv
  <2> SUFFICES ASSUME WatchInit
               PROVE  LogInv
    OBVIOUS
  <2>1. WatchInv
    BY WatchInitInv
  <2>2. /\ log = << >> /\ warnings = << >>
        /\ lastSight = [v \in Visitors |-> NoSight]
        /\ lastExit = [v \in Visitors |-> NoTime]
        /\ staffBuckets = [s \in Stores |-> << >>]
        /\ timelines = [v \in Visitors |-> << >>]
    BY DEF WatchInit, VerifierInit, AuditInit
  <2>3. QED
    BY <2>1, <2>2, EmptyLog DEF LogInv
<1>2. LogInv /\ [WatchNext]_watchVars => LogInv'
  BY LogStep
<1>3. QED
  BY <1>1, <1>2, PTL DEF WatchSpec

\* The warnings are the newest of those that the event log justifies, through any
\* requests and replays: the tables the verifier keeps between events follow the
\* log, and a reset forgets them all (verifier.py 126-165, 391-403, 435-441).
THEOREM WarningsDoFollowLog == WatchSpec => []WarningsFollowLog
<1>1. LogInv => WarningsFollowLog
  <2> SUFFICES ASSUME LogInv
               PROVE  WarningsFollowLog
    OBVIOUS
  <2> DEFINE due == WarningsDue(log)
  <2>1. due \in Seq(EventWarning)
    BY DueTyped DEF LogInv, WatchInv
  <2>2. warnings = Capped(due) /\ WarningCap \in Nat
    BY WatchAssumption DEF LogInv
  <2> HIDE DEF due
  <2>3. Len(due) \in Nat /\ SubSeq(due, 1, Len(due)) = due
    BY <2>1, SubSeqFull
  <2>4. warnings = SubSeq(due, (IF Len(due) > WarningCap THEN Len(due) - WarningCap ELSE 0) + 1,
                          Len(due))
    <3>1. CASE Len(due) <= WarningCap
      <4>1. ~(Len(due) > WarningCap) /\ 0 + 1 = 1
        BY <2>2, <2>3, <3>1
      <4>2. warnings = due
        BY <2>2, <3>1 DEF Capped
      <4>3. QED
        BY <2>3, <4>1, <4>2
    <3>2. CASE ~(Len(due) <= WarningCap)
      <4>1. Len(due) > WarningCap
        BY <2>2, <2>3, <3>2
      <4>2. QED
        BY <2>2, <3>2, <4>1 DEF Capped
    <3>3. QED
      BY <3>1, <3>2
  <2>5. QED
    BY <2>4 DEF WarningsFollowLog, due
<1>2. QED
  BY <1>1, LogInvariant, PTL

\* The timeline of a visitor tells the stored events of the visitor in the order in
\* which they came, each of them, also after a replay (audit.py 153-155).
THEOREM TimelineDoesTellLog == WatchSpec => []TimelineTellsLog
<1>1. LogInv => TimelineTellsLog
  BY DEF LogInv, TimelineTellsLog
<1>2. QED
  BY <1>1, LogInvariant, PTL

=============================================================================
