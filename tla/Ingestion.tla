----------------------------- MODULE Ingestion -----------------------------
(***************************************************************************)
(* app/ingestion.py: IngestionPipeline.ingest_batch, which validates,      *)
(* deduplicates, stores and sessionizes the raw events of a request one    *)
(* after the other.                                                        *)
(*                                                                         *)
(* The requests are handled by one asyncio event loop (app/main.py declares*)
(* its handlers async and they await nothing while they run), so that a    *)
(* request starts only when the one before it is done.  A client may send  *)
(* any batch any number of times, in any order.                            *)
(***************************************************************************)
EXTENDS EventStore, FiniteSets

CONSTANTS
  Malformed,      \* a raw event that never validates
  Skewed,         \* events rejected while they lie over 60 s in the future
  Raising,        \* events on which process_event raises before it changes a session
                  \* (a raise after that, in the audit trail, is as AcceptEvent)
  Requests        \* the batches clients send

ASSUME IngestionAssumption ==
  /\ Malformed \notin Event
  /\ Skewed \subseteq Events
  /\ Raising \subseteq Events
  /\ Requests \subseteq Seq(Events \cup {Malformed})

VARIABLES
  busy,           \* a request is being handled
  batch,          \* its raw events still to be handled
  response        \* the IngestResponse it has built so far

ingestVars == <<busy, batch, response>>

NoResponse == [accepted |-> 0, duplicates |-> 0, rejected |-> 0]

IngestInit ==
  /\ log = << >>
  /\ seen = {}
  /\ busy = FALSE
  /\ batch = << >>
  /\ response = NoResponse

-----------------------------------------------------------------------------

\* POST /events/ingest is called with batch b.
StartRequest(b) ==
  /\ ~busy
  /\ busy' = TRUE
  /\ batch' = b
  /\ response' = NoResponse
  /\ UNCHANGED <<storeVars, sessionVars>>

\* The loop of ingest_batch moves to the next raw event after counting this
\* one in the field `outcome` of the response.
NextRaw(outcome) ==
  /\ batch' = Tail(batch)
  /\ response' = [response EXCEPT ![outcome] = @ + 1]
  /\ UNCHANGED busy

\* Mutated RejectEvent: the event is stored before it is validated.
RejectStored ==
  /\ batch # << >>
  /\ Head(batch) \in {Malformed} \cup Skewed
  /\ NextRaw("rejected")
  /\ log' = Append(log, Head(batch))
  /\ UNCHANGED <<seen, sessionVars>>

\* Mutated RejectEvent: a rejected event ends the batch.
RejectAborts ==
  /\ batch # << >>
  /\ Head(batch) \in {Malformed} \cup Skewed
  /\ batch' = << >>
  /\ response' = [response EXCEPT !.rejected = @ + 1]
  /\ UNCHANGED <<busy, storeVars, sessionVars>>

\* 1. Validate: a rejected event leaves no trace in the store.
RejectEvent ==
  /\ batch # << >>
  /\ Head(batch) \in {Malformed} \cup Skewed
  /\ NextRaw("rejected")
  /\ UNCHANGED <<storeVars, sessionVars>>

\* Mutated SkipDuplicate: the duplicate is not stored again, but sessionized.
DuplicateProcessed ==
  /\ batch # << >>
  /\ Head(batch) \in Events
  /\ Head(batch).id \in seen
  /\ NextRaw("duplicates")
  /\ ProcessEvent(Head(batch))
  /\ UNCHANGED storeVars

\* 2. Deduplicate.
SkipDuplicate ==
  /\ batch # << >>
  /\ Head(batch) \in Events
  /\ Head(batch).id \in seen
  /\ NextRaw("duplicates")
  /\ UNCHANGED <<storeVars, sessionVars>>

\* Mutated AcceptEvent: no test for a duplicate.
AcceptAgain ==
  /\ batch # << >>
  /\ Head(batch) \in Events \ Raising
  /\ NextRaw("accepted")
  /\ AppendEvent(Head(batch))
  /\ ProcessEvent(Head(batch))

\* 3. Append and 4. Sessionize.
AcceptEvent ==
  /\ batch # << >>
  /\ Head(batch) \in Events \ Raising
  /\ Head(batch).id \notin seen
  /\ NextRaw("accepted")
  /\ AppendEvent(Head(batch))
  /\ ProcessEvent(Head(batch))

\* Mutated AcceptUnprocessed: process_event raises half-way, the ledger changed.
AcceptHalfProcessed ==
  /\ batch # << >>
  /\ Head(batch) \in Raising
  /\ Head(batch).id \notin seen
  /\ NextRaw("accepted")
  /\ AppendEvent(Head(batch))
  /\ reentryCounts' = [reentryCounts EXCEPT ![Head(batch).visitor] = @ + 1]
  /\ UNCHANGED <<sessions, active>>

\* 3. and 4. when process_event raises: the exception is logged and swallowed.
AcceptUnprocessed ==
  /\ batch # << >>
  /\ Head(batch) \in Raising
  /\ Head(batch).id \notin seen
  /\ NextRaw("accepted")
  /\ AppendEvent(Head(batch))
  /\ UNCHANGED sessionVars

\* ingest_batch returns its response.
EndBatch ==
  /\ busy
  /\ batch = << >>
  /\ busy' = FALSE
  /\ UNCHANGED <<batch, response, storeVars>>

IngestStep ==
  \/ \E b \in Requests : StartRequest(b)
  \/ RejectEvent
  \/ SkipDuplicate
  \/ AcceptEvent
  \/ AcceptUnprocessed

Init == SessionInit /\ IngestInit

Next == IngestStep \/ (EndBatch /\ UNCHANGED sessionVars)

vars == <<sessionVars, storeVars, ingestVars>>

Spec == Init /\ [][Next]_vars

\* The event loop runs a handler it has started to its end; nothing makes a
\* client send a request.
FairSpec == Spec /\ WF_vars(Next /\ busy)

-----------------------------------------------------------------------------
(***************************************************************************)
(* Properties                                                              *)
(***************************************************************************)

RawEvent == Events \cup {Malformed}

TypeOK ==
  /\ SessionTypeOK
  /\ log \in Seq(Events)
  /\ seen \subseteq Nat
  /\ busy \in BOOLEAN
  /\ batch \in Seq(RawEvent)
  /\ response \in [{"accepted", "duplicates", "rejected"} -> Nat]

\* The events of visitor v in the log, by type, that reached the sessionizer.
Processed(v, types) ==
  {i \in DOMAIN log : /\ log[i].visitor = v
                      /\ log[i].type \in types
                      /\ log[i] \notin Raising}

\* _seen_ids is the set of ids of the log, and no id is stored twice: however
\* often a batch is sent, an event is in the store at most once.
StoredOnce ==
  /\ seen = {log[i].id : i \in DOMAIN log}
  /\ \A i, j \in DOMAIN log : log[i].id = log[j].id => i = j

SentTo(z) == [i \in DOMAIN log |-> IF log[i].zone = z THEN log[i].dwell ELSE 0]

\* The time a visitor spent in a zone is accounted exactly once: over all the
\* sessions of the visitor it is the sum of the dwell of the stored ZONE_EXIT
\* and ZONE_DWELL events, whatever was resent, and whatever session was open.
DwellConserved ==
  \A v \in Visitors, z \in Zones :
    SumOver(DwellIn(z), SessionsOf(v)) =
    SumOver(SentTo(z), Processed(v, {"ZONE_EXIT", "ZONE_DWELL"}))

\* Every stored queue event is on a session of its visitor, and no session
\* shows a queue event the log does not have.
QueueConserved ==
  \A v \in Visitors :
    UNION {sessions[i].queue : i \in SessionsOf(v)} =
    {QueueEventOf(log[i]) :
       i \in Processed(v, {"BILLING_QUEUE_JOIN", "BILLING_QUEUE_ABANDON"})}

\* The re-entries a visitor is charged with are the stored REENTRY events.
ReentryConserved ==
  \A v \in Visitors :
    reentryCounts[v] = Cardinality(Processed(v, {"REENTRY"}))

CountOf == [i \in Index |-> sessions[i].count]

\* The events of visitor v that event_count counts once or, an EXIT that finds
\* no session, twice.
CountedEvents(v) ==
  {i \in Processed(v, EventType) :
     log[i].type \in {"ZONE_ENTER", "ZONE_EXIT", "ZONE_DWELL"}
       => log[i].zone # NoZone}

\* event_count never loses an event: the sessions of a visitor count every
\* stored event of that visitor except zone events without a zone, and only an
\* EXIT is ever counted twice (the stub session).
EventCountBounds ==
  \A v \in Visitors :
    LET total   == SumOver(CountOf, SessionsOf(v))
        counted == Cardinality(CountedEvents(v))
    IN  /\ total >= counted
        /\ total <= counted + Cardinality(Processed(v, {"EXIT"}))

ProcessedAt(v, types, t) == {i \in Processed(v, types) : log[i].time = t}

\* The sessions of visitor v that begin, and that end, at time t.
BegunAt(v, t) == {i \in SessionsOf(v) : sessions[i].start = t}

EndedAt(v, t) == {i \in SessionsOf(v) : sessions[i].end = t}

\* The times the log and the sessions name.
Moments ==
  ({log[i].time : i \in DOMAIN log} \cup {sessions[i].start : i \in Index}
    \cup {sessions[i].end : i \in Index}) \ {NoTime}

VisitsAt(v, t) ==
  /\ Cardinality(ProcessedAt(v, {"ENTRY"}, t)) <= Cardinality(BegunAt(v, t))
  /\ Cardinality(BegunAt(v, t)) <= Cardinality(ProcessedAt(v, EventType, t))
  /\ Cardinality(ProcessedAt(v, {"EXIT"}, t)) <= Cardinality(EndedAt(v, t))
  /\ Cardinality(EndedAt(v, t)) <= Cardinality(ProcessedAt(v, {"EXIT", "ENTRY"}, t))

\* Every stored ENTRY begins a session and every stored EXIT ends one, each a
\* session of its own, at the time of the event; and no session begins or ends
\* without a cause of its own in the log: as many of a visitor's sessions begin
\* at a time as the visitor has events at it, at most, and only an EXIT or an
\* ENTRY (the orphaned session) ends one (sessionizer.py 207-343, 449-476).
VisitsConserved == \A v \in Visitors, t \in Moments : VisitsAt(v, t)

\* What the sessions say of a visitor is what the log holds: the dwell and the
\* re-entries counted once, the same queue events, a session of its own begun by
\* every ENTRY and ended by every EXIT, none begun or ended without a stored
\* event, and no event but an EXIT counted twice.
SessionsMatchLog ==
  /\ DwellConserved
  /\ QueueConserved
  /\ ReentryConserved
  /\ VisitsConserved
  /\ EventCountBounds

\* "A malformed event never aborts the rest of the batch": a valid event of a
\* batch under way is eventually in the store, whatever else is in the batch
\* (ingestion.py 12).
PartialSuccess ==
  \A e \in Events \ Skewed :
    (\E i \in DOMAIN batch : batch[i] = e) ~> e.id \in seen

\* Ingestion is one way to drive the sessionizer: each of its steps is a
\* sessionizer step or leaves the sessions alone.
SessionizerRefined == SessionSpec

=============================================================================
