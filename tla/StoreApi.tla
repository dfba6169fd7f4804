------------------------------ MODULE StoreApi ------------------------------
(***************************************************************************)
(* app/main.py: the ingest endpoint.  It runs ingest_batch over the whole  *)
(* batch and then, before it answers, the POS correlation over all         *)
(* sessions.  The projections that GET requests compute from the sessions  *)
(* (app/projections.py) are state functions.                               *)
(***************************************************************************)
EXTENDS Ingestion, Correlation

apiVars == <<vars, correlationVars>>

ApiInit == Init /\ CorrelationInit

\* The end of the request: ingest_batch has returned, the correlation runs and
\* the answer goes out: the response or, when correlate raises, a 503, after the
\* stores before it have been correlated.
FinishRequest ==
  /\ EndBatch
  /\ Correlate
  /\ UNCHANGED <<active, reentryCounts>>

ApiNext ==
  \/ IngestStep /\ UNCHANGED correlationVars
  \/ FinishRequest

ApiSpec == ApiInit /\ [][ApiNext]_apiVars

-----------------------------------------------------------------------------
(***************************************************************************)
(* Projections                                                             *)
(***************************************************************************)

\* customer_sessions: the sessions of a store that are not staff.
CustomerSessions(store) ==
  {i \in Index : sessions[i].store = store /\ ~sessions[i].staff}

VisitorsOf(S) == {sessions[i].visitor : i \in S}

\* is_conv
CountsAsConverted(i) == i \in converted \/ sessions[i].candidate

\* FunnelProjection: the visitors that reached each stage, over all their
\* sessions in the store.
EntryStage(store)   == VisitorsOf(CustomerSessions(store))
ZoneStage(store)    ==
  VisitorsOf({i \in CustomerSessions(store) : sessions[i].zones # {}})
BillingStage(store) ==
  VisitorsOf({i \in CustomerSessions(store) :
                sessions[i].candidate \/ CountsAsConverted(i)})
PurchaseStage(store) ==
  VisitorsOf({i \in CustomerSessions(store) : CountsAsConverted(i)})

-----------------------------------------------------------------------------
(***************************************************************************)
(* Properties                                                              *)
(***************************************************************************)

Idle == ~busy

\* The funnel never widens: in every store, a visitor counted at a stage is
\* counted at every earlier one, so that no drop-off is negative, while a
\* request is being handled as well (a replayed session may be converted
\* without a JOIN, a JOIN may come without any ZONE_ENTER).
FunnelNarrows ==
  \A store \in Stores :
    /\ PurchaseStage(store) \subseteq BillingStage(store)
    /\ BillingStage(store) \subseteq ZoneStage(store)
    /\ ZoneStage(store) \subseteq EntryStage(store)

\* Whenever no request is being handled, every session that a transaction should
\* have converted is converted, unless the correlation raised: then the last
\* request was answered 503, although its events are stored and sessionized
\* (main.py 237-254), and a session left over is of a store whose first session
\* came after one of a store with a time that does not parse.
CorrelationSettled ==
  Idle =>
    /\ ~Raises => Due = {}
    /\ \A i \in Due : \E j \in 1..(i - 1) :
         /\ sessions[j].store \in Unreadable
         /\ \A k \in 1..j : sessions[k].store # sessions[i].store

\* Once a session is closed only the correlation engine touches it, and only
\* to promote it to a purchase.
ClosedOnlyPromoted ==
  [][\A i \in Index : ~IsOpen(sessions[i]) =>
       /\ i \in DOMAIN sessions'
       /\ \/ sessions'[i] = sessions[i]
          \/ /\ i \in converted' \ converted
             /\ sessions'[i] = [sessions[i] EXCEPT !.candidate = TRUE]]_apiVars

\* What main.py's docstring of the endpoint promises ("safe to call twice with
\* the same payload", main.py 224): a request all of whose valid events are
\* already stored leaves every session and every conversion as it found them.
ResendChangesNothing ==
  [][(busy /\ \A i \in DOMAIN batch :
        batch[i] \in Events => batch[i].id \in seen)
       /\ response.accepted = 0
     => UNCHANGED <<sessionVars, storeVars, converted>>]_apiVars

=============================================================================
