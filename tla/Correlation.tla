---------------------------- MODULE Correlation ----------------------------
(***************************************************************************)
(* app/correlation.py: the CorrelationEngine, which marks a session as     *)
(* converted when a POS transaction of its store falls in the window after *)
(* its last billing-zone event.                                            *)
(*                                                                         *)
(* A session is named by its position in `sessions`: the code names it by  *)
(* a fresh session_id.                                                     *)
(***************************************************************************)
EXTENDS Sessionizer, FiniteSets

CONSTANTS
  BillingZones,   \* zone ids with one of BILLING_ZONE_PREFIXES
  BillingWindow,  \* BILLING_WINDOW_SEC
  PosTimes,       \* times a POS transaction may have
  Unparsed        \* a `timestamp` column that fromisoformat refuses

ASSUME CorrelationAssumption ==
  /\ BillingQueue \in BillingZones
  /\ BillingZones \subseteq Zones
  /\ BillingWindow \in Nat
  /\ PosTimes \subseteq Time \cup {Unparsed}
  /\ Unparsed \notin Time

VARIABLES
  transactions,   \* CorrelationEngine._transactions: the times, per store
  converted       \* CorrelationEngine._converted_sessions

correlationVars == <<transactions, converted>>

\* load_csv, called once when the API starts, loads some set of transactions;
\* it takes a `timestamp` column as it stands.
CorrelationInit ==
  /\ transactions \in [Stores -> SUBSET PosTimes]
  /\ converted = {}

-----------------------------------------------------------------------------

JoinTimes(s) == {q.time : q \in {p \in s.queue : p.type = "BILLING_QUEUE_JOIN"}}

Latest(S) == CHOOSE t \in S : \A u \in S : u <= t

\* _last_billing_ts: the latest JOIN; without one, a session that visited a
\* billing zone is placed at its end, or at its start while it is open.
LastBilling(s) ==
  IF Joined(s) THEN Latest(JoinTimes(s))
  ELSE IF s.zones \cap BillingZones = {} THEN NoTime
  ELSE IF IsOpen(s) THEN s.start
  ELSE s.end

InWindow(from, t) == from <= t /\ t <= from + BillingWindow

\* The stores whose transactions correlate cannot parse: it raises before it
\* looks at a session of theirs.
Unreadable == {s \in Stores : Unparsed \in transactions[s]}

\* The loop over the stores takes them in the order of their first sessions
\* and ends where correlate raises: the stores it is done with before that.
Reached(s) ==
  \A j \in Index : sessions[j].store \in Unreadable =>
    \E k \in 1..(j - 1) : sessions[k].store = s

\* correlate raises for some store: the request is answered 503.
Raises == \E j \in Index : sessions[j].store \in Unreadable

\* The sessions that a transaction of their store, which can be read, converts.
Due ==
  {i \in Index \ converted :
     LET s == sessions[i]
     IN  /\ s.store \notin Unreadable
         /\ ~s.staff
         /\ LastBilling(s) # NoTime
         /\ \E t \in transactions[s.store] : InWindow(LastBilling(s), t)}

\* Mutated ToConvert: staff are customers.
ToConvertStaff ==
  {i \in Index \ converted :
     LET s == sessions[i]
     IN  /\ Reached(s.store)
         /\ LastBilling(s) # NoTime
         /\ \E t \in transactions[s.store] : InWindow(LastBilling(s), t)}

\* The sessions a run of the correlation over all stores converts.
ToConvert == {i \in Due : Reached(sessions[i].store)}

\* Mutated Correlate: the session is not promoted.
CorrelateUnpromoted ==
  /\ converted' = converted \cup ToConvert
  /\ UNCHANGED <<transactions, sessions>>

\* Mutated Correlate: open sessions are passed over.
CorrelateClosed ==
  LET now == {i \in ToConvert : ~IsOpen(sessions[i])}
  IN  /\ converted' = converted \cup now
      /\ sessions' = [i \in Index |->
                        IF i \in now
                        THEN [sessions[i] EXCEPT !.candidate = TRUE]
                        ELSE sessions[i]]
      /\ UNCHANGED transactions

\* correlate, for one store after the other, up to the first that raises.
Correlate ==
  /\ converted' = converted \cup ToConvert
  /\ sessions' = [i \in Index |->
                    IF i \in ToConvert
                    THEN [sessions[i] EXCEPT !.candidate = TRUE]
                    ELSE sessions[i]]
  /\ UNCHANGED transactions

-----------------------------------------------------------------------------

CorrelationTypeOK ==
  /\ transactions \in [Stores -> SUBSET PosTimes]
  /\ converted \subseteq Nat

\* A converted session is a customer's, and a transaction of its store follows,
\* within the window, a moment it was at the billing counter: one of its JOINs
\* or, when it visited a billing zone, its start or end. It stays true of a
\* session converted by an earlier run, whatever events came later.
ConvertedJustified ==
  \A i \in converted :
    /\ i \in Index
    /\ ~sessions[i].staff
    /\ sessions[i].candidate
    /\ sessions[i].zones \cap BillingZones # {}
    /\ \E t \in transactions[sessions[i].store],
          from \in JoinTimes(sessions[i]) \cup
                   ({sessions[i].start, sessions[i].end} \ {NoTime}) :
         t # Unparsed /\ InWindow(from, t)

\* A session is a purchase candidate for a reason: it joined the billing queue,
\* or the correlation engine converted it (models.py 209, 229).
CandidateJustified ==
  \A i \in Index :
    sessions[i].candidate <=> (Joined(sessions[i]) \/ i \in converted)

=============================================================================
