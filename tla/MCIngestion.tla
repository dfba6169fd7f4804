---------------------------- MODULE MCIngestion ----------------------------
(***************************************************************************)
(* TLC instances of Ingestion.                                             *)
(***************************************************************************)
EXTENDS Ingestion

CONSTANTS s1, s2, v1, v2, zBilling, zFloor

Ev(id, type, s, v, t, z, d) ==
  [id |-> id, type |-> type, store |-> s, visitor |-> v, time |-> t,
   zone |-> z, dwell |-> d, staff |-> FALSE]

MCStores   == {s1, s2}
MCVisitors == {v1, v2}
MCZones    == {zBilling, zFloor}

\* One visitor's visit with two re-entries, the second in another store. Every
\* order of arrival, and every repetition, is explored, so that exits and zone
\* events also come before the entry, and entries after an open session. Among
\* them are a zone event without a zone, one that makes the sessionizer raise,
\* an EXIT that is rejected for a time, and events that share an id.
MCEvents == {
  Ev(1, "ENTRY",                 s1, v1, 10, NoZone,   0),
  Ev(2, "REENTRY",               s1, v1, 40, NoZone,   0),
  Ev(3, "EXIT",                  s1, v1, 30, NoZone,   0),
  Ev(5, "ZONE_DWELL",            s1, v1, 16, NoZone,   5),
  Ev(5, "ZONE_EXIT",             s1, v1, 20, zFloor,   8),
  Ev(6, "BILLING_QUEUE_ABANDON", s1, v1, 25, NoZone,   0),
  Ev(6, "BILLING_QUEUE_JOIN",    s1, v1, 22, zBilling, 0),
  Ev(4, "REENTRY",               s2, v1, 60, NoZone,   0)}

MCSkewed  == {e \in MCEvents : e.id = 3}
MCRaising == {e \in MCEvents : e.type = "BILLING_QUEUE_JOIN"}

Twice(i) == {<<Malformed, e, f>> : e, f \in {g \in MCEvents : g.id = i}}
MCRequests == {<<e>> : e \in MCEvents} \cup Twice(6)

=============================================================================
