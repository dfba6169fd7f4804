----------------------------- MODULE MCStoreApi -----------------------------
(***************************************************************************)
(* TLC instances of StoreApi.                                              *)
(***************************************************************************)
EXTENDS StoreApi

CONSTANTS s1, s2, v1, v2, zBilling, zFloor

Ev(id, type, s, v, t, z, staff) ==
  [id |-> id, type |-> type, store |-> s, visitor |-> v, time |-> t,
   zone |-> z, dwell |-> 0, staff |-> staff]

MCStores   == {s1, s2}
MCVisitors == {v1, v2}
MCZones    == {zBilling, zFloor}
MCBillingZones == {zBilling}

AtTill   == Ev(2, "ZONE_ENTER",         s1, v1, 50,  zBilling, FALSE)
Join     == Ev(3, "BILLING_QUEUE_JOIN", s1, v1, 100, NoZone,   FALSE)
JoinLate == Ev(4, "BILLING_QUEUE_JOIN", s1, v1, 450, zBilling, FALSE)
Exit     == Ev(5, "EXIT",               s1, v1, 600, NoZone,   FALSE)
Cashier  == Ev(6, "BILLING_QUEUE_JOIN", s2, v2, 120, NoZone,   TRUE)

\* The customer's visit, a JOIN that may come after the EXIT, and a cashier seen
\* queueing at another store, whose sessions the correlation takes up before or
\* after the customer's.
MCEvents == {AtTill, Join, JoinLate, Exit, Cashier}
MCPosTimes == {200, 700, Unparsed}
MCRequests ==
  {<<e>> : e \in MCEvents} \cup {<<Join, JoinLate>>, <<AtTill, Exit>>}

NoEvents == {}

=============================================================================
