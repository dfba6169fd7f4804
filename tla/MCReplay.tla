------------------------------ MODULE MCReplay ------------------------------
(***************************************************************************)
(* TLC instances of Replay.                                                *)
(***************************************************************************)
EXTENDS Replay, TLC

CONSTANTS s1, s2, s3, v1, v2, zBilling, zFloor

Ev(id, type, s, v, t, z, d) ==
  [id |-> id, type |-> type, store |-> s, visitor |-> v, time |-> t,
   zone |-> z, dwell |-> d, staff |-> FALSE]

MCStores   == {s1, s2, s3}
MCVisitors == {v1, v2}
MCZones    == {zBilling, zFloor}
MCBillingZones == {zBilling}

AtTill   == Ev(1, "ZONE_ENTER", s1, v1, 10,  zBilling, 0)
LeftTill == Ev(3, "ZONE_EXIT",  s1, v1, 600, zBilling, 550)
Exit     == Ev(4, "EXIT",       s1, v1, 600, NoZone,   0)
Reentry  == Ev(5, "REENTRY",    s1, v1, 700, NoZone,   0)
Other    == Ev(6, "ENTRY",      s2, v2, 20,  NoZone,   0)

\* A visit to the till that ends with two events of the same second and a
\* re-entry, and a visitor of another store.
MCEvents == {AtTill, LeftTill, Exit, Reentry, Other}
MCRequests == {<<e>> : e \in MCEvents}
MCPosTimes == {700, Unparsed}

\* The POS files: a purchase after the visit, with a row of the other store that
\* does not parse or without, or such a row of the visitor's own store.
PosFile(S1, S2) == (s1 :> S1) @@ (s2 :> S2) @@ (s3 :> {})
MCPosFiles ==
  {PosFile({700}, {}), PosFile({700}, {Unparsed}), PosFile({Unparsed}, {})}

\* A store replayed out of order with a malformed line, one whose replay fails
\* on a timestamp without a time zone, and one with nothing but such a line.
NoZoneTime(s) == [store |-> s, timezone |-> FALSE]

MCFile == <<Other, Exit, Malformed, AtTill, NoZoneTime(s2), LeftTill, Reentry,
            NoZoneTime(s3)>>

NoEvents == {}

MCReplayInit == ReplayInit /\ transactions \in MCPosFiles

MCReplaySpec == MCReplayInit /\ [][ReplayNext]_allVars

=============================================================================
