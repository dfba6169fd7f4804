---------------------------- MODULE MCZoneMapper ----------------------------
(* Three threads and up to four saves in the studio, the first of which    *)
(* may be older than the process.                                          *)
EXTENDS ZoneMapper

CONSTANTS t1, t2, t3
==============================================================================
