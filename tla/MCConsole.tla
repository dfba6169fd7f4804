----------------------------- MODULE MCConsole -----------------------------
(* Two analyses of the same clips, of two events each, and one browser.    *)
EXTENDS Console

CONSTANTS p1, p2, c1

MCScript == <<"ENTRY", "EXIT">>
==============================================================================
