--------------------------- MODULE VisitorLedger ---------------------------
(***************************************************************************)
(* What VisitorIdentityManager (pipeline/tracker.py) promises its callers: *)
(* a track that is followed belongs to one visitor, a visitor_id is given  *)
(* to a new track only while it is released and not forgotten, or because  *)
(* another camera follows that visitor right now, and a new visitor gets   *)
(* an id that nobody had before.                                           *)
(*                                                                         *)
(* A key is a track_id with its camera_id.                                 *)
(***************************************************************************)
EXTENDS Naturals

CONSTANTS
  Keys,            \* (track_id, camera_id)
  Visitors,        \* visitor_id values
  NoOne,           \* the owner of a key that is not followed
  SameCamera(_, _) \* two keys are of one camera

VARIABLES
  owner,           \* the visitor of every followed track
  released,        \* the visitors who were lost and may be recognised
  issued           \* the ids ever given out

ledgerVars == <<owner, released, issued>>

LedgerInit ==
  /\ owner = [k \in Keys |-> NoOne]
  /\ released = {}
  /\ issued = {}

\* A new track is a new visitor.
Admit(k) ==
  /\ owner[k] = NoOne
  /\ \E v \in Visitors \ issued :
       /\ owner' = [owner EXCEPT ![k] = v]
       /\ issued' = issued \cup {v}
  /\ UNCHANGED released

\* A new track is a visitor who was lost.
Recognise(k) ==
  /\ owner[k] = NoOne
  /\ \E v \in released :
       /\ owner' = [owner EXCEPT ![k] = v]
       /\ released' = released \ {v}
  /\ UNCHANGED issued

\* A new track is a visitor another camera follows.
Share(k) ==
  /\ owner[k] = NoOne
  /\ \E j \in Keys :
       /\ owner[j] # NoOne
       /\ ~SameCamera(j, k)
       /\ owner' = [owner EXCEPT ![k] = owner[j]]
  /\ UNCHANGED <<released, issued>>

\* The tracks K of one camera are lost, the visitors in old are forgotten.
Release(K, old) ==
  /\ \A j, k \in K : SameCamera(j, k)
  /\ \A k \in K : owner[k] # NoOne
  /\ owner' = [k \in Keys |-> IF k \in K THEN NoOne ELSE owner[k]]
  /\ released' = (released \cup {owner[k] : k \in K}) \ old
  /\ UNCHANGED issued

LedgerNext ==
  \/ \E k \in Keys : Admit(k) \/ Recognise(k) \/ Share(k)
  \/ \E K \in SUBSET Keys, old \in SUBSET Visitors : Release(K, old)

LedgerSpec == LedgerInit /\ [][LedgerNext]_ledgerVars

=============================================================================
