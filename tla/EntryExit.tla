----------------------------- MODULE EntryExit -----------------------------
(***************************************************************************)
(* pipeline/entry_exit.py: EntryExitDetector, the virtual line at the      *)
(* doorway.  A crossing is accepted when a track has been sighted on the   *)
(* other side of the line in MinCrossFrames frames.                        *)
(*                                                                         *)
(* The geometry of _side is abstracted to its three results: "inside",     *)
(* "outside", and "off" (None) for a centroid beyond the ends of the line. *)
(***************************************************************************)
EXTENDS Integers

CONSTANTS
  Tracks,          \* track ids of the tracker
  MinCrossFrames   \* min_cross_frames, 3 in the code

ASSUME MinCrossFramesAssumption == MinCrossFrames \in Nat \ {0}

Side == {"inside", "outside", "off"}
CommittedSide == {"inside", "outside", "unseen"}

VARIABLES
  side,            \* _committed_side, "unseen" when absent
  counter          \* _cross_counter

lineVars == <<side, counter>>

LineInit ==
  /\ side = [t \in Tracks |-> "unseen"]
  /\ counter = [t \in Tracks |-> 0]

\* The track is sighted at s, on the side of the line it is not committed to.
OnOppositeSide(t, s) == s # "off" /\ side[t] \notin {"unseen", s}

\* Mutated CrossingConfirmed: one frame short.
CrossingUnconfirmed(t, s) ==
  OnOppositeSide(t, s) /\ counter[t] + 2 >= MinCrossFrames

CrossingConfirmed(t, s) ==
  OnOppositeSide(t, s) /\ counter[t] + 1 >= MinCrossFrames

\* The value update returns for a sighting of track t at s.
Crossing(t, s) ==
  CASE CrossingConfirmed(t, s) /\ s = "inside"  -> "ENTRY"
    [] CrossingConfirmed(t, s) /\ s = "outside" -> "EXIT"
    [] OTHER -> "none"

\* First sighting on a side, and return to the committed side.
Settle(t, s) ==
  /\ s # "off"
  /\ side[t] \in {"unseen", s}
  /\ side' = [side EXCEPT ![t] = s]
  /\ counter' = [counter EXCEPT ![t] = 0]

CountFrame(t, s) ==
  /\ OnOppositeSide(t, s)
  /\ ~CrossingConfirmed(t, s)
  /\ counter' = [counter EXCEPT ![t] = @ + 1]
  /\ UNCHANGED side

\* Mutated CommitCrossing: the side is not committed.
CommitForgotten(t, s) ==
  /\ CrossingConfirmed(t, s)
  /\ counter' = [counter EXCEPT ![t] = 0]
  /\ UNCHANGED side

CommitCrossing(t, s) ==
  /\ CrossingConfirmed(t, s)
  /\ side' = [side EXCEPT ![t] = s]
  /\ counter' = [counter EXCEPT ![t] = 0]

\* A centroid off the line's span changes nothing, the counter included.
Ignore(t, s) == s = "off" /\ UNCHANGED lineVars

\* update
UpdateLine(t, s) ==
  \/ Settle(t, s)
  \/ CountFrame(t, s)
  \/ CommitCrossing(t, s)
  \/ Ignore(t, s)

=============================================================================
