---------------------------- MODULE LineCrossing ----------------------------
(***************************************************************************)
(* The entry/exit detector fed any sightings of its tracks, observed by a  *)
(* history of the sightings and of the crossings it reports.               *)
(***************************************************************************)
EXTENDS EntryExit, Sequences, SequencesExt

VARIABLES
  recent,          \* the latest MinCrossFrames results of _side of each track
  reported         \* the latest crossing reported of each track

crossVars == <<lineVars, recent, reported>>

CrossInit ==
  /\ LineInit
  /\ recent = [t \in Tracks |-> << >>]
  /\ reported = [t \in Tracks |-> "none"]

Remember(s, x) ==
  IF Len(s) < MinCrossFrames THEN Append(s, x) ELSE Append(Tail(s), x)

\* A frame of the entry camera shows track t with its centroid at s.
Sight(t, s) ==
  /\ UpdateLine(t, s)
  /\ recent' = [recent EXCEPT ![t] = Remember(@, s)]
  /\ reported' = [reported EXCEPT ![t] = IF Crossing(t, s) = "none"
                                         THEN @ ELSE Crossing(t, s)]

CrossNext == \E t \in Tracks, s \in Side : Sight(t, s)

CrossSpec == CrossInit /\ [][CrossNext]_crossVars

-----------------------------------------------------------------------------
(***************************************************************************)
(* Properties                                                              *)
(***************************************************************************)

CrossTypeOK ==
  /\ side \in [Tracks -> CommittedSide]
  /\ counter \in [Tracks -> 0 .. MinCrossFrames - 1]
  /\ recent \in [Tracks -> Seq(Side)]
  /\ reported \in [Tracks -> {"none", "ENTRY", "EXIT"}]

\* A track that was reported to enter cannot be reported to enter again before
\* it is reported to leave, and the other way round, whatever frames are missed
\* in between: the emitter is never told twice that a visitor left.
CrossingsAlternate ==
  \A t \in Tracks, s \in Side :
    Crossing(t, s) # "none" => Crossing(t, s) # reported[t]

\* While no sighting of a track is off the line, a crossing takes
\* MinCrossFrames sightings on the new side in a row: a body that sways over
\* the line for a frame or two is not counted (entry_exit.py 10, 57). Sightings off
\* the line leave the counter as it is (line 117), so that of a track that has some
\* the sightings need not be "consecutive frames", as line 41 says.
DebouncedOnLine ==
  [][\A t \in Tracks :
       (side'[t] # side[t] /\ side[t] # "unseen" /\ "off" \notin ToSet(recent'[t]))
         => recent'[t] = [i \in 1 .. MinCrossFrames |-> side'[t]]]_crossVars

=============================================================================
