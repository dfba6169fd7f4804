---------------------------- MODULE Calibration ----------------------------
(***************************************************************************)
(* app/calibration.py: the CalibrationEngine and its profiles, fed by the  *)
(* handlers of the Sessionizer (app/sessionizer.py).  A threshold is a low *)
(* percentile of a window of observations, within its range.               *)
(*                                                                         *)
(* Nobody reports an occlusion or a staff score: the occlusion timeout and *)
(* the staff threshold keep their defaults and are left out.  Scores are   *)
(* percentages, dwell times milliseconds.                                  *)
(***************************************************************************)
EXTENDS EventDetail, Ranks

CONSTANTS
  CalibrateEvery,   \* calibrate_every_n_events, 200
  Window,           \* the observations kept: of cameras 500, re-identifications
                    \* 1000, queue dwells 500, zone dwells 2000
  Needed            \* the observations a threshold needs: 20, 30, 15 and 50

\* The thresholds before any calibration, and their ranges.
Default == [reid |-> 65, queue |-> 5000, dwell |-> 30000, trust |-> 100]
Lowest  == [reid |-> 40, queue |-> 2000, dwell |-> 10000, trust |-> 50]
Highest == [reid |-> 90, queue |-> 30000, dwell |-> 90000, trust |-> 100]

VARIABLE
  profiles          \* CalibrationEngine._profiles and _event_counts, by store

NewProfile ==
  [conf |-> [c \in Cameras |-> << >>], reid |-> << >>, queue |-> << >>, zone |-> << >>,
   trust |-> [c \in Cameras |-> Default.trust], reidThreshold |-> Default.reid,
   queueThreshold |-> Default.queue, dwellThreshold |-> Default.dwell,
   events |-> 0, runs |-> 0]

CalibrationInit == profiles = [s \in Stores |-> NewProfile]

Clamp(x, lo, hi) == IF x < lo THEN lo ELSE IF x > hi THEN hi ELSE x

\* An observation enters a window of n.
Observed(obs, x, n) == IF Len(obs) >= n THEN Append(Tail(obs), x) ELSE Append(obs, x)

\* Mutated Percentile: the largest come first.
PercentileFromAbove(obs, p) ==
  LET index == (p * Len(obs)) \div 100 - 1
  IN  Smallest(obs, Len(obs) - (IF index > 0 THEN index ELSE 0))

\* sorted(obs)[max(0, int(p * n) - 1)]
Percentile(obs, p) ==
  LET index == (p * Len(obs)) \div 100 - 1
  IN  Smallest(obs, 1 + (IF index > 0 THEN index ELSE 0))

\* A threshold after a calibration: the percentile once there are `needed`.
Calibrated(old, obs, needed, p, kind) ==
  IF Len(obs) >= needed THEN Clamp(Percentile(obs, p), Lowest[kind], Highest[kind])
                        ELSE old

\* StoreCalibration.calibrate
Recalibrated(f) ==
  [f EXCEPT
     !.reidThreshold  = Calibrated(f.reidThreshold, f.reid, Needed.reid, 10, "reid"),
     !.queueThreshold = Calibrated(f.queueThreshold, f.queue, Needed.queue, 10, "queue"),
     !.dwellThreshold = Calibrated(f.dwellThreshold, f.zone, Needed.zone, 5, "dwell"),
     !.trust = [c \in Cameras |->
                  Calibrated(f.trust[c], f.conf[c], Needed.conf, 25, "trust")],
     !.runs = f.runs + 1]

\* observe_event, which calibrates every so many events.
WithCameraEvent(f, e) ==
  LET d    == Detail[e.id]
      seen == [f EXCEPT !.conf[d.camera] = Observed(f.conf[d.camera], d.conf, Window.conf),
                        !.events = f.events + 1]
  IN  IF seen.events % CalibrateEvery = 0 THEN Recalibrated(seen) ELSE seen

\* What the handler of e reports to the profile f of its store. A wait is the
\* dwell of the event.
WithEvent(f, e) ==
  CASE e.type \in {"ENTRY", "EXIT"} -> WithCameraEvent(f, e)
    [] e.type = "REENTRY" ->
         IF Detail[e.id].reid = NoValue THEN f
         ELSE [f EXCEPT !.reid = Observed(f.reid, Detail[e.id].reid, Window.reid)]
    [] e.type \in {"BILLING_QUEUE_JOIN", "BILLING_QUEUE_ABANDON"} ->
         IF e.dwell = 0 THEN f
         ELSE [f EXCEPT !.queue = Observed(f.queue, e.dwell, Window.queue)]
    [] e.type \in {"ZONE_ENTER", "ZONE_EXIT", "ZONE_DWELL"} ->
         IF e.zone = NoZone \/ e.dwell = 0 THEN f
         ELSE [f EXCEPT !.zone = Observed(f.zone, e.dwell, Window.zone)]

=============================================================================
