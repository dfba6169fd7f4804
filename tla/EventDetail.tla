---------------------------- MODULE EventDetail ----------------------------
(***************************************************************************)
(* What the audit, the verifier and the calibration read of an event and   *)
(* the sessions do not (app/models.py, InboundEvent), by event_id.         *)
(* Confidences and scores are percentages.                                 *)
(***************************************************************************)
EXTENDS Sessionizer, SequencesExt

CONSTANTS
  Cameras,          \* camera_id values
  Detail,           \* camera_id, confidence, queue_depth and reid_score
  NoValue           \* a queue_depth or reid_score that is missing

=============================================================================
