------------------------------ MODULE Behavior ------------------------------
(***************************************************************************)
(* pipeline/behavior.py: BehaviorStateMachine, the journey of a visitor as *)
(* a state that the events of all cameras move.                            *)
(*                                                                         *)
(* tick is not called by the pipeline, so that nobody is ever a            *)
(* PURCHASE_CANDIDATE, and the times, the current zone and total_dwell_ms  *)
(* that only tick and summary read are left out: the record of a visitor   *)
(* is its state, UNKNOWN for a visitor without one.                        *)
(***************************************************************************)
EXTENDS Integers, Sequences

CONSTANT MinBrowseDwell    \* BROWSING_MIN_DWELL_MS, 10 s in the code

ASSUME BehaviorAssumption == MinBrowseDwell \in Nat

BehaviorState == {"UNKNOWN", "ENTERED", "BROWSING", "DWELLING", "QUEUEING", "EXITED"}

\* Mutated Transition: a JOIN brings back who has left.
JoinRevives(s, type, dwell) ==
  CASE type = "ENTRY"                                    -> "ENTERED"
    [] type = "EXIT"                                     -> "EXITED"
    [] type = "ZONE_ENTER" /\ s \in {"UNKNOWN", "ENTERED"} -> "BROWSING"
    [] type = "ZONE_EXIT" /\ s = "DWELLING"              -> "BROWSING"
    [] type = "ZONE_DWELL" /\ s = "BROWSING" /\ dwell >= MinBrowseDwell -> "DWELLING"
    [] type = "BILLING_QUEUE_JOIN"                       -> "QUEUEING"
    [] type = "BILLING_QUEUE_ABANDON" /\ s = "QUEUEING"  -> "BROWSING"
    [] OTHER                                             -> s

\* _transition; the caller says ENTRY for a re-entry as well.
Transition(s, type, dwell) ==
  CASE type = "ENTRY"                                    -> "ENTERED"
    [] type = "EXIT"                                     -> "EXITED"
    [] type = "ZONE_ENTER" /\ s \in {"UNKNOWN", "ENTERED"} -> "BROWSING"
    [] type = "ZONE_EXIT" /\ s = "DWELLING"              -> "BROWSING"
    [] type = "ZONE_DWELL" /\ s = "BROWSING" /\ dwell >= MinBrowseDwell -> "DWELLING"
    [] type = "BILLING_QUEUE_JOIN" /\ s # "EXITED"       -> "QUEUEING"
    [] type = "BILLING_QUEUE_ABANDON" /\ s = "QUEUEING"  -> "BROWSING"
    [] OTHER                                             -> s

\* update, for one event after the other; those of other visitors leave v alone.
Updated(v, s, events) ==
  LET after[i \in 0 .. Len(events)] ==
        IF i = 0 THEN s
        ELSE IF events[i].visitor # v THEN after[i - 1]
        ELSE Transition(after[i - 1], events[i].type, events[i].dwell)
  IN  after[Len(events)]

=============================================================================
