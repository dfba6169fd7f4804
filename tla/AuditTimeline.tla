--------------------------- MODULE AuditTimeline ---------------------------
(***************************************************************************)
(* app/audit.py: the AuditTimeline, and the records the handlers of the    *)
(* Sessionizer (app/sessionizer.py) write to it.                           *)
(*                                                                         *)
(* A record keeps its category, its event_type, its timestamp and the      *)
(* session it names, as the position in `sessions`, None when it has none. *)
(* The reasons and the metadata are left out; record_identity_decision has *)
(* no caller.                                                              *)
(***************************************************************************)
EXTENDS Sessionizer

VARIABLE
  timelines         \* AuditTimeline._timelines, by visitor

AuditInit == timelines = [v \in Visitors |-> << >>]

AuditRecord(category, type, time, session) ==
  [category |-> category, type |-> type, time |-> time, session |-> session]

\* Mutated SessionIndex: the session is looked up before the handler opens one.
IndexBefore(e) == active[e.visitor]

\* The position of the session that the handler of e works on.
SessionIndex(e) ==
  IF e.type = "ENTRY" \/ active[e.visitor] = None THEN Len(sessions) + 1
                                                  ELSE active[e.visitor]

\* The records of the handler of e: an orphan it closes and an implicit session
\* it opens leave none.
HandlerRecords(e) ==
  LET Of(category) == << AuditRecord(category, e.type, e.time, SessionIndex(e)) >>
  IN  CASE e.type = "ENTRY"   -> Of("DETECTION") \o Of("SESSION")
        [] e.type = "REENTRY" -> Of("REENTRY")
        [] e.type = "EXIT"    -> Of("EXIT")
        [] e.type \in {"ZONE_ENTER", "ZONE_EXIT", "ZONE_DWELL"} ->
             IF e.zone = NoZone THEN << >> ELSE Of("ZONE")
        [] e.type \in {"BILLING_QUEUE_JOIN", "BILLING_QUEUE_ABANDON"} -> Of("QUEUE")

=============================================================================
