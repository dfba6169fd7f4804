----------------------------- MODULE EventStore -----------------------------
(***************************************************************************)
(* app/ingestion.py: the append-only EventStore.                           *)
(***************************************************************************)
EXTENDS Sessionizer

VARIABLES
  log,            \* EventStore._events, in the order of acceptance
  seen            \* EventStore._seen_ids

storeVars == <<log, seen>>

\* EventStore.append
AppendEvent(e) ==
  /\ log' = Append(log, e)
  /\ seen' = seen \cup {e.id}

\* EventStore.get_events: the positions in the log of a store's events.
Stored(s) == {i \in DOMAIN log : log[i].store = s}

=============================================================================
