------------------------------- MODULE Replay -------------------------------
(***************************************************************************)
(* app/replay.py: the ReplayEngine, over the ingest endpoint it shares its *)
(* stores with.  A replay resets the stores, sorts the events of a file or *)
(* of the EventStore by timestamp and feeds them one by one through an     *)
(* IngestionPipeline over the same stores; the POS correlation runs once   *)
(* at the end.                                                             *)
(*                                                                         *)
(* The endpoint (main.py 391) runs the whole replay inside one handler, so *)
(* that no request interleaves with it: a replay occupies the event loop   *)
(* (`busy`) like a request does, and its sorted events take the place of   *)
(* the batch.  The process may crash at any time: all its state is in      *)
(* memory, the event file and the POS file survive.                        *)
(***************************************************************************)
EXTENDS StoreApi, ReplayOrder

CONSTANTS
  File,           \* events.jsonl: the raw events in the order of the lines
  NoResult        \* no replay to compare with

\* A raw event of a store whose timestamp has no time zone.
Naive == [store : Stores, timezone : {FALSE}]

ASSUME ReplayAssumption == File \in Seq(RawEvent \cup Naive)

VARIABLES
  replaying,      \* ReplayEngine._is_replaying
  source,         \* what is being, or was last, replayed
  before,         \* history: the sessions and the log the replay started from
  result          \* history: what the last replay of each store's file built

replayVars == <<replaying, source, before, result>>

\* The `source` of a replay: the lines of the file for one store, or the events
\* the EventStore holds for one.
FromFile(s)  == [kind |-> "file", store |-> s]
FromStore(s) == [kind |-> "store", store |-> s]
NoSource     == [kind |-> "none"]

ReplayInit ==
  /\ ApiInit
  /\ replaying = FALSE
  /\ source = NoSource
  /\ before = NoResult
  /\ result = [s \in Stores |-> NoResult]

-----------------------------------------------------------------------------

\* _load_jsonl with a store filter: lines that are not JSON or are of another
\* store, or of none, are skipped. What is replayed is named by its positions.
Loaded(s) == {i \in DOMAIN File : File[i] # Malformed /\ File[i].store = s}

\* Comparing a timestamp without a time zone with one that has it raises.
Sortable(raws, K) ==
  \/ \A i \in K : raws[i] \notin Naive
  \/ \A i \in K : raws[i] \in Naive

\* Mutated ResetAllState: the re-entry ledger is not reset.
ResetKeepsLedger ==
  /\ log' = << >>
  /\ seen' = {}
  /\ sessions' = << >>
  /\ active' = [v \in Visitors |-> None]
  /\ converted' = {}
  /\ UNCHANGED <<reentryCounts, transactions>>

\* Mutated ResetAllState: the open sessions are kept in _active.
ResetKeepsActive ==
  /\ log' = << >>
  /\ seen' = {}
  /\ sessions' = << >>
  /\ reentryCounts' = [v \in Visitors |-> 0]
  /\ converted' = {}
  /\ UNCHANGED <<active, transactions>>

\* Mutated ResetAllState: the ids the EventStore has seen are kept.
ResetKeepsSeen ==
  /\ log' = << >>
  /\ sessions' = << >>
  /\ active' = [v \in Visitors |-> None]
  /\ reentryCounts' = [v \in Visitors |-> 0]
  /\ converted' = {}
  /\ UNCHANGED <<seen, transactions>>

\* _reset_all_state. The CorrelationEngine is not cleared: the session_ids it
\* keeps are never used again, so that no later session is in `converted`.
ResetAllState ==
  /\ log' = << >>
  /\ seen' = {}
  /\ sessions' = << >>
  /\ active' = [v \in Visitors |-> None]
  /\ reentryCounts' = [v \in Visitors |-> 0]
  /\ converted' = {}
  /\ UNCHANGED transactions

\* _run_replay up to its loop.
StartReplay(src, raws, K) ==
  /\ ~busy
  /\ ~replaying
  /\ Sortable(raws, K)
  /\ replaying' = TRUE
  /\ source' = src
  /\ ResetAllState
  /\ busy' = TRUE
  /\ batch' = Sorted(raws, K)
  /\ response' = NoResponse
  /\ before' = [sessions |-> sessions, log |-> log]
  /\ UNCHANGED result

\* The sort raises: the reset has been done, the events are not replayed, and
\* `finally` clears the flag.
FailReplay(raws, K) ==
  /\ ~busy
  /\ ~replaying
  /\ ~Sortable(raws, K)
  /\ ResetAllState
  /\ source' = NoSource
  /\ before' = NoResult
  /\ UNCHANGED <<ingestVars, replaying, result>>

\* POST /stores/{s}/replay (replay_file)
ReplayFile(s) ==
  \/ StartReplay(FromFile(s), File, Loaded(s))
  \/ FailReplay(File, Loaded(s))

\* replay_store
ReplayStore(s) == StartReplay(FromStore(s), log, Stored(s))

\* Validation rejects a timestamp without a time zone.
RejectNaive ==
  /\ batch # << >>
  /\ Head(batch) \in Naive
  /\ NextRaw("rejected")
  /\ UNCHANGED <<storeVars, sessionVars>>

\* The end of _run_replay.
FinishReplay ==
  /\ replaying
  /\ FinishRequest
  /\ replaying' = FALSE
  /\ IF source.kind = "file"
     THEN result' = [result EXCEPT ![source.store] =
                       [sessions |-> sessions', log |-> log]]
     ELSE UNCHANGED result
  /\ UNCHANGED <<source, before>>

\* A request while no replay runs; the comparison with an earlier replay's
\* start ends here.
LiveStart ==
  /\ \E b \in Requests : StartRequest(b)
  /\ before' = NoResult
  /\ source' = NoSource
  /\ UNCHANGED <<correlationVars, replaying, result>>

IngestOne ==
  /\ \/ RejectEvent
     \/ RejectNaive
     \/ SkipDuplicate
     \/ AcceptEvent
     \/ AcceptUnprocessed
  /\ UNCHANGED <<correlationVars, replayVars>>

LiveFinish ==
  /\ ~replaying
  /\ FinishRequest
  /\ UNCHANGED replayVars

\* The process dies and is started again: load_csv reads the same POS file.
Crash ==
  /\ log # << >> \/ busy
  /\ ResetAllState
  /\ busy' = FALSE
  /\ batch' = << >>
  /\ response' = NoResponse
  /\ replaying' = FALSE
  /\ source' = NoSource
  /\ before' = NoResult
  /\ UNCHANGED result

ReplayNext ==
  \/ LiveStart
  \/ IngestOne
  \/ LiveFinish
  \/ \E s \in Stores : ReplayFile(s) \/ ReplayStore(s)
  \/ FinishReplay
  \/ Crash

allVars == <<apiVars, replayVars>>

ReplaySpec == ReplayInit /\ [][ReplayNext]_allVars

-----------------------------------------------------------------------------
(***************************************************************************)
(* Properties                                                              *)
(***************************************************************************)

ReplayTypeOK ==
  /\ SessionTypeOK
  /\ CorrelationTypeOK
  /\ log \in Seq(Events)
  /\ seen \subseteq Nat
  /\ batch \in Seq(RawEvent \cup Naive)
  /\ <<busy, replaying>> \in BOOLEAN \X BOOLEAN

\* The in-memory replay of a store has just ended, and before it the EventStore
\* held the events of that store only.
ReplayedStore ==
  /\ Idle
  /\ source.kind = "store"
  /\ \A i \in DOMAIN before.log : before.log[i].store = source.store

\* The events had arrived in timestamp order.
Chronological ==
  \A i, j \in DOMAIN before.log : i < j => before.log[i].time <= before.log[j].time

Unpromoted(ss) ==
  [i \in DOMAIN ss |-> [ss[i] EXCEPT !.candidate = Joined(ss[i])]]

\* When the events had arrived in timestamp order, replaying the store rebuilds
\* exactly the sessions and the log that the live system had built, whatever
\* had been replayed, crashed or resent before (replay.py 15-18); conversion
\* apart, which depends on when the correlation ran.
ReplayRebuildsSessions ==
  ReplayedStore /\ Chronological =>
    /\ log = before.log
    /\ Unpromoted(sessions) = Unpromoted(before.sessions)

\* Replaying one store's file gives the same log and the same sessions every
\* time, whatever happened in between: live requests, other replays, crashes
\* ("a clean, reproducible result", replay.py 13).
ReplayReproducible ==
  [][\A s \in Stores : result[s] # NoResult => result'[s] = result[s]]_allVars

\* The stores and the sessions stay consistent through resets and crashes: the
\* sessions are what the log says, nothing of the state before survives.
ConsistentAcrossResets ==
  ReplayTypeOK /\ ActiveMatchesOpen /\ ReentryLedger /\ SessionsMatchLog /\ StoredOnce

=============================================================================
