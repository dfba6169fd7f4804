---------------------------- MODULE SharedState ----------------------------
(***************************************************************************)
(* The state shared by the pipeline threads and the dashboard server.      *)
(* push_event logs and counts an event under a lock and then hands its     *)
(* broadcast to the event loop; the loop runs the broadcasts in order and  *)
(* puts the event in a bounded queue per browser, dropping it where the    *)
(* queue is full.  The socket handler of a browser takes events from its   *)
(* queue; when there was none for two seconds it sends the totals.         *)
(*                                                                         *)
(* The loop is one thread: between the snapshot and the serialization of   *)
(* /api/state nothing else of the server runs, but the pipelines do.       *)
(***************************************************************************)
EXTENDS Naturals, Sequences, FiniteSets

CONSTANTS
  Pipelines,    \* the analyses that may be started
  Clients,      \* the browsers
  Script,       \* the types of the events an analysis emits, in order
  QueueSize,    \* bound of a browser's queue, 100 in the code
  LogSize       \* bound of the log of events, 200 in the code

ASSUME SharedStateAssumption ==
  /\ Script \in Seq({"ENTRY", "EXIT", "ZONE_ENTER"})
  /\ QueueSize \in Nat \ {0}
  /\ LogSize \in Nat \ {0}

VARIABLES
  push,         \* per analysis: where it stands in push_event
  count,        \* per analysis: the number of events it has begun to push
  locked,       \* whether SharedState.lock is held between two steps
  log,          \* event_log, the newest event first
  metrics,      \* the totals in metrics
  calls,        \* the broadcasts handed to the event loop
  link,         \* the socket of a browser: none, open, or closed by the browser
  queue,        \* the queue of its handler, in _event_queues unless link is none
  heard,        \* the number of the last event of an analysis sent to it
  missed,       \* whether an event found its queue full
  beat,         \* the totals of the last heartbeat
  reply         \* the answer to GET /api/state

pushVars == <<push, count, locked, log, metrics>>
clientVars == <<link, queue, heard, missed, beat>>
sharedVars == <<pushVars, calls, clientVars, reply>>

NoTotals == [events |-> 0, entries |-> 0]
NoReply == [state |-> "none", listed |-> <<>>, totals |-> NoTotals]

SharedInit ==
  /\ push = [p \in Pipelines |-> "idle"]
  /\ count = [p \in Pipelines |-> 0]
  /\ locked = FALSE
  /\ log = <<>>
  /\ metrics = NoTotals
  /\ calls = <<>>
  /\ link = [c \in Clients |-> "none"]
  /\ queue = [c \in Clients |-> <<>>]
  /\ heard = [c \in Clients |-> [p \in Pipelines |-> 0]]
  /\ missed = [c \in Clients |-> FALSE]
  /\ beat = [c \in Clients |-> NoTotals]
  /\ reply = NoReply

EventType(e) == Script[e.number]
EventOf(p) == [by |-> p, number |-> count[p]]

------------------------------------------------------------------------------
(* push_event, in a pipeline thread.                                       *)

Newest(events) == SubSeq(events, 1, IF Len(events) < LogSize THEN Len(events) ELSE LogSize)

\* Mutated LogEvent: the broadcast is handed over before the event is counted.
LogAndSend(p) ==
  /\ push[p] = "idle"
  /\ count[p] < Len(Script)
  /\ ~locked
  /\ locked' = TRUE
  /\ count' = [count EXCEPT ![p] = @ + 1]
  /\ push' = [push EXCEPT ![p] = "counting"]
  /\ log' = Newest(<<[by |-> p, number |-> count[p] + 1]>> \o log)
  /\ calls' = Append(calls, [by |-> p, number |-> count[p] + 1])
  /\ UNCHANGED <<metrics, clientVars, reply>>

LogEvent(p) ==
  /\ push[p] = "idle"
  /\ count[p] < Len(Script)
  /\ ~locked
  /\ locked' = TRUE
  /\ count' = [count EXCEPT ![p] = @ + 1]
  /\ push' = [push EXCEPT ![p] = "counting"]
  /\ log' = Newest(<<[by |-> p, number |-> count[p] + 1]>> \o log)
  /\ UNCHANGED <<metrics, calls, clientVars, reply>>

CountEvent(p) ==
  /\ push[p] = "counting"
  /\ metrics' = [events  |-> metrics.events + 1,
                 entries |-> IF EventType(EventOf(p)) = "ENTRY"
                             THEN metrics.entries + 1 ELSE metrics.entries]
  /\ locked' = FALSE
  /\ push' = [push EXCEPT ![p] = "sending"]
  /\ UNCHANGED <<count, log, calls, clientVars, reply>>

\* Mutated SendEvent: the broadcast is handed over twice.
SendTwice(p) ==
  /\ push[p] = "sending"
  /\ push' = [push EXCEPT ![p] = "idle"]
  /\ calls' = calls \o <<EventOf(p), EventOf(p)>>
  /\ UNCHANGED <<count, locked, log, metrics, clientVars, reply>>

SendEvent(p) ==
  /\ push[p] = "sending"
  /\ push' = [push EXCEPT ![p] = "idle"]
  /\ calls' = Append(calls, EventOf(p))
  /\ UNCHANGED <<count, locked, log, metrics, clientVars, reply>>

------------------------------------------------------------------------------
(* The event loop.                                                         *)

LoopFree == reply.state # "taken"

(* _broadcast_event: every registered queue gets the event if it has room, *)
(* the queue of a browser that has gone included.                          *)
Broadcast ==
  /\ LoopFree
  /\ calls # <<>>
  /\ calls' = Tail(calls)
  /\ queue' = [c \in Clients |->
                 IF link[c] = "none" \/ Len(queue[c]) = QueueSize
                 THEN queue[c] ELSE Append(queue[c], Head(calls))]
  /\ missed' = [c \in Clients |->
                 missed[c] \/ (link[c] # "none" /\ Len(queue[c]) = QueueSize)]
  /\ UNCHANGED <<pushVars, link, heard, beat, reply>>

(* ws_events: the queue is registered when the socket is accepted.         *)
Connect(c) ==
  /\ LoopFree
  /\ link[c] = "none"
  /\ link' = [link EXCEPT ![c] = "open"]
  /\ UNCHANGED <<pushVars, calls, queue, heard, missed, beat, reply>>

(* The browser leaves; the handler learns of it when it sends.             *)
Leave(c) ==
  /\ link[c] = "open"
  /\ link' = [link EXCEPT ![c] = "closed"]
  /\ UNCHANGED <<pushVars, calls, queue, heard, missed, beat, reply>>

(* The exception of a failed send ends the handler, which discards the     *)
(* queue.  A browser that comes back gets a new one.                       *)
Discard(c) ==
  /\ link' = [link EXCEPT ![c] = "none"]
  /\ queue' = [queue EXCEPT ![c] = <<>>]
  /\ heard' = [heard EXCEPT ![c] = [p \in Pipelines |-> 0]]
  /\ missed' = [missed EXCEPT ![c] = FALSE]
  /\ beat' = [beat EXCEPT ![c] = NoTotals]

Deliver(c) ==
  /\ LoopFree
  /\ link[c] # "none"
  /\ queue[c] # <<>>
  /\ \/ /\ link[c] = "open"
        /\ queue' = [queue EXCEPT ![c] = Tail(@)]
        /\ heard' = [heard EXCEPT ![c][Head(queue[c]).by] = Head(queue[c]).number]
        /\ UNCHANGED <<link, missed, beat>>
     \/ /\ link[c] = "closed"
        /\ Discard(c)
  /\ UNCHANGED <<pushVars, calls, reply>>

(* Two seconds without an event: the totals are copied under the lock and  *)
(* sent.                                                                   *)
\* Mutated Heartbeat: a browser gets the totals only until it has events.
HeartbeatUntilEvents(c) ==
  /\ LoopFree
  /\ link[c] # "none"
  /\ queue[c] = <<>>
  /\ \A p \in Pipelines : heard[c][p] = 0
  /\ ~locked
  /\ \/ /\ link[c] = "open"
        /\ beat' = [beat EXCEPT ![c] = metrics]
        /\ UNCHANGED <<link, queue, heard, missed>>
     \/ /\ link[c] = "closed"
        /\ Discard(c)
  /\ UNCHANGED <<pushVars, calls, reply>>

Heartbeat(c) ==
  /\ LoopFree
  /\ link[c] # "none"
  /\ queue[c] = <<>>
  /\ ~locked
  /\ \/ /\ link[c] = "open"
        /\ beat' = [beat EXCEPT ![c] = metrics]
        /\ UNCHANGED <<link, queue, heard, missed>>
     \/ /\ link[c] = "closed"
        /\ Discard(c)
  /\ UNCHANGED <<pushVars, calls, reply>>

(* GET /api/state lists the events under the lock, but hands out the       *)
(* totals themselves, which are read when the answer is serialized.        *)
StateRequest ==
  /\ reply.state = "none"
  /\ ~locked
  /\ reply' = [state |-> "taken", listed |-> log, totals |-> NoTotals]
  /\ UNCHANGED <<pushVars, calls, clientVars>>

StateReply ==
  /\ reply.state = "taken"
  /\ reply' = [reply EXCEPT !.state = "sent", !.totals = metrics]
  /\ UNCHANGED <<pushVars, calls, clientVars>>

PushEvent(p) == LogEvent(p) \/ CountEvent(p) \/ SendEvent(p)

Serve(c) == Deliver(c) \/ Heartbeat(c)

------------------------------------------------------------------------------

Events == [by : Pipelines, number : 1..Len(Script)]
Totals == [events : Nat, entries : Nat]

(* The log and the queues keep to their bounds, the lock is held by at     *)
(* most one analysis, and a browser whose socket is gone has no queue.     *)
SharedTypeOK ==
  /\ push \in [Pipelines -> {"idle", "counting", "sending"}]
  /\ count \in [Pipelines -> 0..Len(Script)]
  /\ locked \in BOOLEAN
  /\ locked <=> \E p \in Pipelines : push[p] = "counting"
  /\ \A p, q \in Pipelines : push[p] = "counting" /\ push[q] = "counting" => p = q
  /\ log \in Seq(Events) /\ Len(log) <= LogSize
  /\ metrics \in Totals
  /\ calls \in Seq(Events)
  /\ link \in [Clients -> {"none", "open", "closed"}]
  /\ queue \in [Clients -> Seq(Events)]
  /\ \A c \in Clients : Len(queue[c]) <= IF link[c] = "none" THEN 0 ELSE QueueSize
  /\ heard \in [Clients -> [Pipelines -> 0..Len(Script)]]
  /\ missed \in [Clients -> BOOLEAN]
  /\ beat \in [Clients -> Totals]
  /\ reply \in [state : {"none", "taken", "sent"}, listed : Seq(Events), totals : Totals]

(* A browser gets the events of an analysis in the order they happened,    *)
(* each once, and once it has one it gets the next, unless its queue       *)
(* overflowed (gui_server.py, push_event, _broadcast_event and ws_events). *)
StreamFaithful ==
  [][\A c \in Clients :
       link'[c] = "open" /\ queue[c] # <<>> /\ queue'[c] = Tail(queue[c]) =>
         LET e == Head(queue[c])
         IN /\ e.number > heard[c][e.by]
            /\ heard[c][e.by] # 0 /\ ~missed[c] => e.number = heard[c][e.by] + 1]_sharedVars

(* What a browser has been shown is in the totals: no event reaches it     *)
(* before push_event has counted it, so the next heartbeat covers all it   *)
(* has seen (gui_server.py, push_event).                                   *)
TotalsCoverHeard ==
  \A c \in Clients :
    Cardinality({e \in Events : e.number <= heard[c][e.by]}) <= metrics.events

(* An answer of /api/state that lists events counts them all, although its *)
(* totals are read after the lock was released (gui_server.py, state).     *)
ReplyCountsListed ==
  reply.state = "sent" =>
    /\ reply.totals.events >= Len(reply.listed)
    /\ reply.totals.entries >=
         Cardinality({i \in DOMAIN reply.listed : EventType(reply.listed[i]) = "ENTRY"})

(* Again and again the handler of a browser is either gone or has sent it  *)
(* the current totals: no queue is kept for ever for a browser that left,  *)
(* and one that stays has the final totals, whatever its queue dropped.    *)
(* The heartbeats of ws_events repair the one and notice the other.        *)
DashboardsSettle ==
  \A c \in Clients : []<>(link[c] = "none" \/ (link[c] = "open" /\ beat[c] = metrics))
==============================================================================
