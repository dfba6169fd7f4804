---------------------------- MODULE BillingQueue ----------------------------
(***************************************************************************)
(* The queue tracker over the frames of the billing camera: in every frame *)
(* any of the visitors is detected in the zone, in any order; a visitor    *)
(* who is hidden in a frame is, to the tracker, one who left.  A visitor   *)
(* in the queue may pay at the till, which writes a POS transaction.       *)
(*                                                                         *)
(* frames, events and paid are history.                                    *)
(***************************************************************************)
EXTENDS QueueTracker

CONSTANTS
  Gaps,            \* seconds between two frames that are looked at
  MaxTime,         \* bound on the length of the video
  MaxSales         \* bound on the number of POS transactions

ASSUME BillingAssumption == Gaps \subseteq Nat /\ IsFiniteSet(Visitors)

VARIABLES
  now,             \* wall_time of the latest frame
  frames,          \* the frames: time and the list of visitors in the zone
  events,          \* the events update returned, with their time
  paid             \* visitors and times of POS transactions

historyVars == <<now, frames, events, paid>>
billingVars == <<queueVars, historyVars>>

BillingInit ==
  /\ QueueInit
  /\ now = 0
  /\ frames = <<[time |-> 0, present |-> << >>]>>
  /\ events = {}
  /\ paid = {}

JoinEvents(present, time) ==
  {[type |-> "JOIN", visitor |-> j.visitor, depth |-> j.depth, time |-> time] :
     j \in ToSet(Joins(present))}

AbandonEvents(present, time) ==
  LET watched == Watched(present, time)
  IN  {[type |-> "ABANDON", visitor |-> v,
        dwell |-> watched[v].exit - watched[v].enter, time |-> time] :
         v \in AgedOut(watched, time)}

\* The next frame of the billing camera shows `present` in the queue zone.
Frame(present, time) ==
  /\ UpdateQueue(present, time)
  /\ now' = time
  /\ frames' = Append(frames, [time |-> time, present |-> present])
  /\ events' = events \cup JoinEvents(present, time) \cup AbandonEvents(present, time)
  /\ UNCHANGED paid

\* A visitor in the queue pays. The transaction reaches the API; no code tells
\* the tracker.
Pay(v) ==
  /\ inZone[v] # Away
  /\ \A p \in paid : p.visitor # v
  /\ Cardinality(paid) < MaxSales
  /\ paid' = paid \cup {[visitor |-> v, time |-> now]}
  /\ UNCHANGED <<queueVars, now, frames, events>>

\* The orders in which a set of visitors may be detected.
Lists == UNION {SetToSeqs(S) : S \in SUBSET Visitors}

BillingNext ==
  \/ \E present \in Lists, gap \in Gaps :
       now + gap <= MaxTime /\ Frame(present, now + gap)
  \/ \E v \in Visitors : Pay(v)

BillingSpec == BillingInit /\ [][BillingNext]_billingVars

-----------------------------------------------------------------------------
(***************************************************************************)
(* Properties                                                              *)
(***************************************************************************)

BillingTypeOK ==
  /\ now \in Nat
  /\ inZone \in [Visitors -> Nat \cup {Away}]
  /\ exited \in [Visitors -> Stay \cup {Away}]

Present(i) == ToSet(frames[i].present)

\* v is in the zone in frame i and was not in the frame before.
Arrives(v, i) ==
  i \in 2 .. Len(frames) /\ v \in Present(i) \ Present(i - 1)

\* The stay of v that began in frame i ends in frame j, the first without v.
StayOf(v, i, j) ==
  /\ Arrives(v, i)
  /\ j \in i + 1 .. Len(frames)
  /\ v \notin Present(j)
  /\ \A k \in i .. j - 1 : v \in Present(k)

Abandons(v) == {e \in events : e.type = "ABANDON" /\ e.visitor = v}

\* The stays of v that make a candidate: long enough in the zone.
Candidates(v) ==
  {s \in (DOMAIN frames) \X (DOMAIN frames) :
     /\ StayOf(v, s[1], s[2])
     /\ frames[s[2]].time - frames[s[1]].time >= MinQueueDwell}

\* Every ABANDON is owed to a stay of its visitor of at least MinQueueDwell
\* that ended at least PosWindow earlier, and tells the length of that stay;
\* no stay is flagged twice.
AbandonsJustified ==
  \A v \in Visitors :
    \E owed \in [Abandons(v) -> Candidates(v)] :
      /\ \A e, f \in Abandons(v) : owed[e] = owed[f] => e = f
      /\ \A e \in Abandons(v) :
           LET i == owed[e][1]
               j == owed[e][2]
           IN  /\ e.dwell = frames[j].time - frames[i].time
               /\ e.time - frames[j].time >= PosWindow

\* No abandonment is missed: a candidate stay is flagged in the first frame
\* PosWindow after its end, unless the visitor came back and ended another
\* candidate stay before that.
AbandonsComplete ==
  \A v \in Visitors :
    \A s \in Candidates(v) :
      LET left     == frames[s[2]].time
          replaced == \E r \in Candidates(v) :
                        /\ r[2] > s[2]
                        /\ \A k \in s[2] .. r[2] - 1 :
                             frames[k].time - left < PosWindow
      IN  (now - left >= PosWindow /\ ~replaced) =>
            \E e \in Abandons(v) : e.dwell = left - frames[s[1]].time
                                   /\ e.time >= left + PosWindow

\* Each arrival in the zone is one JOIN, and its depth counts the visitors of
\* the frame before and those that arrive ahead of it in the same frame.
JoinsMatchArrivals ==
  {e \in events : e.type = "JOIN"} =
  UNION {{[type |-> "JOIN", visitor |-> frames[i].present[k], time |-> frames[i].time,
           depth |-> Cardinality(Present(i - 1) \cup
                                 {frames[i].present[l] : l \in 1 .. k - 1})] :
            k \in {m \in DOMAIN frames[i].present : Arrives(frames[i].present[m], i)}} :
         i \in 2 .. Len(frames)}

\* The events the tracker returned are the ones the frames call for, however
\* arrivals, departures, returns and expired windows fall together
\* (billing_queue.py 73-163).
QueueEventsMatchFrames == JoinsMatchArrivals /\ AbandonsJustified /\ AbandonsComplete

\* No candidate stays on the list after its window: the tracker does not grow
\* with the visitors of the day.
CandidatesFlushed ==
  \A v \in Visitors : exited[v] # Away =>
    /\ exited[v].exit - exited[v].enter >= MinQueueDwell
    /\ exited[v].exit <= now
    /\ now - exited[v].exit < PosWindow

\* What DESIGN.md:243 says of an ABANDON: it is owed to a stay for which there
\* is no POS transaction, from its begin to the end of the window.
PaidIsNoAbandon ==
  \A e \in events : e.type = "ABANDON" =>
    \E s \in Candidates(e.visitor) :
      LET enter == frames[s[1]].time
          exit  == frames[s[2]].time
      IN  /\ e.dwell = exit - enter
          /\ ~\E p \in paid : /\ p.visitor = e.visitor
                             /\ p.time \in enter .. exit + PosWindow

=============================================================================
