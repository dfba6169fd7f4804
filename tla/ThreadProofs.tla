---------------------------- MODULE ThreadProofs ----------------------------
(***************************************************************************)
(* Theorems about the state that real threads share: the dashboard, which  *)
(* the pipeline threads feed and the event loop serves, and the geometry   *)
(* of the zones, which threads read while the studio writes its file.      *)
(***************************************************************************)
EXTENDS Console, ZoneMapper, FiniteSetTheorems, TLAPS

-----------------------------------------------------------------------------
(***************************************************************************)
(* The stream of events to a browser is faithful, for any number of        *)
(* analyses and browsers, any script and any bound of the queues.          *)
(*                                                                         *)
(* An event of an analysis is first to be sent, then in a broadcast, then  *)
(* in the queue of a browser, then heard.  The invariant says that the     *)
(* numbers of one analysis grow against this direction and that, as long   *)
(* as nothing was dropped, no number is left out on the way.               *)
(***************************************************************************)

Members(s) == {s[i] : i \in 1..Len(s)}

\* The events of each analysis are in s in their order, each once.
Ordered(s) ==
  \A i, j \in 1..Len(s) : i < j /\ s[i].by = s[j].by => s[i].number < s[j].number

\* Every event of S comes before every event of T of the same analysis.
Before(S, T) == \A e \in S, f \in T : e.by = f.by => e.number < f.number

LEMMA TailMembers ==
  ASSUME NEW S, NEW s \in Seq(S), s # <<>>
  PROVE  /\ Head(s) \in S
         /\ Tail(s) \in Seq(S)
         /\ Members(s) = {Head(s)} \cup Members(Tail(s))
<1>1. /\ Head(s) = s[1] /\ 1 \in 1..Len(s) /\ Head(s) \in S
      /\ Tail(s) \in Seq(S) /\ Len(Tail(s)) = Len(s) - 1
      /\ \A i \in 1..Len(s) - 1 : Tail(s)[i] = s[i + 1]
  OBVIOUS
<1>2. ASSUME NEW i \in 1..Len(s) PROVE s[i] \in {Head(s)} \cup Members(Tail(s))
  <2>1. CASE i = 1 BY <2>1, <1>1
  <2>2. CASE i # 1
    <3>1. i - 1 \in 1..Len(Tail(s)) /\ Tail(s)[i - 1] = s[i] BY <2>2, <1>1
    <3> QED BY <3>1 DEF Members
  <2> QED BY <2>1, <2>2
<1>3. ASSUME NEW i \in 1..Len(Tail(s)) PROVE Tail(s)[i] \in Members(s)
  <2>1. i + 1 \in 1..Len(s) /\ Tail(s)[i] = s[i + 1] BY <1>1
  <2> QED BY <2>1 DEF Members
<1>4. Members(s) \subseteq {Head(s)} \cup Members(Tail(s)) BY <1>2 DEF Members
<1>5. {Head(s)} \cup Members(Tail(s)) \subseteq Members(s) BY <1>1, <1>3 DEF Members
<1> QED BY <1>1, <1>4, <1>5

LEMMA TailOrdered ==
  ASSUME NEW S, NEW s \in Seq(S), s # <<>>, Ordered(s)
  PROVE  /\ Ordered(Tail(s))
         /\ Before({Head(s)}, Members(Tail(s)))
<1>1. /\ Head(s) = s[1] /\ Len(Tail(s)) = Len(s) - 1 /\ Len(s) \in Nat \ {0}
      /\ \A i \in 1..Len(s) - 1 : Tail(s)[i] = s[i + 1]
  OBVIOUS
<1>2. Ordered(Tail(s))
  <2> SUFFICES ASSUME NEW i \in 1..Len(Tail(s)), NEW j \in 1..Len(Tail(s)), i < j,
                      Tail(s)[i].by = Tail(s)[j].by
               PROVE  Tail(s)[i].number < Tail(s)[j].number
    BY DEF Ordered
  <2>1. i + 1 \in 1..Len(s) /\ j + 1 \in 1..Len(s) /\ i + 1 < j + 1 BY <1>1
  <2>2. Tail(s)[i] = s[i + 1] /\ Tail(s)[j] = s[j + 1] BY <1>1
  <2> QED BY <2>1, <2>2 DEF Ordered
<1>3. Before({Head(s)}, Members(Tail(s)))
  <2> SUFFICES ASSUME NEW i \in 1..Len(Tail(s)), s[1].by = Tail(s)[i].by
               PROVE  s[1].number < Tail(s)[i].number
    BY <1>1 DEF Before, Members
  <2>1. i + 1 \in 1..Len(s) /\ 1 \in 1..Len(s) /\ 1 < i + 1 /\ Tail(s)[i] = s[i + 1] BY <1>1
  <2> QED BY <2>1 DEF Ordered
<1> QED BY <1>2, <1>3

LEMMA AppendMembers ==
  ASSUME NEW S, NEW s \in Seq(S), NEW x \in S
  PROVE  /\ Append(s, x) \in Seq(S)
         /\ Members(Append(s, x)) = Members(s) \cup {x}
<1>1. /\ Append(s, x) \in Seq(S) /\ Len(Append(s, x)) = Len(s) + 1 /\ Len(s) \in Nat
      /\ \A i \in 1..Len(s) : Append(s, x)[i] = s[i]
      /\ Append(s, x)[Len(s) + 1] = x
  OBVIOUS
<1>2. Members(Append(s, x)) \subseteq Members(s) \cup {x}
  <2> SUFFICES ASSUME NEW i \in 1..Len(Append(s, x))
               PROVE  Append(s, x)[i] \in Members(s) \cup {x}
    BY DEF Members
  <2>1. i \in 1..Len(s) \/ i = Len(s) + 1 BY <1>1
  <2> QED BY <2>1, <1>1 DEF Members
<1>3. ASSUME NEW i \in 1..Len(s) PROVE s[i] \in Members(Append(s, x))
  <2>1. i \in 1..Len(Append(s, x)) /\ s[i] = Append(s, x)[i] BY <1>1
  <2> QED BY <2>1 DEF Members
<1>4. x \in Members(Append(s, x))
  <2>1. Len(s) + 1 \in 1..Len(Append(s, x)) BY <1>1
  <2> QED BY <2>1, <1>1 DEF Members
<1> QED BY <1>1, <1>2, <1>3, <1>4 DEF Members

LEMMA AppendOrdered ==
  ASSUME NEW S, NEW s \in Seq(S), NEW x \in S, Ordered(s), Before(Members(s), {x})
  PROVE  Ordered(Append(s, x))
<1>1. /\ Len(Append(s, x)) = Len(s) + 1 /\ Len(s) \in Nat
      /\ \A i \in 1..Len(s) : Append(s, x)[i] = s[i]
      /\ Append(s, x)[Len(s) + 1] = x
  OBVIOUS
<1> SUFFICES ASSUME NEW i \in 1..Len(Append(s, x)), NEW j \in 1..Len(Append(s, x)), i < j,
                    Append(s, x)[i].by = Append(s, x)[j].by
             PROVE  Append(s, x)[i].number < Append(s, x)[j].number
  BY DEF Ordered
<1>2. i \in 1..Len(s) /\ Append(s, x)[i] = s[i] BY <1>1
<1>3. CASE j \in 1..Len(s) BY <1>1, <1>2, <1>3 DEF Ordered
<1>4. CASE j = Len(s) + 1
  <2>1. s[i] \in Members(s) /\ Append(s, x)[j] = x BY <1>1, <1>2, <1>4 DEF Members
  <2> QED BY <2>1, <1>2 DEF Before
<1> QED BY <1>1, <1>3, <1>4

LEMMA EmptyMembers == Members(<<>>) = {} /\ Ordered(<<>>)
  BY DEF Members, Ordered

-----------------------------------------------------------------------------
(* Types, as far as the stream needs them.                                 *)

StreamTyped ==
  /\ push \in [Pipelines -> {"idle", "counting", "sending"}]
  /\ count \in [Pipelines -> 0..Len(Script)]
  /\ calls \in Seq(Events)
  /\ link \in [Clients -> {"none", "open", "closed"}]
  /\ queue \in [Clients -> Seq(Events)]
  /\ heard \in [Clients -> [Pipelines -> 0..Len(Script)]]
  /\ missed \in [Clients -> BOOLEAN]
  /\ \A c \in Clients : link[c] = "none" => /\ queue[c] = <<>>
                                            /\ \A p \in Pipelines : heard[c][p] = 0
  /\ \A p \in Pipelines : push[p] # "idle" => count[p] > 0

-----------------------------------------------------------------------------
(* The way of an event to a browser.                                       *)

\* The number of the last event of p that was handed to the loop.
Sent(p) == IF push[p] = "idle" THEN count[p] ELSE count[p] - 1

Event(p, n) == [by |-> p, number |-> n]

Pending(c) == Members(queue[c]) \cup Members(calls)

\* The broadcasts of an analysis are in order, were sent, and none is left out
\* after one that is still to come.
CallsInOrder ==
  /\ Ordered(calls)
  /\ \A e \in Members(calls) : e.number <= Sent(e.by)
  /\ \A e \in Members(calls) : \A n \in 1..Sent(e.by) :
       e.number < n => Event(e.by, n) \in Members(calls)

\* What c has heard comes before its queue, that before the broadcasts.
ClientInOrder(c) ==
  /\ Ordered(queue[c])
  /\ Before(Members(queue[c]), Members(calls))
  /\ \A e \in Pending(c) : heard[c][e.by] < e.number
  /\ \A e \in Members(queue[c]) : e.number <= Sent(e.by)
  /\ \A p \in Pipelines : heard[c][p] <= Sent(p)

\* What follows an event that a browser has heard or that is in its queue is in
\* its queue or still to come, unless its queue overflowed.
Reached(c, p, m) == m = heard[c][p] \/ Event(p, m) \in Members(queue[c])

NoneLeftOut(c) ==
  link[c] # "none" /\ ~missed[c] =>
    \A p \in Pipelines : \A m, n \in 1..Sent(p) :
      m < n /\ Reached(c, p, m) => Event(p, n) \in Pending(c)

ClientInv(c) == ClientInOrder(c) /\ NoneLeftOut(c)

StreamInv == StreamTyped /\ CallsInOrder /\ \A c \in Clients : ClientInv(c)

LEMMA StreamInitInv == ConsoleInit => StreamInv
<1> SUFFICES ASSUME ConsoleInit PROVE StreamInv
  OBVIOUS
<1> USE DEF ConsoleInit, SharedInit
<1>1. Len(Script) \in Nat
  BY SharedStateAssumption
<1>2. StreamTyped
  BY <1>1 DEF StreamTyped
<1>3. Members(calls) = {} /\ Ordered(calls)
  BY EmptyMembers
<1>4. CallsInOrder
  BY <1>3 DEF CallsInOrder
<1>5. ASSUME NEW c \in Clients PROVE ClientInv(c)
  <2>1. Members(queue[c]) = {} /\ Ordered(queue[c])
    BY EmptyMembers
  <2>2. \A p \in Pipelines : heard[c][p] <= Sent(p)
    BY DEF Sent
  <2>3. ClientInOrder(c)
    BY <1>3, <2>1, <2>2 DEF ClientInOrder, Before, Pending
  <2>4. NoneLeftOut(c)
    BY DEF NoneLeftOut
  <2> QED BY <2>3, <2>4 DEF ClientInv
<1> QED BY <1>2, <1>4, <1>5 DEF StreamInv

(* What the types say of events and numbers.                               *)
LEMMA StreamFacts ==
  ASSUME StreamTyped
  PROVE  /\ Len(Script) \in Nat
         /\ Members(calls) \subseteq Events
         /\ \A c \in Clients : Members(queue[c]) \subseteq Events
         /\ \A c \in Clients, p \in Pipelines : heard[c][p] \in 0..Len(Script)
         /\ \A p \in Pipelines : Sent(p) \in 0..Len(Script)
         /\ \A e \in Events : /\ e.by \in Pipelines /\ e.number \in 1..Len(Script)
                              /\ e = Event(e.by, e.number)
<1>1. Len(Script) \in Nat
  BY SharedStateAssumption
<1>2. Members(calls) \subseteq Events /\ \A c \in Clients : Members(queue[c]) \subseteq Events
  BY DEF StreamTyped, Members
<1>3. \A c \in Clients, p \in Pipelines : heard[c][p] \in 0..Len(Script)
  BY DEF StreamTyped
<1>4. \A p \in Pipelines : Sent(p) \in 0..Len(Script)
  BY <1>1 DEF StreamTyped, Sent
<1>5. \A e \in Events : /\ e.by \in Pipelines /\ e.number \in 1..Len(Script)
                        /\ e = Event(e.by, e.number)
  BY DEF Events, Event
<1> QED BY <1>1, <1>2, <1>3, <1>4, <1>5

-----------------------------------------------------------------------------
(* The steps of push_event.                                                *)

(* A browser is not affected by a step that leaves its part alone, but for *)
(* a broadcast that is sent, which comes after all others.                 *)
LEMMA ClientUnchanged ==
  ASSUME NEW c \in Clients, StreamInv, UNCHANGED calls,
         \A p \in Pipelines : Sent(p)' = Sent(p),
         link'[c] = link[c], queue'[c] = queue[c], heard'[c] = heard[c], missed'[c] = missed[c]
  PROVE  ClientInv(c)'
<1>1. ClientInv(c) /\ StreamTyped
  BY DEF StreamInv
<1>2. Pending(c)' = Pending(c) /\ \A p, m : Reached(c, p, m)' <=> Reached(c, p, m)
  BY DEF Pending, Reached
<1>3. ClientInOrder(c)'
  BY <1>1, <1>2, StreamFacts DEF ClientInv, ClientInOrder
<1>4. NoneLeftOut(c)'
  BY <1>1, <1>2 DEF ClientInv, NoneLeftOut
<1> QED BY <1>3, <1>4 DEF ClientInv

LEMMA CallsUnchanged ==
  ASSUME StreamInv, UNCHANGED calls, \A p \in Pipelines : Sent(p)' = Sent(p)
  PROVE  CallsInOrder'
  BY StreamFacts DEF StreamInv, CallsInOrder

LEMMA LogInv ==
  ASSUME StreamInv, NEW p \in Pipelines, LogEvent(p)
  PROVE  StreamInv'
<1>1. /\ push[p] = "idle" /\ count[p] < Len(Script)
      /\ count' = [count EXCEPT ![p] = count[p] + 1]
      /\ push' = [push EXCEPT ![p] = "counting"]
      /\ UNCHANGED <<calls, link, queue, heard, missed>>
  BY DEF LogEvent, clientVars
<1>2. Len(Script) \in Nat
  BY SharedStateAssumption
<1>3. StreamTyped'
  BY <1>1, <1>2 DEF StreamInv, StreamTyped
<1>4. \A q \in Pipelines : Sent(q)' = Sent(q)
  BY <1>1, <1>2 DEF StreamInv, StreamTyped, Sent
<1>5. CallsInOrder'
  BY <1>1, <1>4, CallsUnchanged
<1>6. \A c \in Clients : ClientInv(c)'
  BY <1>1, <1>4, ClientUnchanged
<1> QED BY <1>3, <1>5, <1>6 DEF StreamInv

LEMMA CountInv ==
  ASSUME StreamInv, NEW p \in Pipelines, CountEvent(p)
  PROVE  StreamInv'
<1>1. /\ push[p] = "counting"
      /\ push' = [push EXCEPT ![p] = "sending"]
      /\ UNCHANGED <<count, calls, link, queue, heard, missed>>
  BY DEF CountEvent, clientVars
<1>2. StreamTyped'
  BY <1>1 DEF StreamInv, StreamTyped
<1>3. \A q \in Pipelines : Sent(q)' = Sent(q)
  BY <1>1 DEF StreamInv, StreamTyped, Sent
<1>4. CallsInOrder'
  BY <1>1, <1>3, CallsUnchanged
<1>5. \A c \in Clients : ClientInv(c)'
  BY <1>1, <1>3, ClientUnchanged
<1> QED BY <1>2, <1>4, <1>5 DEF StreamInv

LEMMA SendInv ==
  ASSUME StreamInv, NEW p \in Pipelines, SendEvent(p)
  PROVE  StreamInv'
<1> DEFINE x == EventOf(p)
<1>1. /\ push[p] = "sending"
      /\ push' = [push EXCEPT ![p] = "idle"]
      /\ calls' = Append(calls, x)
      /\ UNCHANGED <<count, link, queue, heard, missed>>
  BY DEF SendEvent, clientVars
<1>2. /\ count[p] \in 1..Len(Script)
      /\ x = Event(p, count[p]) /\ x \in Events /\ x.by = p /\ x.number = count[p]
  <2>1. count[p] \in 1..Len(Script)
    BY <1>1, SharedStateAssumption DEF StreamInv, StreamTyped
  <2>2. x = Event(p, count[p]) /\ x.by = p /\ x.number = count[p]
    BY DEF EventOf, Event
  <2>3. x \in Events
    BY <2>1 DEF EventOf, Events
  <2> QED BY <2>1, <2>2, <2>3
<1> HIDE DEF x
<1>3. /\ calls' \in Seq(Events) /\ Members(calls') = Members(calls) \cup {x}
      /\ \A c \in Clients : Pending(c)' = Pending(c) \cup {x}
  BY <1>1, <1>2, AppendMembers DEF StreamInv, StreamTyped, Pending
<1>4. StreamTyped'
  BY <1>1, <1>3 DEF StreamInv, StreamTyped
<1>5. /\ Sent(p) = count[p] - 1 /\ Sent(p)' = count[p]
      /\ \A q \in Pipelines : q # p => Sent(q)' = Sent(q)
  BY <1>1 DEF StreamInv, StreamTyped, Sent
<1>6. \A q \in Pipelines : Sent(q) <= Sent(q)'
  BY <1>2, <1>5, StreamFacts DEF StreamInv
<1>7. CallsInOrder'
  <2>1. Before(Members(calls), {x})
    BY <1>2, <1>5, StreamFacts DEF StreamInv, CallsInOrder, Before
  <2>2. Ordered(calls')
    BY <1>1, <1>2, <2>1, AppendOrdered DEF StreamInv, StreamTyped, CallsInOrder
  <2>3. \A e \in Members(calls)' : e.number <= Sent(e.by)'
    BY <1>2, <1>3, <1>5, <1>6, StreamFacts DEF StreamInv, CallsInOrder
  <2>4. ASSUME NEW e \in Members(calls'), NEW n \in 1..Sent(e.by)', e.number < n
        PROVE  Event(e.by, n) \in Members(calls')
    <3>1. CASE e.by = p /\ n = count[p] BY <3>1, <1>2, <1>3
    <3>2. CASE ~(e.by = p /\ n = count[p])
      <4>1. e \in Members(calls) /\ n \in 1..Sent(e.by)
        BY <2>4, <3>2, <1>2, <1>3, <1>5, StreamFacts DEF StreamInv
      <4> QED BY <4>1, <2>4, <1>3 DEF StreamInv, CallsInOrder
    <3> QED BY <3>1, <3>2
  <2>5. \A e \in Members(calls)' : \A n \in 1..Sent(e.by)' :
          e.number < n => Event(e.by, n)' \in Members(calls)'
    BY <2>4 DEF Event
  <2> QED BY <2>2, <2>3, <2>5 DEF CallsInOrder
<1>8. ASSUME NEW c \in Clients PROVE ClientInv(c)'
  <2>1. \A e \in Members(queue[c]) : e.by = p => e.number < x.number
    BY <1>2, <1>5, StreamFacts DEF StreamInv, ClientInv, ClientInOrder
  <2>2. heard[c][p] < x.number
    BY <1>2, <1>5, StreamFacts DEF StreamInv, ClientInv, ClientInOrder
  <2>3. Before(Members(queue[c]), Members(calls'))
    BY <1>2, <1>3, <2>1 DEF StreamInv, ClientInv, ClientInOrder, Before
  <2>4. \A e \in Pending(c)' : heard'[c][e.by] < e.number
    BY <1>1, <1>2, <1>3, <2>2 DEF StreamInv, ClientInv, ClientInOrder
  <2>5. \A e \in Members(queue[c]) : e.number <= Sent(e.by)'
    BY <1>6, StreamFacts, <1>5, <1>2 DEF StreamInv, ClientInv, ClientInOrder
  <2>6. \A q \in Pipelines : heard[c][q] <= Sent(q)'
    BY <1>6, StreamFacts, <1>5, <1>2 DEF StreamInv, ClientInv, ClientInOrder
  <2>7. ClientInOrder(c)'
    BY <1>1, <2>3, <2>4, <2>5, <2>6 DEF StreamInv, ClientInv, ClientInOrder
  <2>8. NoneLeftOut(c)'
    <3> SUFFICES ASSUME link[c] # "none", ~missed[c], NEW q \in Pipelines,
                        NEW m \in 1..Sent(q)', NEW n \in 1..Sent(q)', m < n, Reached(c, q, m)'
                 PROVE  Event(q, n) \in Pending(c)'
      BY <1>1 DEF NoneLeftOut, Event
    <3>1. CASE q = p /\ n = count[p] BY <3>1, <1>2, <1>3
    <3>2. CASE ~(q = p /\ n = count[p])
      <4>1. m \in 1..Sent(q) /\ n \in 1..Sent(q) BY <3>2, <1>2, <1>5
      <4>2. Reached(c, q, m) BY <1>1 DEF Reached, Event
      <4> QED BY <4>1, <4>2, <1>3 DEF StreamInv, ClientInv, NoneLeftOut
    <3> QED BY <3>1, <3>2
  <2> QED BY <2>7, <2>8 DEF ClientInv
<1> QED BY <1>4, <1>7, <1>8 DEF StreamInv

-----------------------------------------------------------------------------
(* The steps of the event loop and the browser.                            *)

LEMMA BroadcastInv ==
  ASSUME StreamInv, Broadcast
  PROVE  StreamInv'
<1> DEFINE h == Head(calls)
           Left == Members(Tail(calls))
           Full(c) == link[c] = "none" \/ Len(queue[c]) = QueueSize
<1>1. /\ calls # <<>> /\ calls' = Tail(calls)
      /\ queue' = [c \in Clients |-> IF Full(c) THEN queue[c] ELSE Append(queue[c], h)]
      /\ missed' = [c \in Clients |->
                      missed[c] \/ (link[c] # "none" /\ Len(queue[c]) = QueueSize)]
      /\ UNCHANGED <<push, count, link, heard>>
  BY DEF Broadcast, pushVars
<1>2. /\ h \in Events /\ calls' \in Seq(Events)
      /\ Members(calls) = {h} \cup Left /\ Members(calls') = Left
  BY <1>1, TailMembers DEF StreamInv, StreamTyped
<1>3. Ordered(calls') /\ Before({h}, Left)
  BY <1>1, TailOrdered DEF StreamInv, StreamTyped, CallsInOrder
<1> HIDE DEF h, Left
<1>4. \A c \in Clients :
        /\ Full(c) => queue'[c] = queue[c]
        /\ ~Full(c) => /\ queue'[c] = Append(queue[c], h)
                       /\ queue'[c] \in Seq(Events)
                       /\ Members(queue'[c]) = Members(queue[c]) \cup {h}
  <2> SUFFICES ASSUME NEW c \in Clients
               PROVE  /\ Full(c) => queue'[c] = queue[c]
                      /\ ~Full(c) => /\ queue'[c] = Append(queue[c], h)
                                     /\ queue'[c] \in Seq(Events)
                                     /\ Members(queue'[c]) = Members(queue[c]) \cup {h}
    OBVIOUS
  <2>1. queue[c] \in Seq(Events) BY DEF StreamInv, StreamTyped
  <2>2. /\ Append(queue[c], h) \in Seq(Events)
        /\ Members(Append(queue[c], h)) = Members(queue[c]) \cup {h}
    BY <1>2, <2>1, AppendMembers
  <2> QED BY <1>1, <2>1, <2>2
<1>5. StreamTyped'
  <2>1. queue' \in [Clients -> Seq(Events)]
    <3>1. \A c \in Clients : queue'[c] \in Seq(Events) BY <1>4 DEF StreamInv, StreamTyped
    <3> QED BY <1>1, <3>1
  <2>2. missed' \in [Clients -> BOOLEAN]
    <3>1. \A c \in Clients :
            (missed[c] \/ (link[c] # "none" /\ Len(queue[c]) = QueueSize)) \in BOOLEAN
      OBVIOUS
    <3> QED BY <1>1, <3>1
  <2>3. \A c \in Clients : link[c] = "none" => queue'[c] = queue[c]
    BY <1>4
  <2> QED BY <1>1, <1>2, <2>1, <2>2, <2>3 DEF StreamInv, StreamTyped
<1>6. \A p \in Pipelines : Sent(p)' = Sent(p)
  BY <1>1 DEF Sent
<1>7. /\ Left \subseteq Events /\ StreamTyped
      /\ \A e \in Left : e.by = h.by => h.number < e.number
  BY <1>2, <1>3, StreamFacts DEF StreamInv, Before
<1>8. CallsInOrder'
  <2>1. \A e \in Left : e.number <= Sent(e.by)'
    BY <1>2, <1>6, <1>7, StreamFacts DEF StreamInv, CallsInOrder
  <2>2. ASSUME NEW e \in Left, NEW n \in 1..Sent(e.by), e.number < n
        PROVE  Event(e.by, n) \in Left
    <3>1. Event(e.by, n) \in {h} \cup Left
      BY <1>2, <2>2 DEF StreamInv, CallsInOrder
    <3>2. Event(e.by, n) # h
      BY <1>2, <1>7, <2>2, StreamFacts DEF Event
    <3> QED BY <3>1, <3>2
  <2>3. \A e \in Members(calls') : \A n \in 1..Sent(e.by)' :
          e.number < n => Event(e.by, n) \in Members(calls')
    BY <1>2, <1>6, <1>7, <2>2, StreamFacts
  <2> QED BY <1>2, <1>3, <2>1, <2>3 DEF CallsInOrder, Event
<1>9. ASSUME NEW c \in Clients PROVE ClientInv(c)'
  <2> DEFINE Q == Members(queue[c])
  <2>1. /\ ClientInOrder(c) /\ NoneLeftOut(c)
        /\ Q \subseteq Events /\ Before(Q, {h} \cup Left)
    BY <1>2, <1>7, StreamFacts DEF StreamInv, ClientInv, ClientInOrder
  <2>2. /\ Members(queue'[c]) \subseteq Q \cup {h}
        /\ Q \subseteq Members(queue'[c])
        /\ Pending(c)' \subseteq Pending(c)
    BY <1>2, <1>4 DEF Pending
  <2>3. Ordered(queue'[c])
    <3>1. CASE Full(c) BY <3>1, <1>4, <2>1 DEF ClientInOrder
    <3>2. CASE ~Full(c)
      <4>1. Before(Q, {h}) BY <2>1 DEF Before
      <4>2. queue[c] \in Seq(Events) /\ Ordered(queue[c])
        BY <2>1 DEF StreamInv, StreamTyped, ClientInOrder
      <4>3. Ordered(Append(queue[c], h)) BY <1>2, <4>1, <4>2, AppendOrdered
      <4> QED BY <3>2, <1>4, <4>3
    <3> QED BY <3>1, <3>2
  <2>4. Before(Members(queue'[c]), Left)
    BY <1>3, <2>1, <2>2 DEF Before
  <2>5. \A e \in Pending(c)' : heard'[c][e.by] < e.number
    BY <1>1, <2>1, <2>2 DEF ClientInOrder
  <2>6. \A e \in Members(queue'[c]) : e.number <= Sent(e.by)'
    BY <1>2, <1>6, <1>7, <2>1, <2>2, StreamFacts DEF StreamInv, CallsInOrder, ClientInOrder
  <2>7. \A p \in Pipelines : heard'[c][p] <= Sent(p)'
    BY <1>1, <1>6, <2>1 DEF ClientInOrder
  <2>8. ClientInOrder(c)'
    BY <1>2, <2>3, <2>4, <2>5, <2>6, <2>7 DEF ClientInOrder
  <2>9. NoneLeftOut(c)'
    <3> SUFFICES ASSUME link[c] # "none", ~missed'[c], NEW p \in Pipelines,
                        NEW m \in 1..Sent(p), NEW n \in 1..Sent(p), m < n, Reached(c, p, m)'
                 PROVE  Event(p, n) \in Pending(c)'
      BY <1>1, <1>6 DEF NoneLeftOut, Event
    <3>1. ~Full(c) /\ ~missed[c] BY <1>1
    <3>2. Pending(c)' = Pending(c) BY <1>2, <1>4, <3>1 DEF Pending
    <3>3. CASE Reached(c, p, m) BY <3>1, <3>2, <3>3, <2>1 DEF NoneLeftOut
    <3>4. CASE ~Reached(c, p, m)
      <4>1. Event(p, m) = h
        BY <1>1, <3>4, <2>2 DEF Reached, Event
      <4>2. h.by = p /\ h.number = m BY <4>1 DEF Event
      <4>3. Event(p, n) \in Members(calls)
        BY <1>2, <4>2 DEF StreamInv, CallsInOrder
      <4> QED BY <3>2, <4>3 DEF Pending
    <3> QED BY <3>3, <3>4
  <2> QED BY <2>8, <2>9 DEF ClientInv
<1> QED BY <1>5, <1>8, <1>9 DEF StreamInv

(* A browser without a queue has not heard anything either.                *)
LEMMA FreshClient ==
  ASSUME NEW c \in Clients, StreamInv, StreamTyped', UNCHANGED <<push, count, calls>>,
         queue'[c] = <<>>, \A p \in Pipelines : heard'[c][p] = 0
  PROVE  ClientInv(c)'
<1>1. Members(queue'[c]) = {} /\ Ordered(queue'[c])
  BY EmptyMembers
<1>2. Pending(c)' = Members(calls) /\ \A p \in Pipelines : Sent(p)' = Sent(p)
  BY <1>1 DEF Pending, Sent
<1>3. Members(calls) \subseteq Events /\ \A e \in Events : e.by \in Pipelines /\ e.number \in Nat \ {0}
  BY StreamFacts DEF StreamInv
<1>4. ClientInOrder(c)'
  BY <1>1, <1>2, <1>3, StreamFacts DEF StreamInv, ClientInOrder, Before
<1>5. NoneLeftOut(c)'
  BY <1>1, <1>2, StreamFacts DEF StreamInv, NoneLeftOut, Reached
<1> QED BY <1>4, <1>5 DEF ClientInv

LEMMA ConnectInv ==
  ASSUME StreamInv, NEW c \in Clients, Connect(c)
  PROVE  StreamInv'
<1>1. /\ link[c] = "none" /\ link' = [link EXCEPT ![c] = "open"]
      /\ UNCHANGED <<push, count, calls, queue, heard, missed>>
  BY DEF Connect, pushVars
<1>2. StreamTyped'
  BY <1>1 DEF StreamInv, StreamTyped
<1>3. \A p \in Pipelines : Sent(p)' = Sent(p)
  BY <1>1 DEF Sent
<1>4. ClientInv(c)'
  BY <1>1, <1>2, FreshClient DEF StreamInv, StreamTyped
<1>5. \A d \in Clients : d # c => ClientInv(d)'
  BY <1>1, <1>3, ClientUnchanged DEF StreamInv, StreamTyped
<1>6. CallsInOrder'
  BY <1>1, <1>3, CallsUnchanged
<1> QED BY <1>2, <1>4, <1>5, <1>6 DEF StreamInv

LEMMA LeaveInv ==
  ASSUME StreamInv, NEW c \in Clients, Leave(c)
  PROVE  StreamInv'
<1>1. /\ link[c] = "open" /\ link' = [link EXCEPT ![c] = "closed"]
      /\ UNCHANGED <<push, count, calls, queue, heard, missed>>
  BY DEF Leave, pushVars
<1>2. StreamTyped'
  BY <1>1 DEF StreamInv, StreamTyped
<1>3. \A p \in Pipelines : Sent(p)' = Sent(p)
  BY <1>1 DEF Sent
<1>4. ClientInv(c)'
  <2>1. Pending(c)' = Pending(c) /\ \A p, m : Reached(c, p, m)' <=> Reached(c, p, m)
    BY <1>1 DEF Pending, Reached
  <2>2. ClientInOrder(c)'
    BY <1>1, <1>3, <2>1, StreamFacts DEF StreamInv, ClientInv, ClientInOrder
  <2>3. NoneLeftOut(c)'
    BY <1>1, <1>3, <2>1 DEF StreamInv, ClientInv, NoneLeftOut
  <2> QED BY <2>2, <2>3 DEF ClientInv
<1>5. \A d \in Clients : d # c => ClientInv(d)'
  BY <1>1, <1>3, ClientUnchanged DEF StreamInv, StreamTyped
<1>6. CallsInOrder'
  BY <1>1, <1>3, CallsUnchanged
<1> QED BY <1>2, <1>4, <1>5, <1>6 DEF StreamInv

LEMMA DiscardInv ==
  ASSUME StreamInv, NEW c \in Clients, Discard(c), UNCHANGED <<push, count, calls>>
  PROVE  StreamInv'
<1>1. /\ link' = [link EXCEPT ![c] = "none"]
      /\ queue' = [queue EXCEPT ![c] = <<>>]
      /\ heard' = [heard EXCEPT ![c] = [p \in Pipelines |-> 0]]
      /\ missed' = [missed EXCEPT ![c] = FALSE]
  BY DEF Discard
<1>2. StreamTyped'
  BY <1>1, SharedStateAssumption DEF StreamInv, StreamTyped
<1>3. \A p \in Pipelines : Sent(p)' = Sent(p)
  BY DEF Sent
<1>4. ClientInv(c)'
  BY <1>1, <1>2, FreshClient DEF StreamInv, StreamTyped
<1>5. \A d \in Clients : d # c => ClientInv(d)'
  BY <1>1, <1>3, ClientUnchanged DEF StreamInv, StreamTyped
<1>6. CallsInOrder'
  BY <1>3, CallsUnchanged
<1> QED BY <1>2, <1>4, <1>5, <1>6 DEF StreamInv

(* The first event of the queue is sent to the browser.                    *)
LEMMA HearInv ==
  ASSUME StreamInv, NEW c \in Clients, Deliver(c), link[c] = "open"
  PROVE  StreamInv'
<1> DEFINE h == Head(queue[c])
           Left == Members(Tail(queue[c]))
<1>1. /\ queue[c] # <<>>
      /\ queue' = [queue EXCEPT ![c] = Tail(queue[c])]
      /\ heard' = [heard EXCEPT ![c] = [heard[c] EXCEPT ![h.by] = h.number]]
      /\ UNCHANGED <<push, count, calls, link, missed>>
  BY DEF Deliver, pushVars
<1>2. queue[c] \in Seq(Events) /\ Ordered(queue[c]) /\ ClientInOrder(c) /\ NoneLeftOut(c)
  BY DEF StreamInv, StreamTyped, ClientInv, ClientInOrder
<1>3. /\ h \in Events /\ Tail(queue[c]) \in Seq(Events)
      /\ Members(queue[c]) = {h} \cup Left
  BY <1>1, <1>2, TailMembers
<1>4. Ordered(Tail(queue[c])) /\ Before({h}, Left)
  BY <1>1, <1>2, TailOrdered
<1>5. queue'[c] = Tail(queue[c]) /\ Members(queue'[c]) = Left
  BY <1>1 DEF StreamInv, StreamTyped
<1> HIDE DEF h, Left
<1>6. h.by \in Pipelines /\ h.number \in 1..Len(Script) /\ h = Event(h.by, h.number)
  BY <1>3, StreamFacts DEF StreamInv
<1>7. /\ heard'[c][h.by] = h.number
      /\ \A p \in Pipelines : p # h.by => heard'[c][p] = heard[c][p]
  BY <1>1, <1>6 DEF StreamInv, StreamTyped
<1>8. StreamTyped'
  <2>1. heard' \in [Clients -> [Pipelines -> 0..Len(Script)]]
    BY <1>1, <1>6, SharedStateAssumption DEF StreamInv, StreamTyped
  <2>2. queue' \in [Clients -> Seq(Events)]
    BY <1>1, <1>3 DEF StreamInv, StreamTyped
  <2>3. \A d \in Clients : link[d] = "none" => heard'[d] = heard[d] /\ queue'[d] = queue[d]
    BY <1>1 DEF StreamInv, StreamTyped
  <2> QED BY <1>1, <2>1, <2>2, <2>3 DEF StreamInv, StreamTyped
<1>9. \A p \in Pipelines : Sent(p)' = Sent(p)
  BY <1>1 DEF Sent
<1>10. /\ Pending(c)' = Left \cup Members(calls)
       /\ Pending(c) = {h} \cup Pending(c)'
       /\ Pending(c)' \subseteq Events
  BY <1>1, <1>3, <1>5, StreamFacts DEF StreamInv, Pending
<1>11. \A e \in Pending(c)' : e.by = h.by => h.number < e.number
  BY <1>2, <1>3, <1>4, <1>10 DEF ClientInOrder, Before
<1>12. ClientInOrder(c)'
  <2>1. Before(Left, Members(calls))
    BY <1>2, <1>3 DEF ClientInOrder, Before
  <2>2. \A e \in Pending(c)' : heard'[c][e.by] < e.number
    <3> SUFFICES ASSUME NEW e \in Pending(c)' PROVE heard'[c][e.by] < e.number
      OBVIOUS
    <3>1. e \in Pending(c) /\ e.by \in Pipelines
      BY <1>10, StreamFacts DEF StreamInv
    <3> QED BY <3>1, <1>2, <1>7, <1>11 DEF ClientInOrder
  <2>3. \A e \in Left : e.number <= Sent(e.by)'
    BY <1>2, <1>3, <1>9, StreamFacts DEF StreamInv, ClientInOrder
  <2>4. \A p \in Pipelines : heard'[c][p] <= Sent(p)'
    BY <1>2, <1>3, <1>7, <1>9 DEF ClientInOrder
  <2> QED BY <1>1, <1>4, <1>5, <2>1, <2>2, <2>3, <2>4 DEF ClientInOrder
<1>13. NoneLeftOut(c)'
  <2> SUFFICES ASSUME link[c] # "none", ~missed[c], NEW p \in Pipelines,
                      NEW m \in 1..Sent(p), NEW n \in 1..Sent(p), m < n, Reached(c, p, m)'
               PROVE  Event(p, n) \in Pending(c)'
    BY <1>1, <1>9 DEF NoneLeftOut, Event
  <2>1. Reached(c, p, m)
    BY <1>3, <1>5, <1>6, <1>7 DEF Reached, Event
  <2>2. Event(p, n) \in Pending(c)
    BY <1>2, <2>1 DEF NoneLeftOut
  <2>3. p = h.by => h.number <= m
    BY <1>5, <1>7, <1>10, <1>11, <1>6 DEF Reached, Event
  <2>4. Event(p, n) # h
    BY <2>3, <1>6, StreamFacts DEF StreamInv, Event
  <2> QED BY <1>10, <2>2, <2>4
<1>14. \A d \in Clients : d # c => ClientInv(d)'
  BY <1>1, <1>9, ClientUnchanged DEF StreamInv, StreamTyped
<1>15. CallsInOrder'
  BY <1>1, <1>9, CallsUnchanged
<1> QED BY <1>8, <1>12, <1>13, <1>14, <1>15 DEF StreamInv, ClientInv

LEMMA IdleInv ==
  ASSUME StreamInv, UNCHANGED <<push, count, calls, link, queue, heard, missed>>
  PROVE  StreamInv'
<1>1. \A p \in Pipelines : Sent(p)' = Sent(p)
  BY DEF Sent
<1>2. StreamTyped' BY DEF StreamInv, StreamTyped
<1> QED BY <1>1, <1>2, CallsUnchanged, ClientUnchanged DEF StreamInv

LEMMA ServeInv ==
  ASSUME StreamInv, NEW c \in Clients, Serve(c)
  PROVE  StreamInv'
<1>1. CASE Deliver(c) /\ link[c] = "open"
  BY <1>1, HearInv
<1>2. CASE Deliver(c) /\ link[c] # "open"
  BY <1>2, DiscardInv DEF Deliver, pushVars
<1>3. CASE Heartbeat(c)
  <2>1. CASE UNCHANGED <<link, queue, heard, missed>>
    BY <1>3, <2>1, IdleInv DEF Heartbeat, pushVars
  <2>2. CASE Discard(c)
    BY <1>3, <2>2, DiscardInv DEF Heartbeat, pushVars
  <2> QED BY <1>3, <2>1, <2>2 DEF Heartbeat
<1> QED BY <1>1, <1>2, <1>3 DEF Serve

LEMMA StreamNextInv == StreamInv /\ [ConsoleNext]_consoleVars => StreamInv'
<1> SUFFICES ASSUME StreamInv, [ConsoleNext]_consoleVars PROVE StreamInv'
  OBVIOUS
<1>1. ASSUME NEW p \in Pipelines, Pushes(p) PROVE StreamInv'
  BY <1>1, LogInv, CountInv, SendInv DEF Pushes, PushEvent
<1>2. ASSUME NEW p \in Pipelines, StartAnalysis(p) \/ ThreadBegins(p) \/ AnalysisOver(p)
      PROVE  StreamInv'
  BY <1>2, IdleInv DEF StartAnalysis, ThreadBegins, AnalysisOver, sharedVars, pushVars, clientVars
<1>3. ASSUME LoopStep PROVE StreamInv'
  <2>1. CASE Broadcast BY <2>1, BroadcastInv
  <2>2. CASE StateReply BY <2>2, IdleInv DEF StateReply, pushVars, clientVars
  <2>3. ASSUME NEW c \in Clients, Connect(c) PROVE StreamInv' BY <2>3, ConnectInv
  <2>4. ASSUME NEW c \in Clients, Serve(c) PROVE StreamInv' BY <2>4, ServeInv
  <2> QED BY <1>3, <2>1, <2>2, <2>3, <2>4 DEF LoopStep
<1>4. ASSUME StateRequest PROVE StreamInv'
  BY <1>4, IdleInv DEF StateRequest, pushVars, clientVars
<1>5. ASSUME NEW c \in Clients, Leave(c) PROVE StreamInv'
  BY <1>5, LeaveInv
<1>6. CASE UNCHANGED consoleVars
  BY <1>6, IdleInv DEF consoleVars, sharedVars, pushVars, clientVars
<1> QED BY <1>1, <1>2, <1>3, <1>4, <1>5, <1>6 DEF ConsoleNext, ThreadStep, ServerStep

(* The first event of a queue is the next one its browser should hear.     *)
LEMMA HeadIsNext ==
  ASSUME StreamInv, NEW c \in Clients, queue[c] # <<>>
  PROVE  LET e == Head(queue[c])
         IN  /\ e.number > heard[c][e.by]
             /\ heard[c][e.by] # 0 /\ ~missed[c] => e.number = heard[c][e.by] + 1
<1> DEFINE e == Head(queue[c])
<1>1. queue[c] \in Seq(Events) /\ link[c] # "none" /\ ClientInOrder(c) /\ NoneLeftOut(c)
  BY DEF StreamInv, StreamTyped, ClientInv
<1>2. e \in Events /\ Members(queue[c]) = {e} \cup Members(Tail(queue[c]))
  BY <1>1, TailMembers
<1>3. Before({e}, Members(Tail(queue[c])))
  BY <1>1, TailOrdered DEF ClientInOrder
<1> HIDE DEF e
<1>4. e.by \in Pipelines /\ e.number \in Nat /\ heard[c][e.by] \in Nat /\ Sent(e.by) \in Nat
  BY <1>2, StreamFacts DEF StreamInv
<1>5. heard[c][e.by] < e.number /\ e.number <= Sent(e.by)
  BY <1>1, <1>2 DEF ClientInOrder, Pending
<1>6. ASSUME heard[c][e.by] # 0, ~missed[c], e.number # heard[c][e.by] + 1
      PROVE  FALSE
  <2> DEFINE n == heard[c][e.by] + 1
  <2>1. n \in 1..Sent(e.by) /\ heard[c][e.by] \in 1..Sent(e.by) /\ n < e.number
    BY <1>4, <1>5, <1>6
  <2>2. Event(e.by, n) \in Pending(c)
    BY <1>1, <1>4, <1>6, <2>1 DEF NoneLeftOut, Reached
  <2> HIDE DEF n
  <2>3. Event(e.by, n).by = e.by /\ Event(e.by, n).number = n /\ Event(e.by, n) # e
    BY <1>4, <2>1 DEF Event
  <2>4. Before({e}, Members(calls))
    BY <1>1, <1>2 DEF ClientInOrder, Before
  <2>5. e.number < n
    BY <1>2, <1>3, <2>2, <2>3, <2>4 DEF Pending, Before
  <2> QED BY <1>4, <2>1, <2>5
<1>7. heard[c][e.by] # 0 /\ ~missed[c] => e.number = heard[c][e.by] + 1
  BY <1>6
<1> QED BY <1>4, <1>5, <1>7 DEF e

(* Every browser gets the events of an analysis in their order, each once, *)
(* and none is left out unless its queue overflowed: the lock of           *)
(* push_event and the order in which the loop runs the broadcasts carry    *)
(* over to the sockets (gui_server.py, push_event and ws_events).          *)
THEOREM StreamIsFaithful == ConsoleSpec => StreamFaithful
<1> DEFINE Faithful ==
      \A c \in Clients :
        link'[c] = "open" /\ queue[c] # <<>> /\ queue'[c] = Tail(queue[c]) =>
          LET e == Head(queue[c])
          IN /\ e.number > heard[c][e.by]
             /\ heard[c][e.by] # 0 /\ ~missed[c] => e.number = heard[c][e.by] + 1
<1>1. StreamInv => Faithful
  BY HeadIsNext
<1>2. StreamInv /\ [ConsoleNext]_consoleVars => [Faithful]_sharedVars
  BY <1>1
<1> HIDE DEF Faithful
<1> QED BY <1>2, StreamInitInv, StreamNextInv, PTL DEF ConsoleSpec, StreamFaithful, Faithful

(* The running flag is up only while some analysis is in its loop: none is *)
(* refused because of one that is over (wizard_backend.py, _run).          *)
THEOREM FlagFollowsThreads == ConsoleSpec => []FlagNotStuck
<1> DEFINE Inv == FlagNotStuck /\ analysis \in [Pipelines -> {"none", "spawned", "running", "over"}]
<1>1. ConsoleInit => Inv
  BY DEF ConsoleInit, FlagNotStuck
<1>2. Inv /\ [ConsoleNext]_consoleVars => Inv'
  <2> SUFFICES ASSUME Inv, [ConsoleNext]_consoleVars PROVE Inv'
    OBVIOUS
  <2> USE DEF FlagNotStuck, InLoop
  <2>1. ASSUME NEW p \in Pipelines, StartAnalysis(p) PROVE Inv'
    BY <2>1 DEF StartAnalysis
  <2>2. ASSUME NEW p \in Pipelines, ThreadBegins(p) PROVE Inv'
    BY <2>2 DEF ThreadBegins
  <2>3. ASSUME NEW p \in Pipelines, AnalysisOver(p) PROVE Inv'
    BY <2>3 DEF AnalysisOver
  <2>4. CASE UNCHANGED wizardVars
    BY <2>4 DEF wizardVars
  <2> QED
    BY <2>1, <2>2, <2>3, <2>4 DEF ConsoleNext, ThreadStep, Pushes, ServerStep, consoleVars
<1>3. Inv => FlagNotStuck
  OBVIOUS
<1> QED BY <1>1, <1>2, <1>3, PTL DEF ConsoleSpec

-----------------------------------------------------------------------------
(* The totals.  An event is counted between the moment it is logged and    *)
(* the moment its broadcast is handed over.                                *)

Counted(p) == IF push[p] = "counting" THEN count[p] - 1 ELSE count[p]

CountedEvents == {e \in Events : e.number <= Counted(e.by)}

EntriesIn(s) == {i \in DOMAIN s : EventType(s[i]) = "ENTRY"}

\* The event that is in the log and not yet in the totals.
Uncounted == IF locked THEN 1 ELSE 0

UncountedEntry ==
  IF \E p \in Pipelines : push[p] = "counting" /\ EventType(EventOf(p)) = "ENTRY"
  THEN 1 ELSE 0

\* The totals cover the events of s.
Cover(s) ==
  Len(s) <= metrics.events /\ Cardinality(EntriesIn(s)) <= metrics.entries

TotalsInv ==
  /\ IsFiniteSet(CountedEvents)
  /\ metrics.events = Cardinality(CountedEvents)
  /\ Len(log) <= metrics.events + Uncounted
  /\ Cardinality(EntriesIn(log)) <= metrics.entries + UncountedEntry
  /\ reply.state = "taken" => Cover(reply.listed)
  /\ ReplyCountsListed

ConsoleInv == StreamInv /\ ConsoleTypeOK /\ FlagNotStuck /\ TotalsInv

LEMMA EntriesFinite ==
  ASSUME NEW s \in Seq(Events)
  PROVE  IsFiniteSet(EntriesIn(s)) /\ Cardinality(EntriesIn(s)) \in Nat
<1>1. 1 \in Int /\ Len(s) \in Int /\ DOMAIN s = 1..Len(s)
  OBVIOUS
<1>2. IsFiniteSet(DOMAIN s)
  BY <1>1, FS_Interval
<1>3. EntriesIn(s) \subseteq DOMAIN s
  BY DEF EntriesIn
<1>4. IsFiniteSet(EntriesIn(s))
  BY <1>2, <1>3, FS_Subset
<1> QED BY <1>4, FS_CardinalityType

\* The log after a new event: one longer at most, the others moved up.
LEMMA NewestLog ==
  ASSUME NEW s \in Seq(Events), NEW e \in Events
  PROVE  LET t == Newest(<<e>> \o s)
         IN  /\ t \in Seq(Events)
             /\ Len(t) <= LogSize /\ Len(t) <= Len(s) + 1
             /\ Cardinality(EntriesIn(t))
                  <= Cardinality(EntriesIn(s)) + (IF EventType(e) = "ENTRY" THEN 1 ELSE 0)
<1> DEFINE all == <<e>> \o s
           t   == Newest(all)
           Kept == EntriesIn(t) \ {1}
           back == [i \in Kept |-> i - 1]
<1>1. LogSize \in Nat \ {0}
  BY SharedStateAssumption
<1>2. /\ all \in Seq(Events) /\ Len(all) = Len(s) + 1 /\ Len(s) \in Nat
      /\ all[1] = e /\ \A i \in 2..Len(s) + 1 : all[i] = s[i - 1]
  OBVIOUS
<1> HIDE DEF all
<1>3. /\ t \in Seq(Events)
      /\ Len(t) \in Nat /\ Len(t) <= LogSize /\ Len(t) <= Len(s) + 1
      /\ DOMAIN t = 1..Len(t)
      /\ \A i \in DOMAIN t : t[i] = all[i]
  BY <1>1, <1>2 DEF Newest
<1> HIDE DEF t
<1>4. /\ \A i \in Kept : i - 1 \in EntriesIn(s)
      /\ \A i \in Kept : i \in Nat
  BY <1>2, <1>3 DEF EntriesIn
<1>5. IsFiniteSet(EntriesIn(t)) /\ IsFiniteSet(EntriesIn(s))
  BY <1>3, EntriesFinite
<1>6. IsFiniteSet(Kept)
  BY <1>5, FS_Subset
<1>7. Cardinality(Kept) <= Cardinality(EntriesIn(s))
  <2>1. back \in Injection(Kept, EntriesIn(s))
    BY <1>4 DEF Injection, IsInjective
  <2> HIDE DEF back, Kept
  <2> QED BY <2>1, <1>5, FS_Injection
<1>8. Cardinality(EntriesIn(t)) <= Cardinality(Kept) + (IF EventType(e) = "ENTRY" THEN 1 ELSE 0)
  <2>1. CASE 1 \in EntriesIn(t)
    <3>1. EventType(e) = "ENTRY"
      BY <2>1, <1>2, <1>3 DEF EntriesIn
    <3>2. Cardinality(Kept) = Cardinality(EntriesIn(t)) - 1
      BY <2>1, <1>5, FS_RemoveElement
    <3>3. Cardinality(EntriesIn(t)) \in Nat
      BY <1>5, FS_CardinalityType
    <3> QED BY <3>1, <3>2, <3>3
  <2>2. CASE 1 \notin EntriesIn(t)
    <3>1. Cardinality(Kept) = Cardinality(EntriesIn(t))
      <4>1. Kept = EntriesIn(t)
        BY <2>2
      <4> QED BY <4>1
    <3>2. Cardinality(EntriesIn(t)) \in Nat
      BY <1>5, FS_CardinalityType
    <3> HIDE DEF Kept
    <3> QED BY <3>1, <3>2
  <2> QED BY <2>1, <2>2
<1>9. Cardinality(Kept) \in Nat /\ Cardinality(EntriesIn(s)) \in Nat /\ Cardinality(EntriesIn(t)) \in Nat
  BY <1>5, <1>6, FS_CardinalityType
<1> HIDE DEF Kept
<1>10. Cardinality(EntriesIn(t)) <= Cardinality(EntriesIn(s)) + (IF EventType(e) = "ENTRY" THEN 1 ELSE 0)
  BY <1>7, <1>8, <1>9
<1> QED BY <1>3, <1>10 DEF t, all

\* A step that neither logs nor counts an event, nor answers.
LEMMA TotalsUnchanged ==
  ASSUME TotalsInv, UNCHANGED <<push, count, locked, log, metrics, reply>>
  PROVE  TotalsInv'
<1>1. CountedEvents' = CountedEvents
  BY DEF CountedEvents, Counted
<1>2. Uncounted' = Uncounted /\ UncountedEntry' = UncountedEntry
  BY DEF Uncounted, UncountedEntry, EventOf
<1>3. EntriesIn(log)' = EntriesIn(log) /\ EntriesIn(reply.listed)' = EntriesIn(reply.listed)
  BY DEF EntriesIn, EventType
<1>4. ReplyCountsListed'
  BY DEF TotalsInv, ReplyCountsListed, EventType
<1> QED BY <1>1, <1>2, <1>3, <1>4 DEF TotalsInv, Cover

\* The event is listed while the lock is held, so that the list is one ahead.
LEMMA LogTotals ==
  ASSUME ConsoleInv, NEW p \in Pipelines, LogEvent(p)
  PROVE  TotalsInv'
<1> DEFINE e == [by |-> p, number |-> count[p] + 1]
<1>1. /\ push[p] = "idle" /\ count[p] < Len(Script) /\ ~locked
      /\ locked' = TRUE
      /\ count' = [count EXCEPT ![p] = count[p] + 1]
      /\ push' = [push EXCEPT ![p] = "counting"]
      /\ log' = Newest(<<e>> \o log)
      /\ UNCHANGED <<metrics, reply>>
  BY DEF LogEvent
<1>2. /\ Len(Script) \in Nat
      /\ push \in [Pipelines -> {"idle", "counting", "sending"}]
      /\ count \in [Pipelines -> 0..Len(Script)]
      /\ log \in Seq(Events)
      /\ metrics.events \in Nat /\ metrics.entries \in Nat
      /\ \A q \in Pipelines : push[q] # "counting"
  BY <1>1, SharedStateAssumption DEF ConsoleInv, ConsoleTypeOK, SharedTypeOK, Totals
<1>3. e \in Events /\ e.by = p /\ e.number = count[p] + 1
  BY <1>1, <1>2 DEF Events
<1>4. EventOf(p)' = e
  BY <1>1, <1>2 DEF EventOf
<1> HIDE DEF e
<1>5. \A q \in Pipelines : Counted(q)' = Counted(q)
  BY <1>1, <1>2 DEF Counted
<1>6. CountedEvents' = CountedEvents
  BY <1>5 DEF CountedEvents, Events
<1>7. Uncounted = 0 /\ Uncounted' = 1 /\ UncountedEntry = 0
  BY <1>1, <1>2 DEF Uncounted, UncountedEntry
<1>8. UncountedEntry' = IF EventType(e) = "ENTRY" THEN 1 ELSE 0
  <2>1. push'[p] = "counting" /\ \A q \in Pipelines : q # p => push'[q] # "counting"
    BY <1>1, <1>2
  <2> QED BY <2>1, <1>4 DEF UncountedEntry, EventType
<1>9. /\ log' \in Seq(Events)
      /\ Len(log') <= Len(log) + 1
      /\ Cardinality(EntriesIn(log'))
           <= Cardinality(EntriesIn(log)) + (IF EventType(e) = "ENTRY" THEN 1 ELSE 0)
  BY <1>1, <1>2, <1>3, NewestLog
<1>10. /\ Cardinality(EntriesIn(log)) \in Nat /\ Cardinality(EntriesIn(log')) \in Nat
       /\ Len(log) \in Nat /\ Len(log') \in Nat
  BY <1>2, <1>9, EntriesFinite
<1>11. Len(log') <= metrics'.events + Uncounted'
  BY <1>1, <1>2, <1>7, <1>9, <1>10 DEF ConsoleInv, TotalsInv
<1>12. Cardinality(EntriesIn(log')) <= metrics'.entries + UncountedEntry'
  BY <1>1, <1>2, <1>7, <1>8, <1>9, <1>10 DEF ConsoleInv, TotalsInv
<1>13. (reply.state = "taken" => Cover(reply.listed))' /\ ReplyCountsListed'
  BY <1>1 DEF ConsoleInv, TotalsInv, Cover, ReplyCountsListed, EntriesIn, EventType
<1>14. EntriesIn(log)' = EntriesIn(log')
  BY DEF EntriesIn, EventType
<1> QED BY <1>1, <1>6, <1>11, <1>12, <1>13, <1>14 DEF ConsoleInv, TotalsInv

\* The event is counted, and the lock released: the totals have caught up.
LEMMA CountTotals ==
  ASSUME ConsoleInv, NEW p \in Pipelines, CountEvent(p)
  PROVE  TotalsInv'
<1> DEFINE e == EventOf(p)
<1>1. /\ push[p] = "counting"
      /\ metrics' = [events  |-> metrics.events + 1,
                     entries |-> IF EventType(e) = "ENTRY"
                                 THEN metrics.entries + 1 ELSE metrics.entries]
      /\ locked' = FALSE
      /\ push' = [push EXCEPT ![p] = "sending"]
      /\ UNCHANGED <<count, log, reply>>
  BY DEF CountEvent
<1>2. /\ Len(Script) \in Nat
      /\ push \in [Pipelines -> {"idle", "counting", "sending"}]
      /\ count \in [Pipelines -> 0..Len(Script)] /\ count[p] > 0
      /\ log \in Seq(Events) /\ reply.listed \in Seq(Events)
      /\ metrics.events \in Nat /\ metrics.entries \in Nat
      /\ locked
      /\ \A q \in Pipelines : push[q] = "counting" => q = p
  BY <1>1, SharedStateAssumption
     DEF ConsoleInv, StreamInv, StreamTyped, ConsoleTypeOK, SharedTypeOK, Totals
<1>3. e \in Events /\ e.by = p /\ e.number = count[p]
  BY <1>2 DEF EventOf, Events
<1> HIDE DEF e
<1>4. /\ Counted(p) = count[p] - 1 /\ Counted(p)' = count[p]
      /\ \A q \in Pipelines : q # p => Counted(q)' = Counted(q)
  BY <1>1, <1>2 DEF Counted
<1>5. CountedEvents' = CountedEvents \cup {e} /\ e \notin CountedEvents
  <2>1. \A x \in Events : /\ x.by \in Pipelines /\ x.number \in Nat
                           /\ x = [by |-> x.by, number |-> x.number]
    BY <1>2 DEF Events
  <2>2. \A x \in Events : x.by = p /\ x.number = count[p] => x = e
    BY <1>3, <2>1
  <2>3. ASSUME NEW x \in Events
        PROVE  x.number <= Counted(x.by)' <=> x.number <= Counted(x.by) \/ x = e
    <3>1. CASE x.by = p
      <4>1. x.number <= count[p] <=> x.number <= count[p] - 1 \/ x.number = count[p]
        BY <1>2, <2>1
      <4> QED BY <1>3, <1>4, <2>2, <3>1, <4>1
    <3>2. CASE x.by # p
      BY <1>3, <1>4, <2>1, <3>2
    <3> QED BY <3>1, <3>2
  <2>4. CountedEvents' = {x \in Events : x.number <= Counted(x.by)'}
    BY DEF CountedEvents, Events
  <2>5. e \notin CountedEvents
    BY <1>2, <1>3, <1>4 DEF CountedEvents
  <2> QED BY <1>3, <2>3, <2>4, <2>5 DEF CountedEvents
<1>6. IsFiniteSet(CountedEvents') /\ Cardinality(CountedEvents') = metrics'.events
  BY <1>1, <1>5, FS_AddElement DEF ConsoleInv, TotalsInv
<1>7. Uncounted = 1 /\ Uncounted' = 0 /\ UncountedEntry' = 0
  <2>1. \A q \in Pipelines : push'[q] # "counting"
    BY <1>1, <1>2
  <2> QED BY <1>1, <1>2, <2>1 DEF Uncounted, UncountedEntry
<1>8. UncountedEntry = IF EventType(e) = "ENTRY" THEN 1 ELSE 0
  BY <1>1, <1>2 DEF UncountedEntry, e
<1>9. /\ Cardinality(EntriesIn(log)) \in Nat /\ Len(log) \in Nat
      /\ Cardinality(EntriesIn(reply.listed)) \in Nat /\ Len(reply.listed) \in Nat
  BY <1>2, EntriesFinite
<1>10. /\ metrics'.events = metrics.events + 1
       /\ metrics'.entries = metrics.entries + UncountedEntry
  BY <1>1, <1>2, <1>8
<1>11. /\ Len(log) <= metrics'.events + Uncounted'
       /\ Cardinality(EntriesIn(log)) <= metrics'.entries + UncountedEntry'
  BY <1>2, <1>7, <1>8, <1>9, <1>10 DEF ConsoleInv, TotalsInv
<1>12. EntriesIn(log)' = EntriesIn(log) /\ EntriesIn(reply.listed)' = EntriesIn(reply.listed)
  BY <1>1 DEF EntriesIn, EventType
<1>13. reply'.state = "taken" =>
         Len(reply.listed) <= metrics'.events
         /\ Cardinality(EntriesIn(reply.listed)) <= metrics'.entries
  BY <1>1, <1>2, <1>8, <1>9, <1>10 DEF ConsoleInv, TotalsInv, Cover
<1>14. ReplyCountsListed'
  BY <1>1 DEF ConsoleInv, TotalsInv, ReplyCountsListed, EventType
<1> QED BY <1>1, <1>6, <1>11, <1>12, <1>13, <1>14 DEF TotalsInv, Cover

LEMMA SendTotals ==
  ASSUME ConsoleInv, NEW p \in Pipelines, SendEvent(p)
  PROVE  TotalsInv'
<1>1. /\ push[p] = "sending"
      /\ push' = [push EXCEPT ![p] = "idle"]
      /\ UNCHANGED <<count, locked, log, metrics, reply>>
      /\ push \in [Pipelines -> {"idle", "counting", "sending"}]
  BY DEF SendEvent, ConsoleInv, StreamInv, StreamTyped
<1>2. \A q \in Pipelines : push'[q] = "counting" <=> push[q] = "counting"
  BY <1>1
<1>3. CountedEvents' = CountedEvents
  BY <1>1, <1>2 DEF CountedEvents, Counted, Events
<1>4. Uncounted' = Uncounted /\ UncountedEntry' = UncountedEntry
  BY <1>1, <1>2 DEF Uncounted, UncountedEntry, EventOf, EventType
<1>5. EntriesIn(log)' = EntriesIn(log) /\ EntriesIn(reply.listed)' = EntriesIn(reply.listed)
  BY <1>1 DEF EntriesIn, EventType
<1>6. ReplyCountsListed'
  BY <1>1 DEF ConsoleInv, TotalsInv, ReplyCountsListed, EventType
<1> QED BY <1>1, <1>3, <1>4, <1>5, <1>6 DEF ConsoleInv, TotalsInv, Cover

\* The list of /api/state is taken while the lock is free, when the totals cover
\* the log; until the totals are read they can only grow.
LEMMA StateTotals ==
  ASSUME ConsoleInv, StateRequest \/ StateReply
  PROVE  TotalsInv'
<1>1. UNCHANGED <<push, count, locked, log, metrics>>
  BY DEF StateRequest, StateReply, pushVars
<1>2. CountedEvents' = CountedEvents /\ Uncounted' = Uncounted /\ UncountedEntry' = UncountedEntry
  BY <1>1 DEF CountedEvents, Counted, Uncounted, UncountedEntry, EventOf
<1>3. EntriesIn(log)' = EntriesIn(log)
  BY <1>1 DEF EntriesIn, EventType
<1>4. (reply.state = "taken" => Cover(reply.listed))' /\ ReplyCountsListed'
  <2>1. CASE StateRequest
    <3>1. ~locked /\ reply' = [state |-> "taken", listed |-> log, totals |-> NoTotals]
      BY <2>1 DEF StateRequest
    <3>2. Uncounted = 0 /\ UncountedEntry = 0
      BY <3>1 DEF Uncounted, UncountedEntry, ConsoleInv, ConsoleTypeOK, SharedTypeOK
    <3>3. /\ log \in Seq(Events) /\ metrics.events \in Nat /\ metrics.entries \in Nat
          /\ Cardinality(EntriesIn(log)) \in Nat
      BY EntriesFinite DEF ConsoleInv, ConsoleTypeOK, SharedTypeOK, Totals
    <3>4. Len(log) <= metrics.events /\ Cardinality(EntriesIn(log)) <= metrics.entries
      BY <3>2, <3>3 DEF ConsoleInv, TotalsInv
    <3>5. reply'.listed = log /\ reply'.state = "taken"
      BY <3>1
    <3>6. EntriesIn(reply.listed)' = EntriesIn(log)
      BY <3>5 DEF EntriesIn, EventType
    <3> QED BY <1>1, <3>4, <3>5, <3>6 DEF Cover, ReplyCountsListed
  <2>2. CASE StateReply
    <3>1. /\ reply.state = "taken" /\ reply'.state = "sent"
          /\ reply'.listed = reply.listed /\ reply'.totals = metrics
      BY <2>2 DEF StateReply, ConsoleInv, ConsoleTypeOK, SharedTypeOK
    <3>2. Cover(reply.listed)
      BY <3>1 DEF ConsoleInv, TotalsInv
    <3>3. /\ Len(reply.listed) <= reply'.totals.events
          /\ Cardinality({i \in DOMAIN reply.listed : EventType(reply.listed[i]) = "ENTRY"})
               <= reply'.totals.entries
      BY <3>1, <3>2 DEF Cover, EntriesIn
    <3>4. /\ reply.listed \in Seq(Events) /\ metrics.events \in Nat /\ metrics.entries \in Nat
          /\ Cardinality(EntriesIn(reply.listed)) \in Nat
      BY EntriesFinite DEF ConsoleInv, ConsoleTypeOK, SharedTypeOK, Totals
    <3>5. ReplyCountsListed'
      BY <3>1, <3>3, <3>4 DEF ReplyCountsListed, EventType, EntriesIn
    <3> QED BY <3>1, <3>5
  <2> QED BY <2>1, <2>2
<1> QED BY <1>1, <1>2, <1>3, <1>4 DEF ConsoleInv, TotalsInv

-----------------------------------------------------------------------------
(* The types, the lock and the threads.                                    *)

LEMMA ConsoleTypeInit == ConsoleInit => ConsoleTypeOK
<1> SUFFICES ASSUME ConsoleInit PROVE ConsoleTypeOK
  OBVIOUS
<1> USE DEF ConsoleInit, SharedInit
<1>1. Len(Script) \in Nat /\ LogSize \in Nat /\ QueueSize \in Nat
  BY SharedStateAssumption
<1>2. NoTotals \in Totals
  BY DEF NoTotals, Totals
<1>3. NoReply \in [state : {"none", "taken", "sent"}, listed : Seq(Events), totals : Totals]
  BY <1>2 DEF NoReply
<1>4. push \in [Pipelines -> {"idle", "counting", "sending"}]
      /\ count \in [Pipelines -> 0..Len(Script)] /\ ~locked
      /\ \A p \in Pipelines : push[p] # "counting"
  BY <1>1
<1>5. log \in Seq(Events) /\ Len(log) <= LogSize /\ metrics \in Totals /\ calls \in Seq(Events)
  BY <1>1, <1>2
<1>6. /\ link \in [Clients -> {"none", "open", "closed"}]
      /\ queue \in [Clients -> Seq(Events)]
      /\ \A c \in Clients : Len(queue[c]) <= IF link[c] = "none" THEN 0 ELSE QueueSize
      /\ missed \in [Clients -> BOOLEAN] /\ beat \in [Clients -> Totals]
  BY <1>2
<1>7. heard \in [Clients -> [Pipelines -> 0..Len(Script)]]
  BY <1>1
<1>8. SharedTypeOK
  BY <1>3, <1>4, <1>5, <1>6, <1>7 DEF SharedTypeOK
<1> QED BY <1>8 DEF ConsoleTypeOK

\* A thread in its loop pushes an event: it takes the lock that nobody holds.
LEMMA PushType ==
  ASSUME ConsoleInv, NEW p \in Pipelines, Pushes(p)
  PROVE  ConsoleTypeOK' /\ FlagNotStuck'
<1>1. analysis' = analysis /\ running' = running /\ InLoop(p)
  BY DEF Pushes, wizardVars
<1>2. FlagNotStuck'
  BY <1>1 DEF ConsoleInv, FlagNotStuck, InLoop
<1>3. Len(Script) \in Nat
  BY SharedStateAssumption
<1>4. CASE LogEvent(p)
  <2> DEFINE e == [by |-> p, number |-> count[p] + 1]
  <2>1. /\ push[p] = "idle" /\ count[p] < Len(Script) /\ ~locked
        /\ locked' = TRUE
        /\ count' = [count EXCEPT ![p] = count[p] + 1]
        /\ push' = [push EXCEPT ![p] = "counting"]
        /\ log' = Newest(<<e>> \o log)
        /\ UNCHANGED <<metrics, calls, link, queue, heard, missed, beat, reply>>
    BY <1>4 DEF LogEvent, clientVars
  <2>2. /\ push \in [Pipelines -> {"idle", "counting", "sending"}]
        /\ count \in [Pipelines -> 0..Len(Script)]
        /\ log \in Seq(Events)
        /\ \A q \in Pipelines : push[q] # "counting"
    BY <2>1 DEF ConsoleInv, ConsoleTypeOK, SharedTypeOK
  <2>3. e \in Events
    BY <1>3, <2>1, <2>2 DEF Events
  <2> HIDE DEF e
  <2>4. log' \in Seq(Events) /\ Len(log') <= LogSize
    BY <2>1, <2>2, <2>3, NewestLog
  <2>5. count' \in [Pipelines -> 0..Len(Script)]
    BY <1>3, <2>1, <2>2
  <2>6. /\ push' \in [Pipelines -> {"idle", "counting", "sending"}]
        /\ push'[p] = "counting"
        /\ \A q \in Pipelines : q # p => push'[q] = push[q] /\ push'[q] # "counting"
    BY <2>1, <2>2
  <2>7. SharedTypeOK'
    BY <2>1, <2>4, <2>5, <2>6 DEF ConsoleInv, ConsoleTypeOK, SharedTypeOK, Events
  <2> QED BY <1>1, <1>2, <2>6, <2>7 DEF ConsoleInv, ConsoleTypeOK, InLoop
<1>5. CASE CountEvent(p)
  <2>1. /\ push[p] = "counting"
        /\ locked' = FALSE
        /\ push' = [push EXCEPT ![p] = "sending"]
        /\ UNCHANGED <<count, log, calls, link, queue, heard, missed, beat, reply>>
    BY <1>5 DEF CountEvent, clientVars
  <2>2. /\ push' \in [Pipelines -> {"idle", "counting", "sending"}]
        /\ \A q \in Pipelines : push'[q] # "counting"
        /\ \A q \in Pipelines : push'[q] # "idle" => push[q] # "idle"
    BY <2>1 DEF ConsoleInv, ConsoleTypeOK, SharedTypeOK
  <2>3. metrics' \in Totals
    BY <1>5 DEF CountEvent, ConsoleInv, ConsoleTypeOK, SharedTypeOK, Totals
  <2>4. locked' \in BOOLEAN /\ (locked' <=> \E q \in Pipelines : push'[q] = "counting")
    BY <2>1, <2>2
  <2>5. \A q, r \in Pipelines : push'[q] = "counting" /\ push'[r] = "counting" => q = r
    BY <2>2
  <2>6. SharedTypeOK'
    BY <2>1, <2>2, <2>3, <2>4, <2>5 DEF ConsoleInv, ConsoleTypeOK, SharedTypeOK, Events, Totals
  <2> QED BY <1>1, <1>2, <2>2, <2>6 DEF ConsoleInv, ConsoleTypeOK, InLoop
<1>6. CASE SendEvent(p)
  <2>1. /\ push[p] = "sending"
        /\ push' = [push EXCEPT ![p] = "idle"]
        /\ UNCHANGED <<count, locked, log, metrics, link, queue, heard, missed, beat, reply>>
    BY <1>6 DEF SendEvent, clientVars
  <2>2. /\ push' \in [Pipelines -> {"idle", "counting", "sending"}]
        /\ \A q \in Pipelines : push'[q] = "counting" <=> push[q] = "counting"
        /\ \A q \in Pipelines : push'[q] # "idle" => push[q] # "idle"
    BY <2>1 DEF ConsoleInv, ConsoleTypeOK, SharedTypeOK
  <2>3. calls' \in Seq(Events)
    BY <1>6, SendInv DEF ConsoleInv, StreamInv, StreamTyped, Events
  <2>4. locked' \in BOOLEAN /\ (locked' <=> \E q \in Pipelines : push'[q] = "counting")
    BY <2>1, <2>2 DEF ConsoleInv, ConsoleTypeOK, SharedTypeOK
  <2>5. \A q, r \in Pipelines : push'[q] = "counting" /\ push'[r] = "counting" => q = r
    BY <2>2 DEF ConsoleInv, ConsoleTypeOK, SharedTypeOK
  <2>6. SharedTypeOK'
    BY <2>1, <2>2, <2>3, <2>4, <2>5 DEF ConsoleInv, ConsoleTypeOK, SharedTypeOK, Events
  <2> QED BY <1>1, <1>2, <2>2, <2>6 DEF ConsoleInv, ConsoleTypeOK, InLoop
<1> QED BY <1>2, <1>4, <1>5, <1>6 DEF Pushes, PushEvent

\* The wizard starts a thread, the thread enters its loop or leaves it.
LEMMA WizardType ==
  ASSUME ConsoleInv, NEW p \in Pipelines,
         StartAnalysis(p) \/ ThreadBegins(p) \/ AnalysisOver(p)
  PROVE  ConsoleTypeOK' /\ FlagNotStuck'
<1>1. UNCHANGED sharedVars
  BY DEF StartAnalysis, ThreadBegins, AnalysisOver
<1>2. SharedTypeOK'
  BY <1>1 DEF ConsoleInv, ConsoleTypeOK, SharedTypeOK, sharedVars, pushVars, clientVars, Events
<1>3. push' = push
  BY <1>1 DEF sharedVars, pushVars
<1>4. /\ analysis \in [Pipelines -> {"none", "spawned", "running", "over"}]
      /\ running \in BOOLEAN
      /\ \A q \in Pipelines : push[q] # "idle" => analysis[q] = "running"
      /\ running => \E q \in Pipelines : analysis[q] = "running"
  BY DEF ConsoleInv, ConsoleTypeOK, FlagNotStuck, InLoop
<1>5. CASE StartAnalysis(p)
  <2>1. /\ analysis[p] = "none" /\ ~running /\ running' = running
        /\ analysis' = [analysis EXCEPT ![p] = "spawned"]
    BY <1>5 DEF StartAnalysis
  <2> QED BY <1>2, <1>3, <1>4, <2>1 DEF ConsoleTypeOK, FlagNotStuck, InLoop
<1>6. CASE ThreadBegins(p)
  <2>1. running' = TRUE /\ analysis' = [analysis EXCEPT ![p] = "running"]
    BY <1>6 DEF ThreadBegins
  <2> QED BY <1>2, <1>3, <1>4, <2>1 DEF ConsoleTypeOK, FlagNotStuck, InLoop
<1>7. CASE AnalysisOver(p)
  <2>1. running' = FALSE /\ push[p] = "idle" /\ analysis' = [analysis EXCEPT ![p] = "over"]
    BY <1>7 DEF AnalysisOver, BetweenCalls
  <2> QED BY <1>2, <1>3, <1>4, <2>1 DEF ConsoleTypeOK, FlagNotStuck, InLoop
<1> QED BY <1>5, <1>6, <1>7

\* The event loop and the browsers leave the totals and the threads alone.
LEMMA ServerType ==
  ASSUME ConsoleInv, ServerStep
  PROVE  ConsoleTypeOK' /\ FlagNotStuck'
<1>1. UNCHANGED <<analysis, running>> /\ UNCHANGED pushVars
  BY DEF ServerStep, wizardVars, LoopStep, Broadcast, StateReply, Connect, Serve, Deliver,
         Heartbeat, StateRequest, Leave
<1>2. FlagNotStuck' /\ (ConsoleTypeOK <=> SharedTypeOK)' /\ UNCHANGED <<push, count, locked, log, metrics>>
  BY <1>1 DEF ConsoleInv, FlagNotStuck, InLoop, ConsoleTypeOK, pushVars
<1>3. LogSize \in Nat /\ QueueSize \in Nat \ {0} /\ Len(Script) \in Nat /\ NoTotals \in Totals
  BY SharedStateAssumption DEF NoTotals, Totals
<1>4. SharedTypeOK /\ metrics \in Totals
  BY DEF ConsoleInv, ConsoleTypeOK, SharedTypeOK
<1>5. CASE Broadcast
  <2>1. /\ calls # <<>> /\ calls' = Tail(calls) /\ calls \in Seq(Events)
        /\ queue' = [c \in Clients |->
                      IF link[c] = "none" \/ Len(queue[c]) = QueueSize
                      THEN queue[c] ELSE Append(queue[c], Head(calls))]
        /\ missed' = [c \in Clients |->
                      missed[c] \/ (link[c] # "none" /\ Len(queue[c]) = QueueSize)]
        /\ UNCHANGED <<link, heard, beat, reply>>
    BY <1>5 DEF Broadcast, ConsoleInv, ConsoleTypeOK, SharedTypeOK
  <2>2. Head(calls) \in Events /\ calls' \in Seq(Events)
    BY <2>1, TailMembers
  <2>3. queue' \in [Clients -> Seq(Events)] /\ missed' \in [Clients -> BOOLEAN]
    BY <1>4, <2>1, <2>2 DEF SharedTypeOK
  <2>4. \A c \in Clients : Len(queue'[c]) <= IF link[c] = "none" THEN 0 ELSE QueueSize
    <3> SUFFICES ASSUME NEW c \in Clients
                 PROVE  Len(queue'[c]) <= IF link[c] = "none" THEN 0 ELSE QueueSize
      OBVIOUS
    <3>1. /\ queue[c] \in Seq(Events) /\ Len(queue[c]) \in Nat
          /\ Len(queue[c]) <= IF link[c] = "none" THEN 0 ELSE QueueSize
      BY <1>4 DEF SharedTypeOK
    <3>2. Len(Append(queue[c], Head(calls))) = Len(queue[c]) + 1
      BY <3>1
    <3> QED BY <1>3, <2>1, <3>1, <3>2
  <2> QED BY <1>2, <1>4, <2>1, <2>2, <2>3, <2>4 DEF SharedTypeOK, Events
<1>6. ASSUME NEW c \in Clients, Connect(c) \/ Leave(c) PROVE SharedTypeOK'
  <2>1. /\ link' \in [Clients -> {"none", "open", "closed"}]
        /\ \A d \in Clients : link[d] # "none" => link'[d] # "none"
        /\ UNCHANGED <<calls, queue, heard, missed, beat, reply>>
    BY <1>4, <1>6 DEF Connect, Leave, SharedTypeOK
  <2>2. \A d \in Clients : Len(queue'[d]) <= IF link'[d] = "none" THEN 0 ELSE QueueSize
    <3> SUFFICES ASSUME NEW d \in Clients
                 PROVE  Len(queue'[d]) <= IF link'[d] = "none" THEN 0 ELSE QueueSize
      OBVIOUS
    <3>1. /\ Len(queue[d]) \in Nat
          /\ Len(queue[d]) <= IF link[d] = "none" THEN 0 ELSE QueueSize
      BY <1>4 DEF SharedTypeOK
    <3> QED BY <1>3, <2>1, <3>1
  <2> QED BY <1>2, <1>4, <2>1, <2>2 DEF SharedTypeOK, Events
<1>7. ASSUME NEW c \in Clients, Discard(c), UNCHANGED <<calls, reply>> PROVE SharedTypeOK'
  <2>1. /\ link' \in [Clients -> {"none", "open", "closed"}]
        /\ queue' \in [Clients -> Seq(Events)]
        /\ missed' \in [Clients -> BOOLEAN]
        /\ beat' \in [Clients -> Totals]
    BY <1>3, <1>4, <1>7 DEF Discard, SharedTypeOK
  <2>2. heard' \in [Clients -> [Pipelines -> 0..Len(Script)]]
    BY <1>3, <1>4, <1>7 DEF Discard, SharedTypeOK
  <2>3. \A d \in Clients : Len(queue'[d]) <= IF link'[d] = "none" THEN 0 ELSE QueueSize
    <3> SUFFICES ASSUME NEW d \in Clients
                 PROVE  Len(queue'[d]) <= IF link'[d] = "none" THEN 0 ELSE QueueSize
      OBVIOUS
    <3>1. CASE d = c
      <4>1. link'[d] = "none" /\ queue'[d] = <<>>
        BY <1>4, <1>7, <3>1 DEF Discard, SharedTypeOK
      <4> QED BY <4>1
    <3>2. CASE d # c
      <4>1. link'[d] = link[d] /\ queue'[d] = queue[d]
        BY <1>4, <1>7, <3>2 DEF Discard, SharedTypeOK
      <4> QED BY <1>4, <4>1 DEF SharedTypeOK
    <3> QED BY <3>1, <3>2
  <2> QED BY <1>2, <1>4, <1>7, <2>1, <2>2, <2>3 DEF SharedTypeOK, Events
<1>8. ASSUME NEW c \in Clients, Deliver(c), link[c] = "open" PROVE SharedTypeOK'
  <2>1. /\ queue[c] # <<>>
        /\ queue' = [queue EXCEPT ![c] = Tail(queue[c])]
        /\ UNCHANGED <<calls, reply, link, missed, beat>>
    BY <1>8 DEF Deliver
  <2>2. queue[c] \in Seq(Events) /\ Len(queue[c]) <= QueueSize
    BY <1>4, <1>8 DEF SharedTypeOK
  <2>3. Tail(queue[c]) \in Seq(Events) /\ Len(Tail(queue[c])) <= QueueSize
    BY <1>3, <2>1, <2>2
  <2>4. queue' \in [Clients -> Seq(Events)]
    BY <1>4, <2>1, <2>3 DEF SharedTypeOK
  <2>5. heard' \in [Clients -> [Pipelines -> 0..Len(Script)]]
    BY <1>8, HearInv DEF ConsoleInv, StreamInv, StreamTyped
  <2>6. \A d \in Clients : Len(queue'[d]) <= IF link'[d] = "none" THEN 0 ELSE QueueSize
    BY <1>4, <1>8, <2>1, <2>3 DEF SharedTypeOK
  <2> QED BY <1>2, <1>4, <2>1, <2>4, <2>5, <2>6 DEF SharedTypeOK, Events
<1>9. ASSUME NEW c \in Clients, Serve(c) PROVE SharedTypeOK'
  <2>1. UNCHANGED <<calls, reply>>
    BY <1>9 DEF Serve, Deliver, Heartbeat
  <2>2. CASE Deliver(c) /\ link[c] = "open"
    BY <1>8, <2>2
  <2>3. CASE Discard(c)
    BY <1>7, <2>1, <2>3
  <2>4. CASE Heartbeat(c) /\ link[c] = "open"
    <3>1. /\ beat' = [beat EXCEPT ![c] = metrics]
          /\ UNCHANGED <<link, queue, heard, missed>>
      BY <2>4 DEF Heartbeat
    <3>2. beat' \in [Clients -> Totals]
      BY <1>4, <3>1 DEF SharedTypeOK
    <3> QED BY <1>2, <1>4, <2>1, <3>1, <3>2 DEF SharedTypeOK, Events
  <2> QED BY <1>9, <2>2, <2>3, <2>4 DEF Serve, Deliver, Heartbeat
<1>10. ASSUME StateRequest \/ StateReply PROVE SharedTypeOK'
  <2>1. UNCHANGED <<calls, link, queue, heard, missed, beat>>
    BY <1>10 DEF StateRequest, StateReply, clientVars
  <2>2. reply' \in [state : {"none", "taken", "sent"}, listed : Seq(Events), totals : Totals]
    <3>1. /\ log \in Seq(Events) /\ metrics \in Totals
          /\ reply \in [state : {"none", "taken", "sent"}, listed : Seq(Events), totals : Totals]
      BY <1>4 DEF SharedTypeOK
    <3>2. CASE StateRequest
      BY <1>3, <3>1, <3>2 DEF StateRequest
    <3>3. CASE StateReply
      <4>1. reply' = [reply EXCEPT !.state = "sent", !.totals = metrics]
        BY <3>3 DEF StateReply
      <4> QED BY <3>1, <4>1
    <3> QED BY <1>10, <3>2, <3>3
  <2> QED BY <1>2, <1>4, <2>1, <2>2 DEF SharedTypeOK, Events
<1> QED BY <1>2, <1>5, <1>6, <1>9, <1>10 DEF ServerStep, LoopStep

LEMMA ConsoleStep ==
  ConsoleInv /\ [ConsoleNext]_consoleVars => ConsoleInv'
<1> SUFFICES ASSUME ConsoleInv, [ConsoleNext]_consoleVars PROVE ConsoleInv'
  OBVIOUS
<1>1. StreamInv' /\ TotalsInv
  BY StreamNextInv DEF ConsoleInv
<1>2. ASSUME NEW p \in Pipelines, Pushes(p) PROVE ConsoleInv'
  BY <1>1, <1>2, PushType, LogTotals, CountTotals, SendTotals DEF ConsoleInv, Pushes, PushEvent
<1>3. ASSUME NEW p \in Pipelines, StartAnalysis(p) \/ ThreadBegins(p) \/ AnalysisOver(p)
      PROVE  ConsoleInv'
  <2>1. UNCHANGED <<push, count, locked, log, metrics, reply>>
    BY <1>3 DEF StartAnalysis, ThreadBegins, AnalysisOver, sharedVars, pushVars
  <2> QED BY <1>1, <1>3, <2>1, WizardType, TotalsUnchanged DEF ConsoleInv
<1>4. CASE ServerStep
  <2>1. CASE StateRequest \/ StateReply
    BY <1>1, <1>4, <2>1, ServerType, StateTotals DEF ConsoleInv
  <2>2. CASE ~(StateRequest \/ StateReply)
    <3>1. UNCHANGED <<push, count, locked, log, metrics, reply>>
      BY <1>4, <2>2 DEF ServerStep, LoopStep, Broadcast, Connect, Serve, Deliver, Heartbeat,
                        Leave, pushVars
    <3> QED BY <1>1, <1>4, <3>1, ServerType, TotalsUnchanged DEF ConsoleInv
  <2> QED BY <2>1, <2>2
<1>5. CASE UNCHANGED consoleVars
  <2>1. UNCHANGED sharedVars /\ UNCHANGED <<analysis, running, push, count, locked, log, metrics, reply>>
    BY <1>5 DEF consoleVars, sharedVars, pushVars, wizardVars
  <2>2. ConsoleTypeOK /\ UNCHANGED sharedVars
    BY <2>1 DEF ConsoleInv
  <2>3. SharedTypeOK'
    BY <2>2 DEF ConsoleTypeOK, SharedTypeOK, sharedVars, pushVars, clientVars, Events
  <2>4. ConsoleTypeOK' /\ FlagNotStuck'
    BY <2>1, <2>3 DEF ConsoleInv, ConsoleTypeOK, FlagNotStuck, InLoop
  <2> QED BY <1>1, <2>1, <2>4, TotalsUnchanged DEF ConsoleInv
<1> QED BY <1>2, <1>3, <1>4, <1>5 DEF ConsoleNext, ThreadStep

\* What a browser has heard was counted before it was sent.
LEMMA HeardIsCounted ==
  ConsoleInv => TotalsCoverHeard
<1> SUFFICES ASSUME ConsoleInv, NEW c \in Clients
             PROVE  Cardinality({e \in Events : e.number <= heard[c][e.by]}) <= metrics.events
  BY DEF TotalsCoverHeard
<1> DEFINE Heard == {e \in Events : e.number <= heard[c][e.by]}
<1>1. \A p \in Pipelines : /\ heard[c][p] \in Nat /\ Counted(p) \in Int
                           /\ heard[c][p] <= Sent(p) /\ Sent(p) <= Counted(p)
  <2>1. \A p \in Pipelines : /\ heard[c][p] \in Nat /\ heard[c][p] <= Sent(p) /\ count[p] \in Nat
    BY StreamFacts DEF ConsoleInv, StreamInv, ClientInv, ClientInOrder, StreamTyped
  <2> QED BY <2>1 DEF Sent, Counted
<1>2. Heard \subseteq CountedEvents
  <2> SUFFICES ASSUME NEW e \in Events, e.number <= heard[c][e.by]
               PROVE  e.number <= Counted(e.by)
    BY DEF CountedEvents
  <2>1. e.by \in Pipelines /\ e.number \in Nat
    BY StreamFacts DEF ConsoleInv, StreamInv
  <2>2. Sent(e.by) \in Int
    BY <2>1, StreamFacts DEF ConsoleInv, StreamInv
  <2> QED BY <1>1, <2>1, <2>2
<1> HIDE DEF Heard
<1>3. IsFiniteSet(CountedEvents) /\ metrics.events = Cardinality(CountedEvents)
  BY DEF ConsoleInv, TotalsInv
<1>4. Cardinality(Heard) <= Cardinality(CountedEvents)
  BY <1>2, <1>3, FS_Subset
<1> QED BY <1>3, <1>4 DEF Heard

(* The parts of the console agree, in all interleavings of any number of   *)
(* analyses, the event loop and the browsers: the lock of push_event is    *)
(* held by one thread, the totals cover what a browser was sent and what   *)
(* an answer of /api/state lists, although that reads them after the lock  *)
(* was released (gui_server.py, push_event, ws_events and state).          *)
THEOREM ConsoleStaysConsistent == ConsoleSpec => []ConsoleConsistent
<1>1. ConsoleInit => ConsoleInv
  <2> SUFFICES ASSUME ConsoleInit PROVE ConsoleInv
    OBVIOUS
  <2> USE DEF ConsoleInit, SharedInit
  <2>1. CountedEvents = {}
    BY DEF CountedEvents, Counted, Events
  <2>2. EntriesIn(log) = {} /\ Len(log) = 0 /\ metrics.events = 0 /\ metrics.entries = 0
    BY DEF EntriesIn, NoTotals
  <2>3. Uncounted = 0 /\ UncountedEntry = 0 /\ reply.state = "none"
    BY DEF Uncounted, UncountedEntry, NoReply
  <2>4. IsFiniteSet({}) /\ Cardinality({}) = 0
    BY FS_EmptySet
  <2>5. Cardinality(EntriesIn(log)) = 0 /\ Cardinality(CountedEvents) = 0 /\ IsFiniteSet(CountedEvents)
    <3>1. Cardinality(EntriesIn(log)) = 0
      BY <2>2, <2>4
    <3> QED BY <2>1, <2>4, <3>1
  <2>6. TotalsInv
    BY <2>2, <2>3, <2>5 DEF TotalsInv, ReplyCountsListed
  <2> QED BY <2>6, StreamInitInv, ConsoleTypeInit DEF ConsoleInv, FlagNotStuck
<1>2. ConsoleInv => ConsoleConsistent
  BY HeardIsCounted DEF ConsoleInv, ConsoleConsistent, TotalsInv
<1> QED BY <1>1, <1>2, ConsoleStep, PTL DEF ConsoleSpec

-----------------------------------------------------------------------------
(***************************************************************************)
(* The cache of the zone mapper is never marked current over a geometry    *)
(* that is not in the file, and never goes back, for any number of threads *)
(* and saves.                                                              *)
(*                                                                         *)
(* CachedIsCurrent is not inductive: a save must make the remembered time  *)
(* old, so the invariant says that no time the mapper or a thread knows is *)
(* later than the file's, and that a torn file is younger than the cache.  *)
(***************************************************************************)

TimesBehind ==
  /\ cached <= mtime
  /\ \A t \in Threads : look[t].mtime <= mtime
  /\ file.state = "torn" => cached < mtime

HeldIsOld == geometry <= file.save

MapperInv == MapperTypeOK /\ TimesBehind /\ HeldIsOld /\ CachedIsCurrent

LEMMA MapperInitInv == MapperInit => MapperInv
<1> SUFFICES ASSUME MapperInit PROVE MapperInv
  OBVIOUS
<1> USE DEF MapperInit
<1>1. CASE /\ file = [state |-> "absent", save |-> 0, sound |-> TRUE]
           /\ mtime = 0
  BY <1>1, MapperAssumption
     DEF MapperInv, MapperTypeOK, TimesBehind, HeldIsOld, CachedIsCurrent
<1>2. ASSUME NEW sound \in BOOLEAN,
             file = [state |-> "whole", save |-> 1, sound |-> sound],
             mtime = 1,
             MaxSaves >= 1
      PROVE  MapperInv
  <2>1. file.state = "whole" /\ file.save = 1 /\ file.sound = sound
    BY <1>2
  <2>2. file \in [state : {"absent", "torn", "whole"}, save : 0..MaxSaves, sound : BOOLEAN]
    BY <1>2, MapperAssumption
  <2>3. MapperTypeOK
    BY <1>2, <2>1, <2>2 DEF MapperTypeOK
  <2> QED BY <1>2, <2>1, <2>3 DEF MapperInv, TimesBehind, HeldIsOld, CachedIsCurrent
<1> QED BY <1>1, <1>2

(* What _check_reload and the first lines of _load do to the look of a     *)
(* thread keeps its type and its time behind the file's.                   *)
LEMMA LookInv ==
  ASSUME MapperInv, NEW t \in Threads, Check(t) \/ Stat(t)
  PROVE  MapperInv'
<1> USE DEF MapperInv, MapperTypeOK, TimesBehind, HeldIsOld, CachedIsCurrent
<1>1. CASE Check(t)
  <2>1. /\ look' = [look EXCEPT ![t].at = "stale"]
        /\ UNCHANGED <<file, mtime, geometry, complete, cached>>
    BY <1>1 DEF Check
  <2>2. look' \in [Threads -> [at : {"idle", "stale", "loading"}, mtime : Nat]]
    BY <2>1
  <2>3. \A u \in Threads : look'[u].mtime = look[u].mtime
    BY <2>1
  <2> QED BY <2>1, <2>2, <2>3
<1>2. CASE Stat(t)
  <2>1. /\ look' = [look EXCEPT ![t] = [at |-> "loading", mtime |-> mtime]]
        /\ UNCHANGED <<file, mtime, geometry, complete, cached>>
    BY <1>2 DEF Stat
  <2>2. look' \in [Threads -> [at : {"idle", "stale", "loading"}, mtime : Nat]]
    BY <2>1
  <2>3. \A u \in Threads : look'[u].mtime <= mtime
    BY <2>1
  <2> QED BY <2>1, <2>2, <2>3
<1> QED BY <1>1, <1>2

(* _load under its lock: either nothing changes but the look, or the       *)
(* mapper takes what the file holds and the time the thread had taken.     *)
LEMMA LoadInv ==
  ASSUME MapperInv, NEW t \in Threads, Load(t)
  PROVE  MapperInv' /\ geometry' >= geometry
<1> USE DEF MapperInv, MapperTypeOK, TimesBehind, HeldIsOld, CachedIsCurrent
<1>1. /\ look' = [look EXCEPT ![t] = [at |-> "idle", mtime |-> 0]]
      /\ UNCHANGED <<file, mtime>>
  BY DEF Load, LoadEnds
<1>2. look' \in [Threads -> [at : {"idle", "stale", "loading"}, mtime : Nat]]
  BY <1>1
<1>3. \A u \in Threads : look'[u].mtime <= mtime
  BY <1>1
<1>4. CASE UpToDate(t) \/ file.state = "torn"
  BY <1>1, <1>2, <1>3, <1>4 DEF Load, LoadSkips, LoadTakes
<1>5. CASE ~(UpToDate(t) \/ file.state = "torn")
  <2>1. geometry' = file.save /\ complete' = file.sound /\ cached' = look[t].mtime
    BY <1>5 DEF Load, LoadSkips, LoadTakes
  <2>2. file.save \in Nat /\ file.sound \in BOOLEAN /\ look[t].mtime \in Nat
    BY MapperAssumption
  <2> QED BY <1>1, <1>2, <1>3, <1>5, <2>1, <2>2
<1> QED BY <1>4, <1>5

(* A save in the studio leaves the mapper alone and makes it stale.        *)
LEMMA SaveInv ==
  ASSUME MapperInv, StudioSave
  PROVE  MapperInv'
<1> USE DEF MapperInv, MapperTypeOK, TimesBehind, HeldIsOld, CachedIsCurrent
<1>1. CASE Truncate
  <2>1. /\ file.save < MaxSaves
        /\ mtime' = mtime + 1
        /\ UNCHANGED <<geometry, complete, cached, look>>
    BY <1>1 DEF Truncate
  <2>2. file.save \in Nat /\ file.save + 1 \in 0..MaxSaves
    BY <2>1, MapperAssumption
  <2>4. PICK sound \in BOOLEAN :
          file' = [state |-> "torn", save |-> file.save + 1, sound |-> sound]
    BY <1>1 DEF Truncate
  <2>5. /\ file' \in [state : {"absent", "torn", "whole"}, save : 0..MaxSaves, sound : BOOLEAN]
        /\ file'.state = "torn"
        /\ file'.save = file.save + 1
    BY <2>2, <2>4
  <2>3. cached < mtime' /\ \A u \in Threads : look'[u].mtime <= mtime'
    BY <2>1
  <2> QED BY <2>1, <2>2, <2>3, <2>5
<1>2. CASE Dump
  <2>1. /\ file.state = "torn"
        /\ file' = [file EXCEPT !.state = "whole"]
        /\ UNCHANGED <<geometry, complete, cached, look>>
    BY <1>2 DEF Dump
  <2>2. PICK tick \in 0..1 : mtime' = mtime + tick
    BY <1>2 DEF Dump
  <2>3. /\ file'.state = "whole" /\ file'.save = file.save
        /\ file' \in [state : {"absent", "torn", "whole"}, save : 0..MaxSaves, sound : BOOLEAN]
    BY <2>1
  <2>4. mtime' \in Nat /\ mtime <= mtime' /\ cached < mtime'
    BY <2>1, <2>2
  <2>5. \A u \in Threads : look[u].mtime <= mtime'
    BY <2>4
  <2> QED BY <2>1, <2>3, <2>4, <2>5
<1> QED BY <1>1, <1>2 DEF StudioSave

LEMMA MapperStepInv == MapperInv /\ [MapperNext]_mapperVars => MapperInv'
<1> SUFFICES ASSUME MapperInv, [MapperNext]_mapperVars PROVE MapperInv'
  OBVIOUS
<1>1. CASE StudioSave
  BY <1>1, SaveInv
<1>2. ASSUME NEW t \in Threads, ReadGeometry(t) PROVE MapperInv'
  BY <1>2, LookInv, LoadInv DEF ReadGeometry
<1>3. CASE UNCHANGED mapperVars
  BY <1>3 DEF mapperVars, MapperInv, MapperTypeOK, TimesBehind, HeldIsOld, CachedIsCurrent
<1> QED BY <1>1, <1>2, <1>3 DEF MapperNext

(* The invariant holds in every behaviour.                                 *)
THEOREM MapperInvariant == MapperSpec => []MapperInv
  BY MapperInitInv, MapperStepInv, PTL DEF MapperSpec

(* For any number of threads, saves and interleavings of the two looks at  *)
(* the time with the studio's writes, a mapper that takes itself for       *)
(* current holds what the file holds, all its shapes if they are well      *)
(* formed (zone_mapper.py, _load).                                         *)
THEOREM CachedIsAlwaysCurrent == MapperSpec => []CachedIsCurrent
<1>1. MapperInv => CachedIsCurrent
  BY DEF MapperInv
<1> QED BY <1>1, MapperInvariant, PTL

(* No read makes the geometry older (zone_mapper.py, _load).               *)
THEOREM GeometryNeverBack == MapperSpec => GeometryForward
<1>1. MapperInv /\ [MapperNext]_mapperVars => [geometry' >= geometry]_mapperVars
  <2> SUFFICES ASSUME MapperInv, MapperNext PROVE geometry' >= geometry
    OBVIOUS
  <2>1. geometry \in Nat
    BY DEF MapperInv, MapperTypeOK
  <2>2. CASE StudioSave
    BY <2>1, <2>2 DEF StudioSave, Truncate, Dump
  <2>3. ASSUME NEW t \in Threads, ReadGeometry(t) PROVE geometry' >= geometry
    <3>1. CASE Load(t)
      BY <3>1, LoadInv
    <3>2. CASE Check(t) \/ Stat(t)
      BY <2>1, <3>2 DEF Check, Stat
    <3> QED BY <2>3, <3>1, <3>2 DEF ReadGeometry
  <2> QED BY <2>2, <2>3 DEF MapperNext
<1> QED BY <1>1, MapperInvariant, PTL DEF MapperSpec, GeometryForward
==============================================================================
