----------------------------- MODULE EventStream -----------------------------
(***************************************************************************)
(* agent.py's EventBus for one task, and the SSE and WebSocket handlers of *)
(* main.py that read it.  The agent's thread and the threads that read a   *)
(* command's output publish; each open page of the dashboard is a stream.  *)
(* publish appends to the history and copies the list of subscribers under *)
(* the lock and fills the queues outside it; subscribe and history take    *)
(* the lock one after the other.  The events' copy in SQLite, written      *)
(* before the queues are filled, is not part of this module.               *)
(*                                                                         *)
(* An operator XMutant is X with a plausible bug; no action uses it.       *)
(***************************************************************************)
EXTENDS Integers, Sequences, FiniteSets

CONSTANTS
  Publisher,  \* threads that publish events of the task
  Agent,      \* the one among them that publishes the task's last event
  Stream,     \* bound on the streams opened
  WS,         \* those that are WebSockets; the others are SSE
  Ring,       \* how many events the history keeps (1000 in the code)
  MaxQueue,   \* maxsize of a subscriber's queue (2000 in the code)
  NoEvent

ASSUME ThreadAssumption == Agent \in Publisher /\ WS \subseteq Stream
ASSUME SizeAssumption == Ring \in Nat \ {0} /\ MaxQueue \in Nat \ {0}

VARIABLES
  published,  \* history: every event, in the order of the lock
  history,    \* _history[task]
  subs,       \* _subs[task]
  publisher,  \* what each publisher is doing: the event, where it still goes
  queue,      \* the subscribers' queues
  stream,     \* the handlers
  dropped     \* history: the events each stream's full queue has lost

vars == <<published, history, subs, publisher, queue, stream, dropped>>

------------------------------------------------------------------------------
(* Data *)

\* error: an event of a type that ends a stream in the middle of a task (error:
\* a clone or a step that failed, a command refused; completed: a question about
\* GitHub answered); end: the task's last event, completed, cancelled or the
\* error of a failed task.
Kind == {"plain", "error", "end"}

Event == [kind: Kind, number: Nat, by: Publisher]

Set(s) == {s[i] : i \in DOMAIN s}

PublisherState == [event: Event \cup {NoEvent}, to: SUBSET Stream]

NotPublishing == [event |-> NoEvent, to |-> {}]

\* A handler: seen is what it has sent, floor the events published before the
\* history it replayed, replayed how many of seen were in that history.
StreamState == [pc: {"new", "subscribed", "live", "closed"}, seen: Seq(Event),
                floor: Nat, replayed: Nat]

NewStream == [pc |-> "new", seen |-> <<>>, floor |-> 0, replayed |-> 0]

TypeOK ==
  /\ published \in Seq(Event)
  /\ history \in Seq(Event) /\ Len(history) <= Ring
  /\ subs \subseteq Stream
  /\ publisher \in [Publisher -> PublisherState]
  /\ queue \in [Stream -> Seq(Event)]
  /\ \A s \in Stream : Len(queue[s]) <= MaxQueue
  /\ stream \in [Stream -> StreamState]
  /\ dropped \in [Stream -> SUBSET Event]

------------------------------------------------------------------------------
(* publish *)

Ended == \E e \in Set(published) : e.kind = "end"

KeptMutant(h) == SubSeq(h, 1, IF Len(h) < Ring THEN Len(h) ELSE Ring)

\* The last Ring events.
Kept(h) == IF Len(h) > Ring THEN SubSeq(h, Len(h) - Ring + 1, Len(h)) ELSE h

\* Under the lock.  The agent publishes nothing after its last event.
Publish(p, k) ==
  /\ publisher[p] = NotPublishing
  /\ p = Agent => ~Ended
  /\ k # "plain" => p = Agent
  /\ LET e == [kind |-> k, number |-> Len(published) + 1, by |-> p]
     IN  /\ published' = Append(published, e)
         /\ history' = Kept(Append(history, e))
         /\ publisher' = [publisher EXCEPT ![p] =
                            IF subs = {} THEN NotPublishing
                            ELSE [event |-> e, to |-> subs]]
  /\ UNCHANGED <<subs, queue, stream, dropped>>

\* What is left to deliver to.
Advance(p, to) ==
  publisher' = [publisher EXCEPT ![p] =
    IF to = {} THEN NotPublishing ELSE [@ EXCEPT !.to = to]]

PutMutant(q, e) == <<e>> \o q

Put(q, e) == Append(q, e)

\* put_nowait into the next queue; the event is dropped if it is full.
Deliver(p, s) ==
  /\ s \in publisher[p].to
  /\ LET e == publisher[p].event
     IN  IF Len(queue[s]) < MaxQueue
         THEN queue' = [queue EXCEPT ![s] = Put(@, e)] /\ UNCHANGED dropped
         ELSE dropped' = [dropped EXCEPT ![s] = @ \cup {e}] /\ UNCHANGED queue
  /\ Advance(p, publisher[p].to \ {s})
  /\ UNCHANGED <<published, history, subs, stream>>

------------------------------------------------------------------------------
(* The handlers *)

Subscribe(s) ==
  /\ stream[s].pc = "new"
  /\ subs' = subs \cup {s}
  /\ stream' = [stream EXCEPT ![s].pc = "subscribed"]
  /\ UNCHANGED <<published, history, publisher, queue, dropped>>

ClosesMutant(e) == e.kind = "error"

\* The types that end a stream.
Closes(e) == e.kind \in {"error", "end"}

\* The events of h up to the first that ends a stream.
UpToClosing(h) ==
  LET closing == {i \in DOMAIN h : Closes(h[i])}
      first   == CHOOSE i \in closing : \A j \in closing : i <= j
  IN  IF closing = {} THEN h ELSE SubSeq(h, 1, first)

\* Replay the history.  A WebSocket stops at an event that ends a stream, and
\* closes; SSE sends all of it and goes on.
Replay(s) ==
  /\ stream[s].pc = "subscribed"
  /\ LET h    == IF s \in WS THEN UpToClosing(history) ELSE history
         ends == s \in WS /\ \E e \in Set(h) : Closes(e)
     IN  /\ stream' = [stream EXCEPT ![s] =
               [pc |-> IF ends THEN "closed" ELSE "live", seen |-> h,
                floor |-> Len(published) - Len(history), replayed |-> Len(h)]]
         /\ subs' = IF ends THEN subs \ {s} ELSE subs
  /\ UNCHANGED <<published, history, publisher, queue, dropped>>

\* Send the next event of the queue; close after one that ends a stream.
Send(s) ==
  /\ stream[s].pc = "live"
  /\ queue[s] # <<>>
  /\ LET e == Head(queue[s])
     IN  /\ stream' = [stream EXCEPT ![s].seen = Append(@, e),
                                     ![s].pc = IF Closes(e) THEN "closed" ELSE "live"]
         /\ subs' = IF Closes(e) THEN subs \ {s} ELSE subs
  /\ queue' = [queue EXCEPT ![s] = Tail(@)]
  /\ UNCHANGED <<published, history, publisher, dropped>>

Disconnect(s) ==
  /\ stream[s].pc = "live"
  /\ stream' = [stream EXCEPT ![s].pc = "closed"]
  /\ subs' = subs \ {s}
  /\ UNCHANGED <<published, history, publisher, queue, dropped>>

------------------------------------------------------------------------------

Init ==
  /\ published = <<>>
  /\ history = <<>>
  /\ subs = {}
  /\ publisher = [p \in Publisher |-> NotPublishing]
  /\ queue = [s \in Stream |-> <<>>]
  /\ stream = [s \in Stream |-> NewStream]
  /\ dropped = [s \in Stream |-> {}]

Publishing(p) == \E s \in Stream : Deliver(p, s)

Handling(s) == Replay(s) \/ Send(s)

Next ==
  \/ \E p \in Publisher, k \in Kind : Publish(p, k)
  \/ \E p \in Publisher : Publishing(p)
  \/ \E s \in Stream : Subscribe(s) \/ Handling(s) \/ Disconnect(s)

Spec == Init /\ [][Next]_vars

------------------------------------------------------------------------------
(* Properties *)

\* Events on their way to stream s.
InFlight(s) ==
  Set(queue[s]) \cup
  {publisher[p].event : p \in {p \in Publisher : s \in publisher[p].to}}

\* No gap between the history a stream replays and its queue: every event the
\* history kept when it was read, and every later one, has been sent, is on
\* its way or was dropped by a full queue.
NoGap ==
  \A s \in Stream : stream[s].pc = "live" =>
    \A i \in DOMAIN published :
      i > stream[s].floor =>
        published[i] \in Set(stream[s].seen) \cup InFlight(s) \cup dropped[s]

\* The part of seen that came through the queue.
SentLive(s) ==
  SubSeq(stream[s].seen, stream[s].replayed + 1, Len(stream[s].seen))

\* One publisher's events reach a stream in the order of their publication,
\* although the queues are filled outside the lock.
PublisherOrder ==
  \A s \in Stream : \A i, j \in DOMAIN SentLive(s) :
    i < j /\ SentLive(s)[i].by = SentLive(s)[j].by
      => SentLive(s)[i].number <= SentLive(s)[j].number

\* Stream s will not see the task's last event: its full queue dropped it, or
\* the history no longer had it.
MissedEnd(s) ==
  \E e \in Set(published) :
    e.kind = "end" /\ (e \in dropped[s] \/ e.number <= stream[s].floor)

\* A WebSocket of a task that has ended closes, whether it was opened before
\* or after the last event, unless that event was lost to it.
WebSocketsEnd ==
  \A s \in WS : Ended /\ stream[s].pc \in {"subscribed", "live"}
                  ~> stream[s].pc = "closed" \/ MissedEnd(s)

\* What the WebSocket handler's comment says when it closes after such an
\* event in the history: the task is already finished.
ClosedWhenFinished ==
  [][\A s \in Stream : Replay(s) /\ stream'[s].pc = "closed" => Ended]_vars

\* What agent.py's header says: every event is streamed to the frontend.  A
\* stream that was there from the beginning has sent all of them when it
\* closes after the last one.
StreamedToFrontend ==
  [][\A s \in Stream :
       Send(s) /\ Head(queue[s]).kind = "end" /\ stream[s].floor = 0
         => Set(published) \subseteq Set(stream'[s].seen)]_vars
==============================================================================
