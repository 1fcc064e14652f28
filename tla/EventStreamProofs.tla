-------------------------- MODULE EventStreamProofs --------------------------
(***************************************************************************)
(* Proofs about EventStream, for any number of publishers and streams, any *)
(* length of the history and of the queues, and any number of events.      *)
(***************************************************************************)
EXTENDS EventStream, SequenceTheorems, FiniteSetTheorems, WellFoundedInduction, TLAPS

\* The history is the last of what was published, and events are numbered in
\* the order of their publication.
HistoryIsLast ==
  /\ \A i \in DOMAIN published : published[i].number = i
  /\ Len(history) <= Len(published)
  /\ \A i \in DOMAIN history : history[i] = published[Len(published) - Len(history) + i]

\* A publisher delivers an event of its own.
PublisherAgrees(p) ==
  publisher[p].to # {} =>
    /\ publisher[p].event \in Event
    /\ publisher[p].event.by = p
    /\ publisher[p].event.number <= Len(published)

HandlerAgrees(s) ==
  /\ stream[s].pc \in {"subscribed", "live"} => s \in subs
  /\ stream[s].replayed <= Len(stream[s].seen)

\* Two events in the order of their publication, if one publisher published them.
Before(d, e) == d.by = e.by => d.number <= e.number

Ordered(q, first) == \A i, j \in DOMAIN q : first < i /\ i < j => Before(q[i], q[j])

\* What stream s sends live, what is in its queue, and what a publisher still
\* delivers to it are in this order; and all of it was published.
ArrivesInOrder(s) ==
  LET seen == stream[s].seen
      live == {i \in DOMAIN seen : stream[s].replayed < i}
  IN  /\ Ordered(seen, stream[s].replayed)
      /\ Ordered(queue[s], 0)
      /\ \A i \in live, j \in DOMAIN queue[s] : Before(seen[i], queue[s][j])
      /\ \A i \in live : seen[i].number <= Len(published)
      /\ \A j \in DOMAIN queue[s] : queue[s][j].number <= Len(published)
      /\ \A p \in Publisher : s \in publisher[p].to =>
           /\ \A i \in live : Before(seen[i], publisher[p].event)
           /\ \A j \in DOMAIN queue[s] : Before(queue[s][j], publisher[p].event)

StreamInv ==
  /\ TypeOK
  /\ HistoryIsLast
  /\ \A p \in Publisher : PublisherAgrees(p)
  /\ \A s \in Stream : HandlerAgrees(s)
  /\ \A s \in Stream : ArrivesInOrder(s)
  /\ NoGap

------------------------------------------------------------------------------
(* Sequences *)

\* The initial segments of the naturals are finite sets, and strict inclusion
\* of finite sets is well-founded.
LEMMA LeastExists ==
  ASSUME NEW C \in SUBSET Nat, C # {}
  PROVE  \E m \in C : \A j \in C : m <= j
<1> DEFINE T == {0..i : i \in C}
<1>1. T \subseteq FiniteSubsetsOf(Nat) /\ T # {}
  <2>1. ASSUME NEW i \in C PROVE 0..i \in FiniteSubsetsOf(Nat)
    <3>1. IsFiniteSet(0..i)
      BY FS_Interval
    <3> QED
      BY <3>1 DEF FiniteSubsetsOf
  <2> QED
    BY <2>1
<1>2. PICK x \in T : \A y \in T : ~(<<y, x>> \in StrictSubsetOrdering(Nat))
  <2> HIDE DEF T
  <2> QED
    BY <1>1, FS_StrictSubsetOrderingWellFounded, WFMin
<1>3. PICK m \in C : x = 0..m
  BY <1>2
<1>4. ASSUME NEW j \in C, j < m PROVE FALSE
  <2>1. 0..j \in SUBSET Nat /\ 0..m \in SUBSET Nat /\ 0..j \subseteq 0..m /\ m \in 0..m /\ m \notin 0..j
    BY <1>4
  <2>2. <<0..j, 0..m>> \in StrictSubsetOrdering(Nat)
    BY <2>1 DEF StrictSubsetOrdering
  <2> QED
    BY <1>2, <1>3, <2>2
<1> QED
  BY <1>4

LEMMA AppendIs ==
  ASSUME NEW q \in Seq(Event), NEW e \in Event
  PROVE  /\ Append(q, e) \in Seq(Event) /\ Len(Append(q, e)) = Len(q) + 1
         /\ DOMAIN Append(q, e) = 1..Len(q) + 1 /\ DOMAIN q = 1..Len(q)
         /\ \A i \in 1..Len(q) : Append(q, e)[i] = q[i]
         /\ Append(q, e)[Len(q) + 1] = e
         /\ Set(Append(q, e)) = Set(q) \cup {e}
<1>1. /\ Append(q, e) \in Seq(Event) /\ Len(Append(q, e)) = Len(q) + 1
      /\ DOMAIN Append(q, e) = 1..Len(q) + 1 /\ DOMAIN q = 1..Len(q) /\ Len(q) \in Nat
      /\ \A i \in 1..Len(q) : Append(q, e)[i] = q[i]
      /\ Append(q, e)[Len(q) + 1] = e
  BY AppendProperties, LenProperties
<1>2. Set(Append(q, e)) = Set(q) \cup {e}
  <2>1. \A i \in 1..Len(q) + 1 : i \in 1..Len(q) \/ i = Len(q) + 1
    BY <1>1
  <2>2. \A i \in 1..Len(q) : i \in 1..Len(q) + 1
    BY <1>1
  <2>3. Len(q) + 1 \in 1..Len(q) + 1
    BY <1>1
  <2> QED
    BY <1>1, <2>1, <2>2, <2>3 DEF Set
<1> QED
  BY <1>1, <1>2

LEMMA TailIs ==
  ASSUME NEW q \in Seq(Event), q # <<>>
  PROVE  /\ Head(q) \in Event /\ Tail(q) \in Seq(Event) /\ Len(Tail(q)) = Len(q) - 1
         /\ DOMAIN Tail(q) = 1..Len(q) - 1 /\ DOMAIN q = 1..Len(q) /\ Len(q) \in Nat \ {0}
         /\ Head(q) = q[1] /\ \A i \in 1..Len(q) - 1 : Tail(q)[i] = q[i + 1]
         /\ Set(q) \subseteq {Head(q)} \cup Set(Tail(q))
<1>1. /\ Head(q) \in Event /\ Tail(q) \in Seq(Event) /\ Len(Tail(q)) = Len(q) - 1
      /\ DOMAIN Tail(q) = 1..Len(q) - 1 /\ DOMAIN q = 1..Len(q) /\ Len(q) \in Nat \ {0}
      /\ Head(q) = q[1] /\ \A i \in 1..Len(q) - 1 : Tail(q)[i] = q[i + 1]
  BY HeadTailProperties, LenProperties, EmptySeq
<1>2. ASSUME NEW i \in DOMAIN q, i # 1 PROVE i - 1 \in DOMAIN Tail(q) /\ q[i] = Tail(q)[i - 1]
  BY <1>1, <1>2
<1>3. \A i \in DOMAIN q : q[i] = Head(q) \/ q[i] \in Set(Tail(q))
  BY <1>1, <1>2 DEF Set
<1> QED
  BY <1>1, <1>3 DEF Set

LEMMA KeptIs ==
  ASSUME NEW h \in Seq(Event)
  PROVE  /\ Kept(h) \in Seq(Event) /\ Len(Kept(h)) <= Ring /\ Len(Kept(h)) <= Len(h)
         /\ DOMAIN Kept(h) = 1..Len(Kept(h))
         /\ \A i \in DOMAIN Kept(h) : Kept(h)[i] = h[Len(h) - Len(Kept(h)) + i]
<1>1. Len(h) \in Nat /\ DOMAIN h = 1..Len(h) /\ Ring \in Nat \ {0}
  BY LenProperties, SizeAssumption
<1>2. CASE Len(h) <= Ring
  BY <1>1, <1>2 DEF Kept
<1>3. CASE Len(h) > Ring
  <2> DEFINE m == Len(h) - Ring + 1
  <2>1. m \in 1..Len(h) /\ m \in Int /\ Kept(h) = SubSeq(h, m, Len(h))
    BY <1>1, <1>3 DEF Kept
  <2>2. \A i \in m..Len(h) : h[i] \in Event
    BY <1>1, <2>1, ElementOfSeq
  <2>3. /\ Kept(h) \in Seq(Event) /\ Len(Kept(h)) = Len(h) - m + 1
        /\ \A i \in 1..Len(h) - m + 1 : Kept(h)[i] = h[m + i - 1]
    BY <1>1, <2>1, <2>2, SubSeqProperties
  <2>4. Len(Kept(h)) = Ring /\ DOMAIN Kept(h) = 1..Ring
    BY <1>1, <2>3, LenProperties
  <2>5. ASSUME NEW i \in 1..Ring PROVE Kept(h)[i] = h[Len(h) - Ring + i]
    <3>1. m + i - 1 = Len(h) - Ring + i /\ i \in 1..Len(h) - m + 1
      BY <1>1
    <3> QED
      BY <2>3, <3>1
  <2> HIDE DEF m
  <2> QED
    BY <1>1, <1>3, <2>3, <2>4, <2>5
<1> QED
  BY <1>1, <1>2, <1>3

LEMMA UpToClosingIs ==
  ASSUME NEW h \in Seq(Event)
  PROVE  /\ UpToClosing(h) \in Seq(Event)
         /\ (\A e \in Set(UpToClosing(h)) : ~Closes(e)) => UpToClosing(h) = h
<1> DEFINE closing == {i \in DOMAIN h : Closes(h[i])}
           first == CHOOSE i \in closing : \A j \in closing : i <= j
<1>1. Len(h) \in Nat /\ DOMAIN h = 1..Len(h)
  BY LenProperties
<1>2. CASE closing = {}
  BY <1>2 DEF UpToClosing
<1>3. CASE closing # {}
  <2>1. closing \subseteq Nat
    BY <1>1
  <2>2. \E m \in closing : \A j \in closing : m <= j
    <3> HIDE DEF closing
    <3> QED
      BY <1>3, <2>1, LeastExists
  <2>4. first \in closing
    BY <2>2
  <2>5. UpToClosing(h) = SubSeq(h, 1, first)
    BY <1>3 DEF UpToClosing
  <2> HIDE DEF first
  <2>6. first \in 1..Len(h) /\ Closes(h[first])
    BY <1>1, <2>4
  <2>7. \A i \in 1..first : h[i] \in Event
    BY <1>1, <2>6, ElementOfSeq
  <2>8. /\ UpToClosing(h) \in Seq(Event) /\ Len(UpToClosing(h)) = first
        /\ \A i \in 1..first : UpToClosing(h)[i] = h[i]
    BY <1>1, <2>5, <2>6, <2>7, SubSeqProperties
  <2>9. first \in DOMAIN UpToClosing(h) /\ UpToClosing(h)[first] = h[first]
    BY <2>6, <2>8, LenProperties
  <2> QED
    BY <2>6, <2>8, <2>9 DEF Set
<1> QED
  BY <1>2, <1>3

------------------------------------------------------------------------------
(* Facts about the states *)

LEMMA StateTypes ==
  ASSUME StreamInv
  PROVE  /\ published \in Seq(Event) /\ Len(published) \in Nat /\ DOMAIN published = 1..Len(published)
         /\ history \in Seq(Event) /\ Len(history) \in Nat /\ DOMAIN history = 1..Len(history)
         /\ Len(history) <= Len(published) /\ subs \subseteq Stream
         /\ \A s \in Stream : /\ queue[s] \in Seq(Event) /\ Len(queue[s]) \in Nat
                              /\ DOMAIN queue[s] = 1..Len(queue[s])
                              /\ \A i \in DOMAIN queue[s] : queue[s][i] \in Event
         /\ \A s \in Stream : /\ stream[s] \in StreamState /\ stream[s].replayed \in Nat
                              /\ stream[s].floor \in Nat /\ stream[s].seen \in Seq(Event)
                              /\ Len(stream[s].seen) \in Nat
                              /\ DOMAIN stream[s].seen = 1..Len(stream[s].seen)
                              /\ \A i \in DOMAIN stream[s].seen : stream[s].seen[i] \in Event
         /\ \A p \in Publisher : publisher[p] \in PublisherState /\ publisher[p].to \subseteq Stream
         /\ \A e \in Event : e.number \in Nat
<1>1. ASSUME NEW q \in Seq(Event)
      PROVE  Len(q) \in Nat /\ DOMAIN q = 1..Len(q) /\ \A i \in DOMAIN q : q[i] \in Event
  BY LenProperties, ElementOfSeq
<1>2. /\ published \in Seq(Event) /\ history \in Seq(Event) /\ subs \subseteq Stream
      /\ \A s \in Stream : queue[s] \in Seq(Event) /\ stream[s] \in StreamState
      /\ \A p \in Publisher : publisher[p] \in PublisherState
      /\ Len(history) <= Len(published)
  BY DEF StreamInv, TypeOK, HistoryIsLast
<1>3. \A s \in Stream : /\ stream[s].replayed \in Nat /\ stream[s].floor \in Nat
                         /\ stream[s].seen \in Seq(Event)
  BY <1>2 DEF StreamState
<1>4. \A p \in Publisher : publisher[p].to \subseteq Stream
  BY <1>2 DEF PublisherState
<1>5. \A e \in Event : e.number \in Nat
  BY DEF Event
<1> QED
  BY <1>1, <1>2, <1>3, <1>4, <1>5

LEMMA IdleIs == NotPublishing \in PublisherState /\ NotPublishing.to = {}
  BY DEF NotPublishing, PublisherState

\* The steps of one handler, to the record t.
LEMMA StreamChanges ==
  ASSUME StreamInv, NEW s \in Stream, NEW t \in StreamState, stream' = [stream EXCEPT ![s] = t]
  PROVE  /\ stream' \in [Stream -> StreamState] /\ stream'[s] = t
         /\ \A x \in Stream \ {s} : stream'[x] = stream[x]
  BY DEF StreamInv, TypeOK

\* A stream whose queue, handler and deliveries stay is in order as before.
LEMMA OrderStays ==
  ASSUME StreamInv, NEW s \in Stream, stream'[s] = stream[s], queue'[s] = queue[s],
         \A p \in Publisher : s \in publisher'[p].to
                              => s \in publisher[p].to /\ publisher'[p].event = publisher[p].event,
         published' = published
  PROVE  ArrivesInOrder(s)'
<1>1. ArrivesInOrder(s)
  BY DEF StreamInv
<1> QED
  BY <1>1 DEF ArrivesInOrder, Ordered, Before

------------------------------------------------------------------------------
(* publish *)

LEMMA PublishKeeps ==
  ASSUME StreamInv, NEW p \in Publisher, NEW k \in Kind, Publish(p, k)
  PROVE  StreamInv'
<1> DEFINE e == [kind |-> k, number |-> Len(published) + 1, by |-> p]
<1>1. e \in Event /\ e.number = Len(published) + 1 /\ e.by = p
  BY StateTypes DEF Event
<1>2. /\ published' = Append(published, e) /\ history' = Kept(Append(history, e))
      /\ publisher[p] = NotPublishing
      /\ publisher' = [publisher EXCEPT ![p] = IF subs = {} THEN NotPublishing
                                               ELSE [event |-> e, to |-> subs]]
      /\ UNCHANGED <<subs, queue, stream, dropped>>
  BY DEF Publish
<1> HIDE DEF e
<1>3. /\ published' \in Seq(Event) /\ Len(published') = Len(published) + 1
      /\ DOMAIN published' = 1..Len(published) + 1
      /\ \A i \in 1..Len(published) : published'[i] = published[i]
      /\ published'[Len(published) + 1] = e /\ Len(published) \in Nat
      /\ DOMAIN published = 1..Len(published)
  BY <1>1, <1>2, AppendIs, StateTypes
<1>4. PICK h : h = Append(history, e)
  OBVIOUS
<1>5. /\ h \in Seq(Event) /\ Len(h) = Len(history) + 1 /\ Len(history) \in Nat
      /\ \A i \in 1..Len(history) : h[i] = history[i]
      /\ h[Len(history) + 1] = e /\ DOMAIN history = 1..Len(history) /\ Len(history) <= Len(published)
  BY <1>1, <1>4, AppendIs, StateTypes
<1>6. /\ history' \in Seq(Event) /\ Len(history') <= Ring /\ Len(history') <= Len(h)
      /\ DOMAIN history' = 1..Len(history') /\ Len(history') \in Nat
      /\ \A i \in DOMAIN history' : history'[i] = h[Len(h) - Len(history') + i]
  BY <1>2, <1>4, <1>5, KeptIs, LenProperties
<1>7. /\ publisher' \in [Publisher -> PublisherState]
      /\ \A x \in Publisher \ {p} : publisher'[x] = publisher[x]
      /\ publisher[p].to = {} /\ publisher'[p].to = subs
      /\ publisher'[p].to # {} => publisher'[p].event = e
  <2>1. CASE subs = {}
    BY <1>2, <2>1, IdleIs DEF StreamInv, TypeOK
  <2>2. CASE subs # {}
    <3>1. PICK t : t = [event |-> e, to |-> subs]
      OBVIOUS
    <3>2. t \in PublisherState /\ t.event = e /\ t.to = subs
      BY <1>1, <3>1, StateTypes DEF PublisherState
    <3>3. publisher' = [publisher EXCEPT ![p] = t]
      BY <1>2, <2>2, <3>1
    <3> QED
      BY <1>2, <3>2, <3>3, IdleIs DEF StreamInv, TypeOK
  <2> QED
    BY <2>1, <2>2
<1>8. TypeOK'
  BY <1>2, <1>3, <1>6, <1>7 DEF StreamInv, TypeOK
<1>9. HistoryIsLast'
  <2>1. \A i \in DOMAIN published' : published'[i].number = i
    BY <1>1, <1>3 DEF StreamInv, HistoryIsLast
  <2>2. \A i \in 1..Len(h) : h[i] = published'[Len(published') - Len(h) + i]
    <3>1. ASSUME NEW i \in 1..Len(history)
          PROVE  h[i] = published'[Len(published') - Len(h) + i]
      <4>1. h[i] = published[Len(published) - Len(history) + i]
        BY <1>5 DEF StreamInv, HistoryIsLast
      <4>2. Len(published) - Len(history) + i \in 1..Len(published)
        BY <1>3, <1>5
      <4>3. Len(published') - Len(h) + i = Len(published) - Len(history) + i
        BY <1>3, <1>5
      <4> QED
        BY <1>3, <4>1, <4>2, <4>3
    <3>2. Len(published') - Len(h) + Len(h) = Len(published) + 1
      BY <1>3, <1>5
    <3>3. \A i \in 1..Len(h) : i \in 1..Len(history) \/ i = Len(h)
      BY <1>5
    <3> QED
      BY <1>3, <1>5, <3>1, <3>2, <3>3
  <2>3. ASSUME NEW i \in DOMAIN history'
        PROVE  history'[i] = published'[Len(published') - Len(history') + i]
    <3>1. Len(h) - Len(history') + i \in 1..Len(h)
      BY <1>5, <1>6
    <3>2. Len(published') - Len(h) + (Len(h) - Len(history') + i) = Len(published') - Len(history') + i
      BY <1>3, <1>5, <1>6
    <3> QED
      BY <1>6, <2>2, <3>1, <3>2
  <2> QED
    BY <1>3, <1>5, <1>6, <2>1, <2>3 DEF HistoryIsLast
<1>10. \A x \in Publisher : PublisherAgrees(x)'
  <2>1. PublisherAgrees(p)'
    BY <1>1, <1>3, <1>7 DEF PublisherAgrees
  <2>2. ASSUME NEW x \in Publisher, x # p PROVE PublisherAgrees(x)'
    <3>1. PublisherAgrees(x)
      BY DEF StreamInv
    <3> QED
      BY <1>3, <1>7, <2>2, <3>1, StateTypes DEF PublisherAgrees
  <2> QED
    BY <2>1, <2>2
<1>11. \A s \in Stream : HandlerAgrees(s)'
  BY <1>2 DEF StreamInv, HandlerAgrees
<1>12. ASSUME NEW s \in Stream PROVE ArrivesInOrder(s)'
  <2>1. ArrivesInOrder(s) /\ stream'[s] = stream[s] /\ queue'[s] = queue[s]
    BY <1>2 DEF StreamInv
  <2>2. /\ \A i \in DOMAIN stream[s].seen : stream[s].seen[i].number \in Nat
        /\ \A j \in DOMAIN queue[s] : queue[s][j].number \in Nat
    BY StateTypes
  <2>3. ASSUME NEW x \in Publisher, s \in publisher'[x].to
        PROVE  /\ \A i \in DOMAIN stream[s].seen : stream[s].replayed < i
                    => Before(stream[s].seen[i], publisher'[x].event)
               /\ \A j \in DOMAIN queue[s] : Before(queue[s][j], publisher'[x].event)
    <3>1. CASE x = p
      BY <1>1, <1>3, <1>7, <2>1, <2>2, <2>3, <3>1 DEF ArrivesInOrder, Before
    <3>2. CASE x # p
      BY <1>7, <2>1, <2>3, <3>2 DEF ArrivesInOrder
    <3> QED
      BY <3>1, <3>2
  <2> QED
    BY <1>3, <2>1, <2>2, <2>3 DEF ArrivesInOrder, Ordered, Before
<1>13. NoGap'
  <2> SUFFICES ASSUME NEW s \in Stream, stream'[s].pc = "live",
                      NEW i \in DOMAIN published', i > stream'[s].floor
               PROVE  published'[i] \in Set(stream'[s].seen) \cup InFlight(s)' \cup dropped'[s]
    BY DEF NoGap
  <2>1. stream'[s] = stream[s] /\ queue'[s] = queue[s] /\ dropped'[s] = dropped[s] /\ s \in subs
    BY <1>2 DEF StreamInv, HandlerAgrees
  <2>2. CASE i = Len(published) + 1
    <3>1. s \in publisher'[p].to /\ publisher'[p].event = published'[i]
      BY <1>3, <1>7, <2>1, <2>2
    <3> QED
      BY <3>1 DEF InFlight
  <2>3. CASE i \in DOMAIN published
    <3>1. published[i] \in Set(stream[s].seen) \cup InFlight(s) \cup dropped[s]
      BY <2>1, <2>3 DEF StreamInv, NoGap
    <3>2. InFlight(s) \subseteq InFlight(s)'
      <4>1. ASSUME NEW x \in Publisher, s \in publisher[x].to
            PROVE  s \in publisher'[x].to /\ publisher'[x].event = publisher[x].event
        BY <1>7, <4>1
      <4> QED
        BY <2>1, <4>1 DEF InFlight
    <3> QED
      BY <1>3, <2>1, <2>3, <3>1, <3>2
  <2> QED
    BY <1>3, <2>2, <2>3
<1> QED
  BY <1>8, <1>9, <1>10, <1>11, <1>12, <1>13 DEF StreamInv

LEMMA DeliverKeeps ==
  ASSUME StreamInv, NEW p \in Publisher, NEW s \in Stream, Deliver(p, s)
  PROVE  StreamInv'
<1>1. PICK e : e = publisher[p].event
  OBVIOUS
<1>2. /\ s \in publisher[p].to /\ e \in Event /\ e.by = p /\ e.number <= Len(published)
      /\ publisher[p] \in PublisherState
  BY <1>1, StateTypes DEF Deliver, StreamInv, PublisherAgrees
<1>3. /\ \/ /\ Len(queue[s]) < MaxQueue
            /\ queue' = [queue EXCEPT ![s] = Append(queue[s], e)] /\ UNCHANGED dropped
         \/ dropped' = [dropped EXCEPT ![s] = dropped[s] \cup {e}] /\ UNCHANGED queue
      /\ UNCHANGED <<published, history, subs, stream>>
  BY <1>1 DEF Deliver, Put
<1>4. /\ publisher' \in [Publisher -> PublisherState]
      /\ \A x \in Publisher \ {p} : publisher'[x] = publisher[x]
      /\ publisher'[p].to = publisher[p].to \ {s}
      /\ publisher'[p].to # {} => publisher'[p].event = e
  <2>1. CASE publisher[p].to \ {s} = {}
    BY <2>1, IdleIs DEF Deliver, Advance, StreamInv, TypeOK
  <2>2. CASE publisher[p].to \ {s} # {}
    <3>1. PICK t : t = [publisher[p] EXCEPT !.to = publisher[p].to \ {s}]
      OBVIOUS
    <3>2. t \in PublisherState /\ t.event = e /\ t.to = publisher[p].to \ {s}
      BY <1>1, <1>2, <3>1 DEF PublisherState
    <3>3. publisher' = [publisher EXCEPT ![p] = t]
      BY <2>2, <3>1 DEF Deliver, Advance
    <3> QED
      BY <3>2, <3>3 DEF StreamInv, TypeOK
  <2> QED
    BY <2>1, <2>2
<1>5. /\ queue' \in [Stream -> Seq(Event)] /\ dropped' \in [Stream -> SUBSET Event]
      /\ \A x \in Stream : Len(queue'[x]) <= MaxQueue
      /\ \A x \in Stream \ {s} : queue'[x] = queue[x] /\ dropped'[x] = dropped[x]
      /\ \/ queue'[s] = queue[s] /\ dropped'[s] = dropped[s] \cup {e}
         \/ queue'[s] = Append(queue[s], e) /\ dropped'[s] = dropped[s]
  <2>1. queue[s] \in Seq(Event) /\ Len(queue[s]) \in Nat
    BY StateTypes
  <2>2. Append(queue[s], e) \in Seq(Event) /\ Len(Append(queue[s], e)) = Len(queue[s]) + 1
    BY <1>2, <2>1, AppendIs
  <2>3. MaxQueue \in Nat
    BY SizeAssumption
  <2>4. CASE /\ Len(queue[s]) < MaxQueue
             /\ queue' = [queue EXCEPT ![s] = Append(queue[s], e)] /\ UNCHANGED dropped
    <3>1. PICK q : q = Append(queue[s], e)
      OBVIOUS
    <3>2. q \in Seq(Event) /\ Len(q) <= MaxQueue
      BY <2>1, <2>2, <2>3, <2>4, <3>1
    <3>3. queue' = [queue EXCEPT ![s] = q] /\ queue \in [Stream -> Seq(Event)]
          /\ dropped' = dropped /\ dropped \in [Stream -> SUBSET Event]
          /\ \A x \in Stream : Len(queue[x]) <= MaxQueue
      BY <2>4, <3>1 DEF StreamInv, TypeOK
    <3>4. queue' \in [Stream -> Seq(Event)] /\ queue'[s] = q /\ \A x \in Stream \ {s} : queue'[x] = queue[x]
      BY <3>2, <3>3
    <3> QED
      BY <3>1, <3>2, <3>3, <3>4
  <2>5. CASE dropped' = [dropped EXCEPT ![s] = dropped[s] \cup {e}] /\ UNCHANGED queue
    BY <1>2, <2>5 DEF StreamInv, TypeOK
  <2> QED
    BY <1>3, <2>4, <2>5
<1>6. TypeOK'
  BY <1>3, <1>4, <1>5 DEF StreamInv, TypeOK
<1>7. HistoryIsLast' /\ \A x \in Stream : HandlerAgrees(x)'
  BY <1>3 DEF StreamInv, HistoryIsLast, HandlerAgrees
<1>8. \A x \in Publisher : PublisherAgrees(x)'
  BY <1>2, <1>3, <1>4 DEF StreamInv, PublisherAgrees
<1>9. ASSUME NEW x \in Stream, x # s PROVE ArrivesInOrder(x)'
  <2>1. \A y \in Publisher : x \in publisher'[y].to
                             => x \in publisher[y].to /\ publisher'[y].event = publisher[y].event
    BY <1>1, <1>4
  <2> QED
    BY <1>3, <1>5, <1>9, <2>1, OrderStays
<1>10. ArrivesInOrder(s)'
  <2>1. \A y \in Publisher : s \in publisher'[y].to
                             => y # p /\ s \in publisher[y].to /\ publisher'[y].event = publisher[y].event
    BY <1>4
  <2>2. CASE queue'[s] = queue[s]
    BY <1>3, <2>1, <2>2, OrderStays
  <2>3. CASE queue'[s] = Append(queue[s], e)
    <3>1. /\ DOMAIN queue'[s] = 1..Len(queue[s]) + 1 /\ DOMAIN queue[s] = 1..Len(queue[s])
          /\ \A i \in 1..Len(queue[s]) : queue'[s][i] = queue[s][i]
          /\ queue'[s][Len(queue[s]) + 1] = e /\ Len(queue[s]) \in Nat
      BY <1>2, <2>3, AppendIs, StateTypes
    <3>2. \A j \in DOMAIN queue'[s] : j \in DOMAIN queue[s] \/ (j = Len(queue[s]) + 1 /\ queue'[s][j] = e)
      BY <3>1
    <3>3. ArrivesInOrder(s) /\ stream'[s] = stream[s] /\ published' = published
      BY <1>3 DEF StreamInv
    <3>4. /\ \A i \in DOMAIN stream[s].seen : stream[s].replayed < i => Before(stream[s].seen[i], e)
          /\ \A j \in DOMAIN queue[s] : Before(queue[s][j], e)
      BY <1>1, <1>2, <3>3 DEF ArrivesInOrder
    <3>5. Ordered(queue'[s], 0)
      BY <3>1, <3>2, <3>3, <3>4 DEF ArrivesInOrder, Ordered
    <3>6. /\ \A i \in DOMAIN stream[s].seen : stream[s].replayed < i
               => \A j \in DOMAIN queue'[s] : Before(stream[s].seen[i], queue'[s][j])
          /\ \A j \in DOMAIN queue'[s] : queue'[s][j].number <= Len(published)
      BY <1>2, <3>1, <3>2, <3>3, <3>4 DEF ArrivesInOrder
    <3>7. ASSUME NEW y \in Publisher, s \in publisher'[y].to
          PROVE  /\ \A i \in DOMAIN stream[s].seen : stream[s].replayed < i
                      => Before(stream[s].seen[i], publisher'[y].event)
                 /\ \A j \in DOMAIN queue'[s] : Before(queue'[s][j], publisher'[y].event)
      <4>1. y # p /\ s \in publisher[y].to /\ publisher'[y].event = publisher[y].event
            /\ publisher[y].event.by = y
        BY <2>1, <3>7 DEF StreamInv, PublisherAgrees
      <4>2. Before(e, publisher'[y].event)
        BY <1>2, <4>1 DEF Before
      <4> QED
        BY <3>1, <3>2, <3>3, <4>1, <4>2 DEF ArrivesInOrder
    <3> QED
      BY <3>3, <3>5, <3>6, <3>7 DEF ArrivesInOrder, Ordered, Before
  <2> QED
    BY <1>5, <2>2, <2>3
<1>11. NoGap'
  <2> SUFFICES ASSUME NEW x \in Stream, stream'[x].pc = "live",
                      NEW i \in DOMAIN published', i > stream'[x].floor
               PROVE  published'[i] \in Set(stream'[x].seen) \cup InFlight(x)' \cup dropped'[x]
    BY DEF NoGap
  <2>1. published'[i] = published[i]
        /\ published[i] \in Set(stream[x].seen) \cup InFlight(x) \cup dropped[x]
    BY <1>3 DEF StreamInv, NoGap
  <2>2. Set(queue[x]) \subseteq Set(queue'[x]) /\ dropped[x] \subseteq dropped'[x]
    <3>1. x = s => Set(Append(queue[s], e)) = Set(queue[s]) \cup {e}
      BY <1>2, AppendIs, StateTypes
    <3> QED
      BY <1>5, <3>1
  <2>3. x = s => e \in Set(queue'[x]) \cup dropped'[x]
    <3>1. x = s => Set(Append(queue[s], e)) = Set(queue[s]) \cup {e}
      BY <1>2, AppendIs, StateTypes
    <3> QED
      BY <1>5, <3>1
  <2>4. InFlight(x) \subseteq InFlight(x)' \cup dropped'[x]
    <3>1. ASSUME NEW y \in Publisher, x \in publisher[y].to
          PROVE  publisher[y].event \in InFlight(x)' \cup dropped'[x]
      <4>1. CASE y = p /\ x = s
        BY <1>1, <2>3, <4>1 DEF InFlight
      <4>2. CASE y # p \/ x # s
        <5>1. x \in publisher'[y].to /\ publisher'[y].event = publisher[y].event
          BY <1>1, <1>4, <3>1, <4>2
        <5> QED
          BY <5>1 DEF InFlight
      <4> QED
        BY <4>1, <4>2
    <3>2. Set(queue[x]) \subseteq InFlight(x)'
      BY <2>2 DEF InFlight
    <3> QED
      BY <3>1, <3>2 DEF InFlight
  <2>5. Set(stream'[x].seen) = Set(stream[x].seen)
    BY <1>3
  <2> QED
    BY <2>1, <2>2, <2>4, <2>5
<1> QED
  BY <1>6, <1>7, <1>8, <1>9, <1>10, <1>11 DEF StreamInv

------------------------------------------------------------------------------
(* The handlers *)

\* A handler takes nothing from its queue, and what it has replayed is all it
\* has sent; or it only stops.
LEMMA HandlerKeeps ==
  ASSUME StreamInv, NEW s \in Stream, NEW t \in StreamState, stream' = [stream EXCEPT ![s] = t],
         UNCHANGED <<published, history, publisher, queue, dropped>>,
         \/ t.replayed = Len(t.seen)
         \/ t.seen = stream[s].seen /\ t.replayed = stream[s].replayed,
         \/ t.pc \in {"subscribed", "live"} /\ subs' = subs \cup {s}
         \/ t.pc \notin {"subscribed", "live"} /\ subs' = subs \ {s},
         t.pc = "live" => \A i \in DOMAIN published : i > t.floor => published[i] \in Set(t.seen)
  PROVE  StreamInv'
<1>1. stream' \in [Stream -> StreamState] /\ stream'[s] = t /\ \A x \in Stream \ {s} : stream'[x] = stream[x]
  BY StreamChanges
<1>2. TypeOK'
  BY <1>1 DEF StreamInv, TypeOK
<1>3. HistoryIsLast' /\ \A x \in Publisher : PublisherAgrees(x)'
  BY DEF StreamInv, HistoryIsLast, PublisherAgrees
<1>4. t.seen \in Seq(Event) /\ Len(t.seen) \in Nat /\ t.replayed \in Nat /\ DOMAIN t.seen = 1..Len(t.seen)
  BY LenProperties DEF StreamState
<1>5. \A x \in Stream : HandlerAgrees(x)'
  BY <1>1, <1>4 DEF StreamInv, HandlerAgrees
<1>6. ASSUME NEW x \in Stream PROVE ArrivesInOrder(x)'
  <2>1. CASE x = s
    <3>1. ArrivesInOrder(s)
      BY DEF StreamInv
    <3>2. CASE t.replayed = Len(t.seen)
      <4>1. \A i \in DOMAIN t.seen : ~(t.replayed < i)
        BY <1>4, <3>2
      <4> QED
        BY <1>1, <2>1, <3>1, <4>1 DEF ArrivesInOrder, Ordered, Before
    <3>3. CASE t.seen = stream[s].seen /\ t.replayed = stream[s].replayed
      BY <1>1, <2>1, <3>1, <3>3 DEF ArrivesInOrder, Ordered, Before
    <3> QED
      BY <3>2, <3>3
  <2>2. CASE x # s
    BY <1>1, <2>2, OrderStays
  <2> QED
    BY <2>1, <2>2
<1>7. NoGap'
  BY <1>1 DEF StreamInv, NoGap, InFlight
<1> QED
  BY <1>2, <1>3, <1>5, <1>6, <1>7 DEF StreamInv

LEMMA SubscribeKeeps ==
  ASSUME StreamInv, NEW s \in Stream, Subscribe(s)
  PROVE  StreamInv'
<1>1. PICK t : t = [stream[s] EXCEPT !.pc = "subscribed"]
  OBVIOUS
<1>2. t \in StreamState /\ t.pc = "subscribed" /\ t.seen = stream[s].seen /\ t.replayed = stream[s].replayed
  BY <1>1, StateTypes DEF StreamState
<1>3. /\ stream' = [stream EXCEPT ![s] = t] /\ subs' = subs \cup {s}
      /\ UNCHANGED <<published, history, publisher, queue, dropped>>
  BY <1>1 DEF Subscribe
<1> QED
  BY <1>2, <1>3, HandlerKeeps

LEMMA DisconnectKeeps ==
  ASSUME StreamInv, NEW s \in Stream, Disconnect(s)
  PROVE  StreamInv'
<1>1. PICK t : t = [stream[s] EXCEPT !.pc = "closed"]
  OBVIOUS
<1>2. t \in StreamState /\ t.pc = "closed" /\ t.seen = stream[s].seen /\ t.replayed = stream[s].replayed
  BY <1>1, StateTypes DEF StreamState
<1>3. /\ stream' = [stream EXCEPT ![s] = t] /\ subs' = subs \ {s}
      /\ UNCHANGED <<published, history, publisher, queue, dropped>>
  BY <1>1 DEF Disconnect
<1> QED
  BY <1>2, <1>3, HandlerKeeps

\* Every event that the history has when it is read is sent.
LEMMA ReplayKeeps ==
  ASSUME StreamInv, NEW s \in Stream, Replay(s)
  PROVE  StreamInv'
<1> DEFINE h == IF s \in WS THEN UpToClosing(history) ELSE history
           ends == s \in WS /\ \E e \in Set(h) : Closes(e)
           t == [pc |-> IF ends THEN "closed" ELSE "live", seen |-> h,
                 floor |-> Len(published) - Len(history), replayed |-> Len(h)]
<1>1. h \in Seq(Event) /\ (~ends => h = history)
  BY StateTypes, UpToClosingIs
<1>2. /\ stream' = [stream EXCEPT ![s] = t] /\ subs' = IF ends THEN subs \ {s} ELSE subs
      /\ UNCHANGED <<published, history, publisher, queue, dropped>> /\ stream[s].pc = "subscribed"
  BY DEF Replay
<1> HIDE DEF h, ends
<1>3. Len(h) \in Nat /\ Len(published) - Len(history) \in Nat
  BY <1>1, StateTypes, LenProperties
<1>4. /\ t \in StreamState /\ t.seen = h /\ t.replayed = Len(h)
      /\ t.floor = Len(published) - Len(history)
      /\ ends => t.pc = "closed"
      /\ ~ends => t.pc = "live"
  BY <1>1, <1>3 DEF StreamState
<1> HIDE DEF t
<1>5. s \in subs
  BY <1>2 DEF StreamInv, HandlerAgrees
<1>6. ASSUME t.pc = "live", NEW i \in DOMAIN published, i > t.floor
      PROVE  published[i] \in Set(t.seen)
  <2>1. t.seen = history
    BY <1>1, <1>4, <1>6
  <2> DEFINE j == i - (Len(published) - Len(history))
  <2>2. j \in DOMAIN history /\ Len(published) - Len(history) + j = i
    BY <1>4, <1>6, StateTypes
  <2>3. history[j] = published[Len(published) - Len(history) + j]
    BY <2>2 DEF StreamInv, HistoryIsLast
  <2> HIDE DEF j
  <2> QED
    BY <2>1, <2>2, <2>3 DEF Set
<1>7. \/ t.pc \in {"subscribed", "live"} /\ subs' = subs \cup {s}
      \/ t.pc \notin {"subscribed", "live"} /\ subs' = subs \ {s}
  BY <1>2, <1>4, <1>5
<1> QED
  BY <1>2, <1>4, <1>6, <1>7, HandlerKeeps

LEMMA SendKeeps ==
  ASSUME StreamInv, NEW s \in Stream, Send(s)
  PROVE  StreamInv'
<1>1. PICK e, q, seen : e = Head(queue[s]) /\ q = Tail(queue[s]) /\ seen = Append(stream[s].seen, e)
  OBVIOUS
<1>2. PICK t : t = [stream[s] EXCEPT !.seen = seen, !.pc = IF Closes(e) THEN "closed" ELSE "live"]
  OBVIOUS
<1>3. /\ stream' = [stream EXCEPT ![s] = t] /\ queue' = [queue EXCEPT ![s] = q]
      /\ subs' = IF Closes(e) THEN subs \ {s} ELSE subs
      /\ UNCHANGED <<published, history, publisher, dropped>>
      /\ stream[s].pc = "live" /\ queue[s] # <<>>
  BY <1>1, <1>2 DEF Send
<1>4. /\ e \in Event /\ q \in Seq(Event) /\ Len(q) = Len(queue[s]) - 1 /\ DOMAIN q = 1..Len(queue[s]) - 1
      /\ DOMAIN queue[s] = 1..Len(queue[s]) /\ Len(queue[s]) \in Nat \ {0}
      /\ e = queue[s][1] /\ \A i \in 1..Len(queue[s]) - 1 : q[i] = queue[s][i + 1]
      /\ Set(queue[s]) \subseteq {e} \cup Set(q)
  BY <1>1, <1>3, TailIs, StateTypes
<1>5. /\ seen \in Seq(Event) /\ Len(seen) = Len(stream[s].seen) + 1 /\ Len(stream[s].seen) \in Nat
      /\ DOMAIN seen = 1..Len(stream[s].seen) + 1 /\ DOMAIN stream[s].seen = 1..Len(stream[s].seen)
      /\ \A i \in 1..Len(stream[s].seen) : seen[i] = stream[s].seen[i]
      /\ seen[Len(stream[s].seen) + 1] = e
      /\ Set(seen) = Set(stream[s].seen) \cup {e}
  BY <1>1, <1>4, AppendIs, StateTypes
<1>6. /\ t \in StreamState /\ t.seen = seen /\ t.replayed = stream[s].replayed /\ t.floor = stream[s].floor
      /\ Closes(e) => t.pc = "closed"
      /\ ~Closes(e) => t.pc = "live"
  BY <1>2, <1>5, StateTypes DEF StreamState
<1>7. stream' \in [Stream -> StreamState] /\ stream'[s] = t /\ \A x \in Stream \ {s} : stream'[x] = stream[x]
  BY <1>3, <1>6, StreamChanges
<1>8. queue' \in [Stream -> Seq(Event)] /\ queue'[s] = q /\ \A x \in Stream \ {s} : queue'[x] = queue[x]
  BY <1>3, <1>4 DEF StreamInv, TypeOK
<1>9. TypeOK'
  <2>1. \A x \in Stream : Len(queue'[x]) <= MaxQueue
    <3>1. Len(queue[s]) <= MaxQueue /\ MaxQueue \in Nat
      BY SizeAssumption DEF StreamInv, TypeOK
    <3>2. Len(q) <= MaxQueue
      BY <1>4, <3>1
    <3> QED
      BY <1>8, <3>2 DEF StreamInv, TypeOK
  <2> QED
    BY <1>3, <1>7, <1>8, <2>1 DEF StreamInv, TypeOK
<1>10. HistoryIsLast' /\ \A x \in Publisher : PublisherAgrees(x)'
  BY <1>3 DEF StreamInv, HistoryIsLast, PublisherAgrees
<1>11. \A x \in Stream : HandlerAgrees(x)'
  <2>1. t.replayed <= Len(t.seen)
    BY <1>5, <1>6, StateTypes DEF StreamInv, HandlerAgrees
  <2>2. s \in subs
    BY <1>3 DEF StreamInv, HandlerAgrees
  <2> QED
    BY <1>3, <1>6, <1>7, <2>1, <2>2 DEF StreamInv, HandlerAgrees
<1>12. ASSUME NEW x \in Stream, x # s PROVE ArrivesInOrder(x)'
  BY <1>3, <1>7, <1>8, <1>12, OrderStays
<1>13. ArrivesInOrder(s)'
  <2>1. ArrivesInOrder(s)
    BY DEF StreamInv
  <2>2. \A i \in DOMAIN seen : i \in DOMAIN stream[s].seen \/ (i = Len(stream[s].seen) + 1 /\ seen[i] = e)
    BY <1>5
  <2>3. \A j \in DOMAIN q : j + 1 \in DOMAIN queue[s] /\ q[j] = queue[s][j + 1] /\ 1 < j + 1
    BY <1>4
  <2>4. /\ \A i \in DOMAIN stream[s].seen : t.replayed < i => Before(stream[s].seen[i], e)
        /\ \A j \in DOMAIN q : Before(e, q[j])
        /\ e.number <= Len(published)
        /\ \A p \in Publisher : s \in publisher[p].to => Before(e, publisher[p].event)
    <3>1. 1 \in DOMAIN queue[s]
      BY <1>4
    <3> QED
      BY <1>4, <1>6, <2>1, <2>3, <3>1 DEF ArrivesInOrder, Ordered
  <2>5. Ordered(seen, t.replayed)
    <3> SUFFICES ASSUME NEW i \in DOMAIN seen, NEW j \in DOMAIN seen, t.replayed < i, i < j
                 PROVE  Before(seen[i], seen[j])
      BY DEF Ordered
    <3>1. i \in DOMAIN stream[s].seen
      BY <1>5
    <3>2. CASE j \in DOMAIN stream[s].seen
      BY <1>5, <1>6, <2>1, <3>1, <3>2 DEF ArrivesInOrder, Ordered
    <3>3. CASE j = Len(stream[s].seen) + 1
      BY <1>5, <2>4, <3>1, <3>3
    <3> QED
      BY <2>2, <3>2, <3>3
  <2>6. Ordered(q, 0)
    <3> SUFFICES ASSUME NEW i \in DOMAIN q, NEW j \in DOMAIN q, 0 < i, i < j
                 PROVE  Before(q[i], q[j])
      BY DEF Ordered
    <3>1. 0 < i + 1 /\ i + 1 < j + 1
      BY <1>4
    <3> QED
      BY <2>1, <2>3, <3>1 DEF ArrivesInOrder, Ordered
  <2>7. /\ \A i \in DOMAIN seen : t.replayed < i =>
             /\ \A j \in DOMAIN q : Before(seen[i], q[j])
             /\ seen[i].number <= Len(published)
             /\ \A p \in Publisher : s \in publisher[p].to => Before(seen[i], publisher[p].event)
    <3> SUFFICES ASSUME NEW i \in DOMAIN seen, t.replayed < i
                 PROVE  /\ \A j \in DOMAIN q : Before(seen[i], q[j])
                        /\ seen[i].number <= Len(published)
                        /\ \A p \in Publisher : s \in publisher[p].to => Before(seen[i], publisher[p].event)
      OBVIOUS
    <3>1. CASE i \in DOMAIN stream[s].seen
      BY <1>5, <1>6, <2>1, <2>3, <3>1 DEF ArrivesInOrder
    <3>2. CASE seen[i] = e
      BY <2>4, <3>2
    <3> QED
      BY <2>2, <3>1, <3>2
  <2>8. \A j \in DOMAIN q : /\ q[j].number <= Len(published)
                            /\ \A p \in Publisher : s \in publisher[p].to => Before(q[j], publisher[p].event)
    BY <2>1, <2>3 DEF ArrivesInOrder
  <2> QED
    BY <1>3, <1>6, <1>7, <1>8, <2>5, <2>6, <2>7, <2>8 DEF ArrivesInOrder, Ordered, Before
<1>14. NoGap'
  <2> SUFFICES ASSUME NEW x \in Stream, stream'[x].pc = "live",
                      NEW i \in DOMAIN published', i > stream'[x].floor
               PROVE  published'[i] \in Set(stream'[x].seen) \cup InFlight(x)' \cup dropped'[x]
    BY DEF NoGap
  <2>1. CASE x = s
    <3>1. published[i] \in Set(stream[s].seen) \cup InFlight(s) \cup dropped[s]
      BY <1>3, <1>6, <1>7, <2>1 DEF StreamInv, NoGap
    <3>2. InFlight(s) \subseteq {e} \cup InFlight(s)'
      BY <1>3, <1>4, <1>8 DEF InFlight
    <3> QED
      BY <1>3, <1>5, <1>6, <1>7, <2>1, <3>1, <3>2
  <2>2. CASE x # s
    <3>1. published[i] \in Set(stream[x].seen) \cup InFlight(x) \cup dropped[x]
      BY <1>3, <1>7, <2>2 DEF StreamInv, NoGap
    <3>2. InFlight(x) = InFlight(x)'
      BY <1>3, <1>8, <2>2 DEF InFlight
    <3> QED
      BY <1>3, <1>7, <2>2, <3>1, <3>2
  <2> QED
    BY <2>1, <2>2
<1> QED
  BY <1>9, <1>10, <1>11, <1>12, <1>13, <1>14 DEF StreamInv

------------------------------------------------------------------------------
(* The invariant, and the properties *)

LEMMA InitHolds == Init => StreamInv
<1> SUFFICES ASSUME Init PROVE StreamInv
  OBVIOUS
<1>1. <<>> \in Seq(Event) /\ Len(<<>>) = 0 /\ DOMAIN <<>> = {}
  BY EmptySeq, LenProperties
<1>2. NewStream \in StreamState /\ NewStream.pc = "new" /\ NewStream.seen = <<>> /\ NewStream.replayed = 0
  BY <1>1 DEF NewStream, StreamState
<1>3. TypeOK
  BY <1>1, <1>2, IdleIs, SizeAssumption DEF Init, TypeOK
<1>4. HistoryIsLast /\ \A p \in Publisher : PublisherAgrees(p)
  BY <1>1, IdleIs DEF Init, HistoryIsLast, PublisherAgrees
<1>5. \A s \in Stream : HandlerAgrees(s) /\ ArrivesInOrder(s)
  BY <1>1, <1>2, IdleIs DEF Init, HandlerAgrees, ArrivesInOrder, Ordered
<1>6. NoGap
  BY <1>2 DEF Init, NoGap
<1> QED
  BY <1>3, <1>4, <1>5, <1>6 DEF StreamInv

LEMMA NextKeeps ==
  ASSUME StreamInv, [Next]_vars
  PROVE  StreamInv'
<1>1. ASSUME NEW p \in Publisher, Publishing(p)
      PROVE  StreamInv'
  BY <1>1, DeliverKeeps DEF Publishing
<1>2. ASSUME NEW s \in Stream, Subscribe(s) \/ Handling(s) \/ Disconnect(s)
      PROVE  StreamInv'
  BY <1>2, SubscribeKeeps, ReplayKeeps, SendKeeps, DisconnectKeeps DEF Handling
<1>3. CASE UNCHANGED vars
  BY <1>3 DEF vars, StreamInv, TypeOK, HistoryIsLast, PublisherAgrees, HandlerAgrees, ArrivesInOrder, Ordered,
     Before, NoGap, InFlight
<1> QED
  BY <1>1, <1>2, <1>3, PublishKeeps DEF Next

LEMMA InvariantHolds == Spec => []StreamInv
<1>1. StreamInv /\ [Next]_vars => StreamInv'
  BY NextKeeps
<1> QED
  BY <1>1, InitHolds, PTL DEF Spec

\* The history never has more than its limit of events and no queue more than
\* its size, and the states of the handlers are those the model gives them.
THEOREM StreamTypeCorrect == Spec => []TypeOK
<1>1. StreamInv => TypeOK
  BY DEF StreamInv
<1> QED
  BY <1>1, InvariantHolds, PTL

\* Between the history that a stream replays and the queue it then reads no
\* event is lost, whatever is published while it opens, although subscribing
\* and reading the history take the lock one after the other (agent.py
\* EventBus, main.py's SSE and WebSocket handlers).
THEOREM NothingFallsBetween == Spec => []NoGap
<1>1. StreamInv => NoGap
  BY DEF StreamInv
<1> QED
  BY <1>1, InvariantHolds, PTL

\* The events of one publisher reach every stream in the order in which it
\* published them, although several publishers fill the queues outside the lock.
THEOREM PublishersStayInOrder == Spec => []PublisherOrder
<1>1. ASSUME StreamInv, NEW s \in Stream,
             NEW i \in DOMAIN SentLive(s), NEW j \in DOMAIN SentLive(s),
             i < j, SentLive(s)[i].by = SentLive(s)[j].by
      PROVE  SentLive(s)[i].number <= SentLive(s)[j].number
  <2>1. PICK n, seen : n = stream[s].replayed /\ seen = stream[s].seen
    OBVIOUS
  <2>2. /\ n \in Nat /\ seen \in Seq(Event) /\ Len(seen) \in Nat /\ n <= Len(seen)
        /\ DOMAIN seen = 1..Len(seen) /\ \A k \in DOMAIN seen : seen[k] \in Event
        /\ Ordered(seen, n)
    BY <1>1, <2>1, StateTypes DEF StreamInv, HandlerAgrees, ArrivesInOrder
  <2>3. SentLive(s) = SubSeq(seen, n + 1, Len(seen))
    BY <2>1 DEF SentLive
  <2>4. \A k \in n + 1..Len(seen) : seen[k] \in Event
    BY <2>2
  <2>5. /\ SentLive(s) \in Seq(Event)
        /\ Len(SentLive(s)) = IF n + 1 <= Len(seen) THEN Len(seen) - (n + 1) + 1 ELSE 0
        /\ \A k \in 1..Len(seen) - (n + 1) + 1 : SentLive(s)[k] = seen[n + 1 + k - 1]
    BY <2>2, <2>3, <2>4, SubSeqProperties
  <2>6. DOMAIN SentLive(s) \subseteq 1..Len(seen) - n
    <3>1. DOMAIN SentLive(s) = 1..Len(SentLive(s))
      BY <2>5, LenProperties
    <3>2. CASE n + 1 <= Len(seen)
      BY <2>2, <2>5, <3>1, <3>2
    <3>3. CASE ~(n + 1 <= Len(seen))
      BY <2>2, <2>5, <3>1, <3>3
    <3> QED
      BY <3>2, <3>3
  <2>7. /\ SentLive(s)[i] = seen[n + i] /\ SentLive(s)[j] = seen[n + j]
        /\ n + i \in DOMAIN seen /\ n + j \in DOMAIN seen /\ n < n + i /\ n + i < n + j
    <3>1. i \in 1..Len(seen) - n /\ j \in 1..Len(seen) - n
      BY <2>6
    <3>2. i \in 1..Len(seen) - (n + 1) + 1 /\ n + 1 + i - 1 = n + i
          /\ j \in 1..Len(seen) - (n + 1) + 1 /\ n + 1 + j - 1 = n + j
      BY <2>2, <3>1
    <3>3. SentLive(s)[i] = seen[n + i] /\ SentLive(s)[j] = seen[n + j]
      BY <2>5, <3>2
    <3> QED
      BY <1>1, <2>2, <3>1, <3>3
  <2> QED
    BY <1>1, <2>2, <2>7 DEF Ordered, Before
<1>2. StreamInv => PublisherOrder
  BY <1>1 DEF PublisherOrder
<1> QED
  BY <1>2, InvariantHolds, PTL
==============================================================================
