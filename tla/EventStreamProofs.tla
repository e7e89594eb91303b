------------------------- MODULE EventStreamProofs -------------------------
(***************************************************************************)
(* Proofs about EventStream, for every value of its constants: its types,  *)
(* the ids an honest client uses, that no event is lost on the way, and    *)
(* what the client receives, and in which order.                           *)
(***************************************************************************)
EXTENDS EventStream, SequenceTheorems, FiniteSetTheorems, WellFoundedInduction, TLAPS

LogEvent == Events \cup {RestartEvent}

Queue ==
  {q \in [log : Seq(LogEvent), newest_pruned_id : Int] :
     q.newest_pruned_id \in -1 .. Len(q.log) - 1}

Response ==
  [type : {"none", "events", "BAD_EVENT_QUEUE_ID", "BAD_REQUEST"}, first : Nat,
   events : Seq(LogEvent)]

StreamType ==
  /\ published \in 0 .. MaxEvents
  /\ broker \in Seq(Notice) /\ delivered \in 0 .. Len(broker)
  /\ process \in {"up", "closing", "down"}
  /\ {queue, file} \subseteq Queue \cup {NoQueue}
  /\ waiting \in {"none", "current", "stale"}
  /\ requests \subseteq Poll
  /\ response \in Response
  /\ in_flight \in BOOLEAN /\ dont_block \in BOOLEAN /\ reload \in BOOLEAN
  /\ last_event_id \in Int /\ last_event_id >= -1
  /\ handled \in Seq(LogEvent) /\ dropped \subseteq Events

\* The poll in flight is at one place at most, and none is without one.
OnePoll ==
  /\ waiting = "current" => in_flight /\ response = NoResponse /\ \A r \in requests : ~r.current
  /\ response # NoResponse => in_flight /\ \A r \in requests : ~r.current
  /\ \A r \in requests : r.current => in_flight
  /\ \A r, s \in requests : r.current /\ s.current => r = s

TypeInv == StreamType /\ OnePoll
---------------------------------------------------------------------------
(* The queue and the answers.                                              *)

LEMMA LogEvents ==
  /\ RestartEvent \in LogEvent /\ Events \subseteq LogEvent /\ LogEvent \subseteq Nat
  /\ RestartEvent \notin Events
  BY BoundsAssumption DEF LogEvent, Events, RestartEvent

LEMMA QueueFacts ==
  ASSUME NEW q \in Queue
  PROVE  /\ q.log \in Seq(LogEvent) /\ Len(q.log) \in Nat
         /\ q.newest_pruned_id \in Int
         /\ -1 <= q.newest_pruned_id /\ q.newest_pruned_id < Len(q.log)
<1>1. q.log \in Seq(LogEvent) /\ q.newest_pruned_id \in Int
      /\ q.newest_pruned_id \in -1 .. Len(q.log) - 1
  BY DEF Queue
<1>2. Len(q.log) \in Nat
  BY <1>1, LenProperties
<1> QED
  BY <1>1, <1>2

LEMMA QueueIsSome == NoQueue \notin Queue
<1>1. Seq(LogEvent) \subseteq Seq(Int)
  <2> SUFFICES ASSUME NEW s \in Seq(LogEvent) PROVE s \in Seq(Int)
    OBVIOUS
  <2>1. Len(s) \in Nat /\ s = [i \in 1 .. Len(s) |-> s[i]]
    BY LenProperties
  <2>2. \A i \in 1 .. Len(s) : s[i] \in LogEvent
    BY ElementOfSeq
  <2>4. LogEvent \subseteq Int
    BY LogEvents
  <2>3. \A i \in 1 .. Len(s) : s[i] \in Int
    BY <2>2, <2>4, Zenon
  <2> QED
    BY <2>1, <2>3
<1> QED
  BY <1>1, NoQueueAssumption DEF Queue

LEMMA PushedLog ==
  ASSUME NEW q \in Queue, NEW event \in LogEvent
  PROVE  /\ Pushed(q, event) \in Queue
         /\ Pushed(q, event).log = Append(q.log, event)
         /\ Len(Pushed(q, event).log) = Len(q.log) + 1
         /\ Pushed(q, event).log[Len(q.log) + 1] = event
         /\ \A i \in 1 .. Len(q.log) : Pushed(q, event).log[i] = q.log[i]
         /\ Pushed(q, event).newest_pruned_id = q.newest_pruned_id
<1>1. q.log \in Seq(LogEvent) /\ Len(q.log) \in Nat
      /\ q.newest_pruned_id \in -1 .. Len(q.log) - 1 /\ q.newest_pruned_id \in Int
  BY QueueFacts DEF Queue
<1>2. /\ Append(q.log, event) \in Seq(LogEvent)
      /\ Len(Append(q.log, event)) = Len(q.log) + 1
      /\ Append(q.log, event)[Len(q.log) + 1] = event
      /\ \A i \in 1 .. Len(q.log) : Append(q.log, event)[i] = q.log[i]
  BY <1>1, AppendProperties
<1>3. /\ Pushed(q, event).log = Append(q.log, event)
      /\ Pushed(q, event).newest_pruned_id = q.newest_pruned_id
      /\ Pushed(q, event) \in [log : Seq(LogEvent), newest_pruned_id : Int]
  BY <1>1, <1>2 DEF Pushed, Queue
<1>4. q.newest_pruned_id \in -1 .. Len(Append(q.log, event)) - 1
  BY <1>1, <1>2
<1>5. Pushed(q, event) \in Queue
  BY <1>3, <1>4 DEF Queue
<1> QED
  BY <1>2, <1>3, <1>5

\* get_events: the answer holds the log from the first event not deleted on.
LEMMA ContentsFacts ==
  ASSUME NEW q \in Queue
  PROVE  /\ Contents(q) \in Response
         /\ Contents(q).type = "events"
         /\ Contents(q).first = q.newest_pruned_id + 1
         /\ Contents(q).first + Len(Contents(q).events) = Len(q.log)
         /\ \A k \in 1 .. Len(Contents(q).events) :
              Contents(q).events[k] = q.log[Contents(q).first + k]
<1> DEFINE id == q.newest_pruned_id
           from == id + 2
           left == SubSeq(q.log, from, Len(q.log))
<1>1. q.log \in Seq(LogEvent) /\ Len(q.log) \in Nat /\ id \in Int /\ -1 <= id /\ id < Len(q.log)
  BY QueueFacts
<1>2. from \in Int /\ 1 <= from /\ from <= Len(q.log) + 1 /\ from = id + 2
  BY <1>1
<1> HIDE DEF from
<1>3. left \in Seq(LogEvent) /\ Len(left) = Len(q.log) - from + 1
  <2>1. \A i \in from .. Len(q.log) : q.log[i] \in LogEvent
    BY <1>1, <1>2, ElementOfSeq
  <2>2. left \in Seq(LogEvent)
    BY <1>1, <1>2, <2>1, SubSeqProperties
  <2>3. Len(left) = IF from <= Len(q.log) THEN Len(q.log) - from + 1 ELSE 0
    BY <1>1, <1>2, <2>1, SubSeqProperties
  <2> HIDE DEF left
  <2> QED
    BY <1>1, <1>2, <2>2, <2>3
<1>10. \A k \in 1 .. Len(q.log) - from + 1 : left[k] = q.log[from + k - 1]
  <2>1. \A i \in from .. Len(q.log) : q.log[i] \in LogEvent
    BY <1>1, <1>2, ElementOfSeq
  <2> QED
    BY <1>1, <1>2, <2>1, SubSeqProperties
<1>4. Contents(q) = [type |-> "events", first |-> id + 1, events |-> left]
  BY DEF Contents, Answer, from
<1> HIDE DEF left
<1>5. /\ Contents(q).type = "events" /\ Contents(q).first = id + 1
      /\ Contents(q).events = left
  BY <1>4
<1>6. id + 1 \in Nat
  BY <1>1
<1>7. Contents(q) \in Response
  BY <1>3, <1>4, <1>6 DEF Response
<1>8. \A k \in 1 .. Len(left) : left[k] = q.log[id + 1 + k]
  <2> TAKE k \in 1 .. Len(left)
  <2>1. k \in 1 .. Len(q.log) - from + 1 /\ from + k - 1 = id + 1 + k
    BY <1>1, <1>2, <1>3
  <2> QED
    BY <1>10, <2>1
<1>9. id + 1 + Len(left) = Len(q.log)
  <2> DEFINE size == Len(left)
             end == Len(q.log)
  <2>1. size \in Int /\ end \in Int /\ size = end - from + 1
    BY <1>1, <1>3, LenProperties
  <2> HIDE DEF size, end
  <2>2. id + 1 + size = end
    BY <1>1, <1>2, <2>1
  <2> QED
    BY <2>2 DEF size, end
<1> QED
  BY <1>5, <1>7, <1>8, <1>9

LEMMA PrunedLog ==
  ASSUME NEW q \in Queue, NEW id \in Int, id >= -1
  PROVE  /\ Pruned(q, id) \in Queue
         /\ Pruned(q, id).log = q.log
         /\ Pruned(q, id).newest_pruned_id >= q.newest_pruned_id
         /\ id < Len(q.log) => Pruned(q, id).newest_pruned_id =
              IF id > q.newest_pruned_id THEN id ELSE q.newest_pruned_id
<1>1. q.log \in Seq(LogEvent) /\ Len(q.log) \in Nat /\ q.newest_pruned_id \in Int
      /\ -1 <= q.newest_pruned_id /\ q.newest_pruned_id < Len(q.log)
      /\ q \in [log : Seq(LogEvent), newest_pruned_id : Int]
  BY QueueFacts DEF Queue
<1> DEFINE last == IF id < Len(q.log) THEN id ELSE Len(q.log) - 1
           new == IF last > q.newest_pruned_id THEN last ELSE q.newest_pruned_id
<1>2. /\ new \in Int /\ new \in -1 .. Len(q.log) - 1 /\ new >= q.newest_pruned_id
      /\ id < Len(q.log) =>
           new = IF id > q.newest_pruned_id THEN id ELSE q.newest_pruned_id
  BY <1>1
<1>3. Pruned(q, id) = [q EXCEPT !.newest_pruned_id = new]
  BY DEF Pruned
<1> HIDE DEF new
<1>4. /\ Pruned(q, id).log = q.log /\ Pruned(q, id).newest_pruned_id = new
      /\ Pruned(q, id) \in [log : Seq(LogEvent), newest_pruned_id : Int]
  BY <1>1, <1>2, <1>3
<1> QED
  BY <1>2, <1>4 DEF Queue

LEMMA Errors ==
  /\ NoResponse \in Response /\ BadQueueId \in Response /\ Refused \in Response
  /\ NoResponse.type = "none" /\ BadQueueId.type = "BAD_EVENT_QUEUE_ID"
  /\ Refused.type = "BAD_REQUEST"
  /\ NoResponse # Refused /\ BadQueueId # Refused /\ BadQueueId # NoResponse
  /\ NoResponse.first = 0 /\ NoResponse.events = <<>> /\ Len(NoResponse.events) = 0
  /\ BadQueueId.first = 0 /\ BadQueueId.events = <<>> /\ Len(BadQueueId.events) = 0
<1>1. <<>> \in Seq(LogEvent) /\ Len(<<>>) = 0
  BY EmptySeq
<1> QED
  BY <1>1 DEF NoResponse, BadQueueId, Refused, Error, Response

LEMMA AnswersAreNoErrors ==
  ASSUME NEW answer, answer.type = "events"
  PROVE  answer # NoResponse /\ answer # Refused /\ answer # BadQueueId
  BY DEF NoResponse, BadQueueId, Refused, Error
---------------------------------------------------------------------------
(* Types: what each step may write, and where the poll in flight is.       *)

LEMMA InitType == Init => TypeInv
<1> SUFFICES ASSUME Init PROVE TypeInv
  OBVIOUS
<1>1. <<>> \in Seq(LogEvent) /\ <<>> \in Seq(Notice) /\ Len(<<>>) = 0
  BY EmptySeq
<1>2. queue \in Queue
  <2>1. queue = [log |-> <<>>, newest_pruned_id |-> -1]
    BY DEF Init
  <2> QED
    BY <1>1, <2>1 DEF Queue
<1>3. published \in 0 .. MaxEvents
  BY BoundsAssumption DEF Init
<1>4. broker \in Seq(Notice) /\ delivered \in 0 .. Len(broker)
  BY <1>1 DEF Init
<1>5. handled \in Seq(LogEvent) /\ dropped \subseteq Events
  BY <1>1 DEF Init
<1>6. last_event_id \in Int /\ last_event_id >= -1
  BY DEF Init
<1>7. response \in Response /\ requests \subseteq Poll /\ waiting = "none"
      /\ file = NoQueue /\ process = "up"
      /\ in_flight = FALSE /\ dont_block = FALSE /\ reload = FALSE
  BY Errors DEF Init
<1>8. StreamType
  BY <1>2, <1>3, <1>4, <1>5, <1>6, <1>7 DEF StreamType
<1>9. OnePoll
  BY DEF Init, OnePoll
<1> QED
  BY <1>8, <1>9 DEF TypeInv

\* ClientDescriptor.add_event.
LEMMA AddEventType ==
  ASSUME TypeInv, NEW event \in LogEvent, AddEvent(event),
         UNCHANGED <<requests, in_flight>>
  PROVE  /\ queue' \in Queue \cup {NoQueue}
         /\ waiting' \in {"none", "current", "stale"}
         /\ response' \in Response
         /\ OnePoll'
<1> USE DEF TypeInv
<1>1. CASE queue = NoQueue
  BY <1>1 DEF AddEvent, StreamType, OnePoll
<1>2. CASE queue # NoQueue
  <2>1. /\ queue' = Pushed(queue, event) /\ waiting' = "none"
        /\ response' = IF waiting = "current" THEN Contents(queue') ELSE response
    BY <1>2 DEF AddEvent
  <2>2. queue \in Queue
    BY <1>2 DEF StreamType
  <2>3. queue' \in Queue
    BY <2>1, <2>2, PushedLog
  <2>4. Contents(queue') \in Response
    BY <2>3, ContentsFacts
  <2> QED
    BY <2>1, <2>3, <2>4 DEF StreamType, OnePoll
<1> QED
  BY <1>1, <1>2

\* A notice that was given to the process is one of those RabbitMQ holds.
LEMMA NoticeDelivered ==
  ASSUME TypeInv, Consumes
  PROVE  /\ Len(broker) \in Nat /\ delivered \in Nat /\ delivered + 1 <= Len(broker)
         /\ broker[delivered + 1] \in Notice
         /\ broker[delivered + 1].event \in Events
         /\ broker[delivered + 1].event \in LogEvent
         /\ delivered' = delivered + 1 /\ delivered' \in 0 .. Len(broker)
<1>1. Len(broker) \in Nat /\ delivered \in Nat /\ delivered + 1 <= Len(broker)
  BY LenProperties DEF Consumes, TypeInv, StreamType
<1>2. broker[delivered + 1] \in Notice
  BY <1>1, ElementOfSeq DEF TypeInv, StreamType
<1>3. delivered' = delivered + 1 /\ delivered' \in 0 .. Len(broker)
  BY <1>1 DEF Consumes
<1> QED
  BY <1>1, <1>2, <1>3, LogEvents DEF Notice

\* retry_event: the notice goes to the end of the queue, or is given up.
LEMMA RetryFacts ==
  ASSUME TypeInv, NEW notice \in Notice, RetryEvent(notice)
  PROVE  /\ broker' \in Seq(Notice) /\ dropped' \subseteq Events
         /\ \/ /\ broker' = broker /\ dropped' = dropped \cup {notice.event}
            \/ /\ Len(broker') = Len(broker) + 1 /\ dropped' = dropped
               /\ broker'[Len(broker) + 1].event = notice.event
               /\ \A i \in 1 .. Len(broker) : broker'[i] = broker[i]
<1>1. broker \in Seq(Notice) /\ Len(broker) \in Nat /\ dropped \subseteq Events
  BY LenProperties DEF TypeInv, StreamType
<1>2. CASE notice.failed_tries + 1 > MAX_REQUEST_RETRIES
  BY <1>1, <1>2 DEF RetryEvent, Notice
<1>3. CASE ~(notice.failed_tries + 1 > MAX_REQUEST_RETRIES)
  <2> DEFINE again == [notice EXCEPT !.failed_tries = @ + 1]
  <2>1. broker' = Append(broker, again) /\ dropped' = dropped
    BY <1>3 DEF RetryEvent
  <2>2. again \in Notice /\ again.event = notice.event
    BY <1>3, BoundsAssumption DEF Notice
  <2> HIDE DEF again
  <2> QED
    BY <1>1, <2>1, <2>2, AppendProperties
<1> QED
  BY <1>2, <1>3

LEMMA ProcessType ==
  ASSUME TypeInv, ProcessNotice \/ ProcessFails
  PROVE  TypeInv'
<1> DEFINE notice == broker[delivered + 1]
<1>1. Consumes
  BY DEF ProcessNotice, ProcessFails
<1>2. notice \in Notice /\ notice.event \in LogEvent /\ delivered' \in 0 .. Len(broker)
      /\ Len(broker) \in Nat
  BY <1>1, NoticeDelivered
<1>3. UNCHANGED <<published, process, file, requests, client>>
  BY <1>1 DEF Consumes
<1>4. broker' \in Seq(Notice) /\ dropped' \subseteq Events /\ delivered' \in 0 .. Len(broker')
  <2>1. CASE ProcessNotice
    BY <1>2, <2>1 DEF ProcessNotice, TypeInv, StreamType
  <2>2. CASE ProcessFails
    BY <1>2, <2>2, RetryFacts DEF ProcessFails
  <2> QED
    BY <2>1, <2>2
<1>5. /\ queue' \in Queue \cup {NoQueue}
      /\ waiting' \in {"none", "current", "stale"}
      /\ response' \in Response
      /\ OnePoll'
  <2>1. CASE AddEvent(notice.event)
    BY <1>2, <1>3, <2>1, AddEventType DEF client
  <2>2. CASE UNCHANGED <<queue, waiting, response>>
    BY <1>3, <2>2 DEF TypeInv, StreamType, OnePoll, client
  <2> QED
    BY <2>1, <2>2 DEF ProcessNotice, ProcessFails
<1> QED
  BY <1>3, <1>4, <1>5 DEF TypeInv, StreamType, client

\* RabbitMQ's side.
LEMMA BrokerType ==
  ASSUME TypeInv, Publish \/ AckArrives \/ BrokerConnectionLost
  PROVE  TypeInv'
<1>1. broker \in Seq(Notice) /\ Len(broker) \in Nat /\ delivered \in 0 .. Len(broker)
  BY LenProperties DEF TypeInv, StreamType
<1>2. /\ broker' \in Seq(Notice) /\ delivered' \in 0 .. Len(broker')
      /\ published' \in 0 .. MaxEvents
  <2>1. CASE Publish
    <3> DEFINE notice == [event |-> published', failed_tries |-> 0]
    <3>1. published' \in 0 .. MaxEvents /\ published' \in Events
      BY <2>1, BoundsAssumption DEF Publish, TypeInv, StreamType, Events
    <3>2. notice \in Notice
      BY <3>1, BoundsAssumption DEF Notice
    <3>3. broker' = Append(broker, notice) /\ delivered' = delivered
      BY <2>1 DEF Publish
    <3>4. broker' \in Seq(Notice) /\ Len(broker') = Len(broker) + 1
      BY <1>1, <3>2, <3>3, AppendProperties
    <3> QED
      BY <1>1, <3>1, <3>3, <3>4
  <2>2. CASE AckArrives
    <3>1. broker # <<>> /\ broker' = Tail(broker) /\ delivered' = delivered - 1 /\ delivered > 0
      BY <1>1, <2>2, EmptySeq DEF AckArrives
    <3>2. broker' \in Seq(Notice) /\ Len(broker') = Len(broker) - 1
      BY <1>1, <3>1, HeadTailProperties
    <3> QED
      BY <1>1, <2>2, <3>1, <3>2 DEF AckArrives, TypeInv, StreamType
  <2>3. CASE BrokerConnectionLost
    BY <1>1, <2>3 DEF BrokerConnectionLost, GivenBack, TypeInv, StreamType
  <2> QED
    BY <2>1, <2>2, <2>3
<1>3. UNCHANGED <<server, waiting, requests, response, client, dropped>>
  BY DEF Publish, AckArrives, BrokerConnectionLost
<1> QED
  BY <1>2, <1>3 DEF TypeInv, StreamType, OnePoll, server, client

\* fetch_events: the queue is gone, or has deleted what the poll asks for, or
\* the poll asks for an id the queue has not, or the poll is accepted.
LEMMA FetchCases ==
  ASSUME TypeInv, NEW r \in requests, Fetch(r)
  PROVE  /\ r \in Poll /\ r.last_event_id \in Int
         /\ requests' = requests \ {r}
         /\ UNCHANGED <<published, notices, process, file, client, bounds>>
         /\ \/ queue = NoQueue /\ queue' = queue /\ FetchRejected(r, BadQueueId)
            \/ /\ queue \in Queue /\ queue # NoQueue /\ queue' = queue
               /\ r.last_event_id < queue.newest_pruned_id
               /\ FetchRejected(r, Refused)
            \/ /\ queue \in Queue /\ queue # NoQueue
               /\ r.last_event_id >= queue.newest_pruned_id
               /\ queue' = Pruned(queue, r.last_event_id)
               /\ queue' \in Queue /\ queue'.log = queue.log
               /\ \/ r.last_event_id # queue'.newest_pruned_id /\ FetchRejected(r, Refused)
                  \/ r.last_event_id = queue'.newest_pruned_id /\ FetchAccepted(r, queue')
<1>1. r \in Poll /\ r.last_event_id \in Int
  BY DEF TypeInv, StreamType, Poll
<1>2. requests' = requests \ {r} /\ UNCHANGED <<published, notices, process, file, client, bounds>>
  BY DEF Fetch
<1>3. CASE queue = NoQueue
  BY <1>1, <1>2, <1>3 DEF Fetch
<1>4. CASE queue # NoQueue
  <2>1. queue \in Queue /\ queue.newest_pruned_id \in Int /\ queue.newest_pruned_id >= -1
    BY <1>4, QueueFacts DEF TypeInv, StreamType
  <2>2. CASE r.last_event_id < queue.newest_pruned_id
    BY <1>1, <1>2, <1>4, <2>1, <2>2 DEF Fetch
  <2>3. CASE ~(r.last_event_id < queue.newest_pruned_id)
    <3> DEFINE q == Pruned(queue, r.last_event_id)
    <3>1. r.last_event_id >= -1 /\ r.last_event_id >= queue.newest_pruned_id
      BY <1>1, <2>1, <2>3
    <3>2. q \in Queue /\ q.log = queue.log
      BY <1>1, <2>1, <3>1, PrunedLog
    <3>3. /\ queue' = q
          /\ \/ r.last_event_id # q.newest_pruned_id /\ FetchRejected(r, Refused)
             \/ r.last_event_id = q.newest_pruned_id /\ FetchAccepted(r, q)
      BY <1>4, <2>3 DEF Fetch
    <3> HIDE DEF q
    <3> QED
      BY <1>1, <1>2, <1>4, <2>1, <3>1, <3>2, <3>3 DEF q
  <2> QED
    BY <2>2, <2>3
<1> QED
  BY <1>3, <1>4

LEMMA RejectedFacts ==
  ASSUME TypeInv, NEW r \in requests, NEW error \in {BadQueueId, Refused},
         FetchRejected(r, error), requests' = requests \ {r}, in_flight' = in_flight
  PROVE  /\ waiting' = waiting /\ response' \in Response /\ OnePoll'
         /\ response' = response \/ (r.current /\ response = NoResponse /\ response' = error)
<1>1. waiting' = waiting /\ response' = IF r.current THEN error ELSE response
  BY DEF FetchRejected
<1>2. r.current => response = NoResponse /\ waiting # "current" /\ in_flight
                   /\ \A p \in requests' : ~p.current
  BY DEF TypeInv, OnePoll
<1>3. response' \in Response
  BY <1>1, Errors DEF TypeInv, StreamType
<1>4. OnePoll'
  BY <1>1, <1>2 DEF TypeInv, OnePoll
<1> QED
  BY <1>1, <1>2, <1>3, <1>4

\* One answer at most leaves, to the poll that waited or to r.
LEMMA AcceptedFacts ==
  ASSUME TypeInv, NEW r \in requests, NEW q \in Queue,
         FetchAccepted(r, q), requests' = requests \ {r}, in_flight' = in_flight
  PROVE  /\ waiting' \in {"none", "current", "stale"}
         /\ response' \in Response /\ OnePoll'
         /\ \/ response' = response
            \/ response' = Contents(q) /\ response = NoResponse /\ (r.current \/ waiting = "current")
         /\ waiting' = "current" => r.current /\ response' = response
<1> DEFINE immediate == ~IsEmpty(q) \/ r.dont_block
<1>1. /\ response' = IF waiting = "current" \/ (r.current /\ immediate)
                     THEN Contents(q) ELSE response
      /\ waiting' = CASE immediate -> "none"
                      [] ~immediate /\ r.current -> "current"
                      [] OTHER -> "stale"
  BY DEF FetchAccepted
<1> HIDE DEF immediate
<1>2. waiting' \in {"none", "current", "stale"}
  BY <1>1
<1>3. r.current => response = NoResponse /\ waiting # "current" /\ in_flight
                   /\ \A p \in requests' : ~p.current
  BY DEF TypeInv, OnePoll
<1>4. waiting = "current" => response = NoResponse /\ in_flight
                             /\ \A p \in requests' : ~p.current
  BY DEF TypeInv, OnePoll
<1>5. waiting' = "current" => r.current /\ ~immediate
  BY <1>1
<1>6. waiting' = "current" => r.current /\ response' = response
  BY <1>1, <1>3, <1>5
<1>7. \/ response' = response
      \/ response' = Contents(q) /\ response = NoResponse /\ (r.current \/ waiting = "current")
  BY <1>1, <1>3, <1>4
<1>8. response' \in Response
  BY <1>1, ContentsFacts DEF TypeInv, StreamType
<1>9. OnePoll'
  <2>1. waiting' = "current" => in_flight' /\ response' = NoResponse
                                /\ \A p \in requests' : ~p.current
    BY <1>3, <1>6
  <2>2. response' # NoResponse => in_flight' /\ \A p \in requests' : ~p.current
    BY <1>3, <1>4, <1>7 DEF TypeInv, OnePoll
  <2> QED
    BY <2>1, <2>2 DEF TypeInv, OnePoll
<1> QED
  BY <1>2, <1>6, <1>7, <1>8, <1>9

LEMMA FetchType ==
  ASSUME TypeInv, NEW r \in requests, Fetch(r)
  PROVE  TypeInv'
<1>1. /\ requests' = requests \ {r}
      /\ UNCHANGED <<published, broker, delivered, dropped, process, file, in_flight,
                     last_event_id, dont_block, reload, handled>>
  BY FetchCases DEF notices, client
<1>2. queue' \in Queue \cup {NoQueue}
  BY FetchCases DEF TypeInv, StreamType
<1>3. /\ waiting' \in {"none", "current", "stale"}
      /\ response' \in Response /\ OnePoll'
  <2>1. \/ FetchRejected(r, BadQueueId) \/ FetchRejected(r, Refused)
        \/ queue' \in Queue /\ FetchAccepted(r, queue')
    BY FetchCases
  <2>2. CASE FetchRejected(r, BadQueueId) \/ FetchRejected(r, Refused)
    BY <1>1, <2>2, RejectedFacts DEF TypeInv, StreamType
  <2>3. CASE queue' \in Queue /\ FetchAccepted(r, queue')
    BY <1>1, <2>3, AcceptedFacts
  <2> QED
    BY <2>1, <2>2, <2>3
<1> QED
  BY <1>1, <1>2, <1>3 DEF TypeInv, StreamType

\* A poll leaves, reaches nobody, or is given up.
LEMMA GiveUpRequests ==
  ASSUME TypeInv, GiveUp, NEW p \in requests'
  PROVE  p \in Poll /\ ~p.current /\ \E r \in requests : p.last_event_id = r.last_event_id
  BY DEF GiveUp, TypeInv, StreamType, Poll

LEMMA ClientType ==
  ASSUME TypeInv, GetEvents \/ GiveUp \/ PollFails
  PROVE  TypeInv'
<1>1. UNCHANGED <<published, notices, server, last_event_id, reload, handled>>
  BY DEF GetEvents, GiveUp, PollFails
<1>2. CASE GetEvents
  <2> DEFINE poll == [current |-> TRUE, last_event_id |-> last_event_id, dont_block |-> dont_block]
  <2>1. /\ ~in_flight /\ in_flight' = TRUE /\ requests' = requests \cup {poll}
        /\ UNCHANGED <<waiting, response, dont_block>>
    BY <1>2 DEF GetEvents
  <2>2. poll \in Poll
    BY DEF Poll, TypeInv, StreamType
  <2>3. StreamType'
    BY <1>1, <2>1, <2>2 DEF TypeInv, StreamType, notices, server
  <2>4. OnePoll'
    BY <2>1 DEF TypeInv, OnePoll
  <2> QED
    BY <2>3, <2>4 DEF TypeInv
<1>3. CASE GiveUp
  <2>1. /\ waiting' = IF waiting = "current" THEN "stale" ELSE waiting
        /\ response' = NoResponse /\ dont_block' \in BOOLEAN /\ in_flight' = FALSE
    BY <1>3 DEF GiveUp
  <2>2. \A p \in requests' : p \in Poll /\ ~p.current
    BY <1>3, GiveUpRequests
  <2>3. StreamType'
    BY <1>1, <2>1, <2>2, Errors DEF TypeInv, StreamType, notices, server
  <2>4. OnePoll'
    BY <2>1, <2>2 DEF TypeInv, StreamType, OnePoll
  <2> QED
    BY <2>3, <2>4 DEF TypeInv
<1>4. CASE PollFails
  BY <1>1, <1>4 DEF PollFails, TypeInv, StreamType, OnePoll, notices, server
<1> QED
  BY <1>2, <1>3, <1>4

\* The success and the error callbacks of server_events.js.
LEMMA ReceiveFacts ==
  ASSUME TypeInv, ReceiveResponse
  PROVE  /\ response # NoResponse /\ in_flight /\ waiting # "current"
         /\ \A r \in requests : ~r.current
         /\ response' = NoResponse /\ in_flight' = FALSE
         /\ reload' = (reload \/ response = BadQueueId)
         /\ dont_block' = (response = Refused)
         /\ last_event_id' =
              IF response.type = "events" /\ response.first + Len(response.events) - 1 > last_event_id
              THEN response.first + Len(response.events) - 1 ELSE last_event_id
         /\ last_event_id' \in Int /\ last_event_id' >= last_event_id /\ last_event_id' >= -1
         /\ handled' = handled \o response.events
         /\ UNCHANGED <<published, notices, server, waiting, requests, bounds>>
<1> DEFINE newest == response.first + Len(response.events) - 1
<1>1. newest \in Int /\ last_event_id \in Int /\ last_event_id >= -1
  BY LenProperties DEF TypeInv, StreamType, Response
<1>2. last_event_id' = IF response.type = "events" /\ newest > last_event_id
                       THEN newest ELSE last_event_id
  BY DEF ReceiveResponse
<1>3. last_event_id' \in Int /\ last_event_id' >= last_event_id /\ last_event_id' >= -1
  <2> HIDE DEF newest
  <2> QED
    BY <1>1, <1>2
<1>4. /\ response # NoResponse
      /\ response' = NoResponse /\ in_flight' = FALSE
      /\ reload' = (reload \/ response = BadQueueId)
      /\ dont_block' = (response = Refused)
      /\ handled' = handled \o response.events
      /\ UNCHANGED <<published, notices, server, waiting, requests, bounds>>
  BY DEF ReceiveResponse
<1>5. in_flight /\ waiting # "current" /\ \A r \in requests : ~r.current
  BY <1>4 DEF TypeInv, OnePoll
<1> QED
  BY <1>2, <1>3, <1>4, <1>5

LEMMA ReceiveType ==
  ASSUME TypeInv, ReceiveResponse
  PROVE  TypeInv'
<1>1. handled \in Seq(LogEvent) /\ response.events \in Seq(LogEvent)
  BY DEF TypeInv, StreamType, Response
<1>2. handled \o response.events \in Seq(LogEvent)
  BY <1>1, ConcatProperties
<1>3. dont_block' \in BOOLEAN /\ reload' \in BOOLEAN
  BY ReceiveFacts DEF TypeInv, StreamType
<1>4. StreamType'
  BY <1>2, <1>3, ReceiveFacts, Errors DEF TypeInv, StreamType, notices, server
<1>5. OnePoll'
  BY ReceiveFacts DEF TypeInv, OnePoll
<1> QED
  BY <1>4, <1>5 DEF TypeInv

\* The network, and garbage collection.
LEMMA LossType ==
  ASSUME TypeInv, (\E r \in requests : RequestLost(r)) \/ ConnectionClosed \/ GarbageCollect
  PROVE  TypeInv'
<1>1. /\ requests' \subseteq requests
      /\ waiting' = waiting \/ waiting' = "none"
      /\ queue' = queue \/ queue' = NoQueue
      /\ UNCHANGED <<published, notices, process, file, response, client>>
  BY DEF RequestLost, ConnectionClosed, GarbageCollect, server
<1> QED
  BY <1>1 DEF TypeInv, StreamType, OnePoll, notices, client

\* runtornado: SIGTERM, the end, a crash, the next process.
LEMMA RestartType ==
  ASSUME TypeInv, BeginShutdown \/ Exit \/ Crash \/ Start
  PROVE  TypeInv'
<1>1. UNCHANGED <<published, broker, dropped, response, client>> /\ delivered' \in {delivered, 0}
  BY DEF BeginShutdown, Exit, Crash, Start, ProcessEnds, GivenBack, notices
<1>2. delivered' \in 0 .. Len(broker')
  BY <1>1, LenProperties DEF TypeInv, StreamType
<1>3. CASE BeginShutdown
  BY <1>1, <1>2, <1>3 DEF BeginShutdown, TypeInv, StreamType, OnePoll, client
<1>4. CASE ProcessEnds
  BY <1>1, <1>2, <1>4 DEF ProcessEnds, TypeInv, StreamType, OnePoll, client
<1>5. CASE Start
  <2>1. /\ process' = "up" /\ file' = NoQueue
        /\ queue' = IF file = NoQueue THEN NoQueue ELSE Pushed(file, RestartEvent)
        /\ UNCHANGED <<waiting, requests>>
    BY <1>5 DEF Start, Loaded
  <2>2. queue' \in Queue \cup {NoQueue}
    BY <2>1, PushedLog, LogEvents DEF TypeInv, StreamType
  <2> QED
    BY <1>1, <1>2, <2>1, <2>2 DEF TypeInv, StreamType, OnePoll, client
<1> QED
  BY <1>3, <1>4, <1>5 DEF Exit, Crash

LEMMA NextType == TypeInv /\ [Next]_vars => TypeInv'
<1> SUFFICES ASSUME TypeInv, [Next]_vars PROVE TypeInv'
  OBVIOUS
<1>1. CASE Publish \/ AckArrives \/ BrokerConnectionLost
  BY <1>1, BrokerType
<1>2. CASE ProcessNotice \/ ProcessFails
  BY <1>2, ProcessType
<1>3. ASSUME NEW r \in requests, Fetch(r) PROVE TypeInv'
  BY <1>3, FetchType
<1>4. CASE (\E r \in requests : RequestLost(r)) \/ ConnectionClosed \/ GarbageCollect
  BY <1>4, LossType
<1>5. CASE GetEvents \/ GiveUp \/ PollFails
  BY <1>5, ClientType
<1>6. CASE ReceiveResponse
  BY <1>6, ReceiveType
<1>7. CASE BeginShutdown \/ Exit \/ Crash \/ Start
  BY <1>7, RestartType
<1>8. CASE UNCHANGED vars
  BY <1>8 DEF vars, TypeInv, StreamType, OnePoll, notices, server, client
<1> QED
  BY <1>1, <1>2, <1>3, <1>4, <1>5, <1>6, <1>7, <1>8 DEF Next

LEMMA OneCurrentPoll ==
  ASSUME TypeInv
  PROVE  Cardinality({r \in requests : r.current}) =
           IF \E r \in requests : r.current THEN 1 ELSE 0
<1>1. CASE \E r \in requests : r.current
  <2>1. PICK r \in requests : r.current
    BY <1>1
  <2>2. {s \in requests : s.current} = {r}
    BY <2>1 DEF TypeInv, OnePoll
  <2> QED
    BY <1>1, <2>2, FS_Singleton
<1>2. CASE ~ \E r \in requests : r.current
  <2>1. {r \in requests : r.current} = {}
    BY <1>2
  <2> QED
    BY <1>2, <2>1, FS_EmptySet
<1> QED
  BY <1>1, <1>2

\* Every variable keeps its type, and a poll in flight is at one place at most,
\* whatever is lost, late or restarted.
THEOREM TypeCorrect == Spec => []TypeOK
<1>1. TypeInv => TypeOK
  <2> SUFFICES ASSUME TypeInv PROVE TypeOK
    OBVIOUS
  <2> DEFINE waits == IF waiting = "current" THEN 1 ELSE 0
             answered == IF response # NoResponse THEN 1 ELSE 0
             asking == IF \E r \in requests : r.current THEN 1 ELSE 0
             limit == IF in_flight THEN 1 ELSE 0
  <2>1. waits + answered + asking <= limit
    BY DEF TypeInv, OnePoll
  <2>2. \A q \in {queue, file} \ {NoQueue} :
          /\ q.log \in Seq(Events \cup {RestartEvent})
          /\ q.newest_pruned_id \in -1 .. Len(q.log) - 1
    BY DEF TypeInv, StreamType, Queue, LogEvent
  <2>3. response.type \in {"none", "events", "BAD_EVENT_QUEUE_ID", "BAD_REQUEST"}
    BY DEF TypeInv, StreamType, Response
  <2>4. waits + answered + Cardinality({r \in requests : r.current}) <= limit
    BY <2>1, OneCurrentPoll
  <2> QED
    BY <2>2, <2>3, <2>4 DEF TypeInv, StreamType, LogEvent, TypeOK
<1> QED
  BY <1>1, InitType, NextType, PTL DEF Spec
---------------------------------------------------------------------------
(* The ids: what the client received, together with the answer under way,  *)
(* is the beginning of the queue's log, and what it has not received was   *)
(* not deleted.                                                            *)

\* What the client received, with the answer under way.
Seen == handled \o response.events

Agrees(s, q) == Len(s) <= Len(q.log) /\ \A i \in 1 .. Len(s) : s[i] = q.log[i]

\* Polls that come late ask for no more than the client has seen since.
PollIds ==
  \A r \in requests :
    /\ r.last_event_id <= last_event_id
    /\ r.current => r.last_event_id = last_event_id

Answered ==
  /\ Len(handled) = last_event_id + 1
  /\ response.type = "events" => response.first = last_event_id + 1
  /\ response.type # "events" => response.events = <<>>
  /\ waiting = "current" => process # "down" /\ queue.newest_pruned_id = last_event_id

Serves(q) == q # NoQueue => q.newest_pruned_id <= last_event_id /\ Agrees(Seen, q)

\* The file is written when the process begins to close, and nothing is pushed
\* to the queue after that.
Dumped ==
  /\ process = "up" => file = NoQueue
  /\ process = "down" => queue = NoQueue
  /\ process = "closing" =>
       /\ window = 0
       /\ queue # NoQueue => file # NoQueue /\ queue.log = file.log

StreamInv ==
  TypeInv /\ PollIds /\ Answered /\ Serves(queue) /\ Serves(file) /\ Dumped /\ PollNeverRefused

LEMMA SeenFacts ==
  ASSUME TypeInv
  PROVE  /\ handled \in Seq(LogEvent) /\ response.events \in Seq(LogEvent)
         /\ Seen \in Seq(LogEvent)
         /\ Len(handled) \in Nat /\ Len(Seen) \in Nat /\ Len(response.events) \in Nat
         /\ Len(Seen) = Len(handled) + Len(response.events)
         /\ \A i \in 1 .. Len(handled) : Seen[i] = handled[i]
         /\ response.events = <<>> => Seen = handled
<1>1. handled \in Seq(LogEvent) /\ response.events \in Seq(LogEvent)
  BY DEF TypeInv, StreamType, Response
<1>2. Len(handled) \in Nat /\ Len(response.events) \in Nat
  BY <1>1, LenProperties
<1>3. Seen \in Seq(LogEvent) /\ Len(Seen) = Len(handled) + Len(response.events)
  BY <1>1, ConcatProperties DEF Seen
<1>4. \A i \in 1 .. Len(handled) : Seen[i] = handled[i]
  BY <1>1, <1>2, ConcatProperties DEF Seen
<1>5. response.events = <<>> => Seen = handled
  BY <1>1, ConcatEmptySeq DEF Seen
<1> QED
  BY <1>1, <1>2, <1>3, <1>4, <1>5

LEMMA AgreesPushed ==
  ASSUME NEW s \in Seq(LogEvent), NEW q \in Queue, NEW event \in LogEvent, Agrees(s, q)
  PROVE  Agrees(s, Pushed(q, event))
<1>1. Len(s) \in Nat /\ Len(q.log) \in Nat
  BY LenProperties, QueueFacts
<1> QED
  BY <1>1, PushedLog DEF Agrees

\* What the client has seen is in the log.
LEMMA ServedFacts ==
  ASSUME TypeInv, Answered, NEW q \in Queue, q # NoQueue, Serves(q)
  PROVE  /\ Len(q.log) \in Nat /\ q.newest_pruned_id \in Int /\ last_event_id \in Int
         /\ q.newest_pruned_id >= -1
         /\ q.newest_pruned_id <= last_event_id /\ last_event_id < Len(q.log)
         /\ Agrees(handled, q)
<1>1. Len(q.log) \in Nat /\ q.newest_pruned_id \in Int /\ q.newest_pruned_id >= -1
  BY QueueFacts
<1>2. last_event_id \in Int
  BY DEF TypeInv, StreamType
<1>3. /\ Len(handled) \in Nat /\ Len(handled) <= Len(Seen) /\ Len(Seen) \in Nat
      /\ \A i \in 1 .. Len(handled) : Seen[i] = handled[i]
  BY SeenFacts
<1>4. q.newest_pruned_id <= last_event_id /\ Agrees(Seen, q)
  BY DEF Serves
<1>5. Agrees(handled, q)
  BY <1>1, <1>3, <1>4 DEF Agrees
<1>6. last_event_id < Len(q.log)
  BY <1>1, <1>2, <1>3, <1>5 DEF Agrees, Answered
<1> QED
  BY <1>1, <1>2, <1>4, <1>5, <1>6

\* A poll answered from where the client is makes it see the whole log.
LEMMA AnswerCompletes ==
  ASSUME TypeInv, Answered, NEW q \in Queue,
         q.newest_pruned_id = last_event_id, Agrees(handled, q)
  PROVE  /\ handled \o Contents(q).events = q.log
         /\ Contents(q).type = "events" /\ Contents(q).first = last_event_id + 1
<1> DEFINE answer == Contents(q).events
           all == handled \o answer
           size == Len(q.log)
           seen == Len(handled)
           new == Len(answer)
<1>1. /\ handled \in Seq(LogEvent) /\ seen \in Nat /\ seen = last_event_id + 1
      /\ last_event_id \in Int
      /\ q.log \in Seq(LogEvent) /\ size \in Nat
  BY SeenFacts, QueueFacts DEF Answered, TypeInv, StreamType
<1>2. /\ Contents(q).type = "events" /\ Contents(q).first = last_event_id + 1
      /\ Contents(q).first + new = size
      /\ \A k \in 1 .. new : answer[k] = q.log[Contents(q).first + k]
      /\ answer \in Seq(LogEvent)
  BY ContentsFacts DEF Response
<1>3. new \in Nat
  BY <1>2, LenProperties
<1>4. /\ all \in Seq(LogEvent) /\ Len(all) = seen + new
      /\ \A i \in 1 .. seen + new : all[i] = IF i <= seen THEN handled[i] ELSE answer[i - seen]
  <2>1. handled \in Seq(LogEvent) /\ answer \in Seq(LogEvent)
    BY <1>1, <1>2
  <2> HIDE DEF answer
  <2> QED
    BY <2>1, ConcatProperties
<1>5. \A i \in 1 .. seen : handled[i] = q.log[i]
  BY DEF Agrees
<1> HIDE DEF answer, all, size, seen, new
<1>6. seen + new = size
  BY <1>1, <1>2, <1>3
<1>7. \A i \in 1 .. size : all[i] = q.log[i]
  <2> TAKE i \in 1 .. size
  <2>1. CASE i <= seen
    BY <1>1, <1>4, <1>5, <1>6, <2>1
  <2>2. CASE ~(i <= seen)
    <3>1. i - seen \in 1 .. new /\ seen + (i - seen) = i
      BY <1>1, <1>3, <1>6, <2>2
    <3>2. answer[i - seen] = q.log[i]
      BY <1>1, <1>2, <3>1
    <3> QED
      BY <1>4, <1>6, <2>2, <3>2
  <2> QED
    BY <2>1, <2>2
<1>8. all = q.log
  BY <1>1, <1>4, <1>6, <1>7, SeqEqual DEF size
<1> QED
  BY <1>2, <1>8 DEF all, answer

LEMMA InitStream == Init => StreamInv
<1> SUFFICES ASSUME Init PROVE StreamInv
  OBVIOUS
<1>1. TypeInv
  BY InitType
<1>2. Len(handled) = 0 /\ last_event_id = -1 /\ response = NoResponse /\ waiting = "none"
      /\ requests = {} /\ process = "up" /\ file = NoQueue
  BY EmptySeq DEF Init
<1>3. PollIds /\ Answered /\ Dumped /\ PollNeverRefused
  BY <1>2, Errors DEF PollIds, Answered, Dumped, PollNeverRefused
<1>4. Seen = handled
  BY <1>1, <1>2, SeenFacts, Errors
<1>5. Serves(queue)
  <2>1. queue.newest_pruned_id = -1 /\ queue.log = <<>> /\ Len(<<>>) = 0
    BY EmptySeq DEF Init
  <2> QED
    BY <1>2, <1>4, <2>1 DEF Serves, Agrees
<1> QED
  BY <1>1, <1>2, <1>3, <1>5 DEF StreamInv, Serves

\* ClientDescriptor.add_event, while the process is up.
LEMMA AddEventStream ==
  ASSUME StreamInv, TypeInv', process = "up", NEW event \in LogEvent, AddEvent(event),
         UNCHANGED <<process, file, requests, client>>
  PROVE  StreamInv'
<1> USE DEF StreamInv, client
<1>1. CASE queue = NoQueue
  BY <1>1 DEF AddEvent, PollIds, Answered, Serves, Seen, Dumped, PollNeverRefused
<1>2. CASE queue # NoQueue
  <2>1. /\ queue' = Pushed(queue, event) /\ waiting' = "none"
        /\ response' = IF waiting = "current" THEN Contents(queue') ELSE response
    BY <1>2 DEF AddEvent
  <2>2. queue \in Queue
    BY <1>2 DEF TypeInv, StreamType
  <2>3. queue' \in Queue /\ queue'.newest_pruned_id = queue.newest_pruned_id
    BY <2>1, <2>2, PushedLog
  <2>4. Agrees(handled, queue') /\ Agrees(Seen, queue')
    BY <1>2, <2>1, <2>2, AgreesPushed, ServedFacts, SeenFacts DEF Serves
  <2>5. PollIds' /\ Dumped'
    BY <2>1 DEF PollIds, Dumped
  <2>6. Answered' /\ PollNeverRefused' /\ Agrees(Seen', queue')
    <3>1. CASE waiting = "current"
      <4>1. queue'.newest_pruned_id = last_event_id
        BY <2>3, <3>1 DEF Answered
      <4>2. /\ handled \o Contents(queue').events = queue'.log
            /\ Contents(queue').type = "events" /\ Contents(queue').first = last_event_id + 1
        BY <2>3, <2>4, <4>1, AnswerCompletes
      <4>3. response' = Contents(queue') /\ Seen' = queue'.log
        BY <2>1, <3>1, <4>2 DEF Seen
      <4>4. Len(queue'.log) \in Nat
        BY <2>3, QueueFacts
      <4> QED
        BY <2>1, <4>2, <4>3, <4>4, AnswersAreNoErrors DEF Answered, PollNeverRefused, Agrees
    <3>2. CASE waiting # "current"
      BY <2>1, <2>4, <3>2 DEF Answered, PollNeverRefused, Seen
    <3> QED
      BY <3>1, <3>2
  <2>7. Serves(queue)'
    BY <1>2, <2>3, <2>6 DEF Serves
  <2>8. Serves(file)'
    BY DEF Serves, Dumped
  <2> QED
    BY <2>5, <2>6, <2>7, <2>8
<1> QED
  BY <1>1, <1>2

\* No notice is processed once the queues were dumped.
LEMMA ConsumesUp ==
  ASSUME MaxWindow = 0, TypeInv, Dumped, Consumes
  PROVE  process = "up" /\ process' = "up"
  BY DEF Consumes, TypeInv, StreamType, Dumped

LEMMA ProcessStream ==
  ASSUME MaxWindow = 0, StreamInv, TypeInv', ProcessNotice \/ ProcessFails
  PROVE  StreamInv'
<1> DEFINE event == broker[delivered + 1].event
<1>1. Consumes /\ TypeInv /\ Dumped
  BY DEF ProcessNotice, ProcessFails, StreamInv
<1>2. process = "up" /\ event \in LogEvent /\ UNCHANGED <<process, file, requests, client>>
  BY <1>1, ConsumesUp, NoticeDelivered DEF Consumes
<1>3. CASE AddEvent(event)
  BY <1>2, <1>3, AddEventStream
<1>4. CASE UNCHANGED <<queue, waiting, response>>
  BY <1>2, <1>4
     DEF StreamInv, PollIds, Answered, Serves, Seen, Dumped, PollNeverRefused, client
<1> QED
  BY <1>3, <1>4 DEF ProcessNotice, ProcessFails

LEMMA FetchStream ==
  ASSUME StreamInv, TypeInv', NEW r \in requests, Fetch(r)
  PROVE  StreamInv'
<1>1. /\ TypeInv /\ requests' = requests \ {r} /\ r.last_event_id \in Int
      /\ UNCHANGED <<published, broker, delivered, dropped, process, file, in_flight, last_event_id,
                     dont_block, reload, handled, window>>
      /\ r.last_event_id <= last_event_id /\ (r.current => r.last_event_id = last_event_id)
  BY FetchCases DEF StreamInv, PollIds, notices, client, bounds
<1>2. PollIds'
  BY <1>1 DEF StreamInv, PollIds
<1>3. Dumped'
  BY <1>1, FetchCases DEF StreamInv, Dumped
<1>4. CASE queue = NoQueue
  <2>1. queue' = NoQueue /\ FetchRejected(r, BadQueueId)
    BY <1>1, <1>4, FetchCases
  <2>2. /\ waiting' = waiting
        /\ response' = response \/ (response = NoResponse /\ response' = BadQueueId)
    BY <1>1, <2>1, RejectedFacts DEF TypeInv, StreamType
  <2>3. Seen' = Seen /\ Answered' /\ PollNeverRefused'
    BY <1>1, <1>4, <2>1, <2>2, Errors DEF StreamInv, Seen, Answered, PollNeverRefused
  <2> QED
    BY <1>1, <1>2, <1>3, <2>1, <2>3 DEF StreamInv, Serves
<1>5. CASE queue # NoQueue
  <2>1. queue \in Queue
    BY <1>1, <1>5 DEF TypeInv, StreamType
  <2>2. /\ Len(queue.log) \in Nat /\ queue.newest_pruned_id \in Int /\ last_event_id \in Int
        /\ queue.newest_pruned_id >= -1
        /\ queue.newest_pruned_id <= last_event_id /\ last_event_id < Len(queue.log)
        /\ Agrees(handled, queue) /\ Agrees(Seen, queue)
    BY <1>5, <2>1, ServedFacts DEF StreamInv, Serves
  <2>3. CASE queue' = queue /\ r.last_event_id < queue.newest_pruned_id /\ FetchRejected(r, Refused)
    <3>1. ~r.current
      BY <1>1, <2>2, <2>3
    <3>2. UNCHANGED <<response, waiting>>
      BY <2>3, <3>1 DEF FetchRejected
    <3> QED
      BY <1>1, <1>2, <1>3, <2>3, <3>2 DEF StreamInv, Answered, Serves, Seen, PollNeverRefused
  <2>4. CASE ~(r.last_event_id < queue.newest_pruned_id)
    <3>1. /\ queue' = Pruned(queue, r.last_event_id)
          /\ queue' \in Queue /\ queue'.log = queue.log
          /\ \/ r.last_event_id # queue'.newest_pruned_id /\ FetchRejected(r, Refused)
             \/ r.last_event_id = queue'.newest_pruned_id /\ FetchAccepted(r, queue')
      BY <1>1, <1>5, <2>2, <2>4, FetchCases
    <3>2. /\ r.last_event_id >= -1 /\ r.last_event_id < Len(queue.log)
          /\ r.last_event_id >= queue.newest_pruned_id
      BY <1>1, <2>2, <2>4
    <3>3. queue'.newest_pruned_id = r.last_event_id
      <4> DEFINE q == Pruned(queue, r.last_event_id)
      <4>1. q.newest_pruned_id = IF r.last_event_id > queue.newest_pruned_id
                                 THEN r.last_event_id ELSE queue.newest_pruned_id
        BY <1>1, <2>1, <3>2, PrunedLog
      <4> HIDE DEF q
      <4>2. q.newest_pruned_id = r.last_event_id
        BY <1>1, <2>2, <3>2, <4>1
      <4> QED
        BY <3>1, <4>2 DEF q
    <3>4. FetchAccepted(r, queue')
      BY <3>1, <3>3
    <3>5. Agrees(handled, queue') /\ Agrees(Seen, queue')
      BY <2>2, <3>1 DEF Agrees
    <3>6. /\ \/ response' = response
             \/ response' = Contents(queue') /\ (r.current \/ waiting = "current")
          /\ waiting' = "current" => r.current /\ response' = response
      BY <1>1, <3>1, <3>4, AcceptedFacts
    <3>7. (r.current \/ waiting = "current") => queue'.newest_pruned_id = last_event_id
      <4>1. waiting = "current" => r.last_event_id = last_event_id
        BY <1>1, <2>2, <3>2 DEF StreamInv, Answered
      <4> QED
        BY <1>1, <3>3, <4>1
    <3>8. Answered' /\ PollNeverRefused' /\ Agrees(Seen', queue')
      <4>1. waiting' = "current" => process' # "down" /\ queue'.newest_pruned_id = last_event_id'
        BY <1>1, <3>6, <3>7 DEF Fetch
      <4>2. CASE response' = response
        BY <1>1, <3>5, <4>1, <4>2 DEF StreamInv, Answered, PollNeverRefused, Seen
      <4>3. CASE response' = Contents(queue') /\ (r.current \/ waiting = "current")
        <5>1. /\ handled \o Contents(queue').events = queue'.log
              /\ Contents(queue').type = "events" /\ Contents(queue').first = last_event_id + 1
          BY <1>1, <3>1, <3>5, <3>7, <4>3, AnswerCompletes DEF StreamInv
        <5>2. Seen' = queue'.log
          BY <1>1, <4>3, <5>1 DEF Seen
        <5>3. Len(queue'.log) \in Nat
          BY <3>1, QueueFacts
        <5>4. PollNeverRefused'
          BY <4>3, <5>1, AnswersAreNoErrors DEF PollNeverRefused
        <5>5. Answered'
          BY <1>1, <4>1, <4>3, <5>1 DEF StreamInv, Answered
        <5> QED
          BY <5>2, <5>3, <5>4, <5>5 DEF Agrees
      <4> QED
        BY <3>6, <4>2, <4>3
    <3>9. Serves(queue)'
      BY <1>1, <3>3, <3>8 DEF Serves
    <3>10. Serves(file)'
      <4>1. file # NoQueue => file.log = queue.log /\ file.newest_pruned_id <= last_event_id
        BY <1>1, <1>5 DEF StreamInv, Dumped, TypeInv, StreamType, Serves, Fetch
      <4> QED
        BY <1>1, <3>1, <3>8, <4>1 DEF Serves, Agrees
    <3> QED
      BY <1>2, <1>3, <3>8, <3>9, <3>10 DEF StreamInv
  <2>5. \/ queue' = queue /\ r.last_event_id < queue.newest_pruned_id /\ FetchRejected(r, Refused)
        \/ r.last_event_id >= queue.newest_pruned_id
    BY <1>1, <1>5, FetchCases
  <2>6. r.last_event_id >= queue.newest_pruned_id => ~(r.last_event_id < queue.newest_pruned_id)
    BY <1>1, <2>2
  <2> QED
    BY <2>3, <2>4, <2>5, <2>6
<1> QED
  BY <1>4, <1>5

\* A poll leaves, reaches nobody, or is given up.
LEMMA ClientStream ==
  ASSUME StreamInv, TypeInv', GetEvents \/ GiveUp \/ PollFails
  PROVE  StreamInv'
<1>1. UNCHANGED <<server, last_event_id, handled, window>>
  BY DEF GetEvents, GiveUp, PollFails, bounds
<1>2. last_event_id \in Int
  BY DEF StreamInv, TypeInv, StreamType
<1>3. CASE GetEvents \/ PollFails
  <2>1. UNCHANGED <<waiting, response>>
    BY <1>3 DEF GetEvents, PollFails
  <2>2. PollIds'
    BY <1>1, <1>2, <1>3 DEF StreamInv, PollIds, GetEvents, PollFails
  <2> QED
    BY <1>1, <2>1, <2>2
       DEF StreamInv, Answered, Serves, Seen, Dumped, PollNeverRefused, server
<1>4. CASE GiveUp
  <2>1. response' = NoResponse /\ waiting' # "current"
    BY <1>4 DEF GiveUp
  <2>2. PollIds'
    <3>1. \A p \in requests' : ~p.current /\ \E r \in requests : p.last_event_id = r.last_event_id
      BY <1>4, GiveUpRequests DEF StreamInv
    <3> QED
      BY <1>1, <3>1 DEF StreamInv, PollIds
  <2>3. Seen' = handled /\ Answered' /\ PollNeverRefused'
    <3>1. Seen' = handled'
      BY <2>1, SeenFacts, Errors, ConcatEmptySeq, <1>1 DEF Seen, StreamInv
    <3> QED
      BY <1>1, <2>1, <3>1, Errors DEF StreamInv, Answered, PollNeverRefused
  <2>4. \A q \in Queue : q # NoQueue /\ Serves(q) =>
          q.newest_pruned_id <= last_event_id /\ Agrees(handled, q)
    BY ServedFacts DEF StreamInv
  <2>5. Serves(queue)' /\ Serves(file)'
    BY <1>1, <2>3, <2>4 DEF StreamInv, TypeInv, StreamType, Serves, server
  <2> QED
    BY <1>1, <2>2, <2>3, <2>5 DEF StreamInv, Dumped, server
<1> QED
  BY <1>3, <1>4

\* The success and the error callbacks of server_events.js: what was under way
\* is received.
LEMMA ReceiveStream ==
  ASSUME StreamInv, TypeInv', ReceiveResponse
  PROVE  StreamInv'
<1> DEFINE size == Len(response.events)
<1>1. /\ waiting # "current" /\ (\A r \in requests : ~r.current)
      /\ response' = NoResponse
      /\ last_event_id' = IF response.type = "events" /\ response.first + size - 1 > last_event_id
                          THEN response.first + size - 1 ELSE last_event_id
      /\ last_event_id' >= last_event_id
      /\ handled' = Seen
      /\ UNCHANGED <<server, waiting, requests, bounds>>
  BY ReceiveFacts DEF StreamInv, Seen
<1>2. /\ last_event_id \in Int /\ last_event_id' \in Int /\ size \in Nat
      /\ Seen \in Seq(LogEvent) /\ Len(Seen) = Len(handled) + size
  BY SeenFacts DEF StreamInv, TypeInv, StreamType
<1>3. Seen' = Seen
  BY <1>1, <1>2, Errors, ConcatEmptySeq DEF Seen
<1>4. Len(handled') = last_event_id' + 1
  <2>1. Len(handled) = last_event_id + 1
        /\ (response.type = "events" => response.first = last_event_id + 1)
    BY DEF StreamInv, Answered
  <2>2. response.type # "events" => size = 0
    BY EmptySeq DEF StreamInv, Answered
  <2> HIDE DEF size
  <2>3. last_event_id' = last_event_id + size
    BY <1>1, <1>2, <2>1, <2>2
  <2> QED
    BY <1>1, <1>2, <2>1, <2>3
<1>5. Answered' /\ PollNeverRefused'
  BY <1>1, <1>4, Errors DEF Answered, PollNeverRefused
<1>6. PollIds'
  BY <1>1, <1>2 DEF StreamInv, PollIds, TypeInv, StreamType, Poll
<1>7. ASSUME NEW q \in Queue \cup {NoQueue}, Serves(q)
      PROVE  q # NoQueue => q.newest_pruned_id <= last_event_id' /\ Agrees(Seen', q)
  BY <1>1, <1>2, <1>3, <1>7, QueueFacts DEF Serves
<1>8. Serves(queue)' /\ Serves(file)'
  BY <1>1, <1>7 DEF StreamInv, TypeInv, StreamType, Serves, server
<1> QED
  BY <1>1, <1>5, <1>6, <1>8 DEF StreamInv, Dumped, server, bounds

\* RabbitMQ's side, the network, and garbage collection.
LEMMA LossStream ==
  ASSUME StreamInv, TypeInv',
         \/ Publish \/ AckArrives \/ BrokerConnectionLost
         \/ (\E r \in requests : RequestLost(r)) \/ ConnectionClosed \/ GarbageCollect
  PROVE  StreamInv'
<1>1. /\ requests' \subseteq requests
      /\ UNCHANGED <<process, file, response, client, window>>
      /\ \/ queue' = queue /\ waiting' \in {waiting, "none"}
         \/ queue' = NoQueue /\ waiting' = "none"
  BY DEF Publish, AckArrives, BrokerConnectionLost, RequestLost, ConnectionClosed,
         GarbageCollect, server, bounds
<1> QED
  BY <1>1
     DEF StreamInv, PollIds, Answered, Serves, Seen, Dumped, PollNeverRefused, client

\* runtornado: SIGTERM, the end, a crash, the next process.
LEMMA RestartStream ==
  ASSUME StreamInv, TypeInv', BeginShutdown \/ Exit \/ Crash \/ Start
  PROVE  StreamInv'
<1>1. UNCHANGED <<response, client>> /\ Seen' = Seen
  BY DEF BeginShutdown, Exit, Crash, Start, ProcessEnds, client, Seen
<1>2. CASE BeginShutdown
  <2>1. /\ process = "up" /\ process' = "closing" /\ file' = queue /\ window' = 0
        /\ UNCHANGED <<queue, waiting, requests>>
    BY <1>2 DEF BeginShutdown
  <2> QED
    BY <1>1, <2>1
       DEF StreamInv, PollIds, Answered, Serves, Dumped, PollNeverRefused, client
<1>3. CASE ProcessEnds
  BY <1>1, <1>3
     DEF ProcessEnds, StreamInv, PollIds, Answered, Serves, Dumped, PollNeverRefused, client
<1>4. CASE Start
  <2>1. /\ process = "down" /\ process' = "up" /\ file' = NoQueue
        /\ queue' = IF file = NoQueue THEN NoQueue ELSE Pushed(file, RestartEvent)
        /\ UNCHANGED <<waiting, requests>>
    BY <1>4 DEF Start, Loaded
  <2>2. file # NoQueue =>
          /\ Pushed(file, RestartEvent).newest_pruned_id <= last_event_id
          /\ Agrees(Seen, Pushed(file, RestartEvent))
    BY PushedLog, AgreesPushed, LogEvents, SeenFacts DEF StreamInv, Serves, TypeInv, StreamType
  <2>3. Serves(queue)' /\ Serves(file)'
    BY <1>1, <2>1, <2>2 DEF Serves, client
  <2> QED
    BY <1>1, <2>1, <2>3 DEF StreamInv, PollIds, Answered, Dumped, PollNeverRefused, client
<1> QED
  BY <1>2, <1>3, <1>4 DEF Exit, Crash

LEMMA NextStream ==
  ASSUME MaxWindow = 0
  PROVE  StreamInv /\ [Next]_vars => StreamInv'
<1> SUFFICES ASSUME StreamInv, [Next]_vars PROVE StreamInv'
  OBVIOUS
<1>0. TypeInv'
  BY NextType DEF StreamInv
<1>1. CASE \/ Publish \/ AckArrives \/ BrokerConnectionLost
           \/ (\E r \in requests : RequestLost(r)) \/ ConnectionClosed \/ GarbageCollect
  BY <1>0, <1>1, LossStream
<1>2. CASE ProcessNotice \/ ProcessFails
  BY <1>0, <1>2, ProcessStream
<1>3. ASSUME NEW r \in requests, Fetch(r) PROVE StreamInv'
  BY <1>0, <1>3, FetchStream
<1>4. CASE GetEvents \/ GiveUp \/ PollFails
  BY <1>0, <1>4, ClientStream
<1>5. CASE ReceiveResponse
  BY <1>0, <1>5, ReceiveStream
<1>6. CASE BeginShutdown \/ Exit \/ Crash \/ Start
  BY <1>0, <1>6, RestartStream
<1>7. CASE UNCHANGED vars
  BY <1>0, <1>7
     DEF vars, StreamInv, PollIds, Answered, Serves, Seen, Dumped, PollNeverRefused,
         server, client, bounds
<1> QED
  BY <1>1, <1>2, <1>3, <1>4, <1>5, <1>6, <1>7 DEF Next

\* An honest client is never told that its last_event_id was pruned or is not in
\* the queue (fetch_events), for any number of events, redelivered and retried
\* notices, lost polls, restarts and crashes, as long as no notice is processed
\* after the queues were dumped.
THEOREM PollsServed ==
  ASSUME MaxWindow = 0
  PROVE  Spec => []PollNeverRefused
<1>1. StreamInv => PollNeverRefused
  BY DEF StreamInv
<1> QED
  BY InitStream, NextStream, <1>1, PTL DEF Spec
---------------------------------------------------------------------------
(* No event is lost: every published event was given up, is in the log of  *)
(* the queue, or is held by RabbitMQ; and what RabbitMQ will forget when   *)
(* an ack arrives is in the log, was given up, or was published again.     *)

InLog(q, e) == \E i \in 1 .. Len(q.log) : q.log[i] = e

\* RabbitMQ holds a notice of e, at position from or behind.
Pending(e, from) == \E i \in from .. Len(broker) : broker[i].event = e

Located(e, q, from) == e \in dropped \/ InLog(q, e) \/ Pending(e, from)

Covers(q) ==
  q # NoQueue =>
    /\ \A e \in 1 .. published : Located(e, q, 1)
    /\ \A i \in 1 .. delivered : Located(broker[i].event, q, delivered + 1)

LossInv == StreamInv /\ Covers(queue) /\ Covers(file)

LEMMA BrokerFacts ==
  ASSUME TypeInv
  PROVE  /\ broker \in Seq(Notice) /\ Len(broker) \in Nat
         /\ delivered \in Nat /\ delivered <= Len(broker) /\ published \in Nat
  BY LenProperties, BoundsAssumption DEF TypeInv, StreamType

LEMMA InLogPushed ==
  ASSUME NEW q \in Queue, NEW event \in LogEvent
  PROVE  /\ InLog(Pushed(q, event), event)
         /\ \A e : InLog(q, e) => InLog(Pushed(q, event), e)
<1>1. /\ Len(q.log) \in Nat
      /\ Len(Pushed(q, event).log) = Len(q.log) + 1
      /\ Pushed(q, event).log[Len(q.log) + 1] = event
      /\ \A i \in 1 .. Len(q.log) : Pushed(q, event).log[i] = q.log[i]
  BY PushedLog, QueueFacts
<1>2. Len(q.log) + 1 \in 1 .. Len(q.log) + 1 /\ 1 .. Len(q.log) \subseteq 1 .. Len(q.log) + 1
  BY <1>1
<1> QED
  BY <1>1, <1>2 DEF InLog

LEMMA CoversNext ==
  ASSUME NEW q, q # NoQueue =>
           /\ \A e \in 1 .. published' :
                e \in dropped' \/ InLog(q, e) \/ \E i \in 1 .. Len(broker') : broker'[i].event = e
           /\ \A i \in 1 .. delivered' :
                \/ broker'[i].event \in dropped' \/ InLog(q, broker'[i].event)
                \/ \E j \in delivered' + 1 .. Len(broker') : broker'[j].event = broker'[i].event
  PROVE  (queue' = q => Covers(queue)') /\ (file' = q => Covers(file)')
  BY DEF Covers, Located, Pending

LEMMA InitLoss == Init => LossInv
<1> SUFFICES ASSUME Init PROVE LossInv
  OBVIOUS
<1>1. published = 0 /\ delivered = 0 /\ file = NoQueue
  BY DEF Init
<1> QED
  BY <1>1, InitStream DEF LossInv, Covers

\* The event of the notice processed is in the log then, or goes behind the
\* others again, or is given up.
LEMMA ProcessLoss ==
  ASSUME MaxWindow = 0, LossInv, StreamInv', ProcessNotice \/ ProcessFails
  PROVE  LossInv'
<1> DEFINE event == broker[delivered + 1].event
<1>1. Consumes /\ TypeInv /\ Dumped
  BY DEF ProcessNotice, ProcessFails, LossInv, StreamInv
<1>2. /\ process = "up" /\ file = NoQueue /\ event \in LogEvent
      /\ UNCHANGED <<file, published>>
      /\ delivered' = delivered + 1 /\ delivered + 1 <= Len(broker)
      /\ broker[delivered + 1] \in Notice
  BY <1>1, ConsumesUp, NoticeDelivered DEF Consumes, Dumped
<1>3. Len(broker) \in Nat /\ delivered \in Nat /\ published \in Nat
  BY <1>1, BrokerFacts
<1>4. Covers(file)'
  BY <1>2 DEF Covers
<1>5. CASE queue = NoQueue
  <2>1. queue' = NoQueue
    BY <1>5 DEF ProcessNotice, ProcessFails, AddEvent
  <2> QED
    BY <1>4, <2>1 DEF LossInv, Covers
<1>6. CASE queue # NoQueue
  <2>1. queue \in Queue
    BY <1>1, <1>6 DEF TypeInv, StreamType
  <2>2. \A e : InLog(queue, e) => InLog(queue', e)
    BY <1>2, <1>6, <2>1, InLogPushed DEF ProcessNotice, ProcessFails, AddEvent
  <2>3. /\ Len(broker') \in Nat /\ Len(broker) <= Len(broker') /\ dropped \subseteq dropped'
        /\ \A i \in 1 .. Len(broker) : broker'[i] = broker[i]
        /\ \/ event \in dropped' \/ InLog(queue', event)
           \/ /\ Len(broker) + 1 <= Len(broker')
              /\ broker'[Len(broker) + 1].event = event
    <3>1. CASE ProcessNotice
      <4>1. queue' = Pushed(queue, event) /\ UNCHANGED <<broker, dropped>>
        BY <1>6, <3>1 DEF ProcessNotice, AddEvent
      <4> QED
        BY <1>2, <1>3, <2>1, <4>1, InLogPushed
    <3>2. CASE ProcessFails
      <4>1. RetryEvent(broker[delivered + 1])
        BY <3>2 DEF ProcessFails
      <4>2. \/ /\ broker' = broker /\ dropped' = dropped \cup {event}
            \/ /\ Len(broker') = Len(broker) + 1 /\ dropped' = dropped
               /\ broker'[Len(broker) + 1].event = event
               /\ \A i \in 1 .. Len(broker) : broker'[i] = broker[i]
        BY <1>1, <1>2, <4>1, RetryFacts
      <4> QED
        BY <1>3, <4>2
    <3> QED
      BY <3>1, <3>2
  <2> HIDE DEF event
  <2>4. ASSUME NEW e, Pending(e, 1)
        PROVE  Pending(e, 1)'
    BY <1>3, <2>3, <2>4 DEF Pending
  <2>5. \A e \in 1 .. published' : Located(e, queue, 1)'
    BY <1>2, <1>6, <2>2, <2>3, <2>4 DEF LossInv, Covers, Located
  <2>6. ASSUME NEW e, e = event
        PROVE  Located(e, queue, delivered + 1)'
    <3>1. CASE event \in dropped' \/ InLog(queue', event)
      BY <2>6, <3>1 DEF Located
    <3>2. CASE Len(broker) + 1 <= Len(broker') /\ broker'[Len(broker) + 1].event = event
      <4>1. Len(broker) + 1 \in delivered' + 1 .. Len(broker')
        BY <1>2, <1>3, <2>3, <3>2
      <4> QED
        BY <2>6, <3>2, <4>1 DEF Located, Pending
    <3> QED
      BY <2>3, <3>1, <3>2
  <2>7. ASSUME NEW i \in 1 .. delivered'
        PROVE  Located(broker[i].event, queue, delivered + 1)'
    <3>1. i \in 1 .. Len(broker) /\ broker'[i] = broker[i]
      BY <1>2, <1>3, <2>3
    <3> DEFINE e == broker[i].event
    <3>2. CASE e = event
      BY <2>6, <3>1, <3>2 DEF Located, Pending
    <3>3. CASE e # event
      <4>1. i \in 1 .. delivered
        BY <1>2, <1>3, <3>3 DEF event
      <4>2. e \in dropped \/ InLog(queue, e) \/ Pending(e, delivered + 1)
        BY <1>6, <4>1 DEF LossInv, Covers, Located
      <4>3. ASSUME Pending(e, delivered + 1)
            PROVE  \E j \in delivered' + 1 .. Len(broker') : broker'[j].event = e
        <5>1. PICK j \in delivered + 1 .. Len(broker) : broker[j].event = e
          BY <4>3 DEF Pending
        <5>2. j # delivered + 1
          BY <3>3, <5>1 DEF event
        <5>3. j \in delivered' + 1 .. Len(broker') /\ broker'[j] = broker[j]
          BY <1>2, <1>3, <2>3, <5>1, <5>2
        <5> QED
          BY <5>1, <5>3
      <4>4. \/ e \in dropped' \/ InLog(queue', e)
            \/ \E j \in delivered' + 1 .. Len(broker') : broker'[j].event = e
        BY <2>2, <2>3, <4>2, <4>3
      <4> QED
        BY <3>1, <4>4 DEF Located, Pending
    <3> QED
      BY <3>2, <3>3
  <2> QED
    BY <1>4, <2>5, <2>7 DEF LossInv, Covers
<1> QED
  BY <1>5, <1>6

LEMMA PublishLoss ==
  ASSUME LossInv, StreamInv', Publish
  PROVE  LossInv'
<1> DEFINE size == Len(broker)
<1>1. /\ TypeInv /\ published \in Nat /\ size \in Nat /\ delivered \in Nat /\ delivered <= size
      /\ broker \in Seq(Notice)
  BY BrokerFacts DEF LossInv, StreamInv
<1>2. /\ published' = published + 1 /\ UNCHANGED <<delivered, dropped, queue, file>>
      /\ Len(broker') = size + 1 /\ broker'[size + 1].event = published'
      /\ \A i \in 1 .. size : broker'[i] = broker[i]
  <2> DEFINE notice == [event |-> published', failed_tries |-> 0]
  <2>1. /\ published' = published + 1 /\ broker' = Append(broker, notice)
        /\ UNCHANGED <<delivered, dropped, queue, file>> /\ published < MaxEvents
    BY DEF Publish, server
  <2>2. notice \in Notice
    BY <1>1, <2>1, BoundsAssumption DEF Notice, Events
  <2>3. notice.event = published'
    OBVIOUS
  <2> HIDE DEF notice
  <2> QED
    BY <1>1, <2>1, <2>2, <2>3, AppendProperties
<1> HIDE DEF size
<1>3. ASSUME NEW e, NEW from \in {1, delivered + 1},
             \E i \in from .. size : broker[i].event = e
      PROVE  \E i \in from .. size + 1 : broker'[i].event = e
  BY <1>1, <1>2, <1>3
<1>4. \E i \in 1 .. size + 1 : broker'[i].event = published'
  BY <1>1, <1>2
<1>5. ASSUME NEW q, Covers(q), q # NoQueue
      PROVE  /\ \A e \in 1 .. published' : e \in dropped \/ InLog(q, e)
                  \/ \E i \in 1 .. size + 1 : broker'[i].event = e
             /\ \A i \in 1 .. delivered :
                  \/ broker'[i].event \in dropped \/ InLog(q, broker'[i].event)
                  \/ \E j \in delivered + 1 .. size + 1 : broker'[j].event = broker'[i].event
  <2>1. /\ \A e \in 1 .. published : e \in dropped \/ InLog(q, e)
             \/ \E i \in 1 .. size : broker[i].event = e
        /\ \A i \in 1 .. delivered :
             \/ broker[i].event \in dropped \/ InLog(q, broker[i].event)
             \/ \E j \in delivered + 1 .. size : broker[j].event = broker[i].event
    BY <1>5 DEF Covers, Located, Pending, size
  <2>2. \A e \in 1 .. published' : e \in 1 .. published \/ e = published'
    BY <1>1, <1>2
  <2>3. \A e \in 1 .. published' : e \in dropped \/ InLog(q, e)
                  \/ \E i \in 1 .. size + 1 : broker'[i].event = e
    <3> TAKE e \in 1 .. published'
    <3>1. CASE e = published'
      BY <1>4, <3>1
    <3>2. CASE e # published'
      <4>1. e \in dropped \/ InLog(q, e) \/ \E i \in 1 .. size : broker[i].event = e
        BY <2>1, <2>2, <3>2
      <4> QED
        BY <1>3, <4>1
    <3> QED
      BY <3>1, <3>2
  <2>4. ASSUME NEW i \in 1 .. delivered
        PROVE  \/ broker'[i].event \in dropped \/ InLog(q, broker'[i].event)
               \/ \E j \in delivered + 1 .. size + 1 : broker'[j].event = broker'[i].event
    <3>1. broker'[i] = broker[i]
      BY <1>1, <1>2
    <3>2. \/ broker[i].event \in dropped \/ InLog(q, broker[i].event)
          \/ \E j \in delivered + 1 .. size : broker[j].event = broker[i].event
      BY <2>1
    <3> QED
      BY <1>3, <3>1, <3>2
  <2> QED
    BY <2>3, <2>4
<1>6. Covers(queue)' /\ Covers(file)'
  BY <1>2, <1>5, CoversNext DEF LossInv
<1> QED
  BY <1>6 DEF LossInv

LEMMA AckLoss ==
  ASSUME LossInv, StreamInv', AckArrives
  PROVE  LossInv'
<1> DEFINE size == Len(broker)
<1>1. /\ TypeInv /\ size \in Nat /\ delivered \in Nat /\ delivered <= size
      /\ broker \in Seq(Notice)
  BY BrokerFacts DEF LossInv, StreamInv
<1>2. /\ delivered > 0 /\ delivered' = delivered - 1
      /\ UNCHANGED <<published, dropped, queue, file>>
      /\ Len(broker') = size - 1
      /\ \A i \in 1 .. size - 1 : broker'[i] = broker[i + 1]
  <2>1. /\ delivered > 0 /\ delivered' = delivered - 1 /\ broker' = Tail(broker)
        /\ UNCHANGED <<published, dropped, queue, file>>
    BY DEF AckArrives, server
  <2>2. broker # <<>>
    BY <1>1, <2>1, EmptySeq
  <2>3. Len(broker') = size - 1 /\ \A i \in 1 .. Len(broker') : broker'[i] = broker[i + 1]
    BY <1>1, <2>1, <2>2, HeadTailProperties
  <2> QED
    BY <2>1, <2>3
<1> HIDE DEF size
<1>3. ASSUME NEW e, \E i \in delivered + 1 .. size : broker[i].event = e
      PROVE  \E i \in delivered' + 1 .. size - 1 : broker'[i].event = e
  <2>1. PICK i \in delivered + 1 .. size : broker[i].event = e
    BY <1>3
  <2>2. i - 1 \in delivered' + 1 .. size - 1 /\ broker'[i - 1] = broker[i]
    BY <1>1, <1>2
  <2> QED
    BY <2>1, <2>2
<1>4. ASSUME NEW q, Covers(q), q # NoQueue
      PROVE  /\ \A e \in 1 .. published : e \in dropped \/ InLog(q, e)
                  \/ \E i \in 1 .. size - 1 : broker'[i].event = e
             /\ \A i \in 1 .. delivered' :
                  \/ broker'[i].event \in dropped \/ InLog(q, broker'[i].event)
                  \/ \E j \in delivered' + 1 .. size - 1 : broker'[j].event = broker'[i].event
  <2>1. /\ \A e \in 1 .. published : e \in dropped \/ InLog(q, e)
             \/ \E i \in 1 .. size : broker[i].event = e
        /\ \A i \in 1 .. delivered :
             \/ broker[i].event \in dropped \/ InLog(q, broker[i].event)
             \/ \E j \in delivered + 1 .. size : broker[j].event = broker[i].event
    BY <1>4 DEF Covers, Located, Pending, size
  <2>2. \A i \in 1 .. delivered : broker[i].event \in dropped \/ InLog(q, broker[i].event)
             \/ \E j \in delivered' + 1 .. size - 1 : broker'[j].event = broker[i].event
    BY <1>3, <2>1
  <2>3. \A j \in delivered' + 1 .. size - 1 : j \in 1 .. size - 1
    BY <1>1, <1>2
  <2>4. ASSUME NEW e \in 1 .. published, NEW i \in 1 .. size, broker[i].event = e
        PROVE  e \in dropped \/ InLog(q, e) \/ \E j \in 1 .. size - 1 : broker'[j].event = e
    <3>1. CASE i <= delivered
      <4>1. i \in 1 .. delivered
        BY <1>1, <3>1
      <4> QED
        BY <2>2, <2>3, <2>4, <4>1
    <3>2. CASE ~(i <= delivered)
      <4>1. i \in delivered + 1 .. size
        BY <1>1, <3>2
      <4> QED
        BY <1>3, <2>3, <2>4, <4>1
    <3> QED
      BY <3>1, <3>2
  <2>5. \A i \in 1 .. delivered' : i + 1 \in 1 .. delivered /\ broker'[i] = broker[i + 1]
    BY <1>1, <1>2
  <2> QED
    BY <2>1, <2>2, <2>4, <2>5
<1>5. Covers(queue)' /\ Covers(file)'
  BY <1>2, <1>4, CoversNext DEF LossInv
<1> QED
  BY <1>5 DEF LossInv

LEMMA RedeliveryLoss ==
  ASSUME LossInv, StreamInv', BrokerConnectionLost
  PROVE  LossInv'
<1>1. delivered' = 0 /\ UNCHANGED <<published, broker, dropped, queue, file>>
  BY DEF BrokerConnectionLost, GivenBack, server
<1> QED
  BY <1>1 DEF LossInv, Covers, Located, Pending

LEMMA OtherLoss ==
  ASSUME LossInv, StreamInv',
         \/ (\E r \in requests : Fetch(r) \/ RequestLost(r)) \/ ConnectionClosed \/ GarbageCollect
         \/ GetEvents \/ GiveUp \/ PollFails \/ ReceiveResponse
         \/ BeginShutdown \/ Exit \/ Crash \/ Start \/ UNCHANGED vars
  PROVE  LossInv'
<1>1. UNCHANGED <<published, broker, dropped>> /\ delivered' \in {delivered, 0}
  BY DEF Fetch, RequestLost, ConnectionClosed, GarbageCollect, GetEvents, GiveUp, PollFails,
         ReceiveResponse, BeginShutdown, Exit, Crash, Start, ProcessEnds, GivenBack, vars, notices
<1>2. TypeInv /\ {queue, file} \subseteq Queue \cup {NoQueue}
  BY DEF LossInv, StreamInv, TypeInv, StreamType
<1>3. \/ queue' = NoQueue
      \/ \E p \in {queue, file} : p # NoQueue /\ \A e : InLog(p, e) => InLog(queue', e)
  <2>1. ASSUME NEW r \in requests, Fetch(r), queue' # NoQueue
        PROVE  queue # NoQueue /\ queue'.log = queue.log
    BY <1>2, <2>1, FetchCases
  <2>2. ASSUME Start, queue' # NoQueue
        PROVE  file # NoQueue /\ \A e : InLog(file, e) => InLog(queue', e)
    BY <1>2, <2>2, InLogPushed, LogEvents DEF Start, Loaded
  <2>3. CASE \E r \in requests : Fetch(r)
    BY <2>1, <2>3 DEF InLog
  <2>4. CASE Start
    BY <2>2, <2>4
  <2>5. CASE ~Start /\ ~ \E r \in requests : Fetch(r)
    BY <2>5 DEF RequestLost, ConnectionClosed, GarbageCollect, GetEvents, GiveUp, PollFails,
                ReceiveResponse, BeginShutdown, Exit, Crash, ProcessEnds, vars, server, InLog
  <2> QED
    BY <2>3, <2>4, <2>5
<1>4. file' = NoQueue \/ \E p \in {queue, file} : p # NoQueue /\ p = file'
  BY DEF Fetch, RequestLost, ConnectionClosed, GarbageCollect, GetEvents, GiveUp, PollFails,
         ReceiveResponse, BeginShutdown, Exit, Crash, Start, ProcessEnds, vars, server
<1>5. ASSUME NEW p \in {queue, file}, p # NoQueue, NEW q, \A e : InLog(p, e) => InLog(q, e)
      PROVE  /\ \A e \in 1 .. published' :
                  e \in dropped' \/ InLog(q, e) \/ \E i \in 1 .. Len(broker') : broker'[i].event = e
             /\ \A i \in 1 .. delivered' :
                  \/ broker'[i].event \in dropped' \/ InLog(q, broker'[i].event)
                  \/ \E j \in delivered' + 1 .. Len(broker') : broker'[j].event = broker'[i].event
  <2>1. /\ \A e \in 1 .. published : Located(e, q, 1)
        /\ \A i \in 1 .. delivered : Located(broker[i].event, q, delivered + 1)
    BY <1>5 DEF LossInv, Covers, Located
  <2>2. CASE delivered' = delivered
    BY <1>1, <2>1, <2>2 DEF Located, Pending
  <2>3. CASE delivered' = 0
    BY <1>1, <2>1, <2>3 DEF Located, Pending
  <2> QED
    BY <1>1, <2>2, <2>3
<1>6. Covers(queue)' /\ Covers(file)'
  <2>1. Covers(queue)'
    BY <1>3, <1>5, CoversNext
  <2>2. Covers(file)'
    BY <1>4, <1>5, CoversNext
  <2> QED
    BY <2>1, <2>2
<1> QED
  BY <1>6 DEF LossInv

LEMMA NextLoss ==
  ASSUME MaxWindow = 0
  PROVE  LossInv /\ [Next]_vars => LossInv'
<1> SUFFICES ASSUME LossInv, [Next]_vars PROVE LossInv'
  OBVIOUS
<1>1. StreamInv'
  BY NextStream DEF LossInv
<1>2. CASE Publish
  BY <1>1, <1>2, PublishLoss
<1>3. CASE ProcessNotice \/ ProcessFails
  BY <1>1, <1>3, ProcessLoss
<1>4. CASE AckArrives
  BY <1>1, <1>4, AckLoss
<1>5. CASE BrokerConnectionLost
  BY <1>1, <1>5, RedeliveryLoss
<1>6. CASE \/ (\E r \in requests : Fetch(r) \/ RequestLost(r)) \/ ConnectionClosed \/ GarbageCollect
           \/ GetEvents \/ GiveUp \/ PollFails \/ ReceiveResponse
           \/ BeginShutdown \/ Exit \/ Crash \/ Start \/ UNCHANGED vars
  BY <1>1, <1>6, OtherLoss
<1> QED
  BY <1>2, <1>3, <1>4, <1>5, <1>6 DEF Next

\* An entry of the log is handled, or is among what the next poll is answered.
LEMMA LoggedOrKept ==
  ASSUME StreamInv, NEW q \in Queue, q # NoQueue, Serves(q), NEW e, InLog(q, e)
  PROVE  e \in ToSet(handled) \cup ToSet(Contents(q).events)
<1>1. PICK i \in 1 .. Len(q.log) : q.log[i] = e
  BY DEF InLog
<1>2. /\ TypeInv /\ Len(handled) = last_event_id + 1
      /\ Len(q.log) \in Nat /\ q.newest_pruned_id \in Int /\ last_event_id \in Int
      /\ q.newest_pruned_id <= last_event_id /\ Agrees(handled, q)
  BY ServedFacts DEF StreamInv, Answered
<1>3. handled \in Seq(LogEvent)
  BY <1>2, SeenFacts
<1>4. CASE i <= Len(handled)
  <2>1. i \in 1 .. Len(handled) /\ handled[i] = e
    BY <1>1, <1>2, <1>4 DEF Agrees
  <2>2. i \in DOMAIN handled
    BY <1>3, <2>1, LenProperties
  <2> QED
    BY <2>1, <2>2 DEF ToSet
<1>5. CASE ~(i <= Len(handled))
  <2> DEFINE answer == Contents(q).events
             first == Contents(q).first
             size == Len(answer)
             end == Len(q.log)
  <2>1. /\ answer \in Seq(LogEvent) /\ first = q.newest_pruned_id + 1 /\ first + size = end
        /\ \A k \in 1 .. size : answer[k] = q.log[first + k]
    BY ContentsFacts DEF Response
  <2>2. size \in Nat /\ end \in Nat /\ i \in 1 .. end
    BY <1>1, <1>2, <2>1, LenProperties
  <2>3. i > last_event_id + 1
    BY <1>2, <1>5, <2>2
  <2>4. DOMAIN answer = 1 .. size
    BY <2>1, LenProperties
  <2> HIDE DEF answer, first, size, end
  <2>5. i - first \in 1 .. size /\ first + (i - first) = i
    <3> DEFINE id == q.newest_pruned_id
    <3>1. id \in Int /\ last_event_id \in Int /\ id <= last_event_id
          /\ first = id + 1 /\ first + size = end
      BY <1>2, <2>1
    <3> HIDE DEF id
    <3> QED
      BY <2>2, <2>3, <3>1
  <2>6. answer[i - first] = e
    BY <1>1, <2>1, <2>5
  <2> QED
    BY <2>4, <2>5, <2>6 DEF ToSet, answer
<1> QED
  BY <1>4, <1>5

\* Whatever is redelivered, retried, lost or restarted, every event published is
\* handled, given up with a log entry, held by RabbitMQ, or among what the next
\* poll of the client is answered, as long as its queue exists (send_event,
\* retry_event, wrapped_consumer, EventQueue.prune, dump_event_queues), and no
\* notice is processed after the queues were dumped.
THEOREM EventsNotLost ==
  ASSUME MaxWindow = 0
  PROVE  Spec => []NothingLost
<1>1. LossInv => NothingLost
  <2> SUFFICES ASSUME LossInv, Kept # NoQueue, NEW e \in 1 .. published
               PROVE  \/ e \in ToSet(handled) \cup dropped
                      \/ \E n \in ToSet(broker) : n.event = e
                      \/ e \in ToSet(Contents(Kept).events)
    BY DEF NothingLost
  <2>1. Kept \in Queue /\ Serves(Kept) /\ Covers(Kept) /\ StreamInv
    BY DEF Kept, LossInv, StreamInv, TypeInv, StreamType
  <2>2. e \in dropped \/ InLog(Kept, e) \/ Pending(e, 1)
    BY <2>1 DEF Covers, Located
  <2>3. ASSUME Pending(e, 1)
        PROVE  \E n \in ToSet(broker) : n.event = e
    <3>1. DOMAIN broker = 1 .. Len(broker)
      BY <2>1, LenProperties DEF StreamInv, TypeInv, StreamType
    <3> QED
      BY <2>3, <3>1 DEF Pending, ToSet
  <2> HIDE DEF Kept
  <2> QED
    BY <2>1, <2>2, <2>3, LoggedOrKept
<1> QED
  BY InitLoss, NextLoss, <1>1, PTL DEF Spec
---------------------------------------------------------------------------
(* What WithoutRestarts makes of a log.  It is defined by recursion along  *)
(* the log, so its facts are proved by induction on the position: a set of *)
(* numbers with 0 and the successor of each of its members is Nat.         *)

Less == {p \in Nat \X Nat : p[1] < p[2]}

LEMMA LeastNumber ==
  ASSUME NEW T \in SUBSET Nat, T # {}
  PROVE  \E m \in T : \A n \in T : m <= n
<1>1. Less = OpToRel(<, Nat)
  BY Zenon DEF Less, OpToRel
<1>2. IsWellFoundedOn(Less, Nat)
  BY <1>1, NatLessThanWellFounded
<1>3. \E m \in T : \A n \in T : <<n, m>> \notin Less
  BY <1>2, WFMin
<1>4. \A m, n \in Nat : <<n, m>> \notin Less => m <= n
  BY DEF Less
<1> QED
  BY <1>3, <1>4

LEMMA NumberInduction ==
  ASSUME NEW T \in SUBSET Nat, 0 \in T, \A n \in T : n + 1 \in T
  PROVE  T = Nat
<1> SUFFICES ASSUME T # Nat PROVE FALSE
  OBVIOUS
<1>1. PICK m \in Nat \ T : \A n \in Nat \ T : m <= n
  BY LeastNumber
<1>2. m # 0 /\ m - 1 \in T
  BY <1>1
<1> QED
  BY <1>1, <1>2

\* kept satisfies the equation of PublishedUpTo(events) up to position n.
KeptUpTo(kept, events, n) ==
  kept = [i \in 0 .. n |->
            IF i = 0 THEN <<>>
            ELSE IF events[i] = RestartEvent THEN kept[i - 1]
            ELSE Append(kept[i - 1], events[i])]

LEMMA KeptExists ==
  ASSUME NEW events \in Seq(LogEvent)
  PROVE  \A n \in Nat : n <= Len(events) =>
           \E kept \in [0 .. n -> Seq(LogEvent)] : KeptUpTo(kept, events, n)
<1> DEFINE T == {n \in Nat : n <= Len(events) =>
                   \E kept \in [0 .. n -> Seq(LogEvent)] : KeptUpTo(kept, events, n)}
<1>1. 0 \in T
  <2> DEFINE kept == [i \in 0 .. 0 |-> <<>>]
  <2>1. KeptUpTo(kept, events, 0)
    BY DEF KeptUpTo
  <2>2. kept \in [0 .. 0 -> Seq(LogEvent)]
    BY EmptySeq
  <2> QED
    BY <2>1, <2>2
<1>2. ASSUME NEW n \in T
      PROVE  n + 1 \in T
  <2> SUFFICES ASSUME n + 1 <= Len(events)
               PROVE  \E kept \in [0 .. n + 1 -> Seq(LogEvent)] : KeptUpTo(kept, events, n + 1)
    OBVIOUS
  <2>1. n \in Nat /\ n <= Len(events) /\ events[n + 1] \in LogEvent
    BY ElementOfSeq, LenProperties
  <2>2. PICK kept \in [0 .. n -> Seq(LogEvent)] : KeptUpTo(kept, events, n)
    BY <1>2, <2>1
  <2> DEFINE last == IF events[n + 1] = RestartEvent THEN kept[n] ELSE Append(kept[n], events[n + 1])
             longer == [i \in 0 .. n + 1 |-> IF i = n + 1 THEN last ELSE kept[i]]
  <2>3. last \in Seq(LogEvent)
    BY <2>1, <2>2, AppendProperties
  <2> HIDE DEF last
  <2>4. longer \in [0 .. n + 1 -> Seq(LogEvent)]
    BY <2>1, <2>2, <2>3
  <2>5. \A i \in 0 .. n + 1 : longer[i] =
          IF i = 0 THEN <<>>
          ELSE IF events[i] = RestartEvent THEN longer[i - 1]
          ELSE Append(longer[i - 1], events[i])
    <3> TAKE i \in 0 .. n + 1
    <3>1. CASE i = n + 1
      BY <2>1, <3>1 DEF last
    <3>2. CASE i # n + 1
      <4>1. i \in 0 .. n /\ longer[i] = kept[i] /\ (i # 0 => longer[i - 1] = kept[i - 1])
        BY <2>1, <3>2
      <4> QED
        BY <2>2, <4>1 DEF KeptUpTo
    <3> QED
      BY <3>1, <3>2
  <2>6. KeptUpTo(longer, events, n + 1)
    BY <2>5 DEF KeptUpTo
  <2> QED
    BY <2>4, <2>6
<1> HIDE DEF T
<1>3. T = Nat
  <2>1. T \subseteq Nat
    BY DEF T
  <2> QED
    BY <1>1, <1>2, <2>1, NumberInduction
<1> QED
  BY <1>3 DEF T

\* The recursive definition, unfolded.
LEMMA PublishedFacts ==
  ASSUME NEW s \in Seq(LogEvent)
  PROVE  /\ PublishedUpTo(s)[0] = <<>>
         /\ \A i \in 1 .. Len(s) : PublishedUpTo(s)[i] =
              IF s[i] = RestartEvent THEN PublishedUpTo(s)[i - 1]
              ELSE Append(PublishedUpTo(s)[i - 1], s[i])
         /\ \A i \in 0 .. Len(s) : PublishedUpTo(s)[i] \in Seq(LogEvent)
<1> DEFINE kept == PublishedUpTo(s)
<1>1. Len(s) \in Nat
  BY LenProperties
<1>2. KeptUpTo(kept, s, Len(s))
  <2>1. \E f : KeptUpTo(f, s, Len(s))
    BY <1>1, KeptExists
  <2> QED
    BY <2>1 DEF PublishedUpTo, KeptUpTo
<1> HIDE DEF kept
<1>3. kept[0] = <<>>
  BY <1>1, <1>2 DEF KeptUpTo
<1>4. \A i \in 1 .. Len(s) : kept[i] =
        IF s[i] = RestartEvent THEN kept[i - 1] ELSE Append(kept[i - 1], s[i])
  <2> TAKE i \in 1 .. Len(s)
  <2>1. i \in 0 .. Len(s) /\ i # 0
    BY <1>1
  <2> QED
    BY <1>2, <2>1 DEF KeptUpTo
<1> DEFINE T == {n \in Nat : n <= Len(s) => kept[n] \in Seq(LogEvent)}
<1>5. T = Nat
  <2>1. 0 \in T
    BY <1>3, EmptySeq
  <2>2. ASSUME NEW n \in T
        PROVE  n + 1 \in T
    <3> SUFFICES ASSUME n + 1 <= Len(s) PROVE kept[n + 1] \in Seq(LogEvent)
      OBVIOUS
    <3>1. n + 1 \in 1 .. Len(s) /\ s[n + 1] \in LogEvent /\ kept[n] \in Seq(LogEvent)
          /\ (n + 1) - 1 = n
      BY <1>1, ElementOfSeq
    <3>2. kept[n + 1] = kept[n] \/ kept[n + 1] = Append(kept[n], s[n + 1])
      BY <1>4, <3>1
    <3>3. Append(kept[n], s[n + 1]) \in Seq(LogEvent)
      BY <3>1, AppendProperties
    <3> QED
      BY <3>1, <3>2, <3>3
  <2> HIDE DEF T
  <2>3. T \subseteq Nat
    BY DEF T
  <2> QED
    BY <2>1, <2>2, <2>3, NumberInduction
<1>6. \A i \in 0 .. Len(s) : kept[i] \in Seq(LogEvent)
  BY <1>1, <1>5
<1> QED
  BY <1>3, <1>4, <1>6 DEF kept

\* What two logs begin with alike gives the same events.
LEMMA PublishedAgrees ==
  ASSUME NEW s \in Seq(LogEvent), NEW t \in Seq(LogEvent), Len(s) <= Len(t),
         \A i \in 1 .. Len(s) : s[i] = t[i]
  PROVE  PublishedUpTo(t)[Len(s)] = WithoutRestarts(s)
<1> DEFINE T == {n \in Nat : n <= Len(s) => PublishedUpTo(s)[n] = PublishedUpTo(t)[n]}
<1>1. Len(s) \in Nat /\ Len(t) \in Nat
  BY LenProperties
<1>2. 0 \in T
  BY PublishedFacts
<1>3. ASSUME NEW n \in T
      PROVE  n + 1 \in T
  <2> SUFFICES ASSUME n + 1 <= Len(s) PROVE PublishedUpTo(s)[n + 1] = PublishedUpTo(t)[n + 1]
    OBVIOUS
  <2>1. n + 1 \in 1 .. Len(s) /\ n + 1 \in 1 .. Len(t) /\ (n + 1) - 1 = n
        /\ PublishedUpTo(s)[n] = PublishedUpTo(t)[n]
    BY <1>1
  <2> QED
    BY <2>1, PublishedFacts
<1> HIDE DEF T
<1>4. T \subseteq Nat
  BY DEF T
<1>5. T = Nat
  BY <1>2, <1>3, <1>4, NumberInduction
<1> QED
  BY <1>1, <1>5 DEF T, WithoutRestarts

\* The events among the first i of a log begin those among the first j.
LEMMA PublishedGrows ==
  ASSUME NEW s \in Seq(LogEvent), NEW i \in 0 .. Len(s), NEW j \in i .. Len(s)
  PROVE  /\ Len(PublishedUpTo(s)[i]) <= Len(PublishedUpTo(s)[j])
         /\ \A k \in 1 .. Len(PublishedUpTo(s)[i]) :
              PublishedUpTo(s)[i][k] = PublishedUpTo(s)[j][k]
<1> DEFINE kept == PublishedUpTo(s)
           Begins(n) == /\ Len(kept[i]) <= Len(kept[n])
                        /\ \A k \in 1 .. Len(kept[i]) : kept[i][k] = kept[n][k]
           T == {d \in Nat : i + d <= Len(s) => Begins(i + d)}
<1>1. Len(s) \in Nat /\ i \in Nat
  BY LenProperties
<1>2. \A n \in 0 .. Len(s) : kept[n] \in Seq(LogEvent) /\ Len(kept[n]) \in Nat
  BY PublishedFacts, LenProperties
<1> HIDE DEF kept
<1>3. 0 \in T
  <2>1. i + 0 = i /\ Begins(i)
    BY <1>1, <1>2
  <2> QED
    BY <2>1
<1>4. ASSUME NEW d \in T
      PROVE  d + 1 \in T
  <2> SUFFICES ASSUME i + (d + 1) <= Len(s) PROVE Begins(i + (d + 1))
    OBVIOUS
  <2> DEFINE n == i + d
  <2>1. /\ n \in 0 .. Len(s) /\ n + 1 \in 1 .. Len(s) /\ i + (d + 1) = n + 1
        /\ (n + 1) - 1 = n /\ n + 1 \in 0 .. Len(s)
    BY <1>1
  <2>2. Begins(n)
    BY <1>1, <1>4, <2>1
  <2> HIDE DEF n
  <2>3. kept[n + 1] = kept[n] \/ kept[n + 1] = Append(kept[n], s[n + 1])
    BY <2>1, PublishedFacts DEF kept
  <2>4. s[n + 1] \in LogEvent
    BY <1>1, <2>1, ElementOfSeq
  <2>5. Len(kept[n]) <= Len(kept[n + 1]) /\ \A k \in 1 .. Len(kept[n]) : kept[n + 1][k] = kept[n][k]
    <3>1. CASE kept[n + 1] = kept[n]
      BY <1>2, <2>1, <3>1
    <3>2. CASE kept[n + 1] = Append(kept[n], s[n + 1])
      <4>1. kept[n] \in Seq(LogEvent) /\ Len(kept[n]) \in Nat
        BY <1>2, <2>1
      <4>2. /\ Len(Append(kept[n], s[n + 1])) = Len(kept[n]) + 1
            /\ \A k \in 1 .. Len(kept[n]) : Append(kept[n], s[n + 1])[k] = kept[n][k]
        BY <2>4, <4>1, AppendProperties
      <4> QED
        BY <3>2, <4>1, <4>2
    <3> QED
      BY <2>3, <3>1, <3>2
  <2>6. Begins(n + 1)
    <3>1. Len(kept[i]) \in Nat /\ Len(kept[n]) \in Nat /\ Len(kept[n + 1]) \in Nat
      BY <1>2, <2>1
    <3> QED
      BY <2>2, <2>5, <3>1
  <2> QED
    BY <2>1, <2>6
<1> HIDE DEF T
<1>5. T \subseteq Nat
  BY DEF T
<1>6. T = Nat
  BY <1>3, <1>4, <1>5, NumberInduction
<1>7. j - i \in Nat /\ i + (j - i) = j /\ j <= Len(s)
  BY <1>1
<1> DEFINE d == j - i
<1>8. Begins(j)
  <2>1. d \in T /\ i + d = j
    BY <1>6, <1>7
  <2> HIDE DEF d
  <2>2. i + d <= Len(s)
    BY <1>7, <2>1
  <2>3. Begins(i + d)
    BY <2>1, <2>2 DEF T
  <2> QED
    BY <2>1, <2>3
<1> QED
  BY <1>8 DEF kept

LEMMA WithoutFacts ==
  ASSUME NEW s \in Seq(LogEvent)
  PROVE  WithoutRestarts(s) \in Seq(LogEvent) /\ Len(WithoutRestarts(s)) \in Nat
<1>1. Len(s) \in 0 .. Len(s)
  BY LenProperties
<1> QED
  BY <1>1, PublishedFacts, LenProperties DEF WithoutRestarts

LEMMA WithoutAppended ==
  ASSUME NEW s \in Seq(LogEvent), NEW e \in LogEvent
  PROVE  WithoutRestarts(Append(s, e)) =
           IF e = RestartEvent THEN WithoutRestarts(s) ELSE Append(WithoutRestarts(s), e)
<1> DEFINE t == Append(s, e)
<1>1. /\ Len(s) \in Nat /\ t \in Seq(LogEvent) /\ Len(t) = Len(s) + 1
      /\ t[Len(s) + 1] = e /\ \A i \in 1 .. Len(s) : t[i] = s[i]
  BY AppendProperties, LenProperties
<1> HIDE DEF t
<1>2. PublishedUpTo(t)[Len(s)] = WithoutRestarts(s)
  BY <1>1, PublishedAgrees
<1>3. Len(s) + 1 \in 1 .. Len(t) /\ (Len(s) + 1) - 1 = Len(s)
  BY <1>1
<1>4. PublishedUpTo(t)[Len(s) + 1] =
        IF t[Len(s) + 1] = RestartEvent THEN PublishedUpTo(t)[Len(s)]
        ELSE Append(PublishedUpTo(t)[Len(s)], t[Len(s) + 1])
  BY <1>1, <1>3, PublishedFacts
<1>5. WithoutRestarts(t) =
        IF e = RestartEvent THEN WithoutRestarts(s) ELSE Append(WithoutRestarts(s), e)
  BY <1>1, <1>2, <1>4 DEF WithoutRestarts
<1> QED
  BY <1>5 DEF t

Numbers(n) == [i \in 1 .. n |-> i]

LEMMA NumbersFacts ==
  ASSUME NEW n \in Nat
  PROVE  Numbers(n) \in Seq(Nat) /\ Len(Numbers(n)) = n /\ \A i \in 1 .. n : Numbers(n)[i] = i
  BY DEF Numbers

LEMMA NumbersAppended ==
  ASSUME NEW n \in Nat
  PROVE  Append(Numbers(n), n + 1) = Numbers(n + 1)
<1>1. /\ Append(Numbers(n), n + 1) \in Seq(Nat) /\ Len(Append(Numbers(n), n + 1)) = n + 1
      /\ \A i \in 1 .. n : Append(Numbers(n), n + 1)[i] = i
      /\ Append(Numbers(n), n + 1)[n + 1] = n + 1
  BY NumbersFacts, AppendProperties
<1>2. /\ Numbers(n + 1) \in Seq(Nat) /\ Len(Numbers(n + 1)) = n + 1
      /\ \A i \in 1 .. n + 1 : Numbers(n + 1)[i] = i
  BY NumbersFacts
<1>3. \A i \in 1 .. n + 1 : Append(Numbers(n), n + 1)[i] = Numbers(n + 1)[i]
  <2> TAKE i \in 1 .. n + 1
  <2>1. i \in 1 .. n \/ i = n + 1
    OBVIOUS
  <2> QED
    BY <1>1, <1>2, <2>1
<1> QED
  BY <1>1, <1>2, <1>3, SeqEqual

\* The beginning of a log with the events 1 to n holds 1 to m, for some m.
LEMMA BeginningCounts ==
  ASSUME NEW s \in Seq(LogEvent), NEW t \in Seq(LogEvent), Len(s) <= Len(t),
         \A i \in 1 .. Len(s) : s[i] = t[i],
         NEW n \in Nat, WithoutRestarts(t) = Numbers(n)
  PROVE  \E m \in 0 .. n : WithoutRestarts(s) = Numbers(m)
<1> DEFINE kept == WithoutRestarts(s)
           m == Len(kept)
<1>1. Len(s) \in 0 .. Len(t)
  BY LenProperties
<1>2. kept = PublishedUpTo(t)[Len(s)]
  BY PublishedAgrees
<1>3. m <= Len(Numbers(n)) /\ \A k \in 1 .. m : kept[k] = Numbers(n)[k]
  <2>1. Len(t) \in Len(s) .. Len(t)
    BY <1>1, LenProperties
  <2>2. /\ Len(PublishedUpTo(t)[Len(s)]) <= Len(PublishedUpTo(t)[Len(t)])
        /\ \A k \in 1 .. Len(PublishedUpTo(t)[Len(s)]) :
             PublishedUpTo(t)[Len(s)][k] = PublishedUpTo(t)[Len(t)][k]
    BY <1>1, <2>1, PublishedGrows
  <2>3. PublishedUpTo(t)[Len(t)] = Numbers(n)
    BY DEF WithoutRestarts
  <2> HIDE DEF kept
  <2> QED
    BY <1>2, <2>2, <2>3
<1>4. kept \in Seq(LogEvent) /\ m \in Nat
  BY WithoutFacts
<1>5. m \in 0 .. n /\ \A k \in 1 .. m : kept[k] = k
  <2>1. Len(Numbers(n)) = n /\ \A i \in 1 .. n : Numbers(n)[i] = i
    BY NumbersFacts
  <2> HIDE DEF kept, m
  <2>2. m <= n
    BY <1>3, <2>1
  <2>3. \A k \in 1 .. m : k \in 1 .. n
    BY <1>4, <2>2
  <2> QED
    BY <1>3, <1>4, <2>1, <2>2, <2>3
<1>6. kept \in Seq(Nat)
  <2>1. \A k \in 1 .. Len(kept) : kept[k] \in Nat
    BY <1>4, LogEvents, ElementOfSeq
  <2>2. kept = [k \in 1 .. Len(kept) |-> kept[k]]
    BY <1>4, LenProperties
  <2> QED
    BY <1>4, <2>1, <2>2
<1>7. kept = Numbers(m)
  BY <1>4, <1>5, <1>6, NumbersFacts, SeqEqual
<1> QED
  BY <1>5, <1>7
---------------------------------------------------------------------------
(* Exactly once and in order, when no notice is redelivered or retried:    *)
(* RabbitMQ holds the last events published, the queue's log the events    *)
(* processed, and what the client has seen is the beginning of them.       *)

\* The events processed so far are 1 to processed.
processed == published - Len(broker) + delivered

Counts(s, n) == WithoutRestarts(s) = Numbers(n)

Numbered ==
  /\ Len(broker) <= published
  /\ \A i \in 1 .. Len(broker) : broker[i].event = published - Len(broker) + i

Ordered(q) == q # NoQueue => Counts(q.log, processed)

SeenInOrder == \E n \in 0 .. published : Counts(Seen, n)

OrderInv ==
  /\ StreamInv /\ failures \in Nat /\ redeliveries \in Nat
  /\ Numbered /\ Ordered(queue) /\ Ordered(file) /\ SeenInOrder
  /\ reload => ~in_flight

LEMMA CountsNothing == Counts(<<>>, 0)
<1>1. <<>> \in Seq(LogEvent) /\ Len(<<>>) = 0
  BY EmptySeq
<1>2. WithoutRestarts(<<>>) = <<>>
  BY <1>1, PublishedFacts DEF WithoutRestarts
<1>3. Numbers(0) \in Seq(Nat) /\ Len(Numbers(0)) = 0
  BY NumbersFacts
<1>4. Numbers(0) = <<>>
  BY <1>3, EmptySeq
<1> QED
  BY <1>2, <1>4 DEF Counts

LEMMA InitOrder == Init => OrderInv
<1> SUFFICES ASSUME Init PROVE OrderInv
  OBVIOUS
<1>1. /\ published = 0 /\ broker = <<>> /\ delivered = 0 /\ Len(broker) = 0
      /\ file = NoQueue /\ queue.log = <<>> /\ handled = <<>> /\ response = NoResponse
      /\ redeliveries = 0 /\ failures = 0 /\ reload = FALSE
  BY EmptySeq DEF Init
<1>2. StreamInv
  BY InitStream
<1>3. Numbered
  BY <1>1 DEF Numbered
<1>4. Ordered(queue) /\ Ordered(file)
  BY <1>1, CountsNothing DEF Ordered, processed
<1>5. SeenInOrder
  <2>1. Seen = <<>>
    BY <1>1, <1>2, SeenFacts, Errors DEF StreamInv
  <2> QED
    BY <1>1, <2>1, CountsNothing DEF SeenInOrder
<1> QED
  BY <1>1, <1>2, <1>3, <1>4, <1>5 DEF OrderInv

\* What the client sees next is in the queue, if there is one then.
LEMMA SeenStep ==
  ASSUME MaxWindow = 0, StreamInv, [Next]_vars
  PROVE  Seen' = Seen \/ Seen' = handled \/ queue' # NoQueue
<1>1. TypeInv /\ TypeInv'
  BY NextType DEF StreamInv
<1>2. ASSUME NEW event \in LogEvent, AddEvent(event), UNCHANGED handled
      PROVE  Seen' = Seen \/ queue' # NoQueue
  <2>1. CASE queue = NoQueue
    BY <1>2, <2>1 DEF AddEvent, Seen
  <2>2. CASE queue # NoQueue
    <3>1. queue \in Queue /\ queue' = Pushed(queue, event)
      BY <1>1, <1>2, <2>2 DEF AddEvent, TypeInv, StreamType
    <3>2. queue' \in Queue
      BY <3>1, PushedLog
    <3> QED
      BY <3>2, QueueIsSome
  <2> QED
    BY <2>1, <2>2
<1>3. CASE ProcessNotice \/ ProcessFails
  <2>1. Consumes /\ UNCHANGED handled
    BY <1>3 DEF ProcessNotice, ProcessFails, Consumes, client
  <2>2. \/ AddEvent(broker[delivered + 1].event)
        \/ UNCHANGED <<queue, waiting, response>>
    BY <1>3 DEF ProcessNotice, ProcessFails
  <2> QED
    BY <1>1, <1>2, <2>1, <2>2, NoticeDelivered DEF Seen
<1>4. ASSUME NEW r \in requests, Fetch(r), queue' = NoQueue
      PROVE  Seen' = Seen
  <2>1. UNCHANGED <<handled, in_flight>> /\ requests' = requests \ {r}
    BY <1>1, <1>4, FetchCases DEF client
  <2>2. FetchRejected(r, BadQueueId) \/ FetchRejected(r, Refused)
    BY <1>1, <1>4, FetchCases, QueueIsSome
  <2>3. response' = response \/ (response = NoResponse /\ response' \in {BadQueueId, Refused})
    BY <1>1, <2>1, <2>2, RejectedFacts
  <2>4. response'.events = response.events
    BY <2>3 DEF NoResponse, BadQueueId, Refused, Error
  <2> QED
    BY <2>1, <2>4 DEF Seen
<1>5. CASE ReceiveResponse
  <2>1. handled' = Seen /\ response' = NoResponse
    BY <1>5 DEF ReceiveResponse, Seen
  <2> QED
    BY <1>1, <2>1, SeenFacts, Errors, ConcatEmptySeq DEF Seen
<1>6. CASE GiveUp
  <2>1. handled' = handled /\ response' = NoResponse
    BY <1>6 DEF GiveUp
  <2> QED
    BY <1>1, <2>1, SeenFacts, Errors, ConcatEmptySeq DEF Seen
<1>7. CASE \/ Publish \/ AckArrives \/ BrokerConnectionLost
           \/ (\E r \in requests : RequestLost(r)) \/ ConnectionClosed \/ GarbageCollect
           \/ GetEvents \/ PollFails
           \/ BeginShutdown \/ Exit \/ Crash \/ Start \/ UNCHANGED vars
  BY <1>7 DEF Publish, AckArrives, BrokerConnectionLost, RequestLost, ConnectionClosed,
              GarbageCollect, GetEvents, PollFails, BeginShutdown, Exit, Crash, Start,
              ProcessEnds, vars, client, Seen
<1> QED
  BY <1>3, <1>4, <1>5, <1>6, <1>7 DEF Next

LEMMA SeenOrder ==
  ASSUME MaxWindow = 0, OrderInv, [Next]_vars, StreamInv', Ordered(queue)',
         published' >= published, processed' \in 0 .. published'
  PROVE  SeenInOrder'
<1>1. /\ Seen \in Seq(LogEvent) /\ handled \in Seq(LogEvent) /\ Len(handled) <= Len(Seen)
      /\ \A i \in 1 .. Len(handled) : handled[i] = Seen[i]
      /\ published \in Nat
  BY SeenFacts, BrokerFacts DEF OrderInv, StreamInv
<1>2. published' \in Nat /\ 0 .. published \subseteq 0 .. published'
  BY <1>1, BrokerFacts DEF StreamInv, TypeInv, StreamType
<1>3. PICK n \in 0 .. published : Counts(Seen, n)
  BY DEF OrderInv, SeenInOrder
<1>4. CASE Seen' = Seen
  BY <1>2, <1>3, <1>4 DEF SeenInOrder
<1>5. CASE Seen' = handled
  <2>1. PICK m \in 0 .. n : Counts(handled, m)
    BY <1>1, <1>3, BeginningCounts DEF Counts
  <2>2. m \in 0 .. published
    BY <1>1
  <2> QED
    BY <1>2, <1>5, <2>1, <2>2 DEF SeenInOrder
<1>6. CASE queue' # NoQueue
  <2> DEFINE t == queue'.log
             s == Seen'
             p == processed'
  <2>1. s \in Seq(LogEvent) /\ t \in Seq(LogEvent) /\ Len(s) <= Len(t)
        /\ \A i \in 1 .. Len(s) : s[i] = t[i]
    <3>1. Seen' \in Seq(LogEvent)
      <4>1. handled' \in Seq(LogEvent) /\ response'.events \in Seq(LogEvent)
        BY DEF StreamInv, TypeInv, StreamType, Response
      <4> QED
        BY <4>1, ConcatProperties DEF Seen
    <3> QED
      BY <1>6, <3>1, QueueFacts DEF StreamInv, Serves, Agrees, TypeInv, StreamType
  <2>2. p \in Nat /\ WithoutRestarts(t) = Numbers(p)
    BY <1>6, <1>2 DEF Ordered, Counts
  <2> HIDE DEF s, t, p
  <2>3. PICK m \in 0 .. p : WithoutRestarts(s) = Numbers(m)
    BY <2>1, <2>2, BeginningCounts
  <2>4. m \in 0 .. published'
    BY <1>2, <2>2, <2>3 DEF p
  <2> QED
    BY <2>3, <2>4 DEF SeenInOrder, Counts, s
<1> QED
  BY <1>4, <1>5, <1>6, SeenStep DEF OrderInv

\* RabbitMQ's side: the notices it holds are those of the last events published,
\* also when it delivers them again.
LEMMA NumberedFacts ==
  ASSUME TypeInv, Numbered
  PROVE  /\ published \in Nat /\ Len(broker) \in Nat /\ delivered \in Nat
         /\ delivered <= Len(broker) /\ Len(broker) <= published
         /\ processed \in 0 .. published
<1> DEFINE size == Len(broker)
<1>1. /\ published \in Nat /\ size \in Nat /\ delivered \in Nat /\ delivered <= size
      /\ size <= published /\ processed = published - size + delivered
  BY BrokerFacts DEF Numbered, processed
<1> HIDE DEF size
<1>2. processed \in 0 .. published
  BY <1>1
<1> QED
  BY <1>1, <1>2 DEF size

LEMMA PublishNumbered ==
  ASSUME TypeInv, Numbered, Publish
  PROVE  /\ Numbered' /\ processed' = processed /\ published' = published + 1
         /\ UNCHANGED <<queue, file>>
<1> DEFINE size == Len(broker)
<1>1. /\ published \in Nat /\ size \in Nat /\ delivered \in Nat /\ delivered <= size
      /\ broker \in Seq(Notice) /\ size <= published
      /\ \A i \in 1 .. size : broker[i].event = published - size + i
  BY BrokerFacts DEF Numbered
<1>2. /\ published' = published + 1 /\ UNCHANGED <<delivered, queue, file>>
      /\ Len(broker') = size + 1 /\ broker'[size + 1].event = published + 1
      /\ \A i \in 1 .. size : broker'[i] = broker[i]
  <2> DEFINE notice == [event |-> published', failed_tries |-> 0]
  <2>1. /\ published' = published + 1 /\ broker' = Append(broker, notice)
        /\ UNCHANGED <<delivered, queue, file>> /\ published < MaxEvents
    BY DEF Publish, server
  <2>2. notice \in Notice
    BY <1>1, <2>1, BoundsAssumption DEF Notice, Events
  <2>3. notice.event = published + 1
    BY <2>1
  <2> HIDE DEF notice
  <2> QED
    BY <1>1, <2>1, <2>2, <2>3, AppendProperties
<1>3. processed = published - size + delivered /\ processed' = published' - Len(broker') + delivered'
  BY DEF processed
<1> HIDE DEF size
<1>4. processed' = processed
  BY <1>1, <1>2, <1>3
<1>5. Numbered'
  <2>1. ASSUME NEW i \in 1 .. size + 1
        PROVE  broker'[i].event = published' - (size + 1) + i
    <3>1. CASE i = size + 1
      BY <1>1, <1>2, <3>1
    <3>2. CASE i # size + 1
      BY <1>1, <1>2, <3>2
    <3> QED
      BY <3>1, <3>2
  <2> QED
    BY <1>1, <1>2, <2>1 DEF Numbered
<1> QED
  BY <1>2, <1>4, <1>5

LEMMA AckNumbered ==
  ASSUME TypeInv, Numbered, AckArrives
  PROVE  /\ Numbered' /\ processed' = processed /\ published' = published
         /\ UNCHANGED <<queue, file>>
<1> DEFINE size == Len(broker)
<1>1. /\ published \in Nat /\ size \in Nat /\ delivered \in Nat /\ delivered <= size
      /\ broker \in Seq(Notice) /\ size <= published
      /\ \A i \in 1 .. size : broker[i].event = published - size + i
  BY BrokerFacts DEF Numbered
<1>2. /\ delivered > 0 /\ delivered' = delivered - 1
      /\ UNCHANGED <<published, queue, file>>
      /\ Len(broker') = size - 1
      /\ \A i \in 1 .. size - 1 : broker'[i] = broker[i + 1]
  <2>1. /\ delivered > 0 /\ delivered' = delivered - 1 /\ broker' = Tail(broker)
        /\ UNCHANGED <<published, queue, file>>
    BY DEF AckArrives, server
  <2>2. broker # <<>>
    BY <1>1, <2>1, EmptySeq
  <2>3. Len(broker') = size - 1 /\ \A i \in 1 .. Len(broker') : broker'[i] = broker[i + 1]
    BY <1>1, <2>1, <2>2, HeadTailProperties
  <2> QED
    BY <2>1, <2>3
<1>3. processed = published - size + delivered /\ processed' = published' - Len(broker') + delivered'
  BY DEF processed
<1> HIDE DEF size
<1>4. processed' = processed
  BY <1>1, <1>2, <1>3
<1>5. Numbered'
  <2>1. ASSUME NEW i \in 1 .. size - 1
        PROVE  broker'[i].event = published' - (size - 1) + i
    <3>1. i + 1 \in 1 .. size
      BY <1>1
    <3>2. broker[i + 1].event = published - size + (i + 1)
      BY <1>1, <3>1
    <3> QED
      BY <1>1, <1>2, <3>2
  <2> QED
    BY <1>1, <1>2, <2>1 DEF Numbered
<1> QED
  BY <1>2, <1>4, <1>5

\* The notice processed is that of the next event.
LEMMA ProcessNumbered ==
  ASSUME MaxWindow = 0, StreamInv, Numbered, ProcessNotice
  PROVE  /\ Numbered' /\ processed' = processed + 1 /\ processed' \in 0 .. published
         /\ processed + 1 \in Events /\ processed + 1 \in LogEvent /\ processed + 1 # RestartEvent
         /\ AddEvent(processed + 1)
         /\ published' = published /\ file = NoQueue /\ file' = NoQueue
<1> DEFINE size == Len(broker)
           event == broker[delivered + 1].event
<1>1. /\ TypeInv /\ published \in Nat /\ size \in Nat /\ delivered \in Nat
      /\ size <= published
      /\ \A i \in 1 .. size : broker[i].event = published - size + i
  BY BrokerFacts DEF StreamInv, Numbered
<1>2. /\ Consumes /\ AddEvent(event) /\ UNCHANGED <<published, broker, file>>
      /\ delivered' = delivered + 1 /\ delivered + 1 <= size
      /\ event \in Events /\ event \in LogEvent /\ file = NoQueue
  <2>1. Consumes /\ AddEvent(event) /\ UNCHANGED broker
    BY DEF ProcessNotice
  <2>2. process = "up" /\ file = NoQueue
    BY <1>1, <2>1, ConsumesUp DEF StreamInv, Dumped
  <2> QED
    BY <1>1, <2>1, <2>2, NoticeDelivered DEF Consumes
<1>3. processed = published - size + delivered /\ processed' = published' - Len(broker') + delivered'
  BY DEF processed
<1>4. delivered + 1 \in 1 .. size
  BY <1>1, <1>2
<1>5. event = published - size + (delivered + 1)
  BY <1>1, <1>4
<1>6. event # RestartEvent
  BY <1>2, LogEvents
<1>7. Len(broker') = size
  BY <1>2
<1> HIDE DEF size, event
<1>8. processed' = processed + 1 /\ event = processed + 1 /\ processed' \in 0 .. published
  BY <1>1, <1>2, <1>3, <1>5, <1>7
<1>9. Numbered'
  BY <1>2 DEF Numbered
<1> QED
  BY <1>2, <1>6, <1>8, <1>9

\* The other steps leave the logs as they are, or add a restart event.
LEMMA LogsKept ==
  ASSUME TypeInv,
         \/ (\E r \in requests : Fetch(r) \/ RequestLost(r)) \/ ConnectionClosed \/ GarbageCollect
         \/ GetEvents \/ GiveUp \/ PollFails \/ ReceiveResponse
         \/ BeginShutdown \/ Exit \/ Crash \/ Start \/ UNCHANGED vars
  PROVE  /\ UNCHANGED <<published, broker>> /\ delivered' \in {delivered, 0}
         /\ \A q \in {queue', file'} : q # NoQueue =>
              \E p \in {queue, file} :
                /\ p \in Queue /\ p # NoQueue
                /\ q.log = p.log \/ q.log = Append(p.log, RestartEvent)
<1>1. UNCHANGED <<published, broker>> /\ delivered' \in {delivered, 0}
  BY DEF Fetch, RequestLost, ConnectionClosed, GarbageCollect, GetEvents, GiveUp, PollFails,
         ReceiveResponse, BeginShutdown, Exit, Crash, Start, ProcessEnds, GivenBack, vars, notices
<1>2. {queue, file} \subseteq Queue \cup {NoQueue}
  BY DEF TypeInv, StreamType
<1>3. queue' # NoQueue => \E p \in {queue, file} : p # NoQueue /\
             (queue'.log = p.log \/ queue'.log = Append(p.log, RestartEvent))
  <2>1. ASSUME NEW r \in requests, Fetch(r), queue' # NoQueue
        PROVE  queue # NoQueue /\ queue'.log = queue.log
    BY <1>2, <2>1, FetchCases
  <2>2. ASSUME Start, queue' # NoQueue
        PROVE  file # NoQueue /\ queue'.log = Append(file.log, RestartEvent)
    BY <1>2, <2>2, PushedLog, LogEvents DEF Start, Loaded
  <2>3. CASE \E r \in requests : Fetch(r)
    BY <2>1, <2>3
  <2>4. CASE Start
    BY <2>2, <2>4
  <2>5. CASE ~Start /\ ~ \E r \in requests : Fetch(r)
    BY <2>5 DEF RequestLost, ConnectionClosed, GarbageCollect, GetEvents, GiveUp, PollFails,
                ReceiveResponse, BeginShutdown, Exit, Crash, ProcessEnds, vars, server
  <2> QED
    BY <2>3, <2>4, <2>5
<1>4. file' # NoQueue => \E p \in {queue, file} : p # NoQueue /\ file'.log = p.log
  BY DEF Fetch, RequestLost, ConnectionClosed, GarbageCollect, GetEvents, GiveUp, PollFails,
         ReceiveResponse, BeginShutdown, Exit, Crash, Start, ProcessEnds, vars, server
<1> QED
  BY <1>1, <1>2, <1>3, <1>4

LEMMA ProcessOrder ==
  ASSUME MaxWindow = 0, OrderInv, ProcessNotice
  PROVE  Ordered(queue)' /\ Ordered(file)'
<1> DEFINE event == processed + 1
<1>1. /\ TypeInv /\ processed \in Nat /\ processed' = event
      /\ event \in LogEvent /\ event # RestartEvent /\ event \in Nat /\ AddEvent(event)
      /\ file' = NoQueue
  BY ProcessNumbered, NumberedFacts DEF OrderInv, StreamInv
<1>2. Ordered(file)'
  BY <1>1 DEF Ordered
<1> HIDE DEF event
<1>3. Ordered(queue)'
  <2>1. CASE queue = NoQueue
    BY <1>1, <2>1 DEF AddEvent, Ordered
  <2>2. CASE queue # NoQueue
    <3>1. queue \in Queue /\ queue' = Pushed(queue, event)
      BY <1>1, <2>2 DEF AddEvent, TypeInv, StreamType
    <3>2. queue'.log = Append(queue.log, event) /\ queue.log \in Seq(LogEvent)
      BY <1>1, <3>1, PushedLog, QueueFacts
    <3>3. WithoutRestarts(queue'.log) = Append(WithoutRestarts(queue.log), event)
      BY <1>1, <3>2, WithoutAppended
    <3>4. WithoutRestarts(queue.log) = Numbers(processed)
      BY <2>2 DEF OrderInv, Ordered, Counts
    <3>5. WithoutRestarts(queue'.log) = Numbers(processed + 1)
      BY <1>1, <3>3, <3>4, NumbersAppended DEF event
    <3> QED
      BY <1>1, <3>5 DEF Ordered, Counts, event
  <2> QED
    BY <2>1, <2>2
<1> QED
  BY <1>2, <1>3

LEMMA OtherOrder ==
  ASSUME MaxRedeliveries = 0, OrderInv,
         \/ (\E r \in requests : Fetch(r) \/ RequestLost(r)) \/ ConnectionClosed \/ GarbageCollect
         \/ GetEvents \/ GiveUp \/ PollFails \/ ReceiveResponse
         \/ BeginShutdown \/ Exit \/ Crash \/ Start \/ UNCHANGED vars
  PROVE  /\ Numbered' /\ Ordered(queue)' /\ Ordered(file)'
         /\ processed' = processed /\ published' = published
<1>1. TypeInv
  BY DEF OrderInv, StreamInv
<1>2. UNCHANGED <<published, broker, delivered>>
  <2>1. UNCHANGED <<published, broker>> /\ delivered' \in {delivered, 0}
    BY <1>1, LogsKept
  <2>2. ProcessEnds => delivered = 0
    BY <1>1 DEF ProcessEnds, GivenBack, OrderInv, TypeInv, StreamType
  <2>3. ~ProcessEnds => delivered' = delivered
    BY DEF Fetch, RequestLost, ConnectionClosed, GarbageCollect, GetEvents, GiveUp, PollFails,
           ReceiveResponse, BeginShutdown, Exit, Crash, Start, vars, notices
  <2> QED
    BY <2>1, <2>2, <2>3
<1>3. processed' = processed
  BY <1>2 DEF processed
<1>4. Numbered'
  BY <1>2 DEF OrderInv, Numbered
<1>5. ASSUME NEW q \in {queue', file'}, q # NoQueue
      PROVE  Counts(q.log, processed)
  <2>1. PICK p \in {queue, file} : /\ p \in Queue /\ p # NoQueue
                                   /\ q.log = p.log \/ q.log = Append(p.log, RestartEvent)
    BY <1>1, <1>5, LogsKept
  <2>2. p.log \in Seq(LogEvent)
    BY <2>1, QueueFacts
  <2>3. Counts(p.log, processed)
    BY <2>1 DEF OrderInv, Ordered
  <2> QED
    BY <2>1, <2>2, <2>3, LogEvents, WithoutAppended DEF Counts
<1>6. Ordered(queue)' /\ Ordered(file)'
  BY <1>3, <1>5 DEF Ordered
<1> QED
  BY <1>2, <1>3, <1>4, <1>6

LEMMA NextOrder ==
  ASSUME MaxWindow = 0, MaxFailures = 0, MaxRedeliveries = 0
  PROVE  OrderInv /\ [Next]_vars => OrderInv'
<1> SUFFICES ASSUME OrderInv, [Next]_vars PROVE OrderInv'
  OBVIOUS
<1>1. StreamInv /\ StreamInv'
  BY NextStream DEF OrderInv
<1>2. ~BrokerConnectionLost /\ ~ProcessFails /\ (GivenBack => redeliveries' = redeliveries)
  BY DEF OrderInv, BrokerConnectionLost, GivenBack, ProcessFails
<1>3. failures' \in Nat /\ redeliveries' \in Nat /\ (reload' => ~in_flight')
  <2>1. UNCHANGED <<failures, redeliveries>>
    BY <1>2
       DEF Next, Publish, ProcessNotice, Consumes, AckArrives, Fetch, RequestLost,
           ConnectionClosed, GarbageCollect, GetEvents, GiveUp, PollFails, ReceiveResponse,
           BeginShutdown, Exit, Crash, Start, ProcessEnds, vars, bounds
  <2>2. \/ UNCHANGED <<reload, in_flight>> \/ in_flight' = FALSE
        \/ ~reload /\ reload' = reload
    BY <1>2
       DEF Next, Publish, ProcessNotice, Consumes, AckArrives, Fetch, RequestLost,
           ConnectionClosed, GarbageCollect, GetEvents, GiveUp, PollFails, ReceiveResponse,
           BeginShutdown, Exit, Crash, Start, ProcessEnds, vars, client
  <2> QED
    BY <2>1, <2>2 DEF OrderInv
<1>4. /\ Numbered' /\ Ordered(queue)' /\ Ordered(file)'
      /\ published' >= published /\ processed' \in 0 .. published'
  <2>0. /\ TypeInv /\ published \in Nat /\ processed \in 0 .. published
        /\ Numbered /\ Ordered(queue) /\ Ordered(file)
    BY <1>1, NumberedFacts DEF OrderInv, StreamInv
  <2>1. CASE Publish
    BY <2>0, <2>1, PublishNumbered DEF Ordered
  <2>2. CASE AckArrives
    BY <2>0, <2>2, AckNumbered DEF Ordered
  <2>3. CASE ProcessNotice
    BY <1>1, <2>0, <2>3, ProcessNumbered, ProcessOrder
  <2>4. CASE \/ (\E r \in requests : Fetch(r) \/ RequestLost(r)) \/ ConnectionClosed \/ GarbageCollect
             \/ GetEvents \/ GiveUp \/ PollFails \/ ReceiveResponse
             \/ BeginShutdown \/ Exit \/ Crash \/ Start \/ UNCHANGED vars
    BY <2>0, <2>4, OtherOrder
  <2> QED
    BY <1>2, <2>1, <2>2, <2>3, <2>4 DEF Next
<1>5. SeenInOrder'
  BY <1>1, <1>4, SeenOrder
<1> QED
  BY <1>1, <1>3, <1>4, <1>5 DEF OrderInv

LEMMA HandledInOrder ==
  ASSUME OrderInv
  PROVE  \E n \in 0 .. published : \E m \in 0 .. n :
           /\ WithoutRestarts(Seen) = Numbers(n)
           /\ WithoutRestarts(handled) = Numbers(m)
<1>1. /\ Seen \in Seq(LogEvent) /\ handled \in Seq(LogEvent) /\ Len(handled) <= Len(Seen)
      /\ \A i \in 1 .. Len(handled) : handled[i] = Seen[i]
      /\ published \in Nat
  BY SeenFacts, BrokerFacts DEF OrderInv, StreamInv
<1>2. PICK n \in 0 .. published : WithoutRestarts(Seen) = Numbers(n)
  BY DEF OrderInv, SeenInOrder, Counts
<1>3. \E m \in 0 .. n : WithoutRestarts(handled) = Numbers(m)
  BY <1>1, <1>2, BeginningCounts
<1> QED
  BY <1>2, <1>3

\* The answer that arrives continues what the client has handled.
LEMMA ReceiveImplements ==
  ASSUME OrderInv, ReceiveResponse
  PROVE  [Reliable!Next]_Reliable!vars
<1>1. /\ TypeInv /\ published' = published /\ handled' = Seen /\ response # NoResponse
      /\ in_flight /\ reload' = (reload \/ response = BadQueueId)
  BY ReceiveFacts DEF OrderInv, StreamInv, Seen
<1>2. reload = FALSE
  BY <1>1 DEF OrderInv, TypeInv, StreamType
<1>3. PICK n \in 0 .. published : \E m \in 0 .. n :
        WithoutRestarts(Seen) = Numbers(n) /\ WithoutRestarts(handled) = Numbers(m)
  BY HandledInOrder
<1>4. PICK m \in 0 .. n :
        WithoutRestarts(Seen) = Numbers(n) /\ WithoutRestarts(handled) = Numbers(m)
  BY <1>3
<1>5. CASE response.type # "events"
  <2>1. handled' = handled
    BY <1>1, <1>5, SeenFacts DEF OrderInv, StreamInv, Answered
  <2>2. CASE response = BadQueueId
    BY <1>1, <2>1, <2>2 DEF Reliable!Next, Reliable!Reload
  <2>3. CASE response # BadQueueId
    BY <1>1, <1>2, <2>1, <2>3 DEF Reliable!vars
  <2> QED
    BY <2>2, <2>3
<1>6. CASE response.type = "events"
  <2>1. reload' = reload
    BY <1>1, <1>2, <1>6, AnswersAreNoErrors
  <2>2. CASE n = m
    BY <1>1, <1>4, <2>1, <2>2 DEF Reliable!vars
  <2>3. CASE n # m
    <3>1. published \in Nat /\ n \in Nat /\ m \in Nat /\ Len(WithoutRestarts(handled)) = m
      BY <1>1, <1>3, <1>4, BrokerFacts, NumbersFacts
    <3>2. n \in Len(WithoutRestarts(handled)) + 1 .. published
      BY <1>3, <1>4, <2>3, <3>1
    <3>3. WithoutRestarts(handled') = [i \in 1 .. n |-> i]
      BY <1>1, <1>4 DEF Numbers
    <3> QED
      BY <1>1, <1>2, <2>1, <3>2, <3>3 DEF Reliable!Next, Reliable!Handle
  <2> QED
    BY <2>2, <2>3
<1> QED
  BY <1>5, <1>6

\* However polls are lost or come late and the server is restarted or crashes,
\* the client handles the published events in order, none skipped and none
\* twice, until it starts over: fetch_events, prune, get_events_success and the
\* dump file implement ReliableEvents, if RabbitMQ delivers each notice once,
\* its processing does not raise and none is processed after the dump.
THEOREM StreamIsReliable ==
  ASSUME MaxWindow = 0, MaxFailures = 0, MaxRedeliveries = 0
  PROVE  Spec => ImplementsReliableEvents
<1>1. Init => OrderInv /\ Reliable!Init
  <2> SUFFICES ASSUME Init PROVE OrderInv /\ Reliable!Init
    OBVIOUS
  <2>1. published = 0 /\ handled = <<>> /\ reload = FALSE /\ Numbers(0) = <<>>
    BY NumbersFacts, EmptySeq DEF Init
  <2>2. WithoutRestarts(handled) = <<>>
    BY <2>1, CountsNothing DEF Counts
  <2> QED
    BY <2>1, <2>2, InitOrder DEF Reliable!Init
<1>2. OrderInv /\ [Next]_vars => OrderInv' /\ [Reliable!Next]_Reliable!vars
  <2> SUFFICES ASSUME OrderInv, [Next]_vars
               PROVE  OrderInv' /\ [Reliable!Next]_Reliable!vars
    OBVIOUS
  <2>1. OrderInv'
    BY NextOrder
  <2>2. CASE ReceiveResponse
    BY <2>1, <2>2, ReceiveImplements
  <2>3. CASE Publish
    BY <2>1, <2>3 DEF Publish, client, Reliable!Next, Reliable!Publish
  <2>4. CASE ~ReceiveResponse /\ ~Publish
    <3>1. UNCHANGED <<published, handled, reload>>
      BY <2>4
         DEF Next, ProcessNotice, ProcessFails, Consumes, AckArrives, BrokerConnectionLost,
             Fetch, RequestLost, ConnectionClosed, GarbageCollect, GetEvents, GiveUp, PollFails,
             BeginShutdown, Exit, Crash, Start, ProcessEnds, vars, client
    <3> QED
      BY <2>1, <3>1 DEF Reliable!vars
  <2> QED
    BY <2>1, <2>2, <2>3, <2>4
<1> QED
  BY <1>1, <1>2, PTL DEF Spec, ImplementsReliableEvents, Reliable!Spec

LEMMA CountedOnce ==
  ASSUME NEW s \in Seq(LogEvent), NEW n \in Nat, WithoutRestarts(s) = Numbers(n),
         NEW i \in 1 .. Len(s), NEW j \in 1 .. Len(s), i < j,
         s[i] # RestartEvent, s[j] # RestartEvent
  PROVE  s[i] # s[j]
<1> DEFINE kept == PublishedUpTo(s)
           size(k) == Len(kept[k])
<1>1. Len(s) \in Nat /\ \A k \in 0 .. Len(s) : kept[k] \in Seq(LogEvent) /\ size(k) \in Nat
  BY PublishedFacts, LenProperties
<1>2. \A k \in 0 .. Len(s) : \A p \in 1 .. size(k) : kept[k][p] = p
  <2> TAKE k \in 0 .. Len(s)
  <2>1. Len(s) \in k .. Len(s)
    BY <1>1
  <2>2. /\ size(k) <= Len(Numbers(n))
        /\ \A p \in 1 .. size(k) : kept[k][p] = Numbers(n)[p]
    BY <2>1, PublishedGrows DEF WithoutRestarts
  <2>3. size(k) \in Nat /\ Len(Numbers(n)) = n /\ \A p \in 1 .. n : Numbers(n)[p] = p
    BY <1>1, NumbersFacts
  <2>4. \A p \in 1 .. size(k) : p \in 1 .. n
    BY <2>2, <2>3
  <2> QED
    BY <2>2, <2>3, <2>4
<1>3. ASSUME NEW k \in 1 .. Len(s), s[k] # RestartEvent
      PROVE  s[k] = size(k - 1) + 1 /\ size(k) = size(k - 1) + 1
  <2>1. k - 1 \in 0 .. Len(s) /\ k \in 0 .. Len(s)
    BY <1>1
  <2>2. kept[k] = Append(kept[k - 1], s[k])
    BY <1>3, PublishedFacts
  <2>3. kept[k - 1] \in Seq(LogEvent) /\ size(k - 1) \in Nat /\ s[k] \in LogEvent
    BY <1>1, <2>1, ElementOfSeq
  <2>4. size(k) = size(k - 1) + 1 /\ kept[k][size(k - 1) + 1] = s[k]
    BY <2>2, <2>3, AppendProperties
  <2>5. size(k - 1) + 1 \in 1 .. size(k)
    BY <2>3, <2>4
  <2>6. kept[k][size(k - 1) + 1] = size(k - 1) + 1
    BY <1>2, <2>1, <2>5
  <2> QED
    BY <2>4, <2>6
<1>4. size(i) <= size(j - 1)
  <2>1. i \in 0 .. Len(s) /\ j - 1 \in i .. Len(s)
    BY <1>1
  <2> QED
    BY <2>1, PublishedGrows
<1>5. /\ s[i] = size(i - 1) + 1 /\ size(i) = size(i - 1) + 1
      /\ s[j] = size(j - 1) + 1
  BY <1>3
<1>6. size(i) \in Nat /\ size(j - 1) \in Nat
  <2>1. i \in 0 .. Len(s) /\ j - 1 \in 0 .. Len(s)
    BY <1>1
  <2> QED
    BY <1>1, <2>1
<1> HIDE DEF size
<1> QED
  BY <1>4, <1>5, <1>6

\* No event is handled twice (docs: "exactly-once delivery in the presence of
\* potential failures"), under the same conditions.  Once RabbitMQ delivers a
\* notice again its event gets a second id and is handled twice.
THEOREM EventsHandledOnce ==
  ASSUME MaxWindow = 0, MaxFailures = 0, MaxRedeliveries = 0
  PROVE  Spec => []HandledOnce
<1>1. OrderInv => HandledOnce
  <2> SUFFICES ASSUME OrderInv, NEW i \in DOMAIN handled, NEW j \in DOMAIN handled,
                      handled[i] = handled[j], handled[i] # RestartEvent
               PROVE  i = j
    BY DEF HandledOnce
  <2>1. handled \in Seq(LogEvent)
    BY SeenFacts DEF OrderInv, StreamInv
  <2>2. i \in 1 .. Len(handled) /\ j \in 1 .. Len(handled) /\ Len(handled) \in Nat
    BY <2>1, LenProperties
  <2>3. \E n \in Nat : WithoutRestarts(handled) = Numbers(n)
    BY HandledInOrder, BrokerFacts DEF OrderInv, StreamInv
  <2>4. ~(i < j) /\ ~(j < i)
    BY <2>1, <2>2, <2>3, CountedOnce
  <2> QED
    BY <2>2, <2>4
<1> QED
  BY InitOrder, NextOrder, <1>1, PTL DEF Spec
---------------------------------------------------------------------------
(* With redelivery.  A notice that RabbitMQ delivers again gets a second   *)
(* id, behind events that were published later; but the first time, the    *)
(* events come in the order of publication.                                *)

\* No event is there before those that were published before it.
NoGap(s) == \A i \in 1 .. Len(s) : \A e \in 1 .. s[i] - 1 : \E j \in 1 .. i - 1 : s[j] = e

NoEventAhead == NoGap(handled)

\* The log has the events processed so far, and maybe others behind them that
\* were processed before the connection to RabbitMQ was lost.
Complete(q) == q # NoQueue => NoGap(q.log) /\ \A e \in 1 .. processed : InLog(q, e)

RedeliveryInv ==
  /\ StreamInv /\ failures \in Nat /\ Numbered
  /\ Complete(queue) /\ Complete(file) /\ NoGap(Seen)

LEMMA NoGapBeginning ==
  ASSUME NEW s \in Seq(LogEvent), NEW t \in Seq(LogEvent), NoGap(t),
         Len(s) <= Len(t), \A i \in 1 .. Len(s) : s[i] = t[i]
  PROVE  NoGap(s)
<1>1. Len(s) \in Nat /\ Len(t) \in Nat
  BY LenProperties
<1> SUFFICES ASSUME NEW i \in 1 .. Len(s), NEW e \in 1 .. s[i] - 1
             PROVE  \E j \in 1 .. i - 1 : s[j] = e
  BY DEF NoGap
<1>2. i \in 1 .. Len(t) /\ e \in 1 .. t[i] - 1
  BY <1>1
<1>3. PICK j \in 1 .. i - 1 : t[j] = e
  BY <1>2 DEF NoGap
<1>4. j \in 1 .. Len(s)
  BY <1>1
<1> QED
  BY <1>3, <1>4

LEMMA NoGapAppended ==
  ASSUME NEW s \in Seq(LogEvent), NEW event \in LogEvent, NoGap(s),
         \A e \in 1 .. event - 1 : \E j \in 1 .. Len(s) : s[j] = e
  PROVE  NoGap(Append(s, event))
<1> DEFINE t == Append(s, event)
<1>1. /\ Len(s) \in Nat /\ Len(t) = Len(s) + 1 /\ t[Len(s) + 1] = event
      /\ \A i \in 1 .. Len(s) : t[i] = s[i]
  BY LenProperties, AppendProperties
<1> HIDE DEF t
<1> SUFFICES ASSUME NEW i \in 1 .. Len(t), NEW e \in 1 .. t[i] - 1
             PROVE  \E j \in 1 .. i - 1 : t[j] = e
  BY DEF NoGap, t
<1>2. CASE i = Len(s) + 1
  <2>1. PICK j \in 1 .. Len(s) : s[j] = e
    BY <1>1, <1>2
  <2> QED
    BY <1>1, <1>2, <2>1
<1>3. CASE i # Len(s) + 1
  <2>1. i \in 1 .. Len(s) /\ e \in 1 .. s[i] - 1
    BY <1>1, <1>3
  <2>2. PICK j \in 1 .. i - 1 : s[j] = e
    BY <2>1 DEF NoGap
  <2>3. j \in 1 .. Len(s)
    BY <1>1, <2>1
  <2> QED
    BY <1>1, <2>2, <2>3
<1> QED
  BY <1>2, <1>3

\* The next event after those processed leaves no gap, nor does a restart event.
LEMMA NoGapPushed ==
  ASSUME NEW q \in Queue, NEW event \in LogEvent, NEW n \in Nat, event \in {RestartEvent, n + 1},
         NoGap(q.log), \A e \in 1 .. n : InLog(q, e)
  PROVE  NoGap(Append(q.log, event))
<1>1. q.log \in Seq(LogEvent)
  BY QueueFacts
<1>2. \A e \in 1 .. event - 1 : \E j \in 1 .. Len(q.log) : q.log[j] = e
  BY DEF RestartEvent, InLog
<1> QED
  BY <1>1, <1>2, NoGapAppended

LEMMA InitRedelivery == Init => RedeliveryInv
<1> SUFFICES ASSUME Init PROVE RedeliveryInv
  OBVIOUS
<1>1. /\ published = 0 /\ delivered = 0 /\ Len(broker) = 0 /\ file = NoQueue
      /\ queue.log = <<>> /\ handled = <<>> /\ response = NoResponse /\ failures = 0
  BY EmptySeq DEF Init
<1>2. StreamInv
  BY InitStream
<1>3. Seen = <<>>
  BY <1>1, <1>2, SeenFacts, Errors DEF StreamInv
<1>4. NoGap(<<>>)
  BY EmptySeq DEF NoGap
<1>5. Numbered /\ processed = 0
  BY <1>1 DEF Numbered, processed
<1> QED
  BY <1>1, <1>2, <1>3, <1>4, <1>5 DEF RedeliveryInv, Complete

\* After a redelivery the log may have more than is processed.
LEMMA LogsComplete ==
  ASSUME MaxWindow = 0, RedeliveryInv, [Next]_vars, ~ProcessFails
  PROVE  Numbered' /\ Complete(queue)' /\ Complete(file)'
<1>1. /\ StreamInv /\ TypeInv /\ Numbered /\ Complete(queue) /\ Complete(file)
      /\ {queue, file} \subseteq Queue \cup {NoQueue}
  BY DEF RedeliveryInv, StreamInv, TypeInv, StreamType
<1>2. /\ published \in Nat /\ Len(broker) \in Nat /\ delivered \in Nat /\ processed \in Nat
  BY <1>1, NumberedFacts
<1>3. CASE Publish
  BY <1>1, <1>3, PublishNumbered DEF Complete
<1>4. CASE AckArrives
  BY <1>1, <1>4, AckNumbered DEF Complete
<1>5. ASSUME UNCHANGED <<published, broker>>, delivered' \in {delivered, 0}
      PROVE  Numbered' /\ 1 .. processed' \subseteq 1 .. processed
  <2> DEFINE size == Len(broker)
  <2>1. /\ size \in Nat /\ processed = published - size + delivered
        /\ processed' = published - size + delivered'
    BY <1>2, <1>5 DEF processed
  <2>2. Numbered'
    BY <1>1, <1>5 DEF Numbered
  <2>3. /\ published \in Nat /\ delivered \in Nat /\ processed \in Nat
        /\ delivered' = delivered \/ delivered' = 0
    BY <1>2, <1>5
  <2> HIDE DEF size
  <2>4. processed' \in Int /\ processed' <= processed
    BY <2>1, <2>3
  <2>5. 1 .. processed' \subseteq 1 .. processed
    BY <1>2, <2>4
  <2> QED
    BY <2>2, <2>5
<1>6. CASE BrokerConnectionLost
  <2>1. delivered' = 0 /\ UNCHANGED <<published, broker, queue, file>>
    BY <1>6 DEF BrokerConnectionLost, GivenBack, server
  <2> QED
    BY <1>1, <1>5, <2>1 DEF Complete
<1>7. CASE ProcessNotice
  <2> DEFINE event == processed + 1
  <2>1. /\ Numbered' /\ processed' = event /\ event \in LogEvent /\ AddEvent(event)
        /\ file' = NoQueue
    BY <1>1, <1>7, ProcessNumbered
  <2>2. Complete(file)'
    BY <2>1 DEF Complete
  <2>3. CASE queue = NoQueue
    BY <2>1, <2>2, <2>3 DEF AddEvent, Complete
  <2>4. CASE queue # NoQueue
    <3>1. /\ queue \in Queue /\ queue' = Pushed(queue, event)
          /\ queue'.log = Append(queue.log, event)
      BY <1>1, <2>1, <2>4, PushedLog DEF AddEvent
    <3>2. NoGap(queue.log) /\ \A e \in 1 .. processed : InLog(queue, e)
      BY <1>1, <2>4 DEF Complete
    <3>3. NoGap(queue'.log)
      BY <1>2, <2>1, <3>1, <3>2, NoGapPushed
    <3>4. ASSUME NEW e \in 1 .. event
          PROVE  InLog(queue', e)
      <4>1. e \in 1 .. processed \/ e = event
        BY <1>2
      <4> QED
        BY <2>1, <3>1, <3>2, <4>1, InLogPushed
    <3> QED
      BY <2>1, <2>2, <3>3, <3>4 DEF Complete
  <2> QED
    BY <2>3, <2>4
<1>8. CASE \/ (\E r \in requests : Fetch(r) \/ RequestLost(r)) \/ ConnectionClosed \/ GarbageCollect
           \/ GetEvents \/ GiveUp \/ PollFails \/ ReceiveResponse
           \/ BeginShutdown \/ Exit \/ Crash \/ Start \/ UNCHANGED vars
  <2>1. UNCHANGED <<published, broker>> /\ delivered' \in {delivered, 0}
    BY <1>1, <1>8, LogsKept
  <2>2. Numbered' /\ 1 .. processed' \subseteq 1 .. processed
    BY <1>5, <2>1
  <2>3. ASSUME NEW q \in {queue', file'}, q # NoQueue
        PROVE  NoGap(q.log) /\ \A e \in 1 .. processed : InLog(q, e)
    <3>1. PICK p \in {queue, file} : /\ p \in Queue /\ p # NoQueue
                                     /\ q.log = p.log \/ q.log = Append(p.log, RestartEvent)
      BY <1>1, <1>8, <2>3, LogsKept
    <3>2. NoGap(p.log) /\ \A e \in 1 .. processed : InLog(p, e)
      BY <1>1, <3>1 DEF Complete
    <3>3. q.log = Append(p.log, RestartEvent) => NoGap(q.log)
      BY <1>2, <3>1, <3>2, LogEvents, NoGapPushed
    <3>4. \A e : InLog(p, e) => InLog(q, e)
      <4>1. /\ Pushed(p, RestartEvent).log = Append(p.log, RestartEvent)
            /\ \A e : InLog(p, e) => InLog(Pushed(p, RestartEvent), e)
        BY <3>1, LogEvents, PushedLog, InLogPushed
      <4> QED
        BY <3>1, <4>1 DEF InLog
    <3> QED
      BY <3>1, <3>2, <3>3, <3>4
  <2>4. Complete(queue)' /\ Complete(file)'
    BY <2>2, <2>3 DEF Complete
  <2> QED
    BY <2>2, <2>4
<1> QED
  BY <1>3, <1>4, <1>6, <1>7, <1>8 DEF Next

LEMMA NextRedelivery ==
  ASSUME MaxWindow = 0, MaxFailures = 0
  PROVE  RedeliveryInv /\ [Next]_vars => RedeliveryInv'
<1> SUFFICES ASSUME RedeliveryInv, [Next]_vars PROVE RedeliveryInv'
  OBVIOUS
<1>1. StreamInv /\ StreamInv'
  BY NextStream DEF RedeliveryInv
<1>2. ~ProcessFails
  BY DEF RedeliveryInv, ProcessFails
<1>3. failures' \in Nat
  <2>1. UNCHANGED failures
    BY <1>2
       DEF Next, Publish, ProcessNotice, Consumes, AckArrives, BrokerConnectionLost, Fetch,
           RequestLost, ConnectionClosed, GarbageCollect, GetEvents, GiveUp, PollFails,
           ReceiveResponse, BeginShutdown, Exit, Crash, Start, ProcessEnds, vars, bounds
  <2> QED
    BY <2>1 DEF RedeliveryInv
<1>4. Numbered' /\ Complete(queue)' /\ Complete(file)'
  BY <1>2, LogsComplete
<1>5. NoGap(Seen)'
  <2>1. /\ Seen \in Seq(LogEvent) /\ handled \in Seq(LogEvent) /\ Len(handled) <= Len(Seen)
        /\ \A i \in 1 .. Len(handled) : handled[i] = Seen[i]
    BY <1>1, SeenFacts DEF StreamInv
  <2>2. CASE Seen' = Seen
    BY <2>2 DEF RedeliveryInv, NoGap
  <2>3. CASE Seen' = handled
    <3>1. NoGap(handled)
      BY <2>1, NoGapBeginning DEF RedeliveryInv
    <3> QED
      BY <2>3, <3>1 DEF NoGap
  <2>4. CASE queue' # NoQueue
    <3> DEFINE s == Seen'
               t == queue'.log
    <3>1. s \in Seq(LogEvent)
      <4>1. handled' \in Seq(LogEvent) /\ response'.events \in Seq(LogEvent)
        BY <1>1 DEF StreamInv, TypeInv, StreamType, Response
      <4> QED
        BY <4>1, ConcatProperties DEF Seen
    <3>2. t \in Seq(LogEvent) /\ NoGap(t) /\ Len(s) <= Len(t) /\ \A i \in 1 .. Len(s) : s[i] = t[i]
      BY <1>1, <1>4, <2>4, QueueFacts
         DEF StreamInv, Serves, Agrees, TypeInv, StreamType, Complete, NoGap
    <3> HIDE DEF s, t
    <3>3. NoGap(s)
      BY <3>1, <3>2, NoGapBeginning
    <3> QED
      BY <3>3 DEF NoGap, s
  <2> QED
    BY <1>1, <2>2, <2>3, <2>4, SeenStep
<1> QED
  BY <1>1, <1>3, <1>4, <1>5 DEF RedeliveryInv

\* A client never hears of an event before it has heard of every event published
\* earlier, for any number of notices that RabbitMQ delivers again, lost polls,
\* restarts and crashes (wrapped_consumer, fetch_events), if none raises, since
\* retry_event puts a notice behind others, and none is processed after the dump.
THEOREM EventsFirstHeardInOrder ==
  ASSUME MaxWindow = 0, MaxFailures = 0
  PROVE  Spec => []NoEventAhead
<1>1. RedeliveryInv => NoEventAhead
  <2> SUFFICES ASSUME RedeliveryInv PROVE NoGap(handled)
    BY DEF NoEventAhead
  <2>1. /\ Seen \in Seq(LogEvent) /\ handled \in Seq(LogEvent) /\ Len(handled) <= Len(Seen)
        /\ \A i \in 1 .. Len(handled) : handled[i] = Seen[i]
    BY SeenFacts DEF RedeliveryInv, StreamInv
  <2> QED
    BY <2>1, NoGapBeginning DEF RedeliveryInv
<1> QED
  BY InitRedelivery, NextRedelivery, <1>1, PTL DEF Spec
===========================================================================
