----------------------- MODULE EventQueueServerProofs -----------------------
(***************************************************************************)
(* Proofs about EventQueueServer, for every value of its constants.        *)
(***************************************************************************)
EXTENDS EventQueueServer, TLAPS

---------------------------------------------------------------------------
(* Facts about the constants and the records of the model.                 *)

LEMMA HandlerIdsFacts ==
  /\ HandlerIds \subseteq Nat
  /\ NoHandler \notin HandlerIds
  /\ FirstHandlerId = 1 => 0 \notin HandlerIds
  BY HandlerAssumption DEF HandlerIds, NoHandler

LEMMA RequestFacts ==
  /\ NoRequest \in Request /\ Waiting \in Request /\ Finishing \in Request
  /\ NoRequest # Waiting /\ Finishing # Waiting
  /\ Waiting.state = "waiting"
  BY BoundsAssumption DEF NoRequest, Waiting, Finishing, InState, Request

LEMMA OtherEventType == OtherEvent \in Event
  BY DEF Event

LEMMA InitType == Init => TypeOK
  <1> SUFFICES ASSUME Init PROVE TypeOK OBVIOUS
  <1>1. kind \in [QueueIds -> Kinds]
    BY KindsAssumption DEF Init
  <1>2. request \in [HandlerIds -> Request]
    BY RequestFacts DEF Init
  <1>3. event_queue \in [QueueIds -> Seq(Event)]
    BY DEF Init
  <1>4. zero_is_next \in BOOLEAN
    BY DEF Init
  <1>5. deletes \in 0 .. MaxDeletes /\ restarts \in 0 .. MaxRestarts
    BY BoundsAssumption DEF Init
  <1>6. /\ user_clients \in [Users -> SUBSET QueueIds]
        /\ current_handler_id \in [QueueIds -> HandlerIds \cup {NoHandler}]
        /\ descriptors_by_handler_id \in [HandlerIds -> QueueIds \cup {NoQueue}]
    BY DEF Init
  <1>7. offline \in [QueueIds -> BOOLEAN]
    BY DEF Init
  <1>8. idle \in [QueueIds -> 0 .. 2] /\ served \in [QueueIds -> Nat]
    BY DEF Init
  <1>9. /\ clients \subseteq QueueIds
        /\ realm_clients_all_streams \subseteq QueueIds
        /\ web_reload_clients \subseteq QueueIds
        /\ handlers \subseteq HandlerIds
        /\ cleanups \subseteq QueueIds
        /\ sent \subseteq Users \X Messages
        /\ seen \subseteq Users \X Messages
        /\ notified \subseteq Users \X Messages
        /\ duplicated \subseteq Users \X Messages
    BY DEF Init
  <1> QED BY <1>1, <1>2, <1>3, <1>4, <1>5, <1>6, <1>7, <1>8, <1>9 DEF TypeOK
---------------------------------------------------------------------------
(* What the shared parts of the handlers preserve of the types.            *)

LEMMA FinishTypes ==
  ASSUME TypeOK, NEW Q \in SUBSET QueueIds
  PROVE  /\ RequestsFinished(Q) \in [HandlerIds -> Request]
         /\ HandlersDisconnected(Q) \in [QueueIds -> HandlerIds \cup {NoHandler}]
         /\ DescriptorsCleared(Q) \in [HandlerIds -> QueueIds \cup {NoQueue}]
  BY RequestFacts
  DEF TypeOK, RequestsFinished, Answered, HandlersDisconnected, DescriptorsCleared

LEMMA ConnectionTypes ==
  ASSUME TypeOK, NEW Q \in SUBSET QueueIds, finish_current_handler(Q)
  PROVE  /\ request' \in [HandlerIds -> Request]
         /\ current_handler_id' \in [QueueIds -> HandlerIds \cup {NoHandler}]
         /\ descriptors_by_handler_id' \in [HandlerIds -> QueueIds \cup {NoQueue}]
  BY FinishTypes DEF finish_current_handler

LEMMA AddEventTypes ==
  ASSUME TypeOK, NEW Q \in SUBSET QueueIds, NEW event,
         \A q \in Q : event[q] \in Event,
         add_event(Q, event)
  PROVE  /\ event_queue' \in [QueueIds -> Seq(Event)]
         /\ served' \in [QueueIds -> Nat]
         /\ request' \in [HandlerIds -> Request]
         /\ current_handler_id' \in [QueueIds -> HandlerIds \cup {NoHandler}]
         /\ descriptors_by_handler_id' \in [HandlerIds -> QueueIds \cup {NoQueue}]
  <1>1. event_queue \in [QueueIds -> Seq(Event)] /\ served \in [QueueIds -> Nat]
    BY DEF TypeOK
  <1>2. \A q \in Q : Append(event_queue[q], event[q]) \in Seq(Event)
    BY <1>1
  <1>3. \A q \in QueueIds : Len(event_queue[q]) + 1 \in Nat
    BY <1>1
  <1>4. event_queue' \in [QueueIds -> Seq(Event)]
    BY <1>1, <1>2 DEF add_event
  <1>5. served' \in [QueueIds -> Nat]
    BY <1>1, <1>3 DEF add_event
  <1> QED BY <1>4, <1>5, ConnectionTypes DEF add_event

LEMMA RemoveTypes ==
  ASSUME TypeOK, NEW R \in SUBSET QueueIds, RemoveFromIndexes(R)
  PROVE  /\ clients' \subseteq QueueIds
         /\ user_clients' \in [Users -> SUBSET QueueIds]
         /\ realm_clients_all_streams' \subseteq QueueIds
         /\ web_reload_clients' \subseteq QueueIds
  BY DEF TypeOK, RemoveFromIndexes, UserClientsWithout

LEMMA HookNoticesType ==
  ASSUME TypeOK, NEW q \in QueueIds
  PROVE  HookNotices(q) \subseteq Users \X Messages
  <1>1. kind[q].user \in Users
    BY KindsAssumption DEF TypeOK
  <1>2. ASSUME NEW i \in 1 .. Len(event_queue[q]), event_queue[q][i].notify
        PROVE  event_queue[q][i].message \in Messages
    <2>1. event_queue[q][i] \in Event
      BY DEF TypeOK
    <2> QED BY <1>2, <2>1 DEF Event, OtherEvent
  <1> QED BY <1>1, <1>2 DEF HookNotices, MessagesHeld

LEMMA EnqueueTypes ==
  ASSUME TypeOK, NEW H \in SUBSET QueueIds, EnqueueFor(H)
  PROVE  /\ notified' \subseteq Users \X Messages
         /\ duplicated' \subseteq Users \X Messages
  BY HookNoticesType DEF EnqueueFor, TypeOK

LEMMA LeftType ==
  ASSUME TypeOK, NEW h \in HandlerIds, request[h].queue \in QueueIds,
         request[h].ack >= 0
  PROVE  Left(h) \in Seq(Event)
  <1>1. event_queue[request[h].queue] \in Seq(Event)
    BY DEF TypeOK
  <1>2. request[h].ack \in Int
    BY BoundsAssumption DEF TypeOK, Request
  <1> QED BY <1>1, <1>2 DEF Left

LEMMA FetchedTypes ==
  ASSUME TypeOK, NEW h \in HandlerIds, NEW q \in QueueIds, request[h].ack >= 0
  PROVE  RequestsFetched(h, q, request[h].ack) \in [HandlerIds -> Request]
  <1> DEFINE n == request[h].ack
  <1>1. n \in Nat
    BY BoundsAssumption DEF TypeOK, Request
  <1>2. ASSUME NEW g \in HandlerIds, NEW a \in -1 .. MaxPending
        PROVE  [request[g] EXCEPT !.ack = a] \in Request
    BY DEF TypeOK, Request
  <1>3. ASSUME NEW g \in HandlerIds
        PROVE  (IF request[g].ack - n < 0 THEN -1 ELSE request[g].ack - n)
                 \in -1 .. MaxPending
    BY <1>1, BoundsAssumption DEF TypeOK, Request
  <1>4. RequestsFinished({q}) \in [HandlerIds -> Request]
    BY FinishTypes
  <1> QED BY <1>2, <1>3, <1>4 DEF RequestsFetched

\* What Acknowledge leaves to its callers is the connections, offline and idle.
LEMMA AcknowledgeTypes ==
  ASSUME TypeOK, NEW h \in HandlerIds, Acknowledge(h)
  PROVE  /\ event_queue' \in [QueueIds -> Seq(Event)]
         /\ served' \in [QueueIds -> Nat]
         /\ seen' \subseteq Users \X Messages
         /\ request[h].queue \in QueueIds
         /\ RequestsFetched(h, request[h].queue, request[h].ack)
              \in [HandlerIds -> Request]
  <1> DEFINE q == request[h].queue
  <1>1. q \in QueueIds /\ request[h].ack >= 0
    BY DEF Acknowledge, TypeOK
  <1>2. Left(h) \in Seq(Event)
    BY <1>1, LeftType
  <1>3. event_queue' \in [QueueIds -> Seq(Event)]
    BY <1>2 DEF Acknowledge, TypeOK
  <1>4. served' \in [QueueIds -> Nat]
    BY <1>2 DEF Acknowledge, TypeOK
  <1>5. kind[q].user \in Users
    BY <1>1, KindsAssumption DEF TypeOK
  <1>6. seen' \subseteq Users \X Messages
    BY <1>5 DEF Acknowledge, TypeOK
  <1> QED BY <1>1, <1>3, <1>4, <1>5, <1>6, FetchedTypes
---------------------------------------------------------------------------
(* Type correctness: one lemma per group of actions.                       *)

LEMMA RegisterType ==
  ASSUME TypeOK, NEW q \in QueueIds, NEW k \in Kinds, Register(q, k)
  PROVE  TypeOK'
  <1>1. k.user \in Users
    BY KindsAssumption
  <1>2. /\ clients' \subseteq QueueIds
        /\ user_clients' \in [Users -> SUBSET QueueIds]
        /\ realm_clients_all_streams' \subseteq QueueIds
        /\ kind' \in [QueueIds -> Kinds]
    BY <1>1 DEF Register, TypeOK
  <1>3. /\ current_handler_id' \in [QueueIds -> HandlerIds \cup {NoHandler}]
        /\ event_queue' \in [QueueIds -> Seq(Event)]
        /\ served' \in [QueueIds -> Nat]
    BY DEF Register, TypeOK
  <1>4. offline' \in [QueueIds -> BOOLEAN] /\ idle' \in [QueueIds -> 0 .. 2]
    BY DEF Register, TypeOK
  <1>5. seen' \subseteq Users \X Messages
    BY DEF Register, TypeOK
  <1> QED BY <1>2, <1>3, <1>4, <1>5 DEF Register, TypeOK, bounds

LEMMA NewPollType ==
  ASSUME TypeOK, NEW h \in HandlerIds, NEW q \in QueueIds,
         NEW ack \in 0 .. MaxPending, NEW dont_block \in BOOLEAN,
         NewPoll(h, q, ack, dont_block)
  PROVE  TypeOK'
  <1>1. [state |-> "django", queue |-> q, ack |-> ack, dont_block |-> dont_block]
          \in Request
    BY DEF Request
  <1>2. request' \in [HandlerIds -> Request]
    BY <1>1 DEF NewPoll, TypeOK
  <1>3. handlers' \subseteq HandlerIds /\ zero_is_next' \in BOOLEAN
    BY DEF NewPoll, TypeOK
  <1> QED BY <1>2, <1>3 DEF NewPoll, TypeOK, indexes, queues, bounds, history

LEMMA HandlerStepType ==
  ASSUME TypeOK, NEW h \in HandlerIds, HandlerStep(h)
  PROVE  TypeOK'
  <1> DEFINE q == request[h].queue
  <1>0. Answered(h) \in Request
    BY RequestFacts DEF Answered
  <1>1. CASE FetchRefused(h)
    <2>1. request' \in [HandlerIds -> Request]
      BY <1>0, <1>1 DEF FetchRefused, TypeOK
    <2> QED BY <1>1, <2>1 DEF FetchRefused, TypeOK, indexes, queues, bounds, history
  <1>2. CASE FetchAnswered(h)
    <2>1. Acknowledge(h)
      BY <1>2 DEF FetchAnswered
    <2>2. request' \in [HandlerIds -> Request]
      BY <1>0, <1>2, <2>1, AcknowledgeTypes DEF FetchAnswered
    <2>3. /\ current_handler_id' \in [QueueIds -> HandlerIds \cup {NoHandler}]
          /\ descriptors_by_handler_id' \in [HandlerIds -> QueueIds \cup {NoQueue}]
      BY <1>2, <2>1, AcknowledgeTypes, FinishTypes DEF FetchAnswered
    <2> QED BY <1>2, <2>1, <2>2, <2>3, AcknowledgeTypes
            DEF FetchAnswered, Acknowledge, TypeOK, indexes, bounds
  <1>3. CASE FetchWaits(h)
    <2>1. Acknowledge(h)
      BY <1>3 DEF FetchWaits
    <2>2. q \in QueueIds
      BY <2>1, AcknowledgeTypes
    <2>3. request' \in [HandlerIds -> Request]
      BY <1>3, <2>1, AcknowledgeTypes, RequestFacts DEF FetchWaits
    <2>4. current_handler_id' \in [QueueIds -> HandlerIds \cup {NoHandler}]
      BY <1>3, <2>2 DEF FetchWaits, TypeOK
    <2>5. descriptors_by_handler_id' \in [HandlerIds -> QueueIds \cup {NoQueue}]
      BY <1>3, <2>2, FinishTypes DEF FetchWaits
    <2>6. idle' \in [QueueIds -> 0 .. 2]
      <3>1. idle' = [idle EXCEPT ![q] = 0] /\ idle \in [QueueIds -> 0 .. 2]
        BY <1>3 DEF FetchWaits, TypeOK
      <3> QED BY <2>2, <3>1
    <2>7. offline' \in [QueueIds -> BOOLEAN]
      BY <1>3 DEF FetchWaits, TypeOK
    <2> QED BY <2>1, <2>3, <2>4, <2>5, <2>6, <2>7, AcknowledgeTypes
            DEF Acknowledge, TypeOK, indexes, bounds
  <1>4. CASE FinishResponse(h)
    <2>1. request' \in [HandlerIds -> Request] /\ handlers' \subseteq HandlerIds
      BY <1>4, RequestFacts DEF FinishResponse, TypeOK
    <2> QED BY <1>4, <2>1 DEF FinishResponse, TypeOK, indexes, queues, bounds, history
  <1> QED BY <1>1, <1>2, <1>3, <1>4 DEF HandlerStep

LEMMA CloseConnectionType ==
  ASSUME TypeOK, NEW h \in HandlerIds, CloseConnection(h)
  PROVE  TypeOK'
  <1> DEFINE Q == {descriptors_by_handler_id[h]} \ {NoQueue}
  <1>1. Q \in SUBSET QueueIds
    BY DEF TypeOK
  <1>2. request' \in [HandlerIds -> Request] /\ handlers' \subseteq HandlerIds
    BY RequestFacts DEF CloseConnection, TypeOK
  <1> QED BY <1>1, <1>2, FinishTypes
          DEF CloseConnection, TypeOK, indexes, queues, bounds, history

LEMMA EventStepType ==
  ASSUME TypeOK,
         \/ \E q \in QueueIds : Heartbeat(q)
         \/ \E m \in Messages, us \in SUBSET Users, public \in BOOLEAN :
              \E away \in SUBSET us, refused \in SUBSET {q \in QueueIds : kind[q].narrow} :
                ProcessMessage(m, us, public, away, refused)
         \/ \E us \in SUBSET Users, asked_for \in BOOLEAN :
              ProcessEvent(us, asked_for)
         \/ \E Q \in SUBSET QueueIds : SendWebReload(Q)
  PROVE  TypeOK'
  <1>0. \A Q : \A q \in Q : OtherEvents(Q)[q] \in Event
    BY OtherEventType DEF OtherEvents
  <1>1. ASSUME NEW q \in QueueIds, Heartbeat(q) PROVE TypeOK'
    <2>1. add_event({q}, OtherEvents({q}))
      BY <1>1 DEF Heartbeat
    <2>2. /\ event_queue' \in [QueueIds -> Seq(Event)]
          /\ served' \in [QueueIds -> Nat]
          /\ request' \in [HandlerIds -> Request]
          /\ current_handler_id' \in [QueueIds -> HandlerIds \cup {NoHandler}]
          /\ descriptors_by_handler_id' \in [HandlerIds -> QueueIds \cup {NoQueue}]
      BY <1>0, <2>1, AddEventTypes
    <2> QED BY <1>1, <2>2 DEF Heartbeat, TypeOK, indexes, bounds, history
  <1>2. ASSUME NEW m \in Messages, NEW us \in SUBSET Users, NEW public \in BOOLEAN,
               NEW away \in SUBSET us,
               NEW refused \in SUBSET {q \in QueueIds : kind[q].narrow},
               ProcessMessage(m, us, public, away, refused)
        PROVE  TypeOK'
    <2> DEFINE now == {u \in us : receiver_is_off_zulip(u) \/ u \in away}
               queued == {q \in ClientsOfUsers(us) \cup
                              (IF public THEN realm_clients_all_streams ELSE {}) :
                            accepts_messages(q)} \ refused
               event == [q \in queued |->
                           [message |-> m, notify |-> kind[q].user \in us \ now]]
    <2>1. queued \in SUBSET QueueIds
      BY DEF TypeOK, ClientsOfUsers
    <2>2. \A q \in queued : event[q] \in Event
      BY DEF Event
    <2>3. add_event(queued, event)
      BY <1>2 DEF ProcessMessage
    <2>4. /\ event_queue' \in [QueueIds -> Seq(Event)]
          /\ served' \in [QueueIds -> Nat]
          /\ request' \in [HandlerIds -> Request]
          /\ current_handler_id' \in [QueueIds -> HandlerIds \cup {NoHandler}]
          /\ descriptors_by_handler_id' \in [HandlerIds -> QueueIds \cup {NoQueue}]
      <3> HIDE DEF queued, event
      <3> QED BY <2>1, <2>2, <2>3, AddEventTypes
    <2>5. /\ sent' \subseteq Users \X Messages
          /\ notified' \subseteq Users \X Messages
          /\ duplicated' \subseteq Users \X Messages
      BY <1>2 DEF ProcessMessage, TypeOK
    <2> QED BY <1>2, <2>4, <2>5 DEF ProcessMessage, TypeOK, indexes, bounds
  <1>3. ASSUME NEW us \in SUBSET Users, NEW asked_for \in BOOLEAN,
               ProcessEvent(us, asked_for)
        PROVE  TypeOK'
    <2> DEFINE queued == {q \in ClientsOfUsers(us) : kind[q].all_types \/ asked_for}
    <2>1. queued \in SUBSET QueueIds
      BY DEF TypeOK, ClientsOfUsers
    <2>2. add_event(queued, OtherEvents(queued))
      BY <1>3 DEF ProcessEvent
    <2>3. /\ event_queue' \in [QueueIds -> Seq(Event)]
          /\ served' \in [QueueIds -> Nat]
          /\ request' \in [HandlerIds -> Request]
          /\ current_handler_id' \in [QueueIds -> HandlerIds \cup {NoHandler}]
          /\ descriptors_by_handler_id' \in [HandlerIds -> QueueIds \cup {NoQueue}]
      <3> HIDE DEF queued
      <3> QED BY <1>0, <2>1, <2>2, AddEventTypes
    <2> QED BY <1>3, <2>3 DEF ProcessEvent, TypeOK, indexes, bounds, history
  <1>4. ASSUME NEW Q \in SUBSET QueueIds, SendWebReload(Q) PROVE TypeOK'
    <2>1. add_event(Q, OtherEvents(Q))
      BY <1>4 DEF SendWebReload
    <2>2. /\ event_queue' \in [QueueIds -> Seq(Event)]
          /\ served' \in [QueueIds -> Nat]
          /\ request' \in [HandlerIds -> Request]
          /\ current_handler_id' \in [QueueIds -> HandlerIds \cup {NoHandler}]
          /\ descriptors_by_handler_id' \in [HandlerIds -> QueueIds \cup {NoQueue}]
      BY <1>0, <2>1, AddEventTypes
    <2> QED BY <1>4, <2>2 DEF SendWebReload, TypeOK, indexes, bounds, history
  <1> QED BY <1>1, <1>2, <1>3, <1>4

LEMMA RemovalStepType ==
  ASSUME TypeOK,
         \/ \E q \in QueueIds : RequestCleanup(q) \/ CleanupStep(q)
         \/ Sweep
  PROVE  TypeOK'
  <1>1. ASSUME NEW q \in QueueIds, RequestCleanup(q) PROVE TypeOK'
    <2>1. deletes' \in 0 .. MaxDeletes
      BY <1>1, BoundsAssumption DEF RequestCleanup, TypeOK
    <2> QED BY <1>1, <2>1
            DEF RequestCleanup, TypeOK, indexes, queues, connections, history
  <1>2. ASSUME NEW q \in QueueIds, Cleanup(q) PROVE TypeOK'
    <2>1. LastForUser({q}) \in SUBSET QueueIds
      BY DEF LastForUser
    <2>2. /\ notified' \subseteq Users \X Messages
          /\ duplicated' \subseteq Users \X Messages
      BY <1>2, <2>1, EnqueueTypes DEF Cleanup
    <2>3. /\ request' \in [HandlerIds -> Request]
          /\ current_handler_id' \in [QueueIds -> HandlerIds \cup {NoHandler}]
          /\ descriptors_by_handler_id' \in [HandlerIds -> QueueIds \cup {NoQueue}]
      BY <1>2, ConnectionTypes DEF Cleanup
    <2>4. /\ clients' \subseteq QueueIds
          /\ user_clients' \in [Users -> SUBSET QueueIds]
          /\ realm_clients_all_streams' \subseteq QueueIds
          /\ web_reload_clients' \subseteq QueueIds
      BY <1>2, RemoveTypes DEF Cleanup
    <2> QED BY <1>2, <2>2, <2>3, <2>4 DEF Cleanup, TypeOK, queues, bounds
  <1>3. ASSUME NEW q \in QueueIds, CleanupTooLate(q) PROVE TypeOK'
    BY <1>3 DEF CleanupTooLate, TypeOK, indexes, queues, connections, bounds, history
  <1>4. CASE Sweep
    <2> DEFINE removed == {q \in clients : expired(q)}
               quiet   == {q \in clients \ removed : should_mark_offline(q)}
               H == LastForUser(removed) \cup
                      {q \in quiet : kind[q].user
                          \notin UsersWithActiveQueues(removed, quiet)}
    <2>1. removed \in SUBSET QueueIds /\ quiet \in SUBSET QueueIds
      BY DEF TypeOK
    <2>2. H \in SUBSET QueueIds
      BY <2>1 DEF LastForUser
    <2>3. EnqueueFor(H) /\ RemoveFromIndexes(removed)
      BY <1>4 DEF Sweep
    <2>4. offline' \in [QueueIds -> BOOLEAN]
      <3>1. offline' = [q \in QueueIds |-> offline[q] \/ q \in quiet]
        BY <1>4 DEF Sweep
      <3> QED BY <3>1
    <2> HIDE DEF removed, quiet, H
    <2>5. /\ notified' \subseteq Users \X Messages
          /\ duplicated' \subseteq Users \X Messages
      BY <2>2, <2>3, EnqueueTypes
    <2>6. /\ clients' \subseteq QueueIds
          /\ user_clients' \in [Users -> SUBSET QueueIds]
          /\ realm_clients_all_streams' \subseteq QueueIds
          /\ web_reload_clients' \subseteq QueueIds
      BY <2>1, <2>3, RemoveTypes
    <2> QED BY <1>4, <2>4, <2>5, <2>6 DEF Sweep, TypeOK, queues, connections, bounds
  <1> QED BY <1>1, <1>2, <1>3, <1>4 DEF CleanupStep

LEMMA AgeType ==
  ASSUME TypeOK, NEW q \in QueueIds, Age(q)
  PROVE  TypeOK'
  <1>1. idle' \in [QueueIds -> 0 .. 2]
    <2>1. idle \in [QueueIds -> 0 .. 2] /\ idle' = [idle EXCEPT ![q] = idle[q] + 1]
      BY DEF Age, TypeOK
    <2>2. idle[q] < 2 /\ idle[q] \in 0 .. 2
      BY DEF Age, Timeout, TypeOK
    <2> QED BY <2>1, <2>2
  <1> QED BY <1>1 DEF Age, TypeOK, indexes, queues, connections, bounds, history

LEMMA RestartType ==
  ASSUME TypeOK, NEW send_reloads \in BOOLEAN, Restart(send_reloads)
  PROVE  TypeOK'
  <1> DEFINE events == IF send_reloads THEN <<OtherEvent, OtherEvent>> ELSE <<OtherEvent>>
  <1>1. events \in Seq(Event)
    BY OtherEventType
  <1>2. event_queue' \in [QueueIds -> Seq(Event)]
    <2>1. \A q \in QueueIds : event_queue[q] \in Seq(Event)
      BY DEF TypeOK
    <2>2. \A q \in QueueIds : event_queue[q] \o events \in Seq(Event)
      BY <1>1, <2>1
    <2>3. event_queue' = [q \in QueueIds |-> IF q \in clients /\ kind[q].all_types
                                             THEN event_queue[q] \o events
                                             ELSE event_queue[q]]
      BY DEF Restart
    <2> QED BY <2>1, <2>2, <2>3
  <1>3. /\ user_clients' \in [Users -> SUBSET QueueIds]
        /\ realm_clients_all_streams' \subseteq QueueIds
        /\ web_reload_clients' \subseteq QueueIds
    BY DEF Restart, TypeOK
  <1>4. /\ current_handler_id' \in [QueueIds -> HandlerIds \cup {NoHandler}]
        /\ descriptors_by_handler_id' \in [HandlerIds -> QueueIds \cup {NoQueue}]
        /\ handlers' \subseteq HandlerIds /\ cleanups' \subseteq QueueIds
    BY DEF Restart
  <1>5. request' \in [HandlerIds -> Request]
    BY RequestFacts DEF Restart
  <1>6. zero_is_next' \in BOOLEAN
    BY DEF Restart
  <1>7. restarts' \in 0 .. MaxRestarts
    BY BoundsAssumption DEF Restart, TypeOK
  <1> QED BY <1>2, <1>3, <1>4, <1>5, <1>6, <1>7 DEF Restart, TypeOK, history

\* Every variable keeps its type under every callback of the process: only
\* events, queue ids and handler ids are ever stored where they are expected,
\* and "no handler" and "no queue" nowhere else (zerver/tornado).
THEOREM TypeCorrect == Spec => []TypeOK
  <1>1. TypeOK /\ [Next]_vars => TypeOK'
    <2> SUFFICES ASSUME TypeOK, [Next]_vars PROVE TypeOK' OBVIOUS
    <2>1. CASE Next
      BY <2>1, RegisterType, NewPollType, HandlerStepType, CloseConnectionType,
         EventStepType, RemovalStepType, AgeType, RestartType DEF Next
    <2>2. CASE UNCHANGED vars
      BY <2>2 DEF vars, TypeOK, indexes, queues, connections, bounds, history
    <2> QED BY <2>1, <2>2
  <1> QED BY InitType, <1>1, PTL DEF Spec
---------------------------------------------------------------------------
(* The indexes of the registered queues.  IndexesAgree is inductive.       *)

LEMMA RemoveKeepsIndexes ==
  ASSUME TypeOK, IndexesAgree, NEW R \in SUBSET QueueIds,
         RemoveFromIndexes(R), UNCHANGED kind
  PROVE  IndexesAgree'
  <1>1. ASSUME NEW u \in Users
        PROVE  user_clients'[u] = {q \in clients' : kind'[q].user = u}
    <2>1. user_clients[u] = {q \in clients : kind[q].user = u}
      BY DEF IndexesAgree
    <2>2. user_clients'[u] = UserClientsWithout(R)[u]
      BY DEF RemoveFromIndexes
    <2>3. CASE u \in {kind[q].user : q \in R}
      BY <2>1, <2>2, <2>3 DEF UserClientsWithout, RemoveFromIndexes
    <2>4. CASE u \notin {kind[q].user : q \in R}
      BY <2>1, <2>2, <2>4 DEF UserClientsWithout, RemoveFromIndexes
    <2> QED BY <2>3, <2>4
  <1>2. realm_clients_all_streams' = {q \in clients' : kind'[q].all_public_streams}
    BY DEF IndexesAgree, RemoveFromIndexes
  <1>3. web_reload_clients' \subseteq clients'
    BY DEF IndexesAgree, RemoveFromIndexes
  <1> QED BY <1>1, <1>2, <1>3 DEF IndexesAgree

LEMMA RegisterKeepsIndexes ==
  ASSUME TypeOK, IndexesAgree, NEW q \in QueueIds, NEW k \in Kinds, Register(q, k)
  PROVE  IndexesAgree'
  <1>1. q \notin clients
    BY DEF Register, FreeQueue
  <1>2. kind' = [kind EXCEPT ![q] = k] /\ kind \in [QueueIds -> Kinds]
    BY DEF Register, TypeOK
  <1>3. clients' = clients \cup {q} /\ clients \subseteq QueueIds
    BY DEF Register, TypeOK
  <1>4. ASSUME NEW u \in Users
        PROVE  user_clients'[u] = {p \in clients' : kind'[p].user = u}
    <2>1. user_clients[u] = {p \in clients : kind[p].user = u}
      BY DEF IndexesAgree
    <2>2. user_clients'[u] = IF u = k.user THEN user_clients[u] \cup {q}
                             ELSE user_clients[u]
      BY DEF Register, TypeOK
    <2> QED BY <1>1, <1>2, <1>3, <2>1, <2>2
  <1>5. realm_clients_all_streams' = {p \in clients' : kind'[p].all_public_streams}
    <2>1. realm_clients_all_streams = {p \in clients : kind[p].all_public_streams}
      BY DEF IndexesAgree
    <2>2. realm_clients_all_streams' =
            realm_clients_all_streams \cup {p \in {q} : k.all_public_streams}
      BY DEF Register
    <2> QED BY <1>1, <1>2, <1>3, <2>1, <2>2
  <1>6. web_reload_clients' \subseteq clients'
    BY <1>3 DEF Register, IndexesAgree
  <1> QED BY <1>4, <1>5, <1>6 DEF IndexesAgree

\* The indexes list exactly the registered queues, and the web-reload list
\* only registered ones, however registrations, removals and restarts
\* interleave (add_to_client_dicts, do_gc_event_queues, load_event_queues,
\* send_web_reload_client_events).
THEOREM IndexesCorrect == Spec => []IndexesAgree
  <1>1. Init => IndexesAgree
    BY DEF Init, IndexesAgree
  <1>2. TypeOK /\ IndexesAgree /\ [Next]_vars => IndexesAgree'
    <2> SUFFICES ASSUME TypeOK, IndexesAgree, [Next]_vars PROVE IndexesAgree'
      OBVIOUS
    <2> USE DEF indexes
    <2>0. ASSUME UNCHANGED <<indexes, web_reload_clients, kind>> PROVE IndexesAgree'
      BY <2>0 DEF IndexesAgree
    <2>1. ASSUME NEW q \in QueueIds, NEW k \in Kinds, Register(q, k)
          PROVE  IndexesAgree'
      BY <2>1, RegisterKeepsIndexes
    <2>2. ASSUME NEW h \in HandlerIds, NEW q \in QueueIds, NEW ack \in 0 .. MaxPending,
                 NEW b \in BOOLEAN, NewPoll(h, q, ack, b)
          PROVE  IndexesAgree'
      BY <2>0, <2>2 DEF NewPoll
    <2>3. ASSUME NEW h \in HandlerIds, HandlerStep(h) PROVE IndexesAgree'
      BY <2>0, <2>3 DEF HandlerStep, FetchRefused, FetchAnswered, FetchWaits,
                        Acknowledge, FinishResponse
    <2>4. ASSUME NEW h \in HandlerIds, CloseConnection(h) PROVE IndexesAgree'
      BY <2>0, <2>4 DEF CloseConnection
    <2>5. ASSUME NEW q \in QueueIds, Heartbeat(q) PROVE IndexesAgree'
      BY <2>0, <2>5 DEF Heartbeat
    <2>6. ASSUME NEW m \in Messages, NEW us \in SUBSET Users, NEW public \in BOOLEAN,
                 NEW away \in SUBSET us,
               NEW refused \in SUBSET {q \in QueueIds : kind[q].narrow},
               ProcessMessage(m, us, public, away, refused)
          PROVE  IndexesAgree'
      BY <2>0, <2>6 DEF ProcessMessage
    <2>7. ASSUME NEW us \in SUBSET Users, NEW asked_for \in BOOLEAN,
                 ProcessEvent(us, asked_for)
          PROVE  IndexesAgree'
      BY <2>0, <2>7 DEF ProcessEvent
    <2>8. ASSUME NEW Q \in SUBSET QueueIds, SendWebReload(Q) PROVE IndexesAgree'
      BY <2>8 DEF SendWebReload, IndexesAgree
    <2>9. ASSUME NEW q \in QueueIds, RequestCleanup(q) \/ CleanupStep(q)
          PROVE  IndexesAgree'
      <3>1. CASE RequestCleanup(q)
        BY <2>0, <3>1 DEF RequestCleanup
      <3>2. CASE Cleanup(q)
        BY <3>2, RemoveKeepsIndexes DEF Cleanup
      <3>3. CASE CleanupTooLate(q)
        BY <2>0, <3>3 DEF CleanupTooLate
      <3> QED BY <2>9, <3>1, <3>2, <3>3 DEF CleanupStep
    <2>10. ASSUME NEW q \in QueueIds, Age(q) PROVE IndexesAgree'
      BY <2>0, <2>10 DEF Age
    <2>11. CASE Sweep
      <3>1. {q \in clients : expired(q)} \in SUBSET QueueIds
        BY DEF TypeOK
      <3> QED BY <2>11, <3>1, RemoveKeepsIndexes DEF Sweep
    <2>12. ASSUME NEW send_reloads \in BOOLEAN, Restart(send_reloads)
           PROVE  IndexesAgree'
      BY <2>12 DEF Restart, IndexesAgree
    <2>13. CASE UNCHANGED vars
      BY <2>0, <2>13 DEF vars
    <2> QED BY <2>1, <2>2, <2>3, <2>4, <2>5, <2>6, <2>7, <2>8, <2>9, <2>10, <2>11,
               <2>12, <2>13 DEF Next
  <1> QED BY TypeCorrect, <1>1, <1>2, PTL DEF Spec
---------------------------------------------------------------------------
(* Queues and the handlers that long-poll them.  ConnectionInv is          *)
(* inductive: finish_current_handler keeps it for any set of queues, and   *)
(* only FetchWaits connects a handler, to an empty registered queue.       *)

LEMMA Disconnected ==
  ASSUME TypeOK, ConnectionInv, NEW Q \in SUBSET QueueIds,
         NEW p \in QueueIds, NEW g \in HandlerIds
  PROVE  /\ HandlersDisconnected(Q)[p] = g =>
              /\ p \notin Q
              /\ current_handler_id[p] = g
              /\ DescriptorsCleared(Q)[g] = p
              /\ RequestsFinished(Q)[g] = Waiting
         /\ g # 0 /\ DescriptorsCleared(Q)[g] = p =>
              HandlersDisconnected(Q)[p] = g
  <1>0. NoHandler # g /\ NoQueue # p
    BY HandlerIdsFacts, NoneAssumption
  <1>1. ASSUME HandlersDisconnected(Q)[p] = g
        PROVE  /\ p \notin Q
               /\ current_handler_id[p] = g
               /\ DescriptorsCleared(Q)[g] = p
               /\ RequestsFinished(Q)[g] = Waiting
    <2>1. p \notin Q /\ current_handler_id[p] = g
      BY <1>0, <1>1 DEF HandlersDisconnected
    <2>2. g \notin HandlersOf(Q)
      BY <2>1 DEF HandlersOf, ConnectionInv
    <2> QED BY <2>1, <2>2 DEF DescriptorsCleared, RequestsFinished, ConnectionInv
  <1>2. ASSUME g # 0, DescriptorsCleared(Q)[g] = p
        PROVE  HandlersDisconnected(Q)[p] = g
    <2>1. g \notin HandlersOf(Q) /\ descriptors_by_handler_id[g] = p
      BY <1>0, <1>2 DEF DescriptorsCleared
    <2>2. current_handler_id[p] = g
      BY <1>2, <2>1 DEF ConnectionInv
    <2>3. p \notin Q
      BY <1>0, <2>1, <2>2 DEF HandlersOf
    <2> QED BY <2>2, <2>3 DEF HandlersDisconnected
  <1> QED BY <1>1, <1>2

\* finish_current_handler on Q, by a step that leaves the queues outside Q
\* registered and, where a handler is connected, empty.
LEMMA FinishKeepsConnections ==
  ASSUME TypeOK, ConnectionInv, NEW Q \in SUBSET QueueIds,
         current_handler_id' = HandlersDisconnected(Q),
         descriptors_by_handler_id' = DescriptorsCleared(Q),
         \A p \in QueueIds, g \in HandlerIds :
           HandlersDisconnected(Q)[p] = g => request'[g] = RequestsFinished(Q)[g],
         \A p \in QueueIds \ Q : p \in clients => p \in clients',
         \A p \in QueueIds \ Q : event_queue'[p] = event_queue[p]
  PROVE  ConnectionInv'
  BY Disconnected DEF ConnectionInv

\* A request that is not the one being fetched waits afterwards exactly if
\* its long-poll was not supplanted.
LEMMA FetchedWaiting ==
  ASSUME TypeOK, NEW h \in HandlerIds, NEW q \in QueueIds, NEW n,
         NEW g \in HandlerIds \ {h}
  PROVE  (RequestsFetched(h, q, n)[g] = Waiting)
           <=> (RequestsFinished({q})[g] = Waiting)
  <1> DEFINE a == IF request[g].ack - n < 0 THEN -1 ELSE request[g].ack - n
  <1>1. CASE request[g].state = "django" /\ request[g].queue = q
    <2>1. RequestsFetched(h, q, n)[g] = [request[g] EXCEPT !.ack = a]
      BY <1>1 DEF RequestsFetched
    <2>2. request[g] \in Request
      BY DEF TypeOK
    <2>3. [request[g] EXCEPT !.ack = a].state = "django"
      <3> HIDE DEF a
      <3> QED BY <1>1, <2>2 DEF Request
    <2>4. RequestsFetched(h, q, n)[g] # Waiting
      BY <2>1, <2>3, RequestFacts
    <2>5. RequestsFinished({q})[g] # Waiting
      BY <1>1, RequestFacts DEF RequestsFinished, Answered
    <2> QED BY <2>4, <2>5
  <1>2. CASE ~(request[g].state = "django" /\ request[g].queue = q)
    BY <1>2 DEF RequestsFetched
  <1> QED BY <1>1, <1>2

LEMMA HandlerStepKeepsConnections ==
  ASSUME TypeOK, ConnectionInv, NEW h \in HandlerIds, HandlerStep(h)
  PROVE  ConnectionInv'
  <1> DEFINE q == request[h].queue
             n == request[h].ack
  <1>1. CASE FetchRefused(h)
    <2>1. request[h] # Waiting
      BY <1>1, RequestFacts DEF FetchRefused
    <2>2. \A g \in HandlerIds \ {h} : request'[g] = request[g]
      BY <1>1 DEF FetchRefused, TypeOK
    <2> QED BY <1>1, <2>1, <2>2 DEF FetchRefused, ConnectionInv, indexes, queues
  <1>2. ASSUME Acknowledge(h)
        PROVE  /\ q \in QueueIds /\ q \in clients
               /\ request[h] # Waiting
               /\ \A p \in QueueIds : current_handler_id[p] # h
               /\ clients' = clients
               /\ \A p \in QueueIds \ {q} : event_queue'[p] = event_queue[p]
               /\ event_queue'[q] = Left(h)
    <2>1. q \in QueueIds /\ q \in clients
      BY <1>2 DEF Acknowledge, TypeOK
    <2>2. request[h] # Waiting
      BY <1>2, RequestFacts DEF Acknowledge
    <2> QED BY <1>2, <2>1, <2>2 DEF Acknowledge, ConnectionInv, TypeOK, indexes
  <1>3. CASE FetchAnswered(h)
    <2>1. Acknowledge(h)
      BY <1>3 DEF FetchAnswered
    <2>2. current_handler_id' = HandlersDisconnected({q})
          /\ descriptors_by_handler_id' = DescriptorsCleared({q})
      BY <1>3 DEF FetchAnswered
    <2>3. ASSUME NEW p \in QueueIds, NEW g \in HandlerIds,
                 HandlersDisconnected({q})[p] = g
          PROVE  request'[g] = RequestsFinished({q})[g]
      <3>1. current_handler_id[p] = g /\ RequestsFinished({q})[g] = Waiting
        BY <1>2, <2>1, <2>3, Disconnected
      <3>2. g # h
        BY <1>2, <2>1, <3>1
      <3>3. request'[g] = RequestsFetched(h, q, n)[g]
        BY <1>2, <1>3, <2>1, <3>2, FetchedTypes DEF FetchAnswered, Acknowledge
      <3> QED BY <1>2, <2>1, <3>1, <3>2, <3>3, FetchedWaiting
    <2> HIDE DEF q, n
    <2> QED BY <1>2, <2>1, <2>2, <2>3, FinishKeepsConnections
  <1>4. CASE FetchWaits(h)
    <2>1. Acknowledge(h)
      BY <1>4 DEF FetchWaits
    <2>2. /\ current_handler_id' = [current_handler_id EXCEPT ![q] = h]
          /\ descriptors_by_handler_id' = [DescriptorsCleared({q}) EXCEPT ![h] = q]
          /\ request' = [RequestsFetched(h, q, n) EXCEPT ![h] = Waiting]
          /\ event_queue'[q] = <<>>
      BY <1>2, <1>4, <2>1 DEF FetchWaits
    <2>3. /\ q \in QueueIds /\ q \in clients'
          /\ \A p \in QueueIds : current_handler_id[p] # h
      BY <1>2, <2>1
    <2>4. ASSUME NEW p \in QueueIds, NEW g \in HandlerIds,
                 current_handler_id'[p] = g
          PROVE  /\ descriptors_by_handler_id'[g] = p
                 /\ request'[g] = Waiting
                 /\ p \in clients'
                 /\ event_queue'[p] = <<>>
      <3>1. RequestsFetched(h, q, n) \in [HandlerIds -> Request]
        BY <2>1, <2>3, FetchedTypes DEF Acknowledge
      <3>2. DescriptorsCleared({q}) \in [HandlerIds -> QueueIds \cup {NoQueue}]
        BY <2>3, FinishTypes
      <3>3. CASE p = q
        BY <2>2, <2>3, <2>4, <3>1, <3>2, <3>3 DEF TypeOK
      <3>4. CASE p # q
        <4>1. current_handler_id[p] = g /\ g # h
          BY <2>2, <2>3, <2>4, <3>4 DEF TypeOK
        <4>2. HandlersDisconnected({q})[p] = g
          BY <3>4, <4>1 DEF HandlersDisconnected
        <4>3. DescriptorsCleared({q})[g] = p /\ RequestsFinished({q})[g] = Waiting
          BY <2>3, <4>2, Disconnected
        <4>4. RequestsFetched(h, q, n)[g] = Waiting
          BY <2>3, <4>1, <4>3, FetchedWaiting
        <4>5. p \in clients' /\ event_queue'[p] = <<>>
          BY <1>2, <2>1, <3>4, <4>1 DEF ConnectionInv
        <4> QED BY <2>2, <3>1, <3>2, <4>1, <4>3, <4>4, <4>5
      <3> QED BY <3>3, <3>4
    <2>5. ASSUME NEW p \in QueueIds, NEW g \in HandlerIds \ {0},
                 descriptors_by_handler_id'[g] = p
          PROVE  current_handler_id'[p] = g
      <3>2. DescriptorsCleared({q}) \in [HandlerIds -> QueueIds \cup {NoQueue}]
        BY <2>3, FinishTypes
      <3>3. CASE g = h
        BY <2>2, <2>3, <2>5, <3>2, <3>3 DEF TypeOK
      <3>4. CASE g # h
        <4>1. DescriptorsCleared({q})[g] = p
          BY <2>2, <2>5, <3>2, <3>4
        <4>2. HandlersDisconnected({q})[p] = g
          BY <2>3, <4>1, Disconnected
        <4>3. p # q /\ current_handler_id[p] = g
          BY <2>3, <4>2, Disconnected
        <4> QED BY <2>2, <4>3 DEF TypeOK
      <3> QED BY <3>3, <3>4
    <2> HIDE DEF q, n
    <2> QED BY <2>4, <2>5 DEF ConnectionInv
  <1>5. CASE FinishResponse(h)
    <2>1. request[h] # Waiting
      BY <1>5, RequestFacts DEF FinishResponse
    <2>2. \A g \in HandlerIds \ {h} : request'[g] = request[g]
      BY <1>5 DEF FinishResponse, TypeOK
    <2> QED BY <1>5, <2>1, <2>2 DEF FinishResponse, ConnectionInv, indexes, queues
  <1> QED BY <1>1, <1>3, <1>4, <1>5 DEF HandlerStep

\* add_event, by a step that keeps the registered queues.
LEMMA AddEventKeepsConnections ==
  ASSUME TypeOK, ConnectionInv, NEW Q \in SUBSET QueueIds, NEW event,
         add_event(Q, event), UNCHANGED clients
  PROVE  ConnectionInv'
  <1>1. /\ current_handler_id' = HandlersDisconnected(Q)
        /\ descriptors_by_handler_id' = DescriptorsCleared(Q)
        /\ request' = RequestsFinished(Q)
    BY DEF add_event, finish_current_handler
  <1>2. \A p \in QueueIds \ Q : event_queue'[p] = event_queue[p]
    BY DEF add_event
  <1> QED BY <1>1, <1>2, FinishKeepsConnections

LEMMA CloseKeepsConnections ==
  ASSUME TypeOK, ConnectionInv, NEW h \in HandlerIds, CloseConnection(h)
  PROVE  ConnectionInv'
  <1> DEFINE Q == {descriptors_by_handler_id[h]} \ {NoQueue}
  <1>1. Q \in SUBSET QueueIds
    BY DEF TypeOK
  <1>2. ASSUME NEW p \in QueueIds, NEW g \in HandlerIds,
               HandlersDisconnected(Q)[p] = g
        PROVE  request'[g] = RequestsFinished(Q)[g]
    <2>1. p \notin Q /\ current_handler_id[p] = g /\ RequestsFinished(Q)[g] = Waiting
      BY <1>1, <1>2, Disconnected
    <2>2. descriptors_by_handler_id[g] = p /\ request[g] = Waiting
      BY <2>1 DEF ConnectionInv
    <2>3. g # h
      BY <2>1, <2>2, NoneAssumption
    <2> QED BY <2>1, <2>2, <2>3 DEF CloseConnection, TypeOK
  <1>3. /\ current_handler_id' = HandlersDisconnected(Q)
        /\ descriptors_by_handler_id' = DescriptorsCleared(Q)
        /\ clients' = clients /\ event_queue' = event_queue
    BY DEF CloseConnection, indexes, queues
  <1> HIDE DEF Q
  <1> QED BY <1>1, <1>2, <1>3, FinishKeepsConnections

LEMMA RegisterKeepsConnections ==
  ASSUME TypeOK, ConnectionInv, NEW q \in QueueIds, NEW k \in Kinds, Register(q, k)
  PROVE  ConnectionInv'
  <1>1. q \notin clients
    BY DEF Register, FreeQueue
  <1>2. current_handler_id[q] = NoHandler
    BY <1>1 DEF ConnectionInv, TypeOK
  <1>3. current_handler_id' = current_handler_id
    BY <1>2 DEF Register, TypeOK
  <1>4. /\ event_queue' = [event_queue EXCEPT ![q] = <<>>]
        /\ clients' = clients \cup {q}
        /\ UNCHANGED <<descriptors_by_handler_id, request>>
    BY DEF Register
  <1> QED BY <1>3, <1>4 DEF ConnectionInv, TypeOK

LEMMA NextKeepsConnections == TypeOK /\ ConnectionInv /\ [Next]_vars => ConnectionInv'
  <1> SUFFICES ASSUME TypeOK, ConnectionInv, [Next]_vars PROVE ConnectionInv'
    OBVIOUS
  <1>0. ASSUME UNCHANGED <<connections, clients, event_queue>> PROVE ConnectionInv'
    BY <1>0 DEF ConnectionInv, connections
  <1>1. ASSUME NEW q \in QueueIds, NEW k \in Kinds, Register(q, k)
        PROVE  ConnectionInv'
    BY <1>1, RegisterKeepsConnections
  <1>2. ASSUME NEW h \in HandlerIds, NEW q \in QueueIds, NEW ack \in 0 .. MaxPending,
               NEW b \in BOOLEAN, NewPoll(h, q, ack, b)
        PROVE  ConnectionInv'
    <2>1. request[h] # Waiting
      BY <1>2, RequestFacts DEF NewPoll, FreeHandler
    <2>2. \A g \in HandlerIds \ {h} : request'[g] = request[g]
      BY <1>2 DEF NewPoll, TypeOK
    <2> QED BY <1>2, <2>1, <2>2 DEF NewPoll, ConnectionInv, indexes, queues
  <1>3. ASSUME NEW h \in HandlerIds, HandlerStep(h) PROVE ConnectionInv'
    BY <1>3, HandlerStepKeepsConnections
  <1>4. ASSUME NEW h \in HandlerIds, CloseConnection(h) PROVE ConnectionInv'
    BY <1>4, CloseKeepsConnections
  <1>5. ASSUME NEW q \in QueueIds, Heartbeat(q) PROVE ConnectionInv'
    BY <1>5, AddEventKeepsConnections DEF Heartbeat, indexes
  <1>6. ASSUME NEW m \in Messages, NEW us \in SUBSET Users, NEW public \in BOOLEAN,
               NEW away \in SUBSET us,
               NEW refused \in SUBSET {q \in QueueIds : kind[q].narrow},
               ProcessMessage(m, us, public, away, refused)
        PROVE  ConnectionInv'
    <2> DEFINE now == {u \in us : receiver_is_off_zulip(u) \/ u \in away}
               queued == {q \in ClientsOfUsers(us) \cup
                              (IF public THEN realm_clients_all_streams ELSE {}) :
                            accepts_messages(q)} \ refused
               event == [q \in queued |->
                           [message |-> m, notify |-> kind[q].user \in us \ now]]
    <2>1. queued \in SUBSET QueueIds
      BY DEF TypeOK, ClientsOfUsers
    <2>2. add_event(queued, event) /\ UNCHANGED clients
      BY <1>6 DEF ProcessMessage, indexes
    <2> HIDE DEF queued, event
    <2> QED BY <2>1, <2>2, AddEventKeepsConnections
  <1>7. ASSUME NEW us \in SUBSET Users, NEW asked_for \in BOOLEAN,
               ProcessEvent(us, asked_for)
        PROVE  ConnectionInv'
    <2> DEFINE queued == {q \in ClientsOfUsers(us) : kind[q].all_types \/ asked_for}
    <2>1. queued \in SUBSET QueueIds
      BY DEF TypeOK, ClientsOfUsers
    <2>2. add_event(queued, OtherEvents(queued)) /\ UNCHANGED clients
      BY <1>7 DEF ProcessEvent, indexes
    <2> HIDE DEF queued
    <2> QED BY <2>1, <2>2, AddEventKeepsConnections
  <1>8. ASSUME NEW Q \in SUBSET QueueIds, SendWebReload(Q) PROVE ConnectionInv'
    BY <1>8, AddEventKeepsConnections DEF SendWebReload, indexes
  <1>9. ASSUME NEW q \in QueueIds, RequestCleanup(q) \/ CleanupStep(q)
        PROVE  ConnectionInv'
    <2>1. CASE RequestCleanup(q)
      BY <1>0, <2>1 DEF RequestCleanup, indexes, queues
    <2>2. CASE Cleanup(q)
      <3>1. /\ current_handler_id' = HandlersDisconnected({q})
            /\ descriptors_by_handler_id' = DescriptorsCleared({q})
            /\ request' = RequestsFinished({q})
            /\ clients' = clients \ {q}
            /\ event_queue' = event_queue
        BY <2>2 DEF Cleanup, finish_current_handler, RemoveFromIndexes, queues
      <3> QED BY <3>1, FinishKeepsConnections
    <2>3. CASE CleanupTooLate(q)
      BY <1>0, <2>3 DEF CleanupTooLate, indexes, queues
    <2> QED BY <1>9, <2>1, <2>2, <2>3 DEF CleanupStep
  <1>10. ASSUME NEW q \in QueueIds, Age(q) PROVE ConnectionInv'
    BY <1>0, <1>10 DEF Age, indexes, queues
  <1>11. CASE Sweep
    <2>1. /\ UNCHANGED <<connections, event_queue>>
          /\ clients' = clients \ {q \in clients : expired(q)}
      BY <1>11 DEF Sweep, RemoveFromIndexes, queues
    <2>2. ASSUME NEW q \in clients, NEW h \in HandlerIds, current_handler_id[q] = h
          PROVE  q \in clients'
      BY <2>1, <2>2, HandlerIdsFacts DEF expired
    <2> QED BY <2>1, <2>2 DEF ConnectionInv, connections
  <1>12. ASSUME NEW send_reloads \in BOOLEAN, Restart(send_reloads)
         PROVE  ConnectionInv'
    BY <1>12, HandlerIdsFacts, NoneAssumption DEF Restart, ConnectionInv
  <1>13. CASE UNCHANGED vars
    BY <1>0, <1>13 DEF vars, indexes, queues
  <1> QED BY <1>1, <1>2, <1>3, <1>4, <1>5, <1>6, <1>7, <1>8, <1>9, <1>10, <1>11,
             <1>12, <1>13 DEF Next

LEMMA ConnectionsInvariant == Spec => []ConnectionInv
  <1>1. Init => ConnectionInv
    BY HandlerIdsFacts, NoneAssumption DEF Init, ConnectionInv
  <1> QED BY TypeCorrect, <1>1, NextKeepsConnections, PTL DEF Spec

\* While a long-poll is connected, its queue is empty (add_event answers the
\* poll it finds; fetch_events connects a handler only when it has nothing
\* to send).
THEOREM NoEventWaits == Spec => []ConnectedQueueEmpty
  <1>1. TypeOK /\ ConnectionInv => ConnectedQueueEmpty
    BY DEF TypeOK, ConnectionInv, ConnectedQueueEmpty
  <1> QED BY TypeCorrect, ConnectionsInvariant, <1>1, PTL

\* current_handler_id and descriptors_by_handler_id are inverse to one
\* another for every handler but 0 (connect_handler, disconnect_handler).
THEOREM HandlerMapsCorrect == Spec => []HandlerMapsAgree
  <1>1. ConnectionInv => HandlerMapsAgree
    BY DEF ConnectionInv, HandlerMapsAgree
  <1> QED BY ConnectionsInvariant, <1>1, PTL
---------------------------------------------------------------------------
(* No long-poll is forgotten.  A step that disconnects the queues Q leaves *)
(* waiting only requests whose queue is outside Q; that CloseConnection    *)
(* disconnects nobody else's long-poll needs handler ids other than 0.     *)

LEMMA FinishKeepsWaiting ==
  ASSUME TypeOK, ConnectionInv', WaitingPollRegistered, NEW Q \in SUBSET QueueIds,
         current_handler_id' = HandlersDisconnected(Q),
         NEW h \in HandlerIds, RequestsFinished(Q)[h] = Waiting, h \in handlers
  PROVE  \E q \in clients' : current_handler_id'[q] = h
  <1>1. h \notin HandlersOf(Q) /\ request[h] = Waiting
    BY RequestFacts DEF RequestsFinished, Answered
  <1>2. PICK q \in clients : current_handler_id[q] = h
    BY <1>1 DEF WaitingPollRegistered
  <1>3. q \in QueueIds /\ q \notin Q
    BY <1>1, <1>2, HandlerIdsFacts DEF HandlersOf, TypeOK
  <1>4. current_handler_id'[q] = h
    BY <1>2, <1>3 DEF HandlersDisconnected
  <1> QED BY <1>3, <1>4 DEF ConnectionInv

\* A step that connects and disconnects nobody.
LEMMA UnchangedKeepsWaiting ==
  ASSUME TypeOK, ConnectionInv', WaitingPollRegistered,
         current_handler_id' = current_handler_id,
         handlers' \subseteq HandlerIds,
         \A h \in handlers' : request'[h] = Waiting =>
                                h \in handlers /\ request[h] = Waiting
  PROVE  WaitingPollRegistered'
  BY DEF TypeOK, ConnectionInv, WaitingPollRegistered

LEMMA AddEventKeepsWaiting ==
  ASSUME TypeOK, ConnectionInv', WaitingPollRegistered, NEW Q \in SUBSET QueueIds,
         NEW event, add_event(Q, event), UNCHANGED handlers
  PROVE  WaitingPollRegistered'
  <1> SUFFICES ASSUME NEW h \in handlers', request'[h] = Waiting
               PROVE  \E q \in clients' : current_handler_id'[q] = h
    BY DEF WaitingPollRegistered
  <1>1. h \in HandlerIds /\ h \in handlers
    BY DEF TypeOK
  <1>2. /\ current_handler_id' = HandlersDisconnected(Q)
        /\ RequestsFinished(Q)[h] = Waiting
    BY DEF add_event, finish_current_handler
  <1> QED BY <1>1, <1>2, FinishKeepsWaiting

LEMMA FetchKeepsWaiting ==
  ASSUME TypeOK, ConnectionInv, ConnectionInv', WaitingPollRegistered,
         NEW h \in HandlerIds, FetchAnswered(h) \/ FetchWaits(h)
  PROVE  WaitingPollRegistered'
  <1> DEFINE q == request[h].queue
             n == request[h].ack
  <1> SUFFICES ASSUME NEW g \in handlers', request'[g] = Waiting
               PROVE  \E p \in clients' : current_handler_id'[p] = g
    BY DEF WaitingPollRegistered
  <1>1. Acknowledge(h)
    BY DEF FetchAnswered, FetchWaits
  <1>2. /\ q \in QueueIds /\ q \in clients'
        /\ g \in HandlerIds /\ g \in handlers
        /\ n >= 0
    BY <1>1 DEF Acknowledge, TypeOK, indexes
  <1>3. RequestsFetched(h, q, n) \in [HandlerIds -> Request]
    BY <1>2, FetchedTypes
  <1>4. ASSUME g # h PROVE RequestsFinished({q})[g] = Waiting
    <2>1. request'[g] = RequestsFetched(h, q, n)[g]
      BY <1>2, <1>3, <1>4 DEF FetchAnswered, FetchWaits
    <2> QED BY <1>2, <1>4, <2>1, FetchedWaiting
  <1>5. CASE FetchAnswered(h)
    <2>1. g # h
      BY <1>2, <1>3, <1>5, RequestFacts DEF FetchAnswered, Answered
    <2>2. current_handler_id' = HandlersDisconnected({q})
      BY <1>5 DEF FetchAnswered
    <2> QED BY <1>2, <1>4, <2>1, <2>2, FinishKeepsWaiting
  <1>6. CASE FetchWaits(h)
    <2>1. current_handler_id' = [current_handler_id EXCEPT ![q] = h]
      BY <1>6 DEF FetchWaits
    <2>2. CASE g = h
      BY <1>2, <2>1, <2>2 DEF TypeOK
    <2>3. CASE g # h
      <3>1. g \notin HandlersOf({q}) /\ request[g] = Waiting
        BY <1>2, <1>4, <2>3, RequestFacts DEF RequestsFinished, Answered
      <3>2. PICK p \in clients : current_handler_id[p] = g
        BY <1>2, <3>1 DEF WaitingPollRegistered
      <3>3. p # q
        BY <1>2, <3>1, <3>2, HandlerIdsFacts DEF HandlersOf
      <3>4. current_handler_id'[p] = g
        BY <2>1, <3>2, <3>3 DEF TypeOK
      <3>5. p \in clients'
        BY <1>1, <3>2 DEF Acknowledge, indexes
      <3> QED BY <3>4, <3>5
    <2> QED BY <2>2, <2>3
  <1> QED BY <1>5, <1>6

LEMMA CloseKeepsWaiting ==
  ASSUME FirstHandlerId = 1, TypeOK, ConnectionInv, ConnectionInv',
         WaitingPollRegistered, NEW h \in HandlerIds, CloseConnection(h)
  PROVE  WaitingPollRegistered'
  <1> DEFINE Q == {descriptors_by_handler_id[h]} \ {NoQueue}
  <1> SUFFICES ASSUME NEW g \in handlers', request'[g] = Waiting
               PROVE  \E p \in clients' : current_handler_id'[p] = g
    BY DEF WaitingPollRegistered
  <1>1. Q \in SUBSET QueueIds
    BY DEF TypeOK
  <1>2. g \in HandlerIds /\ g \in handlers /\ g # h
    BY DEF CloseConnection, TypeOK
  <1>3. request[g] = Waiting
    BY <1>2 DEF CloseConnection, TypeOK
  <1>4. \A p \in Q : current_handler_id[p] = h
    BY <1>1, HandlerIdsFacts DEF ConnectionInv
  <1>5. RequestsFinished(Q)[g] = Waiting
    BY <1>2, <1>3, <1>4 DEF RequestsFinished, HandlersOf
  <1>6. current_handler_id' = HandlersDisconnected(Q)
    BY DEF CloseConnection
  <1> HIDE DEF Q
  <1> QED BY <1>1, <1>2, <1>5, <1>6, FinishKeepsWaiting

LEMMA NextKeepsWaiting ==
  ASSUME FirstHandlerId = 1, TypeOK, TypeOK', ConnectionInv, ConnectionInv',
         WaitingPollRegistered, [Next]_vars
  PROVE  WaitingPollRegistered'
  <1>0. handlers' \subseteq HandlerIds
    BY DEF TypeOK
  <1>1. ASSUME NEW q \in QueueIds, NEW k \in Kinds, Register(q, k)
        PROVE  WaitingPollRegistered'
    <2>1. current_handler_id[q] = NoHandler
      BY <1>1 DEF Register, FreeQueue, ConnectionInv, TypeOK
    <2>2. UNCHANGED <<current_handler_id, handlers, request>>
      BY <1>1, <2>1 DEF Register, TypeOK
    <2> QED BY <1>0, <2>2, UnchangedKeepsWaiting
  <1>2. ASSUME NEW h \in HandlerIds, NEW q \in QueueIds, NEW ack \in 0 .. MaxPending,
               NEW b \in BOOLEAN, NewPoll(h, q, ack, b)
        PROVE  WaitingPollRegistered'
    <2>1. request'[h] # Waiting
      BY <1>2, RequestFacts DEF NewPoll, TypeOK
    <2>2. \A g \in HandlerIds \ {h} : request'[g] = request[g]
      BY <1>2 DEF NewPoll, TypeOK
    <2> QED BY <1>0, <1>2, <2>1, <2>2, UnchangedKeepsWaiting DEF NewPoll
  <1>3. ASSUME NEW h \in HandlerIds, HandlerStep(h) PROVE WaitingPollRegistered'
    <2>1. CASE FetchRefused(h) \/ FinishResponse(h)
      <3>1. request'[h] # Waiting
        BY <2>1, RequestFacts DEF FetchRefused, FinishResponse, Answered, TypeOK
      <3>2. \A g \in HandlerIds \ {h} : request'[g] = request[g]
        BY <2>1 DEF FetchRefused, FinishResponse, TypeOK
      <3>3. UNCHANGED current_handler_id /\ handlers' \subseteq handlers
        BY <2>1 DEF FetchRefused, FinishResponse
      <3> QED BY <1>0, <3>1, <3>2, <3>3, UnchangedKeepsWaiting
    <2>2. CASE FetchAnswered(h) \/ FetchWaits(h)
      BY <2>2, FetchKeepsWaiting
    <2> QED BY <1>3, <2>1, <2>2 DEF HandlerStep
  <1>4. ASSUME NEW h \in HandlerIds, CloseConnection(h) PROVE WaitingPollRegistered'
    BY <1>4, CloseKeepsWaiting
  <1>5. ASSUME NEW q \in QueueIds, Heartbeat(q) PROVE WaitingPollRegistered'
    BY <1>5, AddEventKeepsWaiting DEF Heartbeat
  <1>6. ASSUME NEW m \in Messages, NEW us \in SUBSET Users, NEW public \in BOOLEAN,
               NEW away \in SUBSET us,
               NEW refused \in SUBSET {q \in QueueIds : kind[q].narrow},
               ProcessMessage(m, us, public, away, refused)
        PROVE  WaitingPollRegistered'
    <2> DEFINE now == {u \in us : receiver_is_off_zulip(u) \/ u \in away}
               queued == {q \in ClientsOfUsers(us) \cup
                              (IF public THEN realm_clients_all_streams ELSE {}) :
                            accepts_messages(q)} \ refused
               event == [q \in queued |->
                           [message |-> m, notify |-> kind[q].user \in us \ now]]
    <2>1. queued \in SUBSET QueueIds
      BY DEF TypeOK, ClientsOfUsers
    <2>2. add_event(queued, event) /\ UNCHANGED handlers
      BY <1>6 DEF ProcessMessage
    <2> HIDE DEF queued, event
    <2> QED BY <2>1, <2>2, AddEventKeepsWaiting
  <1>7. ASSUME NEW us \in SUBSET Users, NEW asked_for \in BOOLEAN,
               ProcessEvent(us, asked_for)
        PROVE  WaitingPollRegistered'
    <2> DEFINE queued == {q \in ClientsOfUsers(us) : kind[q].all_types \/ asked_for}
    <2>1. queued \in SUBSET QueueIds
      BY DEF TypeOK, ClientsOfUsers
    <2>2. add_event(queued, OtherEvents(queued)) /\ UNCHANGED handlers
      BY <1>7 DEF ProcessEvent
    <2> HIDE DEF queued
    <2> QED BY <2>1, <2>2, AddEventKeepsWaiting
  <1>8. ASSUME NEW Q \in SUBSET QueueIds, SendWebReload(Q)
        PROVE  WaitingPollRegistered'
    BY <1>8, AddEventKeepsWaiting DEF SendWebReload
  <1>9. ASSUME NEW q \in QueueIds, RequestCleanup(q) \/ CleanupStep(q)
        PROVE  WaitingPollRegistered'
    <2>1. CASE RequestCleanup(q) \/ CleanupTooLate(q)
      BY <1>0, <2>1, UnchangedKeepsWaiting DEF RequestCleanup, CleanupTooLate, connections
    <2>2. CASE Cleanup(q)
      <3> SUFFICES ASSUME NEW h \in handlers', request'[h] = Waiting
                   PROVE  \E p \in clients' : current_handler_id'[p] = h
        BY DEF WaitingPollRegistered
      <3>1. h \in HandlerIds /\ h \in handlers
        BY <1>0, <2>2 DEF Cleanup
      <3>2. /\ current_handler_id' = HandlersDisconnected({q})
            /\ RequestsFinished({q})[h] = Waiting
        BY <2>2 DEF Cleanup, finish_current_handler
      <3> QED BY <3>1, <3>2, FinishKeepsWaiting
    <2> QED BY <1>9, <2>1, <2>2 DEF CleanupStep
  <1>10. ASSUME NEW q \in QueueIds, Age(q) PROVE WaitingPollRegistered'
    BY <1>0, <1>10, UnchangedKeepsWaiting DEF Age, connections
  <1>11. CASE Sweep
    BY <1>0, <1>11, UnchangedKeepsWaiting DEF Sweep, connections
  <1>12. ASSUME NEW send_reloads \in BOOLEAN, Restart(send_reloads)
         PROVE  WaitingPollRegistered'
    BY <1>12 DEF Restart, WaitingPollRegistered
  <1>13. CASE UNCHANGED vars
    BY <1>0, <1>13, UnchangedKeepsWaiting DEF vars, connections
  <1> QED BY <1>1, <1>2, <1>3, <1>4, <1>5, <1>6, <1>7, <1>8, <1>9, <1>10, <1>11,
             <1>12, <1>13 DEF Next

\* No long-poll with an open connection is ever left without a registered
\* queue to answer it, provided handler ids start at 1 (fetch_events, cleanup,
\* do_gc_event_queues, on_connection_close, in any interleaving).  TLC finds it
\* false with FirstHandlerId = 0, which disconnect_handler does not clear.
THEOREM NoPollForgotten ==
  ASSUME FirstHandlerId = 1
  PROVE  Spec => []WaitingPollRegistered
  <1>1. Init => WaitingPollRegistered
    BY DEF Init, WaitingPollRegistered
  <1>2. /\ TypeOK /\ TypeOK' /\ ConnectionInv /\ ConnectionInv'
        /\ WaitingPollRegistered /\ [Next]_vars
        => WaitingPollRegistered'
    BY NextKeepsWaiting
  <1> QED BY TypeCorrect, ConnectionsInvariant, <1>1, <1>2, PTL DEF Spec
---------------------------------------------------------------------------
(* No notification is missed.  Every queue that takes messages, offline or *)
(* not, holds what was sent to its user and neither notified nor seen; so  *)
(* the hook, called for the last active queue, enqueues all of it.         *)

LEMMA OffZulip ==
  ASSUME IndexesAgree, NEW u \in Users
  PROVE  receiver_is_off_zulip(u) <=>
           \A q \in clients : kind[q].user = u /\ accepts_messages(q) => offline[q]
  BY DEF IndexesAgree, receiver_is_off_zulip

LEMMA OffZulipNext ==
  ASSUME IndexesAgree', NEW u \in Users
  PROVE  receiver_is_off_zulip(u)' <=>
           \A q \in clients' :
             kind'[q].user = u /\ kind'[q].all_types => offline'[q]
  BY DEF IndexesAgree, receiver_is_off_zulip, accepts_messages

\* A queue whose contents only grow goes on holding what it holds.
LEMMA GrowingQueueHolds ==
  ASSUME TypeOK, NEW q \in QueueIds, NEW es \in Seq(Event), kind'[q] = kind[q],
         event_queue'[q] = event_queue[q] \o es
  PROVE  MessagesHeld(q) \subseteq MessagesHeld(q)'
  <1> SUFFICES ASSUME NEW i \in 1 .. Len(event_queue[q]), event_queue[q][i].notify
               PROVE  <<kind[q].user, event_queue[q][i].message>> \in MessagesHeld(q)'
    BY DEF MessagesHeld
  <1>1. event_queue[q] \in Seq(Event)
    BY DEF TypeOK
  <1>2. i \in 1 .. Len(event_queue'[q]) /\ event_queue'[q][i] = event_queue[q][i]
    BY <1>1
  <1> QED BY <1>2 DEF MessagesHeld

\* A step that removes no message from a queue but by an acknowledgement, and
\* sends none.
LEMMA HoldingKept ==
  ASSUME QueuesHoldMessages, UNCHANGED <<kind, sent>>, clients' \subseteq clients,
         notified \subseteq notified', seen \subseteq seen',
         \A q \in clients' : MessagesHeld(q) \subseteq MessagesHeld(q)' \cup seen'
  PROVE  QueuesHoldMessages'
  BY DEF QueuesHoldMessages, accepts_messages

\* A step after which nobody is off zulip who was not before, or whose
\* messages are all notified or seen.
LEMMA NobodyMisses ==
  ASSUME TypeOK, MissedInv, UNCHANGED sent,
         notified \subseteq notified', seen \subseteq seen',
         UniformClients => \A u \in Users : Ordinary(u) /\ receiver_is_off_zulip(u)' =>
           \/ receiver_is_off_zulip(u)
           \/ {n \in sent : n[1] = u} \subseteq notified' \cup seen'
  PROVE  UniformClients => NoMissedNotification'
  <1> SUFFICES ASSUME UniformClients, NEW n \in sent, Ordinary(n[1]),
                      receiver_is_off_zulip(n[1])'
               PROVE  n \in notified' \cup seen'
    BY DEF NoMissedNotification
  <1>1. n[1] \in Users
    BY DEF TypeOK
  <1> QED BY <1>1 DEF MissedInv, NoMissedNotification

\* A step that sends no message and removes none from a queue.
LEMMA GrowingQueuesMissNothing ==
  ASSUME TypeOK, IndexesAgree, IndexesAgree', MissedInv,
         UNCHANGED <<clients, kind, offline, sent, notified, seen>>,
         cleanups' \subseteq cleanups,
         OfflineBeforeExpiry',
         \A q \in QueueIds : \E es \in Seq(Event) :
           event_queue'[q] = event_queue[q] \o es
  PROVE  MissedInv'
  <1>1. clients \subseteq QueueIds
    BY DEF TypeOK
  <1>2. \A q \in clients' : MessagesHeld(q) \subseteq MessagesHeld(q)'
    BY <1>1, GrowingQueueHolds
  <1>3. QueuesHoldMessages'
    BY <1>2, HoldingKept DEF MissedInv
  <1>4. \A u \in Users : receiver_is_off_zulip(u)' => receiver_is_off_zulip(u)
    BY OffZulip, OffZulipNext DEF accepts_messages
  <1>5. UniformClients => NoMissedNotification'
    BY <1>4, NobodyMisses
  <1> QED BY <1>3, <1>5 DEF MissedInv

\* The same for a step that does not touch the queues.
LEMMA UntouchedQueuesMissNothing ==
  ASSUME TypeOK, IndexesAgree, IndexesAgree', MissedInv,
         UNCHANGED <<clients, kind, offline, idle, event_queue, sent, notified, seen>>,
         cleanups' \subseteq cleanups
  PROVE  MissedInv'
  <1>1. OfflineBeforeExpiry'
    BY DEF MissedInv, OfflineBeforeExpiry
  <1>2. ASSUME NEW q \in QueueIds
        PROVE  \E es \in Seq(Event) : event_queue'[q] = event_queue[q] \o es
    <2>1. event_queue[q] \in Seq(Event)
      BY DEF TypeOK
    <2>2. event_queue[q] = event_queue[q] \o <<>> /\ <<>> \in Seq(Event)
      BY <2>1
    <2> QED BY <2>2
  <1> QED BY <1>1, <1>2, GrowingQueuesMissNothing

LEMMA AppendAsConcat ==
  ASSUME NEW S, NEW s \in Seq(S), NEW e \in S
  PROVE  <<e>> \in Seq(S) /\ Append(s, e) = s \o <<e>>
  <1>1. Len(s \o <<e>>) = Len(s) + 1 /\ Len(Append(s, e)) = Len(s) + 1
    OBVIOUS
  <1>2. \A i \in 1 .. Len(s) + 1 : Append(s, e)[i] = (s \o <<e>>)[i]
    OBVIOUS
  <1>3. Append(s, e) \in Seq(S) /\ s \o <<e>> \in Seq(S) /\ <<e>> \in Seq(S)
    OBVIOUS
  <1> QED BY <1>1, <1>2, <1>3

LEMMA AddEventGrows ==
  ASSUME TypeOK, NEW Q \in SUBSET QueueIds, NEW event,
         \A q \in Q : event[q] \in Event, add_event(Q, event),
         NEW q \in QueueIds
  PROVE  /\ \E es \in Seq(Event) : event_queue'[q] = event_queue[q] \o es
         /\ q \in Q => event_queue'[q] = Append(event_queue[q], event[q])
  <1>1. event_queue[q] \in Seq(Event)
    BY DEF TypeOK
  <1>2. event_queue[q] = event_queue[q] \o <<>> /\ <<>> \in Seq(Event)
    BY <1>1
  <1>3. CASE q \in Q
    <2>1. event_queue'[q] = Append(event_queue[q], event[q])
      BY <1>3 DEF add_event
    <2>2. /\ <<event[q]>> \in Seq(Event)
          /\ Append(event_queue[q], event[q]) = event_queue[q] \o <<event[q]>>
      BY <1>1, <1>3, AppendAsConcat
    <2> QED BY <2>1, <2>2
  <1>4. CASE q \notin Q
    BY <1>2, <1>4 DEF add_event
  <1> QED BY <1>3, <1>4

LEMMA AddEventMissesNothing ==
  ASSUME TypeOK, IndexesAgree, IndexesAgree', MissedInv,
         NEW Q \in SUBSET QueueIds, NEW event, \A q \in Q : event[q] \in Event,
         add_event(Q, event),
         UNCHANGED <<clients, kind, offline, idle, cleanups, sent, notified, seen>>
  PROVE  MissedInv'
  <1>1. OfflineBeforeExpiry'
    BY DEF MissedInv, OfflineBeforeExpiry
  <1>2. \A q \in QueueIds : \E es \in Seq(Event) :
          event_queue'[q] = event_queue[q] \o es
    BY AddEventGrows
  <1> QED BY <1>1, <1>2, GrowingQueuesMissNothing

LEMMA RegisterMissesNothing ==
  ASSUME TypeOK, IndexesAgree, IndexesAgree', MissedInv,
         NEW q \in QueueIds, NEW k \in Kinds, Register(q, k)
  PROVE  MissedInv'
  <1>1. q \notin clients /\ clients \subseteq QueueIds
    BY DEF Register, FreeQueue, TypeOK
  <1>2. /\ clients' = clients \cup {q}
        /\ kind'[q] = k /\ offline'[q] = FALSE /\ idle'[q] = 0
        /\ seen' = seen \cup {n \in sent : n[1] = k.user}
        /\ UNCHANGED <<sent, notified, cleanups>>
    BY DEF Register, TypeOK
  <1>3. ASSUME NEW p \in clients
        PROVE  /\ p # q /\ kind'[p] = kind[p] /\ event_queue'[p] = event_queue[p]
               /\ offline'[p] = offline[p] /\ idle'[p] = idle[p]
               /\ MessagesHeld(p)' = MessagesHeld(p)
    <2>1. /\ p # q /\ kind'[p] = kind[p] /\ event_queue'[p] = event_queue[p]
          /\ offline'[p] = offline[p] /\ idle'[p] = idle[p]
      BY <1>1 DEF Register, TypeOK
    <2> QED BY <2>1 DEF MessagesHeld
  <1>4. QueuesHoldMessages'
    <2> SUFFICES ASSUME NEW p \in clients', kind'[p].all_types, ~kind'[p].narrow
                 PROVE  {n \in sent' : n[1] = kind'[p].user}
                          \subseteq notified' \cup seen' \cup MessagesHeld(p)'
      BY DEF QueuesHoldMessages, accepts_messages
    <2>1. CASE p = q
      BY <1>2, <2>1
    <2>2. CASE p # q
      <3>1. p \in clients
        BY <1>2, <2>2
      <3>2. {n \in sent : n[1] = kind[p].user}
              \subseteq notified \cup seen \cup MessagesHeld(p)
        BY <1>3, <3>1 DEF MissedInv, QueuesHoldMessages, accepts_messages
      <3> QED BY <1>2, <1>3, <3>1, <3>2
    <2> QED BY <2>1, <2>2
  <1>5. OfflineBeforeExpiry'
    <2> SUFFICES ASSUME NEW p \in clients'
                 PROVE  IF kind'[p].long THEN idle'[p] = 2 => offline'[p] \/ kind'[p].near
                        ELSE ~offline'[p]
      BY DEF OfflineBeforeExpiry
    <2>1. CASE p = q
      BY <1>2, <2>1
    <2>2. CASE p # q
      BY <1>2, <1>3, <2>2 DEF MissedInv, OfflineBeforeExpiry
    <2> QED BY <2>1, <2>2
  <1>6. UniformClients => NoMissedNotification'
    <2>1. ASSUME NEW u \in Users, receiver_is_off_zulip(u)', u # k.user
          PROVE  receiver_is_off_zulip(u)
      <3>1. \A p \in clients' : kind'[p].user = u /\ kind'[p].all_types => offline'[p]
        BY <2>1, OffZulipNext
      <3> QED BY <1>2, <1>3, <3>1, OffZulip DEF accepts_messages
    <2>2. {n \in sent : n[1] = k.user} \subseteq notified' \cup seen'
      BY <1>2
    <2> QED BY <1>2, <2>1, <2>2, NobodyMisses
  <1> QED BY <1>2, <1>4, <1>5, <1>6 DEF MissedInv

LEMMA SuffixElement ==
  ASSUME NEW S, NEW s \in Seq(S), NEW a \in Nat, NEW i \in 1 .. Len(s), i > a
  PROVE  /\ i - a \in 1 .. Len(SubSeq(s, a + 1, Len(s)))
         /\ SubSeq(s, a + 1, Len(s))[i - a] = s[i]
  <1>1. Len(SubSeq(s, a + 1, Len(s))) = Len(s) - a
    OBVIOUS
  <1> QED BY <1>1

\* fetch_events prunes what the client has seen and nothing else.
LEMMA AcknowledgeHolds ==
  ASSUME TypeOK, NEW h \in HandlerIds, Acknowledge(h), NEW p \in QueueIds
  PROVE  MessagesHeld(p) \subseteq MessagesHeld(p)' \cup seen'
  <1> DEFINE q == request[h].queue
             a == request[h].ack
  <1>1. /\ q \in QueueIds /\ a \in Nat
        /\ kind' = kind
        /\ event_queue[q] \in Seq(Event)
        /\ event_queue' = [event_queue EXCEPT ![q] = Left(h)]
    BY BoundsAssumption DEF Acknowledge, TypeOK, Request
  <1>2. CASE p # q
    <2>1. event_queue'[p] = event_queue[p]
      BY <1>1, <1>2 DEF TypeOK
    <2> QED BY <1>1, <2>1 DEF MessagesHeld
  <1>3. CASE p = q
    <2> SUFFICES ASSUME NEW i \in 1 .. Len(event_queue[p]), event_queue[p][i].notify
                 PROVE  <<kind[p].user, event_queue[p][i].message>>
                          \in MessagesHeld(p)' \cup seen'
      BY DEF MessagesHeld
    <2> HIDE DEF q, a
    <2>1. event_queue'[p] = SubSeq(event_queue[p], a + 1, Len(event_queue[p]))
      BY <1>1, <1>3 DEF Left, TypeOK, q, a
    <2>2. event_queue[p] \in Seq(Event)
      BY <1>1, <1>3
    <2>3. CASE i <= a
      <3>1. event_queue[p][i] \in Event
        BY <2>2
      <3>2. event_queue[p][i].message \in Messages
        BY <3>1 DEF Event, OtherEvent
      <3>3. i \in 1 .. a
        BY <1>1, <2>3
      <3>4. seen' = seen \cup {<<kind[q].user, m>> : m \in
                      {m \in Messages : \E j \in 1 .. a : event_queue[q][j].message = m}}
        BY DEF Acknowledge, q, a
      <3> QED BY <1>3, <3>2, <3>3, <3>4
    <2>4. CASE i > a
      <3>1. /\ i - a \in 1 .. Len(event_queue'[p])
            /\ event_queue'[p][i - a] = event_queue[p][i]
        <4> DEFINE s == event_queue[p]
        <4>1. s \in Seq(Event) /\ i \in 1 .. Len(s) /\ a \in Nat
          BY <1>1, <2>2
        <4>2. event_queue'[p] = SubSeq(s, a + 1, Len(s))
          BY <2>1
        <4> HIDE DEF s
        <4>3. /\ i - a \in 1 .. Len(SubSeq(s, a + 1, Len(s)))
              /\ SubSeq(s, a + 1, Len(s))[i - a] = s[i]
          BY <2>4, <4>1, SuffixElement
        <4> QED BY <4>2, <4>3 DEF s
      <3> QED BY <1>1, <3>1 DEF MessagesHeld
    <2> QED BY <1>1, <2>3, <2>4
  <1> QED BY <1>2, <1>3

LEMMA FetchMissesNothing ==
  ASSUME TypeOK, IndexesAgree, IndexesAgree', MissedInv,
         NEW h \in HandlerIds, FetchAnswered(h) \/ FetchWaits(h)
  PROVE  MissedInv'
  <1> DEFINE q == request[h].queue
  <1>1. Acknowledge(h)
    BY DEF FetchAnswered, FetchWaits
  <1>2. /\ UNCHANGED <<clients, kind, cleanups, sent, notified>>
        /\ seen \subseteq seen' /\ clients \subseteq QueueIds
    BY <1>1 DEF Acknowledge, indexes, TypeOK
  <1>3. \A p \in QueueIds : \/ offline'[p] = offline[p] /\ idle'[p] = idle[p]
                            \/ offline'[p] = FALSE /\ idle'[p] = 0
    BY DEF FetchAnswered, FetchWaits, TypeOK
  <1>4. QueuesHoldMessages'
    BY <1>1, <1>2, AcknowledgeHolds, HoldingKept DEF MissedInv
  <1>5. OfflineBeforeExpiry'
    BY <1>2, <1>3 DEF MissedInv, OfflineBeforeExpiry
  <1>6. \A u \in Users : receiver_is_off_zulip(u)' => receiver_is_off_zulip(u)
    BY <1>2, <1>3, OffZulip, OffZulipNext DEF accepts_messages
  <1>7. UniformClients => NoMissedNotification'
    BY <1>2, <1>6, NobodyMisses
  <1> QED BY <1>2, <1>4, <1>5, <1>7 DEF MissedInv

\* A message goes to every queue of its recipients that takes messages, and
\* is notified at once to those who have no active one.
LEMMA ProcessMessageMissesNothing ==
  ASSUME TypeOK, IndexesAgree, IndexesAgree', MissedInv,
         NEW m \in Messages, NEW us \in SUBSET Users, NEW public \in BOOLEAN,
         NEW away \in SUBSET us,
               NEW refused \in SUBSET {q \in QueueIds : kind[q].narrow},
               ProcessMessage(m, us, public, away, refused)
  PROVE  MissedInv'
  <1> DEFINE now == {u \in us : receiver_is_off_zulip(u) \/ u \in away}
             queued == {q \in ClientsOfUsers(us) \cup
                            (IF public THEN realm_clients_all_streams ELSE {}) :
                          accepts_messages(q)} \ refused
             event == [q \in queued |->
                         [message |-> m, notify |-> kind[q].user \in us \ now]]
  <1>1. queued \in SUBSET QueueIds /\ clients \subseteq QueueIds
    BY DEF TypeOK, ClientsOfUsers
  <1>2. \A q \in queued : event[q] \in Event
    BY DEF Event
  <1>3. /\ add_event(queued, event)
        /\ sent' = sent \cup (us \X {m})
        /\ notified' = notified \cup (now \X {m})
        /\ UNCHANGED <<clients, kind, offline, idle, cleanups, seen>>
    BY DEF ProcessMessage, indexes
  <1>4. ASSUME NEW q \in QueueIds
        PROVE  /\ \E es \in Seq(Event) : event_queue'[q] = event_queue[q] \o es
               /\ q \in queued => event_queue'[q] = Append(event_queue[q], event[q])
    <2> HIDE DEF queued, event
    <2> QED BY <1>1, <1>2, <1>3, AddEventGrows
  <1>5. \A q \in clients : MessagesHeld(q) \subseteq MessagesHeld(q)'
    BY <1>1, <1>3, <1>4, GrowingQueueHolds
  <1>6. ASSUME NEW q \in clients, accepts_messages(q), ~kind[q].narrow,
               kind[q].user \in us \ now
        PROVE  <<kind[q].user, m>> \in MessagesHeld(q)'
    <2>1. q \in queued
      BY <1>6 DEF IndexesAgree, ClientsOfUsers
    <2>2. event[q] = [message |-> m, notify |-> TRUE]
      BY <1>6, <2>1
    <2>3. event_queue'[q] = Append(event_queue[q], [message |-> m, notify |-> TRUE])
      BY <1>1, <1>4, <2>1, <2>2
    <2>4. event_queue[q] \in Seq(Event)
      BY <1>1 DEF TypeOK
    <2> DEFINE i == Len(event_queue[q]) + 1
    <2>5. /\ i \in 1 .. Len(event_queue'[q])
          /\ event_queue'[q][i] = [message |-> m, notify |-> TRUE]
      BY <2>3, <2>4
    <2>6. kind' = kind
      BY <1>3
    <2> QED BY <2>5, <2>6 DEF MessagesHeld
  <1>7. QueuesHoldMessages'
    <2> SUFFICES ASSUME NEW q \in clients, kind[q].all_types, ~kind[q].narrow,
                        NEW n \in sent', n[1] = kind[q].user
                 PROVE  n \in notified' \cup seen' \cup MessagesHeld(q)'
      BY <1>3 DEF QueuesHoldMessages, accepts_messages
    <2>1. CASE n \in sent
      BY <1>3, <1>5, <2>1 DEF MissedInv, QueuesHoldMessages, accepts_messages
    <2>2. CASE n \in us \X {m}
      <3>1. n = <<kind[q].user, m>> /\ kind[q].user \in us
        BY <2>2
      <3>2. CASE kind[q].user \in now
        BY <1>3, <3>1, <3>2
      <3>3. CASE kind[q].user \notin now
        BY <1>6, <3>1, <3>3 DEF accepts_messages
      <3> QED BY <3>2, <3>3
    <2> QED BY <1>3, <2>1, <2>2
  <1>8. OfflineBeforeExpiry'
    BY <1>3 DEF MissedInv, OfflineBeforeExpiry
  <1>9. UniformClients => NoMissedNotification'
    <2> SUFFICES ASSUME UniformClients,
                        NEW n \in sent', Ordinary(n[1]), receiver_is_off_zulip(n[1])'
                 PROVE  n \in notified' \cup seen'
      BY DEF NoMissedNotification
    <2>1. n[1] \in Users
      BY <1>3 DEF TypeOK
    <2>2. receiver_is_off_zulip(n[1])
      BY <1>3, <2>1, OffZulip, OffZulipNext DEF accepts_messages
    <2>3. CASE n \in sent
      BY <1>3, <2>2, <2>3 DEF MissedInv, NoMissedNotification
    <2>4. CASE n \in us \X {m}
      BY <1>3, <2>2, <2>4
    <2> QED BY <1>3, <2>3, <2>4
  <1> QED BY <1>3, <1>7, <1>8, <1>9 DEF MissedInv

LEMMA RemovedIndexes ==
  ASSUME TypeOK, IndexesAgree', UNCHANGED kind,
         NEW R \in SUBSET QueueIds, RemoveFromIndexes(R), NEW u \in Users
  PROVE  UserClientsWithout(R)[u] = {q \in clients \ R : kind[q].user = u}
  <1>1. user_clients'[u] = {q \in clients' : kind[q].user = u}
    BY DEF IndexesAgree
  <1> QED BY <1>1 DEF RemoveFromIndexes

LEMMA EnqueuedMessages ==
  ASSUME NEW H, EnqueueFor(H), NEW q \in H, ~offline[q]
  PROVE  notified \subseteq notified' /\ MessagesHeld(q) \subseteq notified'
  BY DEF EnqueueFor, HookNotices

\* The hook for an active queue of a user accounts for all that was sent.
LEMMA HookNotifiesAll ==
  ASSUME MissedInv, NEW H, EnqueueFor(H), NEW q \in H, ~offline[q],
         q \in clients, accepts_messages(q), ~kind[q].narrow
  PROVE  {n \in sent : n[1] = kind[q].user} \subseteq notified' \cup seen
  <1>1. {n \in sent : n[1] = kind[q].user}
          \subseteq notified \cup seen \cup MessagesHeld(q)
    BY DEF MissedInv, QueuesHoldMessages
  <1> QED BY <1>1, EnqueuedMessages

\* A DELETE: all queues are default ones then, and none is offline.
LEMMA CleanupMissesNothing ==
  ASSUME TypeOK, IndexesAgree, IndexesAgree', MissedInv,
         NEW q \in QueueIds, Cleanup(q)
  PROVE  MissedInv'
  <1>1. /\ q \in clients /\ clients \subseteq QueueIds
        /\ clients' = clients \ {q} /\ RemoveFromIndexes({q})
        /\ EnqueueFor(LastForUser({q}))
        /\ cleanups' \subseteq cleanups
        /\ UNCHANGED <<kind, event_queue, offline, idle, sent, seen>>
    BY DEF Cleanup, RemoveFromIndexes, queues, TypeOK
  <1>2. notified \subseteq notified'
    BY <1>1 DEF EnqueueFor
  <1>3. ASSUME UniformClients
        PROVE  \A p \in clients : kind[p] \in Kinds /\ ~kind[p].long /\ ~offline[p]
    <2>1. \A p \in clients : kind[p] \in Kinds
      BY <1>1 DEF TypeOK
    <2>2. MaxDeletes # 0
      BY DEF Cleanup, MissedInv
    <2>3. \A p \in clients : ~kind[p].long
      BY <1>3, <2>1, <2>2 DEF UniformClients
    <2> QED BY <2>1, <2>3 DEF MissedInv, OfflineBeforeExpiry
  <1>4. QueuesHoldMessages'
    <2>1. \A p \in clients' : MessagesHeld(p)' = MessagesHeld(p)
      BY <1>1 DEF MessagesHeld
    <2> QED BY <1>1, <1>2, <2>1, HoldingKept DEF MissedInv
  <1>5. OfflineBeforeExpiry'
    BY <1>1 DEF MissedInv, OfflineBeforeExpiry
  <1>6. ASSUME UniformClients, NEW u \in Users, Ordinary(u),
               receiver_is_off_zulip(u)', ~receiver_is_off_zulip(u)
        PROVE  {n \in sent : n[1] = u} \subseteq notified' \cup seen'
    <2>1. \A p \in clients \ {q} : ~(kind[p].user = u /\ kind[p].all_types)
      BY <1>1, <1>3, <1>6, OffZulipNext
    <2>2. kind[q].user = u /\ kind[q].all_types
      BY <1>6, <2>1, OffZulip DEF accepts_messages
    <2>3. \A p \in clients \ {q} : kind[p].user # u
      BY <1>1, <1>3, <1>6, <2>1, <2>2 DEF UniformClients
    <2>4. UserClientsWithout({q})[u] = {}
      BY <1>1, <2>3, RemovedIndexes
    <2>5. q \in LastForUser({q})
      BY <2>2, <2>4 DEF LastForUser
    <2>6. ~kind[q].narrow
      BY <1>1, <1>3, <1>6, <2>2 DEF Ordinary
    <2> QED BY <1>1, <1>3, <1>6, <2>2, <2>5, <2>6, HookNotifiesAll DEF accepts_messages
  <1>7. UniformClients => NoMissedNotification'
    BY <1>1, <1>2, <1>6, NobodyMisses
  <1> QED BY <1>1, <1>4, <1>5, <1>7 DEF MissedInv

\* A sweep: the last active queue of a user is a long one that goes offline,
\* beside which no active queue is left, or a default one that is removed,
\* beside which no queue at all is left.
LEMMA SweepMissesNothing ==
  ASSUME TypeOK, IndexesAgree, IndexesAgree', MissedInv, Sweep
  PROVE  MissedInv'
  <1> DEFINE removed == {q \in clients : expired(q)}
             quiet   == {q \in clients \ removed : should_mark_offline(q)}
             active  == UsersWithActiveQueues(removed, quiet)
             H == LastForUser(removed) \cup {q \in quiet : kind[q].user \notin active}
  <1>1. /\ clients \subseteq QueueIds /\ removed \in SUBSET QueueIds
        /\ \A p \in clients : kind[p] \in Kinds /\ idle[p] \in 0 .. 2
                                /\ kind[p].long \in BOOLEAN
    BY KindsAssumption DEF TypeOK
  <1>2. /\ clients' = clients \ removed /\ RemoveFromIndexes(removed)
        /\ EnqueueFor(H)
        /\ UNCHANGED <<kind, event_queue, idle, cleanups, sent, seen>>
    BY DEF Sweep, RemoveFromIndexes, queues
  <1>3. \A p \in QueueIds : offline'[p] = (offline[p] \/ p \in quiet)
    BY DEF Sweep
  <1>4. notified \subseteq notified'
    BY <1>2 DEF EnqueueFor
  <1>5. ASSUME NEW p \in clients, kind[p].long, ~kind[p].near, p \in removed
        PROVE  offline[p]
    <2>1. idle[p] = 2
      BY <1>1, <1>5 DEF expired, Timeout
    <2> QED BY <1>5, <2>1 DEF MissedInv, OfflineBeforeExpiry
  <1>6. ASSUME NEW p \in clients, ~kind[p].long PROVE ~offline[p] /\ p \notin quiet
    <2>1. ~offline[p]
      BY <1>6 DEF MissedInv, OfflineBeforeExpiry
    <2>2. should_mark_offline(p) => expired(p)
      BY <1>6 DEF should_mark_offline, expired, Timeout
    <2> QED BY <2>1, <2>2
  <1>7. \A p \in quiet : ~offline[p]
    BY DEF should_mark_offline
  <1>8. QueuesHoldMessages'
    <2>1. \A p \in clients' : MessagesHeld(p)' = MessagesHeld(p)
      BY <1>2 DEF MessagesHeld
    <2> QED BY <1>2, <1>4, <2>1, HoldingKept DEF MissedInv
  <1>9. OfflineBeforeExpiry'
    BY <1>1, <1>2, <1>3, <1>6 DEF MissedInv, OfflineBeforeExpiry
  <1>10. ASSUME UniformClients, NEW u \in Users, Ordinary(u),
                receiver_is_off_zulip(u)', ~receiver_is_off_zulip(u)
         PROVE  {n \in sent : n[1] = u} \subseteq notified' \cup seen'
    <2>1. \A p \in clients \ removed :
            kind[p].user = u /\ kind[p].all_types => offline[p] \/ p \in quiet
      BY <1>1, <1>2, <1>3, <1>10, OffZulipNext
    <2>2. PICK q \in clients : kind[q].user = u /\ kind[q].all_types /\ ~offline[q]
      BY <1>10, OffZulip DEF accepts_messages
    <2>5. ~kind[q].narrow /\ ~kind[q].near
      BY <1>1, <1>10, <2>2 DEF Ordinary
    <2>3. UserClientsWithout(removed)[u] = {p \in clients \ removed : kind[p].user = u}
      BY <1>1, <1>2, RemovedIndexes
    <2>4. q \in H
      <3>1. CASE kind[q].long
        <4>1. q \in quiet
          BY <1>5, <2>1, <2>2, <2>5, <3>1
        <4>2. u \notin active
          BY <2>1, <2>3 DEF UsersWithActiveQueues, accepts_messages
        <4> QED BY <2>2, <4>1, <4>2
      <3>2. CASE ~kind[q].long
        <4>1. \A p \in clients : kind[p].user = u => ~kind[p].long /\ kind[p].all_types
          BY <1>1, <1>10, <2>2, <3>2 DEF UniformClients
        <4>2. \A p \in clients \ removed : kind[p].user # u
          BY <1>6, <2>1, <4>1
        <4>3. UserClientsWithout(removed)[kind[q].user] = {}
          BY <2>2, <2>3, <4>2
        <4>4. q \in removed
          BY <2>2, <4>2
        <4> QED BY <4>3, <4>4 DEF LastForUser
      <3> QED BY <3>1, <3>2
    <2> HIDE DEF H
    <2> QED BY <1>2, <2>2, <2>4, <2>5, HookNotifiesAll DEF accepts_messages
  <1>11. UniformClients => NoMissedNotification'
    BY <1>2, <1>4, <1>10, NobodyMisses
  <1> QED BY <1>2, <1>8, <1>9, <1>11 DEF MissedInv

LEMMA RestartMissesNothing ==
  ASSUME TypeOK, IndexesAgree, IndexesAgree', MissedInv,
         NEW send_reloads \in BOOLEAN, Restart(send_reloads)
  PROVE  MissedInv'
  <1> DEFINE Q == {q \in clients : kind[q].all_types}
             events == IF send_reloads THEN <<OtherEvent, OtherEvent>> ELSE <<OtherEvent>>
  <1>1. UNCHANGED <<clients, kind, offline, idle, sent, notified, seen>>
    BY DEF Restart, history
  <1>2. OfflineBeforeExpiry'
    BY <1>1 DEF MissedInv, OfflineBeforeExpiry
  <1>3. events \in Seq(Event)
    BY OtherEventType
  <1>4. ASSUME NEW q \in QueueIds
        PROVE  \E es \in Seq(Event) : event_queue'[q] = event_queue[q] \o es
    <2>1. event_queue[q] \in Seq(Event)
      BY DEF TypeOK
    <2>2. event_queue[q] = event_queue[q] \o <<>> /\ <<>> \in Seq(Event)
      BY <2>1
    <2>3. event_queue'[q] = IF q \in Q THEN event_queue[q] \o events ELSE event_queue[q]
      BY DEF Restart
    <2> HIDE DEF events, Q
    <2> QED BY <1>3, <2>2, <2>3
  <1>5. cleanups' \subseteq cleanups
    BY DEF Restart
  <1> QED BY <1>1, <1>2, <1>4, <1>5, GrowingQueuesMissNothing

LEMMA NextMissesNothing ==
  ASSUME TypeOK, IndexesAgree, IndexesAgree', MissedInv, [Next]_vars
  PROVE  MissedInv'
  <1> USE DEF indexes, queues, bounds, history
  <1>0. \A Q : \A q \in Q : OtherEvents(Q)[q] \in Event
    BY OtherEventType DEF OtherEvents
  <1>1. ASSUME NEW q \in QueueIds, NEW k \in Kinds, Register(q, k)
        PROVE  MissedInv'
    BY <1>1, RegisterMissesNothing
  <1>2. ASSUME NEW h \in HandlerIds, NEW q \in QueueIds, NEW ack \in 0 .. MaxPending,
               NEW b \in BOOLEAN, NewPoll(h, q, ack, b)
        PROVE  MissedInv'
    BY <1>2, UntouchedQueuesMissNothing DEF NewPoll
  <1>3. ASSUME NEW h \in HandlerIds, HandlerStep(h) PROVE MissedInv'
    <2>1. CASE FetchRefused(h) \/ FinishResponse(h)
      BY <2>1, UntouchedQueuesMissNothing DEF FetchRefused, FinishResponse
    <2>2. CASE FetchAnswered(h) \/ FetchWaits(h)
      BY <2>2, FetchMissesNothing
    <2> QED BY <1>3, <2>1, <2>2 DEF HandlerStep
  <1>4. ASSUME NEW h \in HandlerIds, CloseConnection(h) PROVE MissedInv'
    BY <1>4, UntouchedQueuesMissNothing DEF CloseConnection
  <1>5. ASSUME NEW q \in QueueIds, Heartbeat(q) PROVE MissedInv'
    BY <1>0, <1>5, AddEventMissesNothing DEF Heartbeat
  <1>6. ASSUME NEW m \in Messages, NEW us \in SUBSET Users, NEW public \in BOOLEAN,
               NEW away \in SUBSET us,
               NEW refused \in SUBSET {q \in QueueIds : kind[q].narrow},
               ProcessMessage(m, us, public, away, refused)
        PROVE  MissedInv'
    BY <1>6, ProcessMessageMissesNothing
  <1>7. ASSUME NEW us \in SUBSET Users, NEW asked_for \in BOOLEAN,
               ProcessEvent(us, asked_for)
        PROVE  MissedInv'
    <2> DEFINE queued == {q \in ClientsOfUsers(us) : kind[q].all_types \/ asked_for}
    <2>1. queued \in SUBSET QueueIds
      BY DEF TypeOK, ClientsOfUsers
    <2>2. /\ add_event(queued, OtherEvents(queued))
          /\ UNCHANGED <<clients, kind, offline, idle, cleanups, sent, notified, seen>>
      BY <1>7 DEF ProcessEvent
    <2> HIDE DEF queued
    <2> QED BY <1>0, <2>1, <2>2, AddEventMissesNothing
  <1>8. ASSUME NEW Q \in SUBSET QueueIds, SendWebReload(Q) PROVE MissedInv'
    BY <1>0, <1>8, AddEventMissesNothing DEF SendWebReload
  <1>9. ASSUME NEW q \in QueueIds, RequestCleanup(q) \/ CleanupStep(q)
        PROVE  MissedInv'
    <2>1. CASE RequestCleanup(q)
      <3>1. UNCHANGED <<clients, kind, offline, idle, event_queue, sent, notified, seen>>
        BY <2>1 DEF RequestCleanup
      <3>2. \A u \in Users : receiver_is_off_zulip(u)' => receiver_is_off_zulip(u)
        BY <3>1, OffZulip, OffZulipNext DEF accepts_messages
      <3>3. QueuesHoldMessages' /\ OfflineBeforeExpiry'
        BY <3>1 DEF MissedInv, QueuesHoldMessages, MessagesHeld, accepts_messages,
                    OfflineBeforeExpiry
      <3>4. UniformClients => NoMissedNotification'
        BY <3>1, <3>2, NobodyMisses
      <3>5. MaxDeletes # 0
        BY <2>1, BoundsAssumption DEF RequestCleanup, TypeOK
      <3> QED BY <3>3, <3>4, <3>5 DEF MissedInv
    <2>2. CASE Cleanup(q)
      BY <2>2, CleanupMissesNothing
    <2>3. CASE CleanupTooLate(q)
      BY <2>3, UntouchedQueuesMissNothing DEF CleanupTooLate
    <2> QED BY <1>9, <2>1, <2>2, <2>3 DEF CleanupStep
  <1>10. ASSUME NEW q \in QueueIds, Age(q) PROVE MissedInv'
    <2>1. OfflineBeforeExpiry'
      <3>1. /\ UNCHANGED <<clients, kind, offline>>
            /\ \A p \in QueueIds \ {q} : idle'[p] = idle[p]
            /\ clients \subseteq QueueIds
        BY <1>10 DEF Age, TypeOK
      <3>2. idle[q] \in 0 .. 2 /\ idle'[q] = idle[q] + 1
        BY <1>10 DEF Age, TypeOK
      <3>3. idle'[q] = 2 => offline[q] \/ kind[q].near
        BY <1>10, <3>2 DEF Age
      <3> QED BY <3>1, <3>3 DEF MissedInv, OfflineBeforeExpiry
    <2>2. \A p \in QueueIds : \E es \in Seq(Event) :
            event_queue'[p] = event_queue[p] \o es
      <3>1. \A p \in QueueIds : event_queue[p] \in Seq(Event)
        BY DEF TypeOK
      <3>2. event_queue' = event_queue
        BY <1>10 DEF Age
      <3>3. \A p \in QueueIds : event_queue[p] = event_queue[p] \o <<>>
        BY <3>1
      <3>4. <<>> \in Seq(Event)
        OBVIOUS
      <3> QED BY <3>2, <3>3, <3>4
    <2> QED BY <1>10, <2>1, <2>2, GrowingQueuesMissNothing DEF Age
  <1>11. CASE Sweep
    BY <1>11, SweepMissesNothing
  <1>12. ASSUME NEW send_reloads \in BOOLEAN, Restart(send_reloads)
         PROVE  MissedInv'
    BY <1>12, RestartMissesNothing
  <1>13. CASE UNCHANGED vars
    BY <1>13, UntouchedQueuesMissNothing DEF vars
  <1> QED BY <1>1, <1>2, <1>3, <1>4, <1>5, <1>6, <1>7, <1>8, <1>9, <1>10, <1>11,
             <1>12, <1>13 DEF Next

LEMMA MissedInvariant == Spec => []MissedInv
  <1>1. Init => MissedInv
    BY DEF Init, MissedInv, QueuesHoldMessages, OfflineBeforeExpiry,
           NoMissedNotification
  <1>2. TypeOK /\ IndexesAgree /\ IndexesAgree' /\ MissedInv /\ [Next]_vars
          => MissedInv'
    BY NextMissesNothing
  <1> QED BY TypeCorrect, IndexesCorrect, <1>1, <1>2, PTL DEF Spec

\* Whatever clients a user has, and in whatever order polls, acknowledgements,
\* removals, sweeps and restarts come: a registered queue that takes messages
\* and has no narrow holds every message sent to its user that was neither notified nor seen
\* (process_message_event, fetch_events, EventQueue.prune).
THEOREM QueuesHold == Spec => []QueuesHoldMessages
  <1>1. MissedInv => QueuesHoldMessages
    BY DEF MissedInv
  <1> QED BY MissedInvariant, <1>1, PTL

\* The hard disconnect problem: a message to a user with no active queue, none
\* of whose clients gives a narrow or a timeout just above the offline one, has
\* been seen or is enqueued for notification, whichever callback made the last
\* active queue inactive (missedmessage_hook, process_message_event).
THEOREM NotificationsNotMissed ==
  ASSUME UniformClients
  PROVE  Spec => []NoMissedNotification
  <1>1. MissedInv => NoMissedNotification
    BY DEF MissedInv
  <1> QED BY MissedInvariant, <1>1, PTL
=============================================================================
