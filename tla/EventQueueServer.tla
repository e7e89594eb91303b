------------------------- MODULE EventQueueServer -------------------------
(***************************************************************************)
(* One Tornado process (zerver/tornado): the client descriptors with their *)
(* event queues, the HTTP handlers that long-poll them, garbage            *)
(* collection, offline marking, the web-reload list and the notifications  *)
(* enqueued for users with no active queue.                                *)
(*                                                                         *)
(* Every action is one callback of the event loop, which runs to its end   *)
(* before the next one starts.  Two operations span several callbacks and  *)
(* interleave with everything else: a request passes through a Django      *)
(* thread before its fetch_events (or cleanup) runs on the loop, and a     *)
(* finished long-poll is written by a callback of its own (zulip_finish).  *)
(*                                                                         *)
(* Data abstracted: events are messages or "other"; an acknowledgement is  *)
(* the number of leading queue events it covers (EventQueue and FlagSync   *)
(* model ids and virtual events); time is a class per queue (see Age).     *)
(* Messages are the notifiable ones: is_notifiable(idle=True) holds.       *)
(***************************************************************************)
EXTENDS Integers, Sequences, FiniteSets

CONSTANTS
  Users,           \* user_profile_ids, all of one realm
  QueueIds,        \* event queue ids (uuids)
  Messages,        \* message ids
  Kinds,           \* the queues clients register: see KindsAssumption
  FirstHandlerId,  \* 0 for a process that has just started, else 1
  MaxHandlerId,    \* bound: handler ids alive at the same time
  MaxPending,      \* bound: events waiting in a queue
  MaxDeletes,      \* bound: DELETE /events requests
  MaxRestarts,     \* bound: graceful restarts of the process
  NoQueue,         \* None where a queue or a descriptor is expected
  NoMessage        \* the event is not a message event

NoHandler == -1
HandlerIds == FirstHandlerId .. MaxHandlerId

\* user: the owner; long: idle_queue_timeout above the offline timeout; near:
\* and by less than what may lie between two sweeps (a minute, and as much as
\* a blocked loop or a restart takes); all_types: event_types is None (else a
\* list without "message"); all_public_streams: as in the code, or narrow # [];
\* narrow: may refuse messages (narrow # [], or a client that mirrors).
ASSUME KindsAssumption ==
  /\ Kinds \subseteq [user : Users, long : BOOLEAN, near : BOOLEAN,
                      all_types : BOOLEAN, all_public_streams : BOOLEAN,
                      narrow : BOOLEAN]
  /\ Kinds # {}
ASSUME HandlerAssumption ==
  FirstHandlerId \in {0, 1} /\ MaxHandlerId \in Nat /\ FirstHandlerId <= MaxHandlerId
ASSUME BoundsAssumption ==
  MaxPending \in Nat /\ MaxDeletes \in Nat /\ MaxRestarts \in Nat
ASSUME NoneAssumption == NoQueue \notin QueueIds /\ NoMessage \notin Messages

VARIABLES
  clients,                    \* queue ids with a registered descriptor
  user_clients,               \* user -> queue ids
  realm_clients_all_streams,  \* queue ids
  web_reload_clients,         \* queue ids still owed a web_reload_client event
  \* the fields of a descriptor; they outlive its removal from clients
  kind,                       \* queue id -> what the client registered
  current_handler_id,         \* queue id -> the handler long-polling it
  event_queue,                \* queue id -> events not yet acknowledged
  served,                     \* queue id -> how many of them a response held
  offline,                    \* queue id -> BOOLEAN
  idle,                       \* queue id -> class of time since last_connection_time
  \* handlers and requests
  handlers,                   \* ids of the live AsyncDjangoHandlers
  descriptors_by_handler_id,  \* handler id -> queue id
  request,                    \* handler id -> where its request stands
  zero_is_next,               \* handlers.current_handler_id = 0
  cleanups,                   \* queue ids whose cleanup call is scheduled
  deletes, restarts,          \* counters for the bounds
  \* history
  sent,                       \* <<user, message>> pairs processed
  seen,                       \* pairs a client acknowledged, or fetched at start
  notified,                   \* pairs enqueued for push or email notification
  duplicated                  \* pairs enqueued more than once

indexes     == <<clients, user_clients, realm_clients_all_streams>>
queues      == <<event_queue, served>>
connections == <<current_handler_id, descriptors_by_handler_id, request>>
bounds      == <<deletes, restarts>>
history     == <<sent, seen, notified, duplicated>>

vars == <<indexes, web_reload_clients, kind, queues, connections, offline,
          idle, handlers, zero_is_next, cleanups, bounds, history>>

\* A heartbeat, a restart or web_reload_client event, any process_event event.
OtherEvent == [message |-> NoMessage, notify |-> FALSE]

\* notify: the hook would still enqueue a notification for this message.
Event == [message : Messages, notify : BOOLEAN] \cup {OtherEvent}

\* A request that needs its parameters no more.
InState(s) == [state |-> s, queue |-> NoQueue, ack |-> 0, dont_block |-> FALSE]
NoRequest  == InState("none")
Waiting    == InState("waiting")
Finishing  == InState("finishing")

Request ==
  [state : {"none", "django", "waiting", "finishing"},
   queue : QueueIds \cup {NoQueue}, ack : -1 .. MaxPending,
   dont_block : BOOLEAN]

TypeOK ==
  /\ clients \subseteq QueueIds
  /\ user_clients \in [Users -> SUBSET QueueIds]
  /\ realm_clients_all_streams \subseteq QueueIds
  /\ web_reload_clients \subseteq QueueIds
  /\ kind \in [QueueIds -> Kinds]
  /\ current_handler_id \in [QueueIds -> HandlerIds \cup {NoHandler}]
  /\ event_queue \in [QueueIds -> Seq(Event)]
  /\ served \in [QueueIds -> Nat]
  /\ offline \in [QueueIds -> BOOLEAN]
  /\ idle \in [QueueIds -> 0 .. 2]
  /\ handlers \subseteq HandlerIds
  /\ descriptors_by_handler_id \in [HandlerIds -> QueueIds \cup {NoQueue}]
  /\ request \in [HandlerIds -> Request]
  /\ zero_is_next \in BOOLEAN
  /\ cleanups \subseteq QueueIds
  /\ deletes \in 0 .. MaxDeletes
  /\ restarts \in 0 .. MaxRestarts
  /\ sent \subseteq Users \X Messages
  /\ seen \subseteq Users \X Messages
  /\ notified \subseteq Users \X Messages
  /\ duplicated \subseteq Users \X Messages

Init ==
  /\ clients = {}
  /\ user_clients = [u \in Users |-> {}]
  /\ realm_clients_all_streams = {}
  /\ web_reload_clients = {}
  /\ kind = [q \in QueueIds |-> CHOOSE k \in Kinds : TRUE]
  /\ current_handler_id = [q \in QueueIds |-> NoHandler]
  /\ event_queue = [q \in QueueIds |-> <<>>]
  /\ served = [q \in QueueIds |-> 0]
  /\ offline = [q \in QueueIds |-> FALSE]
  /\ idle = [q \in QueueIds |-> 0]
  /\ handlers = {}
  /\ descriptors_by_handler_id = [h \in HandlerIds |-> NoQueue]
  /\ request = [h \in HandlerIds |-> NoRequest]
  /\ zero_is_next = (FirstHandlerId = 0)
  /\ cleanups = {}
  /\ deletes = 0 /\ restarts = 0
  /\ sent = {} /\ seen = {} /\ notified = {} /\ duplicated = {}
---------------------------------------------------------------------------
(* Parts shared by the handlers: what a call does to its share of the      *)
(* state, as primed variables or as the new value of one variable.         *)

accepts_messages(q) == kind[q].all_types

HandlersOf(Q) == {current_handler_id[q] : q \in Q} \ {NoHandler}

\* finish_handler schedules zulip_finish, unless the handler is gone.
Answered(h) == IF h \in handlers THEN Finishing ELSE NoRequest

\* finish_current_handler on each of Q: answer the long-poll, then
\* disconnect_handler, which takes handler id 0 for "no handler".
RequestsFinished(Q) ==
  [h \in HandlerIds |-> IF h \in HandlersOf(Q) THEN Answered(h) ELSE request[h]]

\* Mutant: a handler id that is "falsy" instead of None.
HandlersSetToZero(Q) ==
  [q \in QueueIds |-> IF q \in Q THEN 0 ELSE current_handler_id[q]]

HandlersDisconnected(Q) ==
  [q \in QueueIds |-> IF q \in Q THEN NoHandler ELSE current_handler_id[q]]

\* Mutant: disconnect_handler forgets clear_descriptor_by_handler_id.
DescriptorsKept(Q) == descriptors_by_handler_id

DescriptorsCleared(Q) ==
  [h \in HandlerIds |-> IF h \in HandlersOf(Q) \ {0} THEN NoQueue
                        ELSE descriptors_by_handler_id[h]]

finish_current_handler(Q) ==
  /\ request' = RequestsFinished(Q)
  /\ current_handler_id' = HandlersDisconnected(Q)
  /\ descriptors_by_handler_id' = DescriptorsCleared(Q)

\* Mutant: add_event without finish_current_handler.
PushOnly(Q, event) ==
  /\ event_queue' = [q \in QueueIds |-> IF q \in Q THEN Append(event_queue[q], event[q])
                                        ELSE event_queue[q]]
  /\ UNCHANGED <<served, connections>>

\* add_event on every queue of Q, the event of queue q being event[q]: push
\* it and, if a long-poll is connected, answer that with the contents.
add_event(Q, event) ==
  /\ event_queue' = [q \in QueueIds |-> IF q \in Q THEN Append(event_queue[q], event[q])
                                        ELSE event_queue[q]]
  /\ served' = [q \in QueueIds |-> IF q \in Q /\ current_handler_id[q] # NoHandler
                                   THEN Len(event_queue[q]) + 1 ELSE served[q]]
  /\ finish_current_handler(Q)

OtherEvents(Q) == [q \in Q |-> OtherEvent]

HasRoom(Q) == \A q \in Q : Len(event_queue[q]) < MaxPending

\* The indexes after do_gc_event_queues has filtered R out of them.
UserClientsWithout(R) ==
  [u \in Users |-> IF u \in {kind[q].user : q \in R} THEN user_clients[u] \ R
                   ELSE user_clients[u]]

\* Mutant: the queues of R stay on the web-reload list.
RemoveButReload(R) ==
  /\ clients' = clients \ R
  /\ user_clients' = UserClientsWithout(R)
  /\ realm_clients_all_streams' = realm_clients_all_streams \ R
  /\ UNCHANGED web_reload_clients

RemoveFromIndexes(R) ==
  /\ clients' = clients \ R
  /\ user_clients' = UserClientsWithout(R)
  /\ realm_clients_all_streams' = realm_clients_all_streams \ R
  /\ web_reload_clients' = web_reload_clients \ R

\* The messages in queue q that were notifiable and for which no notification
\* was enqueued on arrival.
MessagesHeld(q) ==
  {<<kind[q].user, event_queue[q][i].message>> :
     i \in {j \in 1 .. Len(event_queue[q]) : event_queue[q][j].notify}}

\* What missedmessage_hook enqueues for queue q.
HookNotices(q) == IF offline[q] THEN {} ELSE MessagesHeld(q)

\* maybe_enqueue_notifications for the queues H whose hook goes through.
EnqueueFor(H) ==
  /\ notified' = notified \cup UNION {HookNotices(q) : q \in H}
  /\ duplicated' = duplicated \cup
       UNION {{n \in HookNotices(q) : n \in notified
                  \/ \E p \in H \ {q} : n \in HookNotices(p)} : q \in H}

\* Mutant: last_client_for_user looked up before the lists are filtered.
LastBeforeRemoval(R) == {q \in R : user_clients[kind[q].user] = {}}

\* The queues of R for which do_gc_event_queues passes last_client_for_user:
\* their user has no queue left at all.
LastForUser(R) == {q \in R : UserClientsWithout(R)[kind[q].user] = {}}
---------------------------------------------------------------------------
(* Registering, polling and closing.                                       *)

\* An id no structure of the process refers to: the program draws fresh ids
\* from a counter and a uuid; the model reuses those that are garbage.
FreeHandler(h) ==
  /\ h \notin handlers
  /\ request[h] = NoRequest
  /\ descriptors_by_handler_id[h] = NoQueue
  /\ \A q \in QueueIds : current_handler_id[q] # h
  /\ (h = 0) <=> zero_is_next

FreeQueue(q) ==
  /\ q \notin clients \cup cleanups
  /\ \A h \in HandlerIds : request[h].queue # q

\* get_events_internal with no queue_id: allocate_client_descriptor.  Django
\* reads the user's initial data after this, so the messages so far are seen.
Register(q, k) ==
  /\ FreeQueue(q)
  /\ clients' = clients \cup {q}
  /\ user_clients' = [user_clients EXCEPT ![k.user] = @ \cup {q}]
  /\ realm_clients_all_streams' =
       realm_clients_all_streams \cup {p \in {q} : k.all_public_streams}
  /\ kind' = [kind EXCEPT ![q] = k]
  /\ current_handler_id' = [current_handler_id EXCEPT ![q] = NoHandler]
  /\ event_queue' = [event_queue EXCEPT ![q] = <<>>]
  /\ served' = [served EXCEPT ![q] = 0]
  /\ offline' = [offline EXCEPT ![q] = FALSE]
  /\ idle' = [idle EXCEPT ![q] = 0]
  /\ seen' = seen \cup {n \in sent : n[1] = k.user}
  /\ UNCHANGED <<web_reload_clients, descriptors_by_handler_id, request, handlers,
                 zero_is_next, cleanups, bounds, sent, notified, duplicated>>

\* AsyncDjangoHandler.initialize and the start of get: GET /events for queue
\* q arrives and goes to a Django thread.  A client acknowledges at most what
\* some response has carried.
NewPoll(h, q, ack, dont_block) ==
  /\ FreeHandler(h)
  /\ q \in clients
  /\ ack <= served[q]
  /\ handlers' = handlers \cup {h}
  /\ zero_is_next' = FALSE
  /\ request' = [request EXCEPT ![h] = [state |-> "django", queue |-> q,
                                        ack |-> ack, dont_block |-> dont_block]]
  /\ UNCHANGED <<indexes, web_reload_clients, kind, queues, current_handler_id,
                 descriptors_by_handler_id, offline, idle, cleanups, bounds, history>>

\* fetch_events answers with an error: the queue has been removed since, or
\* an event the client has not acknowledged has already been pruned.
FetchRefused(h) ==
  /\ request[h].state = "django"
  /\ request[h].queue \notin clients \/ request[h].ack < 0
  /\ request' = [request EXCEPT ![h] = Answered(h)]
  /\ UNCHANGED <<indexes, web_reload_clients, kind, queues, current_handler_id,
                 descriptors_by_handler_id, offline, idle, handlers, zero_is_next,
                 cleanups, bounds, history>>

\* Mutant: fetch_events does not finish the long-poll it supplants.
RequestsNotSupplanted(h, q, n) ==
  [g \in HandlerIds |->
     IF g # h /\ request[g].state = "django" /\ request[g].queue = q
     THEN [request[g] EXCEPT !.ack = IF @ - n < 0 THEN -1 ELSE @ - n]
     ELSE request[g]]

\* The requests once fetch_events for h has supplanted the long-poll of q and
\* pruned n events: acknowledgements still in Django count from the new head.
RequestsFetched(h, q, n) ==
  [g \in HandlerIds |->
     IF g # h /\ request[g].state = "django" /\ request[g].queue = q
     THEN [request[g] EXCEPT !.ack = IF @ - n < 0 THEN -1 ELSE @ - n]
     ELSE RequestsFinished({q})[g]]

\* What is left of the queue after prune.
Left(h) ==
  LET events == event_queue[request[h].queue]
  IN  SubSeq(events, request[h].ack + 1, Len(events))

\* fetch_events up to the choice between answering and waiting.
Acknowledge(h) ==
  LET q == request[h].queue
  IN  /\ request[h].state = "django"
      /\ q \in clients
      /\ request[h].ack >= 0
      /\ event_queue' = [event_queue EXCEPT ![q] = Left(h)]
      /\ served' = [served EXCEPT ![q] = Len(Left(h))]
      /\ seen' = seen \cup {<<kind[q].user, m>> : m \in
                    {m \in Messages : \E i \in 1 .. request[h].ack :
                                        event_queue[q][i].message = m}}
      /\ UNCHANGED <<indexes, web_reload_clients, kind, handlers, zero_is_next,
                     cleanups, bounds, sent, notified, duplicated>>

\* There are events, or the client asked not to block: answer at once.
FetchAnswered(h) ==
  LET q == request[h].queue
  IN  /\ Acknowledge(h)
      /\ Left(h) # <<>> \/ request[h].dont_block
      /\ request' = [RequestsFetched(h, q, request[h].ack) EXCEPT ![h] = Answered(h)]
      /\ current_handler_id' = HandlersDisconnected({q})
      /\ descriptors_by_handler_id' = DescriptorsCleared({q})
      /\ UNCHANGED <<offline, idle>>

\* Nothing to send: connect_handler.  The connection of h may be gone already.
FetchWaits(h) ==
  LET q == request[h].queue
  IN  /\ Acknowledge(h)
      /\ Left(h) = <<>> /\ ~request[h].dont_block
      /\ request' = [RequestsFetched(h, q, request[h].ack) EXCEPT ![h] = Waiting]
      /\ current_handler_id' = [current_handler_id EXCEPT ![q] = h]
      /\ descriptors_by_handler_id' = [DescriptorsCleared({q}) EXCEPT ![h] = q]
      /\ idle' = [idle EXCEPT ![q] = 0]
      /\ offline' = [offline EXCEPT ![q] = FALSE]

\* The response is written (zulip_finish, write_django_response...): on_finish.
FinishResponse(h) ==
  /\ request[h].state = "finishing"
  /\ request' = [request EXCEPT ![h] = NoRequest]
  /\ handlers' = handlers \ {h}
  /\ UNCHANGED <<indexes, web_reload_clients, kind, queues, current_handler_id,
                 descriptors_by_handler_id, offline, idle, zero_is_next, cleanups,
                 bounds, history>>

\* on_connection_close: the client went away before the response was written.
CloseConnection(h) ==
  LET d == descriptors_by_handler_id[h]
  IN  /\ h \in handlers
      /\ handlers' = handlers \ {h}
      /\ request' = [request EXCEPT ![h] = IF @ = Waiting THEN NoRequest ELSE @]
      /\ current_handler_id' = HandlersDisconnected({d} \ {NoQueue})
      /\ descriptors_by_handler_id' = DescriptorsCleared({d} \ {NoQueue})
      /\ UNCHANGED <<indexes, web_reload_clients, kind, queues, offline, idle,
                     zero_is_next, cleanups, bounds, history>>

\* timeout_callback: the timer runs exactly while a handler is connected.
Heartbeat(q) ==
  /\ current_handler_id[q] # NoHandler
  /\ add_event({q}, OtherEvents({q}))
  /\ UNCHANGED <<indexes, web_reload_clients, kind, offline, idle, handlers,
                 zero_is_next, cleanups, bounds, history>>
---------------------------------------------------------------------------
(* Events read from RabbitMQ.                                              *)

receiver_is_off_zulip(u) ==
  {q \in user_clients[u] : accepts_messages(q) /\ ~offline[q]} = {}

ClientsOfUsers(us) == UNION {user_clients[u] : u \in us}

\* process_message_event: decide for each recipient whether to notify now,
\* then push the message, with that decision, to every interested queue but
\* those whose narrow refuses it.
ProcessMessage(m, recipients, public, presence_idle, refused) ==
  LET now    == {u \in recipients : receiver_is_off_zulip(u) \/ u \in presence_idle}
      queued == {q \in ClientsOfUsers(recipients) \cup
                         (IF public THEN realm_clients_all_streams ELSE {}) :
                   accepts_messages(q)} \ refused
      event  == [q \in queued |->
                   [message |-> m, notify |-> kind[q].user \in recipients \ now]]
      notices == now \X {m}
  IN  /\ \A n \in sent : n[2] # m
      /\ HasRoom(queued)
      /\ add_event(queued, event)
      /\ sent' = sent \cup (recipients \X {m})
      /\ notified' = notified \cup notices
      /\ duplicated' = duplicated \cup (notified \cap notices)
      /\ UNCHANGED <<indexes, web_reload_clients, kind, offline, idle, handlers,
                     zero_is_next, cleanups, bounds, seen>>

\* process_event and its variants: all_types queues accept every event; a
\* limited queue accepts those it asked for.
ProcessEvent(us, asked_for) ==
  LET queued == {q \in ClientsOfUsers(us) : kind[q].all_types \/ asked_for}
  IN  /\ queued # {}
      /\ HasRoom(queued)
      /\ add_event(queued, OtherEvents(queued))
      /\ UNCHANGED <<indexes, web_reload_clients, kind, offline, idle, handlers,
                     zero_is_next, cleanups, bounds, history>>

\* send_web_reload_client_events for the first queues of the list (which is
\* ordered by realm, and arbitrarily within one).
SendWebReload(Q) ==
  /\ Q # {} /\ Q \subseteq web_reload_clients
  /\ HasRoom(Q)
  /\ web_reload_clients' = web_reload_clients \ Q
  /\ add_event(Q, OtherEvents(Q))
  /\ UNCHANGED <<indexes, kind, offline, idle, handlers, zero_is_next, cleanups,
                 bounds, history>>
---------------------------------------------------------------------------
(* Removing queues and marking them offline.                               *)

\* cleanup_event_queue, in a Django thread: access_client_descriptor finds
\* the queue and the call of client.cleanup is handed to the event loop.
RequestCleanup(q) ==
  /\ deletes < MaxDeletes
  /\ q \in clients
  /\ cleanups' = cleanups \cup {q}
  /\ deletes' = deletes + 1
  /\ UNCHANGED <<indexes, web_reload_clients, kind, queues, connections, offline,
                 idle, handlers, zero_is_next, restarts, history>>

\* client.cleanup on the loop (for a cleanup_queue notice from another shard
\* the look-up and this call are one callback).
Cleanup(q) ==
  /\ q \in cleanups \cap clients
  /\ cleanups' = cleanups \ {q}
  /\ finish_current_handler({q})
  /\ RemoveFromIndexes({q})
  /\ EnqueueFor(LastForUser({q}))
  /\ UNCHANGED <<kind, queues, offline, idle, handlers, zero_is_next, bounds,
                 sent, seen>>

\* The queue was removed between the look-up and the call: the indexes hold
\* nothing to filter and clients[id] raises KeyError.
CleanupTooLate(q) ==
  /\ q \in cleanups \ clients
  /\ cleanups' = cleanups \ {q}
  /\ UNCHANGED <<indexes, web_reload_clients, kind, queues, connections, offline,
                 idle, handlers, zero_is_next, bounds, history>>

\* idle = 1: the offline timeout, which is also the default queue_timeout,
\* has passed since last_connection_time; idle = 2: the queue_timeout of a
\* long queue has.
Timeout(q) == IF kind[q].long THEN 2 ELSE 1

\* Mutant: strictly longer than the timeout class, which no queue reaches.
NeverExpired(q) == current_handler_id[q] = NoHandler /\ idle[q] > Timeout(q)

expired(q) == current_handler_id[q] = NoHandler /\ idle[q] >= Timeout(q)

should_mark_offline(q) ==
  current_handler_id[q] = NoHandler /\ ~offline[q] /\ idle[q] >= 1

\* Time passes for a queue nobody is connected to (a connected one gets a
\* heartbeat within a minute).  The sweep runs every minute, so a long queue
\* is marked offline before it can expire, unless its timeout is near.
Age(q) ==
  /\ q \in clients
  /\ current_handler_id[q] = NoHandler
  /\ idle[q] < Timeout(q)
  /\ idle[q] = 1 /\ ~kind[q].near => offline[q]
  /\ idle' = [idle EXCEPT ![q] = @ + 1]
  /\ UNCHANGED <<indexes, web_reload_clients, kind, queues, connections, offline,
                 handlers, zero_is_next, cleanups, bounds, history>>

\* Mutant: a queue that was marked offline earlier counts as active.
UsersWithQueues(removed, quiet) ==
  {u \in Users : \E q \in UserClientsWithout(removed)[u] \ quiet : accepts_messages(q)}

\* users_with_active_queues of mark_clients_offline, after the removals.
UsersWithActiveQueues(removed, quiet) ==
  {u \in Users : \E q \in UserClientsWithout(removed)[u] \ quiet :
                    accepts_messages(q) /\ ~offline[q]}

\* gc_event_queues: do_gc_event_queues for the expired queues, then
\* mark_clients_offline for the others that have been idle for too long.
Sweep ==
  LET removed == {q \in clients : expired(q)}
      quiet   == {q \in clients \ removed : should_mark_offline(q)}
      active  == UsersWithActiveQueues(removed, quiet)
  IN  /\ removed \cup quiet # {}
      /\ RemoveFromIndexes(removed)
      /\ offline' = [q \in QueueIds |-> offline[q] \/ q \in quiet]
      /\ EnqueueFor(LastForUser(removed) \cup {q \in quiet : kind[q].user \notin active})
      /\ UNCHANGED <<kind, queues, connections, idle, handlers, zero_is_next,
                     cleanups, bounds, sent, seen>>

\* A graceful restart: dump_event_queues, a new process, load_event_queues
\* and setup_event_queue.  Descriptors and queues survive; handlers and
\* scheduled calls do not.  (EventStream models the shutdown itself.)
Restart(send_reloads) ==
  LET Q == {q \in clients : kind[q].all_types}
      events == IF send_reloads THEN <<OtherEvent, OtherEvent>> ELSE <<OtherEvent>>
  IN  /\ restarts < MaxRestarts
      /\ restarts' = restarts + 1
      /\ user_clients' = [u \in Users |-> {q \in clients : kind[q].user = u}]
      /\ realm_clients_all_streams' = {q \in clients : kind[q].all_public_streams}
      /\ web_reload_clients' = IF send_reloads THEN {} ELSE Q
      /\ event_queue' = [q \in QueueIds |-> IF q \in Q THEN event_queue[q] \o events
                                            ELSE event_queue[q]]
      /\ current_handler_id' = [q \in QueueIds |-> NoHandler]
      /\ handlers' = {}
      /\ descriptors_by_handler_id' = [h \in HandlerIds |-> NoQueue]
      /\ request' = [h \in HandlerIds |-> NoRequest]
      /\ zero_is_next' = (FirstHandlerId = 0)
      /\ cleanups' = {}
      /\ UNCHANGED <<clients, kind, served, offline, idle, deletes, history>>
---------------------------------------------------------------------------
HandlerStep(h) ==
  \/ FetchRefused(h)
  \/ FetchAnswered(h)
  \/ FetchWaits(h)
  \/ FinishResponse(h)

CleanupStep(q) == Cleanup(q) \/ CleanupTooLate(q)

Next ==
  \/ \E q \in QueueIds, k \in Kinds : Register(q, k)
  \/ \E h \in HandlerIds, q \in QueueIds, ack \in 0 .. MaxPending, b \in BOOLEAN :
       NewPoll(h, q, ack, b)
  \/ \E h \in HandlerIds : HandlerStep(h)
  \/ \E h \in HandlerIds : CloseConnection(h)
  \/ \E q \in QueueIds : Heartbeat(q)
  \/ \E m \in Messages, us \in SUBSET Users, public \in BOOLEAN :
       \E away \in SUBSET us, refused \in SUBSET {q \in QueueIds : kind[q].narrow} :
         ProcessMessage(m, us, public, away, refused)
  \/ \E us \in SUBSET Users, asked_for \in BOOLEAN : ProcessEvent(us, asked_for)
  \/ \E Q \in SUBSET QueueIds : SendWebReload(Q)
  \/ \E q \in QueueIds : RequestCleanup(q)
  \/ \E q \in QueueIds : CleanupStep(q)
  \/ \E q \in QueueIds : Age(q)
  \/ Sweep
  \/ \E send_reloads \in BOOLEAN : Restart(send_reloads)

Spec == Init /\ [][Next]_vars

\* The event loop runs every scheduled callback, the heartbeat timer and the
\* periodic sweep; time passes.  Nothing is assumed of the clients.
Fairness ==
  /\ \A h \in HandlerIds : WF_vars(HandlerStep(h))
  /\ \A q \in QueueIds : WF_vars(Heartbeat(q)) /\ WF_vars(CleanupStep(q))
                           /\ WF_vars(Age(q))
  /\ WF_vars(Sweep)

FairSpec == Spec /\ Fairness
---------------------------------------------------------------------------
(* Properties.                                                             *)

\* user_clients and realm_clients_all_streams list exactly the registered
\* queues of their key, and only a registered queue is owed a web_reload
\* event: no event is pushed to a queue that was collected (which nobody
\* would ever collect again), none misses a registered one, and
\* send_web_reload_client_events finds every descriptor it looks up.
IndexesAgree ==
  /\ \A u \in Users : user_clients[u] = {q \in clients : kind[q].user = u}
  /\ realm_clients_all_streams = {q \in clients : kind[q].all_public_streams}
  /\ web_reload_clients \subseteq clients

\* While a long-poll is connected its queue is empty: an event never sits in
\* the queue with a client waiting for it.
ConnectedQueueEmpty ==
  \A q \in clients : current_handler_id[q] # NoHandler => event_queue[q] = <<>>

\* The two directions of the association between queues and handlers agree,
\* but for handler id 0, which disconnect_handler does not clear.
HandlerMapsAgree ==
  \A h \in HandlerIds \ {0}, q \in QueueIds :
    descriptors_by_handler_id[h] = q <=> current_handler_id[q] = h

\* A long-poll whose connection is open is the current handler of a
\* registered queue, so that queue's next event or heartbeat answers it:
\* garbage collection, a supplanting poll or the closing of another
\* connection never leaves one behind.
WaitingPollRegistered ==
  \A h \in handlers :
    request[h] = Waiting => \E q \in clients : current_handler_id[q] = h

\* No client of u gives a narrow, or a timeout just above the offline one.
Ordinary(u) == \A k \in Kinds : k.user = u => ~k.narrow /\ ~k.near

\* The hard disconnect problem: once a user with ordinary clients has no active
\* queue, every notifiable message sent to them has been seen by one of these
\* clients or has been enqueued for a notification.
NoMissedNotification ==
  \A n \in sent :
    Ordinary(n[1]) /\ receiver_is_off_zulip(n[1]) => n \in notified \cup seen

\* The same of all users, whatever their clients ask for.
NobodyMissesAnything ==
  \A n \in sent : receiver_is_off_zulip(n[1]) => n \in notified \cup seen

\* No message is enqueued for notification twice for the same user.  (Not so
\* when one sweep collects two queues of the user.)
NotifiedOnce == duplicated = {}

\* Every long-poll is answered or closed in the end (by a heartbeat if by
\* nothing else): no client hangs on a connection the server has forgotten.
PollEnds ==
  \A h \in HandlerIds :
    request[h] = Waiting /\ h \in handlers ~> request[h] # Waiting

\* Event queues are not leaked: unless polls for it keep arriving, a queue
\* is collected, whatever became of the connections of its client.
AbandonedQueueCollected ==
  \A q \in QueueIds :
    []<>(q \notin clients \/ \E h \in HandlerIds : request[h].queue = q)
---------------------------------------------------------------------------
(* What the proofs need besides (EventQueueServerProofs).                  *)

\* A connected handler is waiting, knows its queue, and that queue is
\* registered and empty; a handler that knows a queue is connected to it.
ConnectionInv ==
  /\ \A q \in QueueIds, h \in HandlerIds :
       current_handler_id[q] = h =>
         /\ descriptors_by_handler_id[h] = q
         /\ request[h] = Waiting
         /\ q \in clients
         /\ event_queue[q] = <<>>
  /\ \A q \in QueueIds, h \in HandlerIds \ {0} :
       descriptors_by_handler_id[h] = q => current_handler_id[q] = h
\* The hypothesis of NoMissedNotification: the clients of one user have the
\* same timeout and the same interest in messages, and long queues are not
\* closed with DELETE.  (A default queue that is the last active one and is
\* removed beside an offline one takes its messages with it: do_gc_event_queues
\* calls the hook only for a user who has no queue left, active or not.)
UniformClients ==
  /\ \A k, l \in Kinds :
       k.user = l.user => k.long = l.long /\ k.all_types = l.all_types
  /\ (\E k \in Kinds : k.long) => MaxDeletes = 0

\* Whatever else the clients are: a message sent to a user is notified, seen, or
\* held, still to be notified, by every registered queue of theirs that takes
\* messages and has no narrow, be it offline.
QueuesHoldMessages ==
  \A q \in clients : accepts_messages(q) /\ ~kind[q].narrow =>
    {n \in sent : n[1] = kind[q].user} \subseteq notified \cup seen \cup MessagesHeld(q)

\* Default queues are collected before they are ever marked offline; a long
\* queue is marked offline before it can be collected, unless its timeout is near.
OfflineBeforeExpiry ==
  \A q \in clients :
    IF kind[q].long THEN idle[q] = 2 => offline[q] \/ kind[q].near ELSE ~offline[q]

MissedInv ==
  /\ QueuesHoldMessages
  /\ OfflineBeforeExpiry
  /\ MaxDeletes = 0 => cleanups = {}
  /\ UniformClients => NoMissedNotification
===========================================================================
