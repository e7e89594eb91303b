---------------------------- MODULE EventStream ----------------------------
(***************************************************************************)
(* The path of the events of one queue from send_event to the web client:  *)
(* the notify_tornado queue of RabbitMQ, the Tornado process with its      *)
(* event queue, the long-polls of server_events.js, and what may go wrong  *)
(* on the way: acknowledgements lost when the RabbitMQ connection drops,   *)
(* notices whose processing raises, polls that time out or are aborted     *)
(* and arrive late, a graceful restart, a crash, garbage collection.       *)
(*                                                                         *)
(* An event is its number in the order of publication.  None is of a type  *)
(* that push compresses (EventQueue, FlagSync), so a queue is the log of   *)
(* what was pushed (EventLog).  When a queue is idle long enough to be     *)
(* collected is left open.                                                 *)
(***************************************************************************)
EXTENDS EventLog, SequencesExt

CONSTANTS
  MAX_REQUEST_RETRIES,  \* as in the code: tries of a notice that raises
  MaxEvents,            \* bound: events published
  MaxRedeliveries,      \* bound: RabbitMQ connections lost with acks under way
  MaxFailures,          \* bound: process_notification calls that raise
  MaxGiveUps,           \* bound: polls aborted, timed out or lost
  MaxRestarts,          \* bound: graceful restarts
  MaxCrashes,           \* bound: crashes
  MaxWindow,            \* bound: notices processed after the queues were dumped
  NoQueue               \* the queue is not among clients, or not in the file

ASSUME BoundsAssumption ==
  {MAX_REQUEST_RETRIES, MaxEvents, MaxRedeliveries, MaxFailures, MaxGiveUps,
   MaxRestarts, MaxCrashes, MaxWindow} \subseteq Nat

ASSUME NoQueueAssumption == NoQueue \notin [log : Seq(Int), newest_pruned_id : Int]

VARIABLES
  published,      \* number of events published
  broker,         \* the notices of the RabbitMQ queue, those not acked included
  delivered,      \* how many of them were processed with the ack under way
  process,        \* "up", "closing" (queues dumped, loop still running), "down"
  queue,          \* the event queue in memory
  file,           \* the queue in the file written by dump_event_queues
  waiting,        \* the poll that is the queue's current handler
  requests,       \* polls on their way to fetch_events
  response,       \* the answer on its way to the client's poll
  in_flight,      \* get_events_xhr is not undefined
  last_event_id,  \* get_events_params.last_event_id
  dont_block,     \* what the next poll asks
  reload,         \* the client saw BAD_EVENT_QUEUE_ID
  handled,        \* history: the events the client received, restart events included
  dropped,        \* history: events given up after MAX_REQUEST_RETRIES
  redeliveries, failures, give_ups, restarts, crashes, window  \* for the bounds

notices == <<broker, delivered, dropped>>
server  == <<process, queue, file>>
client  == <<in_flight, last_event_id, dont_block, reload, handled>>
bounds  == <<redeliveries, failures, give_ups, restarts, crashes, window>>

vars == <<published, notices, server, waiting, requests, response, client, bounds>>

RestartEvent == 0
Events       == 1 .. MaxEvents

Notice  == [event : Events, failed_tries : 0 .. MAX_REQUEST_RETRIES]
Poll    == [current : BOOLEAN, last_event_id : Int, dont_block : BOOLEAN]

Error(type) == [type |-> type, first |-> 0, events |-> <<>>]
NoResponse  == Error("none")
BadQueueId  == Error("BAD_EVENT_QUEUE_ID")
Refused     == Error("BAD_REQUEST")

TypeOK ==
  /\ published \in 0 .. MaxEvents
  /\ broker \in Seq(Notice) /\ delivered \in 0 .. Len(broker)
  /\ process \in {"up", "closing", "down"}
  /\ \A q \in {queue, file} \ {NoQueue} :
       /\ q.log \in Seq(Events \cup {RestartEvent})
       /\ q.newest_pruned_id \in -1 .. Len(q.log) - 1
  /\ waiting \in {"none", "current", "stale"}
  /\ requests \subseteq Poll
  /\ response.type \in {"none", "events", "BAD_EVENT_QUEUE_ID", "BAD_REQUEST"}
  /\ in_flight \in BOOLEAN /\ last_event_id \in Int /\ last_event_id >= -1
  /\ dont_block \in BOOLEAN /\ reload \in BOOLEAN
  /\ handled \in Seq(Events \cup {RestartEvent}) /\ dropped \subseteq Events
  \* a poll in flight is at one place at most, and only then
  /\ LET held == (IF waiting = "current" THEN 1 ELSE 0)
                 + (IF response # NoResponse THEN 1 ELSE 0)
                 + Cardinality({r \in requests : r.current})
     IN held <= IF in_flight THEN 1 ELSE 0

\* The client has registered: its queue is new and its last_event_id is -1.
Init ==
  /\ published = 0 /\ broker = <<>> /\ delivered = 0 /\ dropped = {}
  /\ process = "up" /\ file = NoQueue
  /\ queue = [log |-> <<>>, newest_pruned_id |-> -1]
  /\ waiting = "none" /\ requests = {} /\ response = NoResponse
  /\ in_flight = FALSE /\ last_event_id = -1 /\ dont_block = FALSE
  /\ reload = FALSE /\ handled = <<>>
  /\ redeliveries = 0 /\ failures = 0 /\ give_ups = 0
  /\ restarts = 0 /\ crashes = 0 /\ window = 0
---------------------------------------------------------------------------
(* The event queue *)

\* Mutant: the handler is answered but stays the current one.
AddEventConnected(event) ==
  IF queue = NoQueue
  THEN UNCHANGED <<queue, waiting, response>>
  ELSE /\ queue' = Pushed(queue, event)
       /\ waiting' = waiting
       /\ response' = IF waiting = "current" THEN Contents(queue') ELSE response

\* ClientDescriptor.add_event: the waiting poll is answered with the queue.
AddEvent(event) ==
  IF queue = NoQueue
  THEN UNCHANGED <<queue, waiting, response>>
  ELSE /\ queue' = Pushed(queue, event)
       /\ waiting' = "none"
       /\ response' = IF waiting = "current" THEN Contents(queue') ELSE response
---------------------------------------------------------------------------
(* Publication and RabbitMQ *)

Publish ==
  /\ published < MaxEvents
  /\ published' = published + 1
  /\ broker' = Append(broker, [event |-> published', failed_tries |-> 0])
  /\ UNCHANGED <<delivered, dropped, server, waiting, requests, response, client, bounds>>

\* The consumer runs while the loop does, also after the queues were dumped.
Consumes ==
  /\ process # "down" /\ delivered < Len(broker)
  /\ process = "closing" => window < MaxWindow
  /\ window' = IF process = "closing" THEN window + 1 ELSE window
  /\ delivered' = delivered + 1
  /\ UNCHANGED <<published, process, file, requests, client, redeliveries,
                 give_ups, restarts, crashes>>

ProcessNotice ==
  /\ Consumes
  /\ AddEvent(broker[delivered + 1].event)
  /\ UNCHANGED <<broker, dropped, failures>>

\* Mutant: a notice that raised is acked and forgotten.
RetryNothing(notice) == UNCHANGED <<broker, dropped>>

\* retry_event publishes the notice again, behind all others, or logs and
\* forgets it; in both cases the original is acked.
RetryEvent(notice) ==
  IF notice.failed_tries + 1 > MAX_REQUEST_RETRIES
  THEN dropped' = dropped \cup {notice.event} /\ UNCHANGED broker
  ELSE /\ broker' = Append(broker, [notice EXCEPT !.failed_tries = @ + 1])
       /\ UNCHANGED dropped

\* process_notification raises, for another queue, before or after it pushed
\* to this one.
ProcessFails ==
  /\ failures < MaxFailures /\ failures' = failures + 1
  /\ Consumes
  /\ \/ AddEvent(broker[delivered + 1].event)
     \/ UNCHANGED <<queue, waiting, response>>
  /\ RetryEvent(broker[delivered + 1])

AckArrives ==
  /\ delivered > 0
  /\ broker' = Tail(broker) /\ delivered' = delivered - 1
  /\ UNCHANGED <<published, dropped, server, waiting, requests, response, client, bounds>>

\* RabbitMQ keeps what it saw no ack for, and delivers it again.
GivenBack ==
  /\ delivered' = 0
  /\ IF delivered > 0
     THEN redeliveries < MaxRedeliveries /\ redeliveries' = redeliveries + 1
     ELSE UNCHANGED redeliveries

BrokerConnectionLost ==
  /\ delivered > 0 /\ GivenBack
  /\ UNCHANGED <<published, broker, dropped, server, waiting, requests, response,
                 client, failures, give_ups, restarts, crashes, window>>
---------------------------------------------------------------------------
(* Long-polls on the server *)

FetchRejected(r, error) ==
  /\ response' = IF r.current THEN error ELSE response
  /\ UNCHANGED waiting

\* Mutant: a poll waits although the queue is not empty.
FetchWaiting(r, q) ==
  /\ response' = IF waiting = "current" \/ (r.current /\ r.dont_block)
                 THEN Contents(q) ELSE response
  /\ waiting' = CASE r.dont_block -> "none"
                  [] ~r.dont_block /\ r.current -> "current"
                  [] OTHER -> "stale"

\* The handler that waits is answered too: r supplants it.
FetchAccepted(r, q) ==
  LET immediate == ~IsEmpty(q) \/ r.dont_block
  IN /\ response' = IF waiting = "current" \/ (r.current /\ immediate)
                    THEN Contents(q) ELSE response
     /\ waiting' = CASE immediate -> "none"
                     [] ~immediate /\ r.current -> "current"
                     [] OTHER -> "stale"

\* fetch_events
Fetch(r) ==
  /\ process # "down" /\ r \in requests
  /\ requests' = requests \ {r}
  /\ IF queue = NoQueue
     THEN FetchRejected(r, BadQueueId) /\ UNCHANGED queue
     ELSE IF r.last_event_id < queue.newest_pruned_id
     THEN FetchRejected(r, Refused) /\ UNCHANGED queue
     ELSE LET q == Pruned(queue, r.last_event_id)
          IN /\ queue' = q
             /\ IF r.last_event_id # q.newest_pruned_id
                THEN FetchRejected(r, Refused)
                ELSE FetchAccepted(r, q)
  /\ UNCHANGED <<published, notices, process, file, client, bounds>>

\* A poll that nobody waits for may be lost; while no process listens, any is.
RequestLost(r) ==
  /\ r \in requests /\ (r.current => process = "down")
  /\ requests' = requests \ {r}
  /\ UNCHANGED <<published, notices, server, waiting, response, client, bounds>>

\* AsyncDjangoHandler.on_connection_close
ConnectionClosed ==
  /\ waiting = "stale" /\ waiting' = "none"
  /\ UNCHANGED <<published, notices, server, requests, response, client, bounds>>

GarbageCollect ==
  /\ process # "down" /\ queue # NoQueue /\ waiting = "none"
  /\ queue' = NoQueue
  /\ UNCHANGED <<published, notices, process, file, waiting, requests, response,
                 client, bounds>>
---------------------------------------------------------------------------
(* The client: server_events.js *)

\* Mutant: every poll repeats the last_event_id of the registration.
GetEventsFromStart ==
  /\ ~reload /\ ~in_flight
  /\ in_flight' = TRUE
  /\ requests' = requests \cup {[current |-> TRUE, last_event_id |-> -1,
                                 dont_block |-> dont_block]}
  /\ UNCHANGED <<published, notices, server, waiting, response, last_event_id,
                 dont_block, reload, handled, bounds>>

GetEvents ==
  /\ ~reload /\ ~in_flight
  /\ in_flight' = TRUE
  /\ requests' = requests \cup {[current |-> TRUE, last_event_id |-> last_event_id,
                                 dont_block |-> dont_block]}
  /\ UNCHANGED <<published, notices, server, waiting, response, last_event_id,
                 dont_block, reload, handled, bounds>>

\* The success callback; also the error callback when the server answered 400.
ReceiveResponse ==
  /\ response # NoResponse
  /\ response' = NoResponse /\ in_flight' = FALSE
  /\ reload' = (reload \/ response = BadQueueId)
  /\ dont_block' = (response = Refused)
  /\ LET newest == response.first + Len(response.events) - 1
     IN last_event_id' = IF response.type = "events" /\ newest > last_event_id
                         THEN newest ELSE last_event_id
  /\ handled' = handled \o response.events
  /\ UNCHANGED <<published, notices, server, waiting, requests, bounds>>

\* The poll is aborted for a new one (restart_get_events), times out, or its
\* answer is lost: the server does not know, its answer will reach nobody.
GiveUp ==
  /\ in_flight /\ give_ups < MaxGiveUps
  /\ give_ups' = give_ups + 1
  /\ in_flight' = FALSE /\ dont_block' \in BOOLEAN
  /\ requests' = {[r EXCEPT !.current = FALSE] : r \in requests}
  /\ waiting' = IF waiting = "current" THEN "stale" ELSE waiting
  /\ response' = NoResponse
  /\ UNCHANGED <<published, notices, server, last_event_id, reload, handled,
                 redeliveries, failures, restarts, crashes, window>>

\* The error callback of a poll the server dropped when it stopped.
PollFails ==
  /\ in_flight /\ response = NoResponse /\ waiting # "current"
  /\ \A r \in requests : ~r.current
  /\ in_flight' = FALSE /\ dont_block' = TRUE
  /\ UNCHANGED <<published, notices, server, waiting, requests, response,
                 last_event_id, reload, handled, bounds>>
---------------------------------------------------------------------------
(* Restarts: runtornado *)

\* SIGTERM: dump_event_queues, http_server.stop, close_all_connections begins.
BeginShutdown ==
  /\ process = "up" /\ restarts < MaxRestarts
  /\ restarts' = restarts + 1 /\ window' = 0
  /\ process' = "closing" /\ file' = queue
  /\ UNCHANGED <<published, notices, queue, waiting, requests, response, client,
                 redeliveries, failures, give_ups, crashes>>

\* The process ends with its memory, its connections and what they carry, acks
\* among it.
ProcessEnds ==
  /\ GivenBack
  /\ process' = "down" /\ queue' = NoQueue
  /\ waiting' = "none" /\ requests' = {}
  /\ UNCHANGED <<published, broker, dropped, file, response, client, failures,
                 give_ups, restarts, window>>

Exit == process = "closing" /\ ProcessEnds /\ UNCHANGED crashes

Crash ==
  /\ process # "down" /\ crashes < MaxCrashes
  /\ ProcessEnds /\ crashes' = crashes + 1

Loaded(q) == q

\* setup_event_queue: load_event_queues, the file renamed, send_restart_events.
Start ==
  /\ process = "down" /\ process' = "up"
  /\ file' = NoQueue
  /\ queue' = IF file = NoQueue THEN NoQueue ELSE Pushed(Loaded(file), RestartEvent)
  /\ UNCHANGED <<published, notices, waiting, requests, response, client, bounds>>
---------------------------------------------------------------------------
Next ==
  \/ Publish
  \/ ProcessNotice \/ ProcessFails \/ AckArrives \/ BrokerConnectionLost
  \/ \E r \in requests : Fetch(r) \/ RequestLost(r)
  \/ ConnectionClosed \/ GarbageCollect
  \/ GetEvents \/ ReceiveResponse \/ GiveUp \/ PollFails
  \/ BeginShutdown \/ Exit \/ Crash \/ Start

Spec == Init /\ [][Next]_vars

\* The loop runs its callbacks, supervisord restarts the process, requests
\* reach the server or fail, the client polls again.
Fairness ==
  /\ WF_vars(ProcessNotice) /\ WF_vars(AckArrives)
  /\ WF_vars(\E r \in requests : r.current /\ (Fetch(r) \/ RequestLost(r)))
  /\ WF_vars(GetEvents) /\ WF_vars(ReceiveResponse) /\ WF_vars(PollFails)
  /\ WF_vars(Exit) /\ WF_vars(Start)

FairSpec == Spec /\ Fairness
---------------------------------------------------------------------------
\* The published events among the first i that were received.
PublishedUpTo(events) ==
  LET kept[i \in 0 .. Len(events)] ==
        IF i = 0 THEN <<>>
        ELSE IF events[i] = RestartEvent THEN kept[i - 1]
        ELSE Append(kept[i - 1], events[i])
  IN kept

WithoutRestarts(events) == PublishedUpTo(events)[Len(events)]

\* The client handles exactly the published events, in order (with no notice
\* redelivered or retried, and none processed after the queues were dumped):
\* last_event_id, prune and the dump file make up for lost polls and restarts.
Reliable == INSTANCE ReliableEvents WITH
  published <- published, handled <- WithoutRestarts(handled), reload <- reload

ImplementsReliableEvents == Reliable!Spec

\* The queue the next poll of the client will find.
Kept == IF process = "down" THEN file ELSE queue

\* Redelivery, retries, lost polls, restarts and crashes never lose an event
\* for good: until its client reloads, or will because its queue is gone, the
\* event is handled, or kept by RabbitMQ or the queue, or was given up.
NothingLost ==
  \/ reload \/ Kept = NoQueue
  \/ \A e \in 1 .. published :
       \/ e \in ToSet(handled) \cup dropped
       \/ \E n \in ToSet(broker) : n.event = e
       \/ e \in ToSet(Contents(Kept).events)

\* An honest client is never told that its last_event_id was pruned or is not
\* in the queue: it would retry the same poll until the queue is collected.
PollNeverRefused == response # Refused

\* "Exactly-once delivery in the presence of potential failures".  (Not so
\* once RabbitMQ delivers a notice again: its event gets a second id.)
HandledOnce ==
  \A i, j \in DOMAIN handled :
    handled[i] = handled[j] /\ handled[i] # RestartEvent => i = j

\* Whatever is lost or restarted on the way, an event published is handled in
\* the end, unless it was given up or the client starts over.
Delivered ==
  \A e \in Events : published >= e ~> \/ e \in ToSet(handled) \cup dropped
                                      \/ reload
===========================================================================
