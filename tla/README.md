# The Zulip events system, specified in TLA+

`src/HW1/` is a Zulip server with two LLM features added to it
(`zerver/actions/llm_features.py`). This directory holds TLA+ specifications of
the parts of that server whose correctness depends on the order of things:
the *events system*, which carries every change from the database to the
browsers, from registration to the missed-message emails; the *topic title
improver*, the added feature that keeps shared state; and two features whose
correctness rests on row locks, *scheduled messages* and *user groups*. The
specifications are model-checked with TLC and in good part proved with TLAPS.
`PROJECT.json` lists, for every definition, the lines of source it stands for;
for every property, a mutant of the code that breaks it; and the hazards the
properties are aimed at.

Paths below are relative to `src/HW1/`.

## 1. Inventory

### The parts and how they interact

    web client            Tornado process (one per shard)            Django workers
    server_events.js      views.py  handlers.py  event_queue.py      send_event_on_commit
        |                        |                                        |
        |-- GET /json/events --->| Django thread -> fetch_events          |
        |<-- long-poll answer ---|<--------- process_notification <-- notify_tornado (RabbitMQ)
        |                        |
        |                        |--> missedmessage_emails (RabbitMQ) -> worker process:
        |                        |      consume --rows, cv--> background thread --> email_senders
        |                        |--> missedmessage_mobile_notifications (RabbitMQ)
        |-- POST /json/register --> Django worker: do_events_register -- queue --> Tornado
        |-- POST /json/suggest_topic_title --> Django worker <-> memcached, AI provider
        |-- scheduled_messages, user_groups --> Django workers <-> PostgreSQL rows
                                      deliver_scheduled_messages (command) --^

| part | state | operations | modelled in |
|---|---|---|---|
| event queue data structure (`tornado/event_queue.py`, `EventQueue`) | a deque of events with ids, the virtual events, `newest_pruned_id` | `push`, `pop`, `prune`, `empty`, `contents` | `EventQueue`, `FlagSync` |
| Tornado event server (`tornado/event_queue.py`, `handlers.py`, `descriptors.py`, `views.py`) | `clients`, `user_clients`, `realm_clients_all_streams`, `web_reload_clients`, the descriptors; `handlers`, `descriptors_by_handler_id` | register, poll, close, heartbeat, process a notice, DELETE, sweep, mark offline, dump and load | `EventQueueServer`, `QueueExpiry` |
| event delivery path (`tornado/django_api.py`, `lib/queue.py`, `management/commands/runtornado.py`, `web/src/server_events.js`) | the RabbitMQ queue with its unacknowledged notices, the dump file, the client's `last_event_id` and poll | publish, consume, ack, retry, reconnect, poll, time out, shut down, start | `EventStream`, `ReliableEvents` |
| registration and initial state (`lib/events.py`) | a queue and a snapshot of many tables | allocate, fetch, ask for the events queued meanwhile, apply them | `RegisterEvents` |
| missed-message emails (`worker/missedmessage_emails.py`, `worker/base.py`, `lib/queue.py`) | rows of `ScheduledMessageNotificationEmail`, the condition variable `cv`, `has_timeout`, `stopping`, the notice in hand | consume, time out, ack; wait, send what is due, back off; stop, die, start | `MissedMessageEmails` |
| scheduled messages and reminders (`actions/scheduled_messages.py`, `lib/scheduled_messages.py`, `deliver_scheduled_messages`) | rows of `ScheduledMessage` and their locks | schedule, edit, delete, deliver, fail | `ScheduledMessages`, `ScheduledOnce` |
| user groups (`lib/user_groups.py`, `views/user_groups.py`, `actions/user_groups.py`) | `NamedUserGroup`, `GroupGroupMembership` and row locks | create, add and remove subgroups, deactivate, reactivate | `UserGroups` |
| topic title improver (`actions/llm_features.py`, `views/llm_features.py`) | one cooldown key per topic in memcached | check, look up, claim, call, release | `TopicCooldown` |
| other queue workers, push notifications, sending and editing messages, rate limiter | see `PROJECT.json` | | not modelled (section 8) |

### What is hard

* **Interleaving.** Tornado runs one callback at a time, but a request spends
  part of its life in a Django thread (`handlers.py`, `get` and
  `convert_tornado_request_to_django_request`) and its answer is written by a
  callback of its own (`zulip_finish`). A poll may find its queue collected, its
  connection closed, or another poll connected in its place. The missed-message
  worker has two threads and a condition variable. Requests for a topic
  suggestion, edits of a scheduled message and changes of user groups run in
  parallel in several web workers.
* **Stale state.** `cleanup_event_queue` looks a queue up before a hop to the
  event loop; the web-reload list names queues long after it was made; the
  per-user lists are rebuilt by sweeps. The recursive query for subgroups reads
  before it locks; an edit of a scheduled message writes back every column of
  what it read; a registration reads its state over many transactions.
* **Ordering.** Compression moves flag events past others; retried notices are
  published behind later ones; aborted polls arrive late; two requests may
  publish their events in another order than they committed.
* **Loss and duplication.** Answers that never arrive, RabbitMQ connections lost
  with acks under way, notices that raise half-way.
* **Signals, crashes and restarts.** Queues are dumped on SIGTERM and loaded by
  the next process; a crash loses them and must not bring an old dump back.
  SIGALRM and SIGTERM interrupt a worker anywhere, also inside `with self.cv`.
* **Timeouts.** Heartbeats, offline marking and garbage collection run on
  separate timers over one `last_connection_time`; whether an unseen message is
  notified is decided partly on arrival and partly when the queue goes.
* **Locks.** `FOR UPDATE`, with and without NOWAIT, in an order that differs
  between requests; rows read and written back with no lock at all.

### What makes each part correct

* Event queue: compression changes the number and order of events, not their
  payload, and not the flags a client ends up with (for flags that moved one
  way only); ids are served in order; an honest acknowledgement is accepted.
* Event server: no long-poll is forgotten, no event waits in the queue of a
  connected client, the indexes list the registered queues and no others, no
  notifiable message is neither seen nor notified, abandoned queues go.
* Delivery path: a client handles every event, in order, once; or it is told
  to start over. No event is lost by a lost poll, a redelivery or a restart.
* Queue expiry: a client that polls keeps its queue; one that leaves has the
  timeout it asked for.
* Registration: the state a client ends up with is the server's.
* Missed-message emails: the background thread is never left asleep with rows to
  send; no row becomes two emails; no notice disappears; every one is settled,
  as long as the main thread is there.
* Scheduled messages: each is sent at most once, as it was last edited, and what
  is due is dealt with.
* User groups: memberships have no cycle and only active groups become
  subgroups; only requests that conflict deadlock.
* Topic cooldown: no call for a topic during its cooldown; no cooldown left
  behind by a call that failed, unless its worker was killed.

## 2. The modules

### The events system

`EventQueue` (no variables): the queue of one client as a record and its
methods as operators: `push` with one virtual event per full type
(`flags/add/read`, `flags/remove/starred`, ...), `prune`, `contents` with the merge of
virtual events by id, and the two acknowledgement checks of `fetch_events`.
Event payloads are short sequences of message ids.

`FlagSync`: that queue, pushed to from a set of event templates and polled by a
client whose responses may be lost. This is where compression is examined in
full. `MCFlagSync` has the templates: a message event and every kind of flag
event the server sends (read, unread, mark-all-as-read, star, unstar).

`EventQueueServer`: one Tornado process. Every action is one callback of the
event loop, from its start to its end, with every call it makes:

| code | action |
|---|---|
| `get_events_internal` without `queue_id`, `allocate_client_descriptor` | `Register` |
| `AsyncDjangoHandler.initialize`, `get` (to the Django thread) | `NewPoll` |
| `fetch_events`, back on the loop | `FetchRefused`, `FetchAnswered`, `FetchWaits` |
| `zulip_finish` ... `on_finish` | `FinishResponse` |
| `on_connection_close` | `CloseConnection` |
| `timeout_callback` of `connect_handler` | `Heartbeat` |
| `process_message_event`, with `get_client_info_for_message_event`, `receiver_is_off_zulip`, `maybe_enqueue_notifications` | `ProcessMessage` |
| `process_event`, `process_deletion_event`, ... | `ProcessEvent` |
| `send_web_reload_client_events` | `SendWebReload` |
| `cleanup_event_queue` (Django thread), `ClientDescriptor.cleanup` (loop) | `RequestCleanup`, `Cleanup`, `CleanupTooLate` |
| `gc_event_queues` = `do_gc_event_queues` + `mark_clients_offline` + `missedmessage_hook` | `Sweep` |
| `dump_event_queues`, `load_event_queues`, `setup_event_queue` | `Restart` |
| the passing of time | `Age` |

Abstractions: an event is a message or "other"; an acknowledgement is the number
of leading events it covers (ids and compression are the subject of the modules
above); time since `last_connection_time` is a class per queue (recent; longer
than the offline timeout; longer than the timeout of a long-lived queue);
messages are those that are notifiable to an idle user. A descriptor's fields
outlive its removal from `clients`, as the Python object does while a closure
holds it. Handler ids and queue ids that nothing refers to are used again. A
queue kind is what a client registers: its user, whether its timeout is longer
than the offline timeout (mobile clients) and whether by so little that no sweep
need fall in between, whether it asked for all event types, whether it hears all
public channels, and whether it gave a narrow, by which it may refuse any message.

`QueueExpiry`: the clock that `EventQueueServer` abstracts away: one queue,
ticks, `last_connection_time` set only by a poll that waits, `expired`.

`EventStream`: the path of the events of one queue: RabbitMQ with acks,
redelivery and `retry_event`; the Tornado process going through "up", "closing"
(queues dumped, loop still running), "down"; the dump file; the polls on their
way, waiting and answered; the client's `get_events_xhr`, `last_event_id`,
`dont_block` and reload. A poll the client gave up is not gone: it may still
reach the server. Events are numbered in the order of publication. The queue is
that of `EventLog` (no variables): the log of what was pushed, with
`newest_pruned_id`. `handled` is all that the client received;
`WithoutRestarts` leaves the restart events out of it, which a new process pushes
to every queue it loaded and which nobody published.

`ReliableEvents`: what that path promises, in three actions: events are
published, handled in order without a gap, or the client starts over.
`EventStream` implements it (`ImplementsReliableEvents`) as long as no notice
is redelivered, retried or processed after the dump; section 6 says what happens
otherwise.

`RegisterEvents`: what comes before the stream: `/register`.

| code | action |
|---|---|
| authentication; `user_settings` taken from `user_profile` (`fetch_initial_state_data`) | `Authenticate` |
| `request_event_queue` in `do_events_register` | `AllocateQueue` |
| `fetch_initial_state_data`, one table after the other | `Fetch` |
| `get_user_events(user_profile, queue_id, -1)` | `GetEvents` |
| `apply_events`, `apply_event` | `ApplyNext`, `ApplyRaises` |
| the response; the client's maps made from it; its handling of events | `Respond`, `Shown`, `ClientHandles` |
| a request that gets the row it will change (`saved_snippets.py:56`, `:87`), or reads the words back in its transaction (`lib/alert_words.py:73`) | `Reads` |
| its commit; its `send_event_on_commit`; Tornado's `process_event` | `Commit`, `Publish`, `Deliver` |

There is one row of each table, and four tables for the four ways the code
treats them: a setting (taken from the request's `user_profile`), the alert words
(whole values), saved snippets (a list, events change single rows), drafts (a
list, with an assertion that the row is found). A row is told by the number of
the change that made it what it is. What a request has read may be out of date
when it commits: an edit then brings a deleted row back, and a list of words is
published that lacks one (`Ops`). Drafts are synchronised by API clients; the
web client has them in local storage.

### Missed-message emails

`MissedMessageEmails`: the worker that consumes what `EventQueueServer`'s
`notified` stands for. The main thread:

| code | action |
|---|---|
| `start_json_consumer`: a delivery; `basic_ack` after the callback | `Deliver`, `Ack` |
| `consume`: `with self.cv`, the row's `create`, `self.cv.notify()` | `Acquire`, `CreateRow`, `Notify` |
| `timer_expired` (SIGALRM) or an exception, `_handle_consume_exception` | `ConsumeFails` |
| an exception outside `consume`, `log_and_exit_if_exception` (`process_queue.py:28`) | `ConsumerDies` |
| `signal_handler` (SIGTERM), `stop` with its join; the exit | `Stop`, `Exit` |

and the background thread:

| code | action |
|---|---|
| `work`, `background_loop` up to `cv.wait_for` | `Loop` |
| the wait: notified, or timed out | `Wake`, `Timeout` |
| `maybe_send_batched_emails`: rows selected and locked; deleted and committed; the `on_commit` callbacks | `Timeout`, `Commit`, `Publish`, `Published` |
| an exception in any of it; the backoff on `cv` | `ThreadFails`, `Backoff`, `BackoffEnds` |

A signal handler runs in the main thread between any two of its steps, also
while it holds `cv`. What a notice says (recipient, message, timestamp) is left
out: a notice stands for all three, a row is the notice and the delivery that
made it, and any row may become due at any time. The worker is modelled in the
process-per-queue mode of production.

### Scheduled messages

`ScheduledMessages`: rows, row locks, the delivery command and the requests. A
transaction shows when it commits; until then its locks keep others away.

| code | action |
|---|---|
| `do_schedule_messages` | `Schedule` |
| `edit_scheduled_message`: `access_scheduled_message` with `lock_message`; `save`; a refusal | `BeginEdit`, `SaveEdit`, `EditFails` |
| `delete_scheduled_message`: the read without a lock; the DELETE | `BeginDelete`, `FinishDelete` |
| `try_deliver_one_scheduled_message`: `select_for_update().first()` | `TakeNext` |
| `send_scheduled_message`, `send_reminder`; the commit | `SendMessage`, `Delivers` |
| the `except` clause: `failed`, before the message was sent or after its row was saved | `IsRefused`, `DeliversAndFails` |
| the same for a message that is ten minutes late; reminders have no such limit | `IsTooLate` |
| an exception in `do_send_messages` (`atomic(savepoint=False)`): the `except` clause raises, the command ends | `SendRaises` |
| supervisord | `Crash`, `Restart` |

`ScheduledOnce`: the promise to the author, in five actions: schedule, edit, send,
fail, cancel; nothing after a message was sent.

### User groups

`UserGroups`: requests as transactions at READ COMMITTED, over
`lock_subgroups_with_respect_to_supergroup`.

| code | action |
|---|---|
| `add_user_group`, `update_subgroups_of_user_group`: the recursive query starts | `CreateGroup`, `UpdateSubgroups` |
| its `select_for_update(nowait=True)` locks what it found, or fails | `LockSubgroups` |
| the supergroup's row FOR UPDATE, then the checks, then the change | `Add`, `Delete` |
| `check_user_group_can_be_deactivated`, `do_deactivate_user_group`, `do_reactivate_user_group` | `ChangeActivation`, `Activation` |
| commit; an exception; PostgreSQL's deadlock detection | `Commit`, `Interrupt`, `AbortDeadlocked` |

The recursive query is two steps, its snapshot and its locks. The checks that
follow the supergroup's lock are one step with it, since what they read is
locked by then. Members, names, permissions and settings that refer to groups
are left out: they do not change memberships between groups. So is the request
that updates members and subgroups together (`update_user_group_backend`), which
locks the supergroup first, while it holds nothing, and never waits afterwards.

### Topic title improver

`TopicCooldown`: `suggest_topic_title` in parallel requests; each access to
memcached, the database and the provider is a step, before and after which uWSGI
may kill the worker (`Kill`: `harakiri`, a deployment). `cooldown` has with each key
the request that set it, and `barred` the requests sent while a cooldown was on;
both are history.

### How the modules meet

`FlagSync` builds on `EventQueue`; `EventQueueServer` takes from it that an
acknowledgement removes leading events and that an honest one is refused only
when a later one was processed first; `EventStream` takes from `EventQueueServer`
that a connected client's queue is empty and that a waiting poll is answered by
the next event, and instantiates `ReliableEvents`; its queue, `EventLog`, is what
`EventQueue` is without compression (a theorem of `EventQueueProofs`); `QueueExpiry` supplies the
order of timeouts that `Age` assumes. `RegisterEvents` takes the path of its
events from `EventStream` (in order, none lost). `MissedMessageEmails` starts
where `EventQueueServer` enqueues. `ScheduledMessages` instantiates
`ScheduledOnce`. Each `...Proofs` module extends the module it is about;
`EventQueueProofs` is about `FlagSync`, `EventLog` and `QueueExpiry`.

## 3. The runs

| run | what it shows |
|---|---|
| `flag_sync` | compression keeps payloads, serves in order, accepts honest acknowledgements, keeps the flags of messages that moved one way |
| `server_connections` | two default queues of a user, two handlers, a message, a DELETE: every interleaving of polls, closed connections and sweeps |
| `server_indexes` | a person with mobile clients, a bot with a narrow that hears all public channels, a web reload, a restart: indexes and notifications |
| `server_liveness` | every long-poll ends, every abandoned queue is collected |
| `stream_exactly_once` | refinement of `ReliableEvents`, polls never refused, everything handled in the end |
| `stream_retries` | nothing is lost through redelivery, retries, lost polls and a restart |
| `queue_expiry` | the timing of collection |
| `register_events` | a client that registers ends up with what the database has, but for five named races |
| `missed_emails` | the condition variable, the transaction and the acks of the missed-message worker, with signals, exceptions and kills at every point |
| `scheduled_messages` | refinement of `ScheduledOnce`; what is due is handled |
| `user_groups` | cycles, deactivated subgroups, unnecessary deadlocks |
| `topic_cooldown` | the cooldown is respected and failures do not silence a topic, kills excepted |

Symmetry over queue ids and the view `LiveState` (the fields of a queue that is
not registered are not read before `Register` writes them all) are used for
safety only, not in `server_liveness`; symmetry over groups and requests in
`user_groups` and over writers in `register_events`, which have no liveness
property.

### Bounds, and why they are enough

* `flag_sync`: four events. The shortest counterexamples to the properties of
  this kind need a set, a clear and a set of one flag with something in between;
  four events with polls anywhere between them cover that.
* Server runs: two queues are what "another queue of the user" needs, for
  supplanting, indexes and `last_client_for_user`; two handlers at a time are a
  poll and the one that supplants it or closes late. One message suffices:
  notifications of different messages do not influence each other.
  `MaxPending = 1` bounds what waits in a queue: polls that acknowledge nothing
  or one event, and polls whose acknowledgement was pruned before, all occur. A
  restart is explored from every state, once.
* `FirstHandlerId` is 1 in every run: a process numbers its handlers from 0, and
  the first one behaves differently (section 6). The runs and the theorem
  `NoPollForgotten` are about every handler after it.
* Stream runs: two or three events, one or two lost polls, one restart, one
  crash, and in `stream_retries` one redelivery: the RabbitMQ connection is lost,
  or the process ends, with acks under way. `MaxRedeliveries = 0` in
  `stream_exactly_once` says that every ack of a process that ends arrives. `MAX_REQUEST_RETRIES` is 1 where the code
  has 3: one retry and then the drop. In `stream_retries` two notices, or one
  twice, may raise. `MaxWindow = 0` leaves out notices processed after the dump
  (section 6).
* `queue_expiry`: timeout 10, heartbeat after 2 to 3, repoll within 1 tick: the
  order of 600, 45 to 55 and a few seconds. `EventGap` 2 and `DontBlock =
  {FALSE}` are the conditions under which `KeptWhilePolled` holds at all
  (section 6).
* `register_events`: one table of each kind, three changes in all: enough to add,
  remove and bring back a row around the fetch of its table, or to do less while
  another table changes. Two writers are what it takes to publish in the wrong
  order and to change what the other has read.
* `missed_emails`: two notices, so that one arrives while the row of the other
  is waited for, sent or backed off from, and so that an `on_commit` callback
  can fail with another behind it; two faults, so that a failure is followed by
  a SIGTERM, or a kill by a kill. The theorems cover any number of both.
* `scheduled_messages`: a message that makes the delivery raise, a reminder (never
  edited) and an ordinary message, in this order, so that two of them wait behind
  the first; two requests, one edit of a row, one fault.
* `user_groups`: three groups allow a cycle through a group that neither request
  names; two requests with three named subgroups between them are what the
  cycle by a stale query needs; one group is deactivated at a time, since only
  a deactivated group that is, or is becoming, a subgroup matters.
* `topic_cooldown`: four requests in two spellings, so that the cooldown of one
  spelling, the other spelling, a failure, a kill and an expiry all overlap.
  `MIN_TOPIC_MESSAGES` is 2 (3 in the code), so that both outcomes of the check
  occur.

Deadlock is checked except where the system really may stop: in `EventStream`
the client waits on an idle poll, or has left to reload, once the events and
failures of the bounds are used up; in `TopicCooldown` all requests end; in
`MissedMessageEmails` the worker waits for notices that will not come; in
`ScheduledMessages` everything is delivered, failed or deleted; in
`RegisterEvents` the client has handled the last change.

### Fairness

* Server (`server_liveness`): weak fairness of every scheduled callback
  (`HandlerStep`, `CleanupStep`), of the heartbeat timer, of the periodic sweep,
  and of time (`Age`). A Tornado loop runs its callbacks and its
  `PeriodicCallback`s. Nothing is assumed of clients: they need not poll,
  acknowledge or close.
* Stream (`stream_exactly_once`): weak fairness of the consumer and its acks, of
  the arrival or failure of the client's current poll, of the client's own steps
  (a browser that is open polls again, `server_events.js` sets a timer after
  every answer and every error), of `Exit` and `Start` (supervisord restarts the
  process). Losses are bounded, so "in the end" means: once failures stop for
  long enough. Garbage collection is not fair, it is only possible.
* Missed-message worker (`missed_emails`): weak fairness of either thread, whose
  waits with a timeout end; of rows becoming due (time passes); of the exit, of
  supervisord's SIGKILL after `stopwaitsecs`, and of its restart. Faults are not
  fair.
* Scheduled messages (`scheduled_messages`): weak fairness of the command, which
  loops and which supervisord restarts, and of the requests under way, which end;
  strong fairness of `IsTooLate` for a message that makes the delivery raise:
  time passes, so one that is tried again and again is too late some day.

## 4. Properties

Server: `ConnectedQueueEmpty`, `HandlerMapsAgree`, `WaitingPollRegistered` speak
of connections; `IndexesAgree` of the indexes; `NoMissedNotification` is the
"hard disconnect problem" of `docs/subsystems/notifications.md`: once a user has
no active queue, every notifiable message was acknowledged by one of their
clients or has been enqueued. It is stated of users none of whose clients gives a
narrow or a timeout just above the offline one (`Ordinary`), and checked where it
holds: with default clients only, and with users whose clients are all
long-lived, none of which DELETEs its queue; section 6 has the other kinds. `PollEnds` and `AbandonedQueueCollected`
are the liveness properties; the second allows a queue to live while polls for
it keep arriving.

Stream: `ImplementsReliableEvents` (order, no gap, no repetition), `PollNeverRefused`
(a refusal other than `BAD_EVENT_QUEUE_ID` makes the web client repeat the same
poll), `Delivered`, and `NothingLost`, which says where each event is: handled,
in RabbitMQ, in the queue or the dump file, or dropped with a log entry.

Registration: `CurrentButForRaces`: when everything published has been handled,
the client shows what the database has, for every table but those with one of
five races: changed between authentication and the queue (`missed`), two
entries of a row when an event was applied (`repeated`), an update applied to no
row (`ignored`) after an edit had brought a deleted one back (`reborn`), last two
changes published in the wrong order, a value computed before another commit
(`partial`). `ClientCurrent`, without the exceptions, is what
`docs/subsystems/events-system.md` promises, and is false (section 6).

Missed-message worker: `NoLostWakeup` and `BackoffUndisturbed` are the two halves
of the comments on `has_timeout`; `EmailedRowsGone` says that a row and its email
change hands in one transaction; `NothingForgotten` says where each notice is;
`EveryNoticeSettled` is the liveness property; it excepts notices that a process
without its main thread has not consumed (`Stranded`), and an exception that kept
the main thread from notifying (`unnotified`).

Scheduled messages: `ImplementsScheduledOnce` and `DueGetsHandled`, for all rows
but those behind a reminder that makes the delivery raise. User groups:
`CyclesOnlyFromMisreads`, `OnlyActiveSubgroupsAdded`, and
`DeadlocksOnlyFromConflicts`, which makes "unnecessary deadlocks on
non-conflicting queries" precise: requests on a cycle of waits would together
make a cycle of groups, so one of them must fail in any case. A single request
may fail by NOWAIT as often as others hold its rows.

Expiry: `KeptWhilePolled`, `KeptAfterwards`. Cooldown: `CooldownRespected`,
`NotSilenced`. Flags: `PayloadPreserved`, `ServedInIdOrder`,
`AcknowledgementAccepted`, `FlagsAgreeUnlessReversed`.

## 5. Proofs

All theorems are of the specifications the runs check, with no constant replaced
and no bound on it but the module's own named assumptions, which TLC evaluates
on every run: `KindsAssumption`, `HandlerAssumption`, `BoundsAssumption`,
`NoneAssumption` (`EventQueueServer`); `BoundsAssumption` (`EventStream`,
`MissedMessageEmails`, `UserGroups`, `ScheduledMessages`); `NoQueueAssumption`
(`EventStream`: "no queue" is not a queue); `MaxEventsAssumption`,
`TemplatesAssumption` (`FlagSync`: what the fields of an event are); `TimesAssumption`,
`DontBlockAssumption` (`QueueExpiry`); `TablesAssumption`, `BoundAssumption`
(`RegisterEvents`); `NoNoticeAssumption`; `NoGroupAssumption`; `IdsAssumption`,
`HoldersAssumption`; `CooldownAssumption`. Sets of users, queues, messages,
event templates, notices, groups, requests, tables and writers are arbitrary. A theorem that
needs more says so in an ASSUME of its own.

**`EventQueueServerProofs`.** `TypeCorrect`; `IndexesCorrect`, which needs only that
registration and removal treat all indexes alike; three theorems about
connections, and two about notifications. `ConnectedQueueEmpty`, `HandlerMapsAgree` and `WaitingPollRegistered`
are not inductive one by one; `ConnectionInv` says in addition which handlers may
be in which state of a poll, that a finished response is disconnected, and that
only registered queues are connected. `NoEventWaits`, `HandlerMapsCorrect` and
`NoPollForgotten` follow. The last assumes `FirstHandlerId = 1`.

`NotificationsNotMissed` is the hard disconnect problem (`missedmessage_hook`): a
message to a user without an active queue was seen or is notified. It rests on
`MissedInv`. A registered queue that takes messages without a narrow, active or offline, holds
every message sent to its user that was neither notified nor seen
(`QueuesHoldMessages`; this part needs no hypothesis on the other clients and is a
theorem of its own, `QueuesHold`): an event leaves the queue only when its client acknowledges it,
and then it was seen. So whichever queue is the last to become inactive, its hook
has all that is missing. That this hook is called at all is
`OfflineBeforeExpiry`: a default queue is collected, never marked offline, and a
long one is marked offline before it can be collected, unless its timeout is so
near the offline one that one sweep finds both passed. For this the clients of a
user must be `Ordinary` and alike, and long queues must not be closed with DELETE
(`UniformClients`); without that the code does miss notifications (section 6), and
`NoMissedNotification` is false, not merely unproved.

**`EventStreamProofs`.** `TypeCorrect`, without a hypothesis: at most one poll is the
client's current one (`OnePoll`). The other five assume `MaxWindow = 0`, that no
notice is processed between the dump and the exit; section 6 has what happens
otherwise.

`PollsServed`: a current poll is never refused but for a collected queue. What it
acknowledges is what the client last received (`PollIds`), and the queue, in
memory and in the dump file, begins with what the client has received or is being
sent, and has not deleted more than that (`Serves`, `Dumped`), so that an
acknowledgement is neither ahead of the queue nor behind `newest_pruned_id`. The
interesting step is a late, aborted poll, which may prune only what the client had.

`EventsNotLost`, for any number of redeliveries and retries: `LossInv` adds to this
that every event is covered (`Covers`), for the queue in memory and for the dump
file alike: given up after `MAX_REQUEST_RETRIES`, in the log, or with RabbitMQ; and
that the event of a notice processed but not acked is one of those without it, so
that the ack may arrive.

`StreamIsReliable` is the refinement of `ReliableEvents`, with `MaxRedeliveries = 0`
and `MaxFailures = 0`, since otherwise an event gets a second id. By `OrderInv` the
log of the queue, restart events left out, is the events 1, 2, ... up to the last
one processed, and what the client has seen is so up to some number (`Numbered`,
`Ordered`, `SeenInOrder`); as the client's log is the beginning of the queue's, an
answer continues it without a gap. Each action then maps to `Publish`, to `Handle`,
to `Reload` or to a stutter. `WithoutRestarts` is a recursive function; what it does
on a prefix and on an appended event (`PublishedAgrees`, `PublishedGrows`,
`WithoutAppended`) is proved by induction over the positions of the log, from
well-foundedness: the set of positions at which the claim fails has no least
element (`NumberInduction`). `EventsHandledOnce` follows from the same invariant.

`EventsFirstHeardInOrder` is what remains of this order when RabbitMQ delivers
notices again (any `MaxRedeliveries`, `MaxFailures = 0`): an event may be handled
twice, but none is handled before those published earlier. By `RedeliveryInv` a
log has no gap (`NoGap`) and has all events before the next one to process
(`Complete`); losing the connection only sets back which one is next. A retry would
break it: `retry_event` puts a notice behind later ones.

**`EventQueueProofs`**, the queue data structure, for any set of event templates, any
number of events and any polls and losses: `SyncTypeCorrect`,
`AcknowledgementsAccepted`, `QueueServedInOrder`, `PayloadsPreserved` and
`FlagsAgreeAfterPoll`. `SyncInv` is inductive. Its parts beyond types: events have
increasing ids, and a virtual event is later than every queued event of its type
(`IdsOrdered`); everything held is later than what was pruned, and virtual events
are later than what the client acknowledges next (`IdsRecent`); what the client
has seen last is pruned, or the next prune stops at it (`AcknowledgedKnown`); and,
for each full type, what was received, followed by what the next acknowledgement
leaves in the queue and by the virtual event, carries the payload of the log
(`PayloadKept`). The argument:

* `ById` sorts (`SortExists`), so a merge is a sequence in id order with the same
  events, and the payload of a type is that of its queued events followed by that
  of its virtual event (`MergePayload`);
* a merge adds nothing at or before the client's acknowledgement, so it leaves what
  the next prune removes as it is (`MergedPrefix`): a lost response, and
  `missedmessage_hook` calling `contents()`, change nothing for the next poll;
* the full type tells flag and op (`TypeTellsFlag`), and sequences with the same
  payload for each type agree about who set and who cleared which flag
  (`SamePayloadSameFlags`). Their order across types is what compression loses,
  hence `Reversed`.

Facts on `FlattenSeq`, on sums of lengths and on sorting are proved by
`NumberInduction`: a set of numbers without a least element is empty.

The abstraction of a queue that `EventStream` makes is proved here too.
`OperationsAreLogOperations`: on a queue without compressed events, `push`, `prune`,
`contents`, `empty` and the two checks of an acknowledgement are `Pushed`, `Pruned`,
`Contents`, `IsEmpty` and the two conditions of `Fetch` on a log, where the queue is
the part of the log behind `newest_pruned_id`, numbered by position (`IsLog`).
`UncompressedQueueIsLog`: if no template is compressed, the queue of `FlagSync` is
such a log at all times, and the client has received the log up to its
`last_event_id`, each event once and in order, whatever responses are lost.

In the same module, about `QueueExpiry`: `ExpiryTypeCorrect`, and `QueueKept`: if polls block, two events are
at least two polling delays apart, and the timeout is longer than a poll and
three delays (`PollsSuffice`), a queue is not collected while its client polls, and
`KeptAfterwards` holds. The code's values satisfy the last condition; the others
are conditions on the client and on the traffic. `ExpiryInv` follows a chain of
polls that are answered at once: `Fresh`, with at most one such poll behind
(`AfterOne`), with two (`AfterTwo`).

**`RegisterEventsProofs`.** `TypeCorrect`, and `EndsCurrent`: for any tables, writers and
number of changes, `CurrentButForRaces`. `RegistrationInv` says that the last
change of a table that was published is the last of its changes on their way,
first in the channel, then in the queue, then in the batch (`LastPublished`);
that everything on its way was committed, that a change with the table's number is
the table's, and that a row stays removed unless an edit brings it back
(`AllCommitted`); that nothing is known of a table that it has not been yet
(`Numbers`); that, for rows no edit brought back, one an update will look for has
been fetched or will be added first (`RowFound`: this is where the queue must be
allocated before the first table is read); and that a table with nothing on its
way is as it was last published (`CurrentUnlessPending`). It rests on what a
request has read of a list having been there (`ReadRows`), an invariant by itself.

**`MissedMessageEmailsProofs`.** `TypeCorrect`. `WakeupsReachTheThread` and `BackoffKept`
rest on three facts about the condition variable: only a waiting thread is
notified (`NotifiedWaits`), a worker that is down is down altogether
(`DownAltogether`), a backoff has set `has_timeout` (`BackoffHasTimeout`).
`RowsEmailedOnce`: rows, callbacks and emails come from deliveries already made
and are disjoint (`RowsOfDeliveries`). `DuplicatesNeedFaults`: a notice is acked
after its row is committed, so it may come again and be emailed again; it has at
most one row more than there were faults, since each redelivery is paid by a fault
of its own (`DeliveriesPaid`): a kill at once, a SIGTERM when the worker ends. `NoticesKept`: every notice is with the
broker, in hand, in a row, in a callback, emailed, in the errors file or recorded
as lost (`Accounted`), and callbacks exist only while they are run
(`OutboxWhilePublishing`).

**`UserGroupsProofs`.** `LockInv`: a request that holds its locks and missed nothing has
locked every descendant of its subgroups (`TreeLocked`), and no row is locked by
two requests (`LocksDisjoint`). No other request can then commit a membership
below those subgroups, so the check for the supergroup among them is still valid
at the commit: `NoOtherCycles`, with two lemmas on graphs (`AcyclicSubset`,
`AcyclicAdd`). `SubgroupsActive` from the same invariant.

`NoUnnecessaryDeadlocks` is `DeadlocksOnlyFromConflicts`, for any number of groups and
requests. A request on a cycle of waits does not hold its own supergroup, which
somebody else has (`LocksDisjoint`), so it holds only what its query found
(`FoundInv`): the supergroup of whoever waits for it is below what it names. Once
every request of the cycle has added what it names, each of these supergroups thus
has another one below it, or itself. By `ReachedGoals` the memberships then have a
cycle: if not, some group that leads to one of the supergroups has no edge to a
group that does; it can only be a supergroup itself, and what it names leads to
another.

**`ScheduledMessagesProofs`.** `TypeCorrect` includes that a row is locked by exactly
the delivery or edit that works on it. `SendsOnce` is the refinement of
`ScheduledOnce`: `CopyInv` says that what an edit or a delivery read is still what
the row says, since it holds the lock; then every step maps to a step of the
promise or to a stutter, with a lemma per action.

**`TopicCooldownProofs`.** `TypeCorrect`; `CooldownHolds`, by `BarredInv`: a request that
was sent in a cooldown that is still on has not got past the check; `FailuresDoNotSilence`,
with `ClaimsInv`: a key was set by a request of its spelling.

**Only model-checked.** Liveness, since the prover has no rule for ENABLED under
fairness: `PollEnds`, `AbandonedQueueCollected`, `Delivered`, `EveryNoticeSettled`,
`DueGetsHandled`.

## 6. Known disagreements

Things the code does that its documentation, comments or tests do not say, met
while modelling. Each can be reproduced with the property named and the constants
given, where they differ from those of the run of that module.

*Event queues*

* **A message may be neither seen nor notified.** `docs/subsystems/notifications.md:17`
  promises that closing a laptop shortly after a message does not lose its
  notification. With a mobile and a web client of one user, the mobile queue is
  marked offline while the web one still counts as active, and the web one is
  collected while the mobile one is still registered (`last_client_for_user` is
  False, `event_queue.py:601`, where being offline is not asked for): neither hook
  notifies. `EventQueueServer`, `NoMissedNotification`: one user, two queues,
  `Kinds <- MobileKinds`, `FirstHandlerId = MaxHandlerId = 1`, no deletes or
  restarts. Likewise with `LimitedKinds`: a client that did not ask for messages
  counts as the other client of a queue that is collected.
* **Narrows and odd timeouts.** A client with a narrow counts as an active one
  (`receiver_is_off_zulip`, `mark_clients_offline`) although it refuses messages
  outside it (`event_queue.py:256`): these are neither seen nor notified. And
  `idle_queue_timeout` may be any number of seconds: with 601 to 659 one sweep may
  find a queue past both limits, so that it is collected without having been
  marked offline, beside one that was marked earlier and counts as the other
  client. `NobodyMissesAnything` is false with `NarrowedKinds` and with `NearKinds`
  (one user, two queues, no deletes or restarts).
* **A message may be notified twice.** Two queues of a user collected in one sweep
  both count as the last (`NotifiedOnce`, `DefaultKinds`). The comment at
  `event_queue.py:587` says so.
* **Handler 0.** `if self.current_handler_id` (`event_queue.py:321`) takes the first
  handler of a process for none, so that the descriptor stays mapped to it when
  another poll supplants it; when the first connection then closes, the
  descriptor is disconnected from the *new* poll, which no event or heartbeat will
  answer. `WaitingPollRegistered` with `FirstHandlerId = 0`, `MaxHandlerId = 1`, one
  queue, no deletes or restarts.
* **Events between the dump and the exit.** `runtornado.py:140` dumps the queues
  while the loop still runs: a notice processed and acked afterwards is in no
  dump. `NothingLost` with `MaxEvents 2`, `MaxGiveUps 1`, `MaxRestarts 1`,
  `MaxWindow 1` and no other faults.
* **Redelivery repeats events.** A notice whose ack is lost, with the connection or
  at the end of the process, is processed again with a new id (`HandledOnce` with `MaxRedeliveries = 1`); the first time it still comes
  in order (`EventsFirstHeardInOrder`).
* **Flags.** Compression loses the order of marking as read and unread; the comment
  at `event_queue.py:416` says so of these. Starring is not exempt: `FlagsAgree`
  fails with `MCStarTemplates` too.
* **Timeouts.** A queue may go although its client polls: polls with `dont_block`, and
  polls that are answered at once, do not renew `last_connection_time`
  (`KeptWhilePolled` with `DontBlock = {TRUE}`, or with `EventGap = 1`). And the timeout
  that `openapi/zulip.yaml:18699` describes starts with the last poll that waited,
  not when the client leaves (`KeptForTimeout`).

*Registration*

* `docs/subsystems/events-system.md:186-225` promises the result of an atomic read.
  `ClientCurrent` is false: `user_settings` are taken from the `user_profile` that
  authentication loaded, before the queue exists; an added row is appended
  whether the snapshot has it or not, after which an update changes one of two
  entries; and two requests may publish in another order than they committed. Two
  more races leave even a client that missed nothing with a wrong state:
  * `do_edit_saved_snippet` gets its row at `saved_snippets.py:56` and saves it at
    `:66` with no lock (`lib/drafts.py:155` likewise). A row deleted in between is
    inserted again, and `update` follows `remove`: `apply_event`
    (`lib/events.py:1081`) finds no row to update, so the row is missing
    (`ClientCurrent` with `Tables = Listed = {snippets}`).
  * `add_user_alert_words` (`lib/alert_words.py:54-73`) reads the list it publishes in
    its own transaction: of two additions at once, neither list has the other's
    word, whichever arrives last (`ClientCurrent` with `Tables = {words}`).
* The assertions of `apply_event` on drafts (`lib/events.py:1117-1126`) fail when a
  draft was removed before the drafts were read: `/register` ends in a 500
  (`ApplyRaises`), and its queue stays until it expires.
* `verify_action` in `tests/test_events.py` applies the events to a state fetched
  before the change, never to one that has it already, so no test meets these.

*Missed-message emails*

* SIGTERM in `with self.cv`: `stop` joins a thread that needs `cv`; the process hangs
  until SIGALRM or supervisord's SIGKILL (`StopNeverBlocked`), against the comment at
  `missedmessage_emails.py:152`.
* SIGALRM between the row's `create` and `notify` loses the wake-up: the row waits
  for the next notice. `unnotified` records it; `NoLostWakeup` and
  `EveryNoticeSettled` except it.
* `log_and_exit_if_exception` (`process_queue.py:28-35`) is there so that a worker that
  cannot go on exits and is started again. An exception outside `consume`, of
  `basic_ack` or the connection to RabbitMQ, ends the main thread with
  `sys.exit(1)`, without `stop()`; the background thread is no daemon
  (`missedmessage_emails.py:123`), so the process stays, with no consumer, and
  supervisord sees nothing to restart. `ExitsOnException` is false;
  `EveryNoticeSettled` excepts the notices left with the broker.
* A kill, or an exception of a callback, between the commit that deletes the rows
  and the last `on_commit` callback loses the emails behind it (`lost`).
* A database error in the batch fails the whole transaction, and the same batch is
  tried again, every 30 seconds at the latest, for all users alike.

*User groups*

* The docstring of `lock_subgroups_with_respect_to_supergroup`
  (`lib/user_groups.py:330`) says that it avoids cycles. `NoCycles` is false: the
  recursive query sees memberships as of its start, and a membership committed
  before its locks are taken is missed. Two requests that add to one another
  through a third group can both commit.
* The same docstring says that the order of locks avoids "unnecessary deadlocks on
  non-conflicting queries". That is so (`DeadlocksOnlyFromConflicts`) unless
  memberships change between a request's recursive query and its locks:
  `OnlyConflictsDeadlock` is false. PostgreSQL then aborts a request that could have
  succeeded.
* Deactivation reads the supergroups' flags without a lock, and reactivation does
  not look at subgroups: an active group may have a deactivated subgroup.

*Scheduled messages*

* An exception that breaks the transaction (`do_send_messages` is
  `atomic(savepoint=False)`) makes `refresh_from_db` in the `except` clause raise
  (`actions/scheduled_messages.py:459`): the failure is not recorded, the command
  ends, supervisord starts it again, and it takes the same row. The comment at line
  467 expects "an unexpected failure" to be stored. The rows behind it wait until
  the message is ten minutes late and fails for that; a reminder has no cutoff
  (`:346-352`), and holds up the rest for good. `DueGetsHandled` therefore excepts
  the rows behind such a reminder.
* Deleting a message that is being delivered reports success.
* A crash after the commit loses the `on_commit` events, here and everywhere
  `send_event_on_commit` is used: clients see the change when they next register.

*Topic title improver*

* The comment at `actions/llm_features.py:293` says that a burst of messages cannot
  start several requests for a topic. The cooldown is read (`:275`) and written
  (`:297`) in two steps, with a query between: `OneCallAtATime` is false with two
  requests.
* The same comment says that a transient error does not silence the feature for the
  cooldown. The call waits 20 seconds, then for as long as the provider's
  `Retry-After` says, up to a minute, then 20 seconds again; `harakiri = 55`
  (`uwsgi.ini.template.erb:50`) ends a request before that with a SIGKILL, which
  runs no `except` clause. The key then stays its 300 seconds with no call under
  way or answered: `NeverSilenced` is false, with one request and `MaxKills = 1`.
  `NotSilenced` names the killed request as the only exception.

## 7. Plan

Done: the queue and its compression, the server, the delivery path and its
refinement, expiry, registration, the missed-message worker, scheduled messages,
user groups, the topic improver; proofs about each of them.

Next, in this order:

1. `LoopQueueProcessingWorker` (batches, partial failure, the errors file), the
   workers that retry (`retry_event`), and the push notification worker: the
   `active_mobile_push_notification` flag against marking as read.
2. Exceptions in `gc_hooks`, and `process_message_update_event`'s notifications.
3. Mark-as-read and message deletion as database transactions whose events
   `FlagSync` takes as given.
4. The rate limiter: its window and its blocking keys.

## 8. Not modelled, and why

* **Of the event server**: exceptions raised by garbage-collection hooks;
  notifications enqueued by `process_message_update_event` (those of messages, with
  more reasons not to notify); `send_notification_http`, used where there is
  no RabbitMQ; a DELETE answered by a shard that does not own the queue; and
  sharding itself, a static map: the server is modelled per process.
* **Push notifications, sending, editing and deleting messages, other workers**:
  they have protocols of their own and are next in the plan; here they are the
  source of notices and events.
* **Rate limiter**: arithmetic over time in Redis.
* **Caching**: get and set with explicit invalidation; only the three calls the
  cooldown makes are modelled.
* **Database models, permissions, REST views, import and export, markdown**: large,
  but sequential code over PostgreSQL and text without a protocol between actors;
  what is worth checking about them is data, and their tests do that.
* **The web application** beyond the polling loop and the maps of saved snippets:
  state of a user interface.
* **Billing and analytics**: calls to external services, aggregation queries.
* **`llm_features.py` beyond the cooldown**: the recap of unread messages is one
  read and one call to the provider.
* **The course labs** next to `HW1/`: single-file exercises without state.
