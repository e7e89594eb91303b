---------------------------- MODULE QueueExpiry ----------------------------
(***************************************************************************)
(* When a queue expires: the clock side of ClientDescriptor.expired for    *)
(* one queue and one client, which EventQueueServer leaves out.  Time      *)
(* passes in ticks.  last_connection_time is set by connect_handler only,  *)
(* when a poll begins to wait.                                             *)
(***************************************************************************)
EXTENDS Integers

CONSTANTS
  queue_timeout,       \* ticks without a connection until the queue expires
  HEARTBEAT_MIN_FREQ,  \* least ticks a poll waits for its heartbeat
  HEARTBEAT_MAX_FREQ,  \* most ticks (the code adds randint(0, 10))
  RepollDelay,         \* the client polls again within so many ticks
  EventGap,            \* least ticks between two events for the queue
  DontBlock            \* SUBSET BOOLEAN: the values the client gives dont_block

ASSUME TimesAssumption ==
  /\ {queue_timeout, HEARTBEAT_MIN_FREQ, HEARTBEAT_MAX_FREQ, RepollDelay,
      EventGap} \subseteq Nat
  /\ HEARTBEAT_MIN_FREQ <= HEARTBEAT_MAX_FREQ
ASSUME DontBlockAssumption == DontBlock \subseteq BOOLEAN /\ DontBlock # {}

VARIABLES
  idle,       \* now - last_connection_time
  connected,  \* a poll waits: current_handler_id is not None
  pending,    \* the queue holds an event the client was not sent
  answered,   \* ticks since a poll was last answered
  quiet,      \* ticks since the last event
  gone,       \* the client has stopped polling
  collected   \* the queue was garbage-collected

clocks == <<idle, connected, pending, answered, quiet, gone, collected>>

ExpiryTypeOK ==
  /\ idle \in 0 .. queue_timeout /\ answered \in 0 .. queue_timeout
  /\ quiet \in 0 .. EventGap
  /\ connected \in BOOLEAN /\ pending \in BOOLEAN
  /\ gone \in BOOLEAN /\ collected \in BOOLEAN
  /\ ~(connected /\ (pending \/ collected))

ExpiryInit ==
  /\ idle = 0 /\ answered = 0 /\ quiet = EventGap
  /\ connected = FALSE /\ pending = FALSE /\ gone = FALSE /\ collected = FALSE

Older(age, bound) == IF age < bound THEN age + 1 ELSE bound

\* A waiting poll gets its heartbeat in time, a client that polls does so in time.
Tick ==
  /\ connected => idle < HEARTBEAT_MAX_FREQ
  /\ connected \/ gone \/ collected \/ answered < RepollDelay
  /\ idle' = Older(idle, queue_timeout)
  /\ answered' = IF connected THEN 0 ELSE Older(answered, queue_timeout)
  /\ quiet' = Older(quiet, EventGap)
  /\ UNCHANGED <<connected, pending, gone, collected>>

\* Mutant: connect_handler does not set last_connection_time.
PollOnly(dont_block) ==
  /\ ~gone /\ ~connected /\ ~collected
  /\ connected' = ~(pending \/ dont_block)
  /\ pending' = FALSE /\ answered' = 0
  /\ UNCHANGED <<idle, quiet, gone, collected>>

\* fetch_events: only a poll that waits reaches connect_handler.
PollArrives(dont_block) ==
  /\ ~gone /\ ~connected /\ ~collected
  /\ IF pending \/ dont_block
     THEN UNCHANGED <<connected, idle>>
     ELSE connected' = TRUE /\ idle' = 0
  /\ pending' = FALSE /\ answered' = 0
  /\ UNCHANGED <<quiet, gone, collected>>

\* Mutant: the event is pushed and the waiting poll is not answered.
PushOnly == pending' = TRUE /\ UNCHANGED <<connected, idle, answered, gone, collected>>

\* add_event: the waiting poll is answered, or the event stays in the queue.
AddEvent ==
  /\ pending' = ~connected /\ connected' = FALSE
  /\ UNCHANGED <<idle, answered, gone, collected>>

EventArrives ==
  /\ ~collected /\ quiet = EventGap
  /\ quiet' = 0
  /\ AddEvent

Heartbeat ==
  /\ connected /\ idle >= HEARTBEAT_MIN_FREQ
  /\ AddEvent /\ UNCHANGED quiet

Leave ==
  /\ ~gone /\ ~connected
  /\ gone' = TRUE
  /\ UNCHANGED <<idle, connected, pending, answered, quiet, collected>>

\* Mutant: the queue expires as soon as a heartbeat could be overdue.
ExpiredAfterHeartbeat == ~connected /\ idle > HEARTBEAT_MAX_FREQ

\* ClientDescriptor.expired
expired == ~connected /\ idle >= queue_timeout

\* gc_event_queues
Collect ==
  /\ ~collected /\ expired
  /\ collected' = TRUE /\ pending' = FALSE /\ connected' = FALSE
  /\ UNCHANGED <<idle, answered, quiet, gone>>

ExpiryNext ==
  \/ Tick \/ EventArrives \/ Heartbeat \/ Leave \/ Collect
  \/ \E dont_block \in DontBlock : PollArrives(dont_block)

ExpirySpec == ExpiryInit /\ [][ExpiryNext]_clocks
---------------------------------------------------------------------------
\* A client that keeps polling never loses its queue: "If the client does not
\* poll before this timeout, the queue will eventually be garbage-collected."
KeptWhilePolled == collected => gone

\* A client that left has the timeout, less the time its last waiting poll was
\* open and two delays to poll again, before its queue goes.
KeptAfterwards ==
  collected => answered >= queue_timeout - HEARTBEAT_MAX_FREQ - 2 * RepollDelay

\* "At least how long (in seconds) the server should keep the event queue
\* alive when the client is not polling".  (Not so: KeptAfterwards is what holds.)
KeptForTimeout == collected => answered >= queue_timeout
===========================================================================
