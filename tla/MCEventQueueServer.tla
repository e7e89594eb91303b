------------------------ MODULE MCEventQueueServer ------------------------
(* Queue kinds for model-checking EventQueueServer. *)
EXTENDS EventQueueServer
LOCAL INSTANCE TLC

Queues(users, long, all_types) ==
  [user : users, long : long, near : {FALSE}, all_types : all_types,
   all_public_streams : {FALSE}, narrow : {FALSE}]

\* The default client: 10 minutes, every event type.
DefaultKinds == Queues(Users, {FALSE}, {TRUE})

\* Default and mobile clients.
MobileKinds == Queues(Users, BOOLEAN, {TRUE})

\* Default clients, some of which asked for other events than messages (to see
\* how NoMissedNotification fails with them: no run uses it).
LimitedKinds == Queues(Users, {FALSE}, BOOLEAN)

\* People with mobile clients, and one bot with default ones, which listens to a
\* narrow.
Bot == CHOOSE u \in Users : TRUE
BotKinds ==
  [user : {Bot}, long : {FALSE}, near : {FALSE}, all_types : {TRUE},
   all_public_streams : {TRUE}, narrow : {TRUE}]
    \union Queues(Users \ {Bot}, {TRUE}, {TRUE})

\* Clients with a timeout just above the offline one.
NearKinds ==
  [user : Users, long : {TRUE}, near : {TRUE}, all_types : {TRUE},
   all_public_streams : {FALSE}, narrow : {FALSE}]

\* Every timeout there is.
TimeoutKinds == MobileKinds \union NearKinds

\* Clients with a narrow (to see, as with NearKinds, how NobodyMissesAnything
\* fails: no run uses it).
NarrowedKinds ==
  [user : Users, long : {FALSE}, near : {FALSE}, all_types : {TRUE},
   all_public_streams : {TRUE}, narrow : {TRUE}]

\* Queue ids are interchangeable (not used with liveness).
QueueSymmetry == Permutations(QueueIds)

\* The descriptor of a queue that is not registered is garbage: no action
\* reads its fields before Register writes them all; and only NotifiedOnce reads
\* duplicated (not used with it, nor with liveness).
LiveState ==
  <<indexes, web_reload_clients,
    [q \in clients |-> <<kind[q], event_queue[q], served[q], offline[q], idle[q]>>],
    connections, handlers, zero_is_next, cleanups, bounds, sent, seen, notified>>
===========================================================================
