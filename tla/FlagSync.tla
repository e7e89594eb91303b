----------------------------- MODULE FlagSync -----------------------------
(***************************************************************************)
(* One event queue and the client that polls it, with the compression of   *)
(* update_message_flags events ("virtual events") in full.  The server     *)
(* pushes events; the client polls with the id of the last event it has    *)
(* seen, and a response may be lost after the server has built it.         *)
(*                                                                         *)
(* The question of this module is what compression may change: the order   *)
(* and number of events, never their payload, and never the flags the      *)
(* client ends up with.                                                    *)
(***************************************************************************)
EXTENDS EventQueue

CONSTANTS
  Templates,   \* the event templates the server may push
  MaxEvents    \* bound: how many events are pushed

ASSUME MaxEventsAssumption == MaxEvents \in Nat

ASSUME TemplatesAssumption ==
  Templates \subseteq [type : STRING, op : STRING, flag : STRING,
                       all : BOOLEAN, messages : Seq(Int)]

VARIABLES
  event_queue,    \* the EventQueue of the client's descriptor
  last_event_id,  \* client: the id of the last event it has seen
  received,       \* client: every event it has handled, in order
  log             \* history: the templates pushed so far, log[i + 1] has id i

vars == <<event_queue, last_event_id, received, log>>

TypeOK ==
  /\ DOMAIN event_queue =
       {"queue", "next_event_id", "newest_pruned_id", "virtual_events"}
  /\ event_queue.next_event_id = Len(log)
  /\ event_queue.newest_pruned_id \in -1 .. MaxEvents - 1
  /\ last_event_id \in -1 .. MaxEvents - 1
  /\ log \in Seq(Templates)

Init ==
  /\ event_queue = EmptyQueue
  /\ last_event_id = -1
  /\ received = <<>>
  /\ log = <<>>

\* add_event, while no long-poll is connected.  (With one connected, the push
\* is followed at once by the step Poll or PollResponseLost.)
PushEvent(template) ==
  /\ Len(log) < MaxEvents
  /\ event_queue' = push(event_queue, template)
  /\ log' = Append(log, template)
  /\ UNCHANGED <<last_event_id, received>>

\* The part of fetch_events that works on the queue: check and apply the
\* acknowledgement, then take contents() for the response.
Fetched(q, last) ==
  IF AlreadyPruned(q, last) THEN q
  ELSE IF NotInQueue(q, last) THEN prune(q, last)
       ELSE MergeVirtual(prune(q, last))

Accepted(q, last) == ~AlreadyPruned(q, last) /\ ~NotInQueue(q, last)

\* get_events_success: last_event_id becomes the largest id of the response.
Poll ==
  LET after == Fetched(event_queue, last_event_id)
  IN  /\ Accepted(event_queue, last_event_id)
      /\ after.queue # <<>>
      /\ event_queue' = after
      /\ received' = received \o after.queue
      /\ last_event_id' = Last(after.queue).id
      /\ UNCHANGED log

\* The response does not reach the client, which will poll again with the
\* same last_event_id.  Also an acknowledgement that is answered by an error.
PollResponseLost ==
  /\ event_queue' = Fetched(event_queue, last_event_id)
  /\ UNCHANGED <<last_event_id, received, log>>

\* missedmessage_hook and finish_current_handler call contents() as well.
ReadContents ==
  /\ event_queue' = MergeVirtual(event_queue)
  /\ UNCHANGED <<last_event_id, received, log>>

Next ==
  \/ \E template \in Templates : PushEvent(template)
  \/ Poll
  \/ PollResponseLost
  \/ ReadContents

Spec == Init /\ [][Next]_vars
---------------------------------------------------------------------------
\* What the next poll of the client will be answered.
Outstanding == Fetched(event_queue, last_event_id).queue

\* The messages of the events of one type.
Payload(events, fullType) ==
  FlattenSeq([i \in 1 .. Len(events) |->
    IF compute_full_event_type(events[i]) = fullType THEN events[i].messages ELSE <<>>])

FullTypes == {compute_full_event_type(t) : t \in Templates}

\* What has been handled and what is outstanding carry, type by type, exactly
\* the payload that was pushed, in the order it was pushed: compression,
\* pruning and lost responses neither lose, repeat nor reorder a payload
\* among events of one type.
PayloadPreserved ==
  \A t \in FullTypes :
    Payload(received \o Outstanding, t) = Payload(log, t)

\* The queue is served in id order, and no id is served that was pruned or
\* not yet assigned.  (Pruning pops from the left until the first larger id,
\* so an unsorted queue would keep events the client has acknowledged.)
ServedInIdOrder ==
  LET c == contents(event_queue)
  IN  /\ \A i, j \in 1 .. Len(c) : i < j => c[i].id < c[j].id
      /\ \A i \in 1 .. Len(c) :
           c[i].id > event_queue.newest_pruned_id /\ c[i].id < Len(log)

\* A client that acknowledges what it was sent is never told that the event
\* was pruned or was not in the queue: after a lost response, a second poll
\* with the same last_event_id is answered.
AcknowledgementAccepted == Accepted(event_queue, last_event_id)

Sets(event, flag, op, message) ==
  /\ event.type = "update_message_flags" /\ event.flag = flag /\ event.op = op
  /\ message \in ToSet(event.messages)

\* The messages that have the flag once the events were applied in order: those
\* that an event added and none after it removed.
FlagView(events, flag) ==
  {m \in UNION {ToSet(events[i].messages) : i \in DOMAIN events} :
     \E i \in DOMAIN events :
       /\ Sets(events[i], flag, "add", m)
       /\ \A j \in i .. Len(events) : ~Sets(events[j], flag, "remove", m)}

Flags == {t.flag : t \in {u \in Templates : u.type = "update_message_flags"}}

\* Once the client has handled what is outstanding, its flags are those of
\* the server.  (Not so: a flag set, cleared and set again within one poll.)
FlagsAgree ==
  \A flag \in Flags :
    FlagView(received \o Outstanding, flag) = FlagView(log, flag)

\* The messages whose flag was both set and cleared.
Reversed(flag) ==
  {m \in UNION {ToSet(log[i].messages) : i \in DOMAIN log} :
     \A op \in {"add", "remove"} : \E i \in DOMAIN log : Sets(log[i], flag, op, m)}

\* The flags agree on every message whose flag only ever moved one way.
FlagsAgreeUnlessReversed ==
  \A flag \in Flags :
    FlagView(received \o Outstanding, flag) \ Reversed(flag)
      = FlagView(log, flag) \ Reversed(flag)
===========================================================================
