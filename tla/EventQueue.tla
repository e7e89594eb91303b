---------------------------- MODULE EventQueue ----------------------------
(***************************************************************************)
(* The data structure behind one client's event queue: the class           *)
(* EventQueue of zerver/tornado/event_queue.py.  This module only has      *)
(* operators; FlagSync is the state machine that uses it.                  *)
(*                                                                         *)
(* An event template is a record [type, op, flag, all, messages].  op,     *)
(* flag and all are meaningful for update_message_flags events only;       *)
(* messages is the payload (the message ids of a flags event, what tells   *)
(* an event from another for every other type).  A queued event is a       *)
(* template with the field id.                                             *)
(***************************************************************************)
EXTENDS Integers, SequencesExt

\* Mutant: flags are compressed whatever their op.
FullTypeWithoutOp(event) ==
  IF event.type # "update_message_flags" THEN <<event.type>>
  ELSE IF event.all THEN <<"all_flags", event.flag, event.op>>
       ELSE <<"flags", "", event.flag>>

\* The name under which an event is compressed.  "Mark all" events are in a
\* category of their own.
compute_full_event_type(event) ==
  IF event.type # "update_message_flags" THEN <<event.type>>
  ELSE IF event.all THEN <<"all_flags", event.flag, event.op>>
       ELSE <<"flags", event.op, event.flag>>

\* push compresses flags/... events, except for flags/remove/read, whose
\* message_details cannot be concatenated.
Compressible(fullType) ==
  /\ fullType[1] = "flags"
  /\ fullType # <<"flags", "remove", "read">>

EmptyQueue ==
  [queue |-> <<>>, next_event_id |-> 0, newest_pruned_id |-> -1,
   virtual_events |-> <<>>]

WithId(template, id) ==
  [id |-> id, type |-> template.type, op |-> template.op,
   flag |-> template.flag, all |-> template.all,
   messages |-> template.messages]

\* Mutant: the entry is replaced instead of extended.
Replaced(virtual, fullType, event) ==
  [t \in DOMAIN virtual \cup {fullType} |-> IF t # fullType THEN virtual[t] ELSE event]

\* virtual_events with `event` merged into the entry of its type: the entry
\* takes the new id, and the new messages at its end.
Compressed(virtual, fullType, event) ==
  [t \in DOMAIN virtual \cup {fullType} |->
     IF t # fullType THEN virtual[t]
     ELSE IF t \notin DOMAIN virtual THEN event
          ELSE [event EXCEPT !.messages = virtual[t].messages \o @]]

\* Mutant: a compressed event does not use up an id.
PushSharingIds(q, template) ==
  LET event    == WithId(template, q.next_event_id)
      fullType == compute_full_event_type(event)
  IN  IF Compressible(fullType)
      THEN [q EXCEPT !.virtual_events = Compressed(@, fullType, event)]
      ELSE [q EXCEPT !.queue = Append(@, event), !.next_event_id = @ + 1]

push(q, template) ==
  LET event    == WithId(template, q.next_event_id)
      fullType == compute_full_event_type(event)
      counted  == [q EXCEPT !.next_event_id = @ + 1]
  IN  IF Compressible(fullType)
      THEN [counted EXCEPT
              !.virtual_events = Compressed(@, fullType, event)]
      ELSE [counted EXCEPT !.queue = Append(@, event)]

empty(q) == q.queue = <<>> /\ q.virtual_events = <<>>

\* Mutant: the event with id through_id itself stays.
CountBefore(q, through_id) ==
  CHOOSE n \in 0 .. Len(q.queue) :
    /\ \A i \in 1 .. n : q.queue[i].id < through_id
    /\ n < Len(q.queue) => q.queue[n + 1].id >= through_id

\* How many events prune pops: the longest prefix of the queue whose ids are
\* all at most through_id.  Virtual events are not looked at.
PrunedCount(q, through_id) ==
  CHOOSE n \in 0 .. Len(q.queue) :
    /\ \A i \in 1 .. n : q.queue[i].id <= through_id
    /\ n < Len(q.queue) => q.queue[n + 1].id > through_id

prune(q, through_id) ==
  LET n == PrunedCount(q, through_id)
  IN  IF n = 0 THEN q
      ELSE [q EXCEPT !.queue = SubSeq(@, n + 1, Len(@)),
                     !.newest_pruned_id = q.queue[n].id]

\* contents() first moves the virtual events to their place in the queue (in
\* front of the first event with a larger id) and only then returns the
\* queue: it changes the state.
VirtualSet(q) ==
  {q.virtual_events[t] : t \in DOMAIN q.virtual_events}

\* Mutant: virtual events go to the end of the queue.
LastSlot(q, event) == Len(q.queue) + 1

Slot(q, event) ==
  CHOOSE i \in 1 .. Len(q.queue) + 1 :
    /\ i <= Len(q.queue) => event.id < q.queue[i].id
    /\ \A j \in 1 .. i - 1 : event.id >= q.queue[j].id

ById(events) ==
  CHOOSE s \in Bijection(1 .. Cardinality(events), events) :
    \A i, j \in DOMAIN s : i < j => s[i].id <= s[j].id

\* What the merge puts before the event at position i and after the one at i - 1.
VirtualAt(q, i) == ById({e \in VirtualSet(q) : Slot(q, e) = i})

RealAt(q, i) == IF i <= Len(q.queue) THEN <<q.queue[i]>> ELSE <<>>

Merged(q) ==
  FlattenSeq([i \in 1 .. Len(q.queue) + 1 |-> VirtualAt(q, i) \o RealAt(q, i)])

MergeVirtual(q) == [q EXCEPT !.queue = Merged(q), !.virtual_events = <<>>]

contents(q) == MergeVirtual(q).queue

\* The two ways fetch_events refuses an acknowledgement, the second one after
\* it has pruned.
AlreadyPruned(q, last_event_id) == last_event_id < q.newest_pruned_id

NotInQueue(q, last_event_id) ==
  last_event_id # prune(q, last_event_id).newest_pruned_id
===========================================================================
