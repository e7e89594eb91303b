-------------------------- MODULE ReliableEvents --------------------------
(***************************************************************************)
(* What the events system promises one client (docs/subsystems/events-     *)
(* system.md): it handles the events published for its queue in order,     *)
(* none skipped and none twice, until it is told that its queue is gone    *)
(* and starts over.                                                        *)
(***************************************************************************)
EXTENDS Integers, Sequences

VARIABLES
  published,  \* number of events published, numbered from 1
  handled,    \* numbers of the events the client has handled, in order
  reload      \* the client was told BAD_EVENT_QUEUE_ID

vars == <<published, handled, reload>>

Init == published = 0 /\ handled = <<>> /\ reload = FALSE

Publish == published' = published + 1 /\ UNCHANGED <<handled, reload>>

Handle ==
  /\ ~reload
  /\ \E n \in Len(handled) + 1 .. published : handled' = [i \in 1 .. n |-> i]
  /\ UNCHANGED <<published, reload>>

Reload == reload' = TRUE /\ UNCHANGED <<published, handled>>

Next == Publish \/ Handle \/ Reload

Spec == Init /\ [][Next]_vars
===========================================================================
