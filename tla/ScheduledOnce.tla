--------------------------- MODULE ScheduledOnce ---------------------------
(***************************************************************************)
(* What scheduling a message promises its author: it is sent at most once, *)
(* as it was when the last edit was accepted; a message that failed may be *)
(* edited and is pending again; after it was sent nothing more happens.    *)
(***************************************************************************)
EXTENDS Naturals, Sequences

CONSTANT Messages

VARIABLES
  status,   \* of each message
  version,  \* what the last accepted edit made of it
  sent      \* versions that were sent, in order

Init ==
  /\ status = [m \in Messages |-> "unused"]
  /\ version = [m \in Messages |-> 0]
  /\ sent = [m \in Messages |-> <<>>]

Moves(m, from, to) == status[m] \in from /\ status' = [status EXCEPT ![m] = to]

Schedule(m) == Moves(m, {"unused"}, "pending") /\ UNCHANGED <<version, sent>>

Edit(m) ==
  /\ Moves(m, {"pending", "failed"}, "pending")
  /\ version' = [version EXCEPT ![m] = @ + 1]
  /\ UNCHANGED sent

Send(m) ==
  /\ Moves(m, {"pending"}, "sent")
  /\ sent' = [sent EXCEPT ![m] = Append(@, version[m])]
  /\ UNCHANGED version

Fail(m) == Moves(m, {"pending"}, "failed") /\ UNCHANGED <<version, sent>>

Cancel(m) == Moves(m, {"pending", "failed"}, "cancelled") /\ UNCHANGED <<version, sent>>

Next == \E m \in Messages : Schedule(m) \/ Edit(m) \/ Send(m) \/ Fail(m) \/ Cancel(m)

Spec == Init /\ [][Next]_<<status, version, sent>>
===========================================================================
