------------------------------ MODULE EventLog ------------------------------
(***************************************************************************)
(* An event queue as EventStream sees it: the log of what was pushed,      *)
(* event id i at position i + 1, of which the entries up to                *)
(* newest_pruned_id have been deleted.  EventQueue has the data structure  *)
(* itself, and EventQueueProofs shows that, without compression, its       *)
(* operations are these.                                                   *)
(***************************************************************************)
EXTENDS Integers, Sequences

\* An answer holds consecutive events, the first of which has id "first".
Answer(first, events) == [type |-> "events", first |-> first, events |-> events]

Pushed(q, event) == [q EXCEPT !.log = Append(@, event)]

Contents(q) == Answer(q.newest_pruned_id + 1,
                      SubSeq(q.log, q.newest_pruned_id + 2, Len(q.log)))

IsEmpty(q) == q.newest_pruned_id = Len(q.log) - 1

\* Mutant: deletion leaves out the acknowledged event itself.
PrunedBefore(q, through_id) ==
  [q EXCEPT !.newest_pruned_id = IF through_id - 1 > @ THEN through_id - 1 ELSE @]

Pruned(q, through_id) ==
  LET last == IF through_id < Len(q.log) THEN through_id ELSE Len(q.log) - 1
  IN [q EXCEPT !.newest_pruned_id = IF last > @ THEN last ELSE @]
=============================================================================
