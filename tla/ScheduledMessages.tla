------------------------- MODULE ScheduledMessages -------------------------
(***************************************************************************)
(* Scheduled messages and reminders: the command that delivers them, one   *)
(* per transaction, beside the requests that edit and delete them.         *)
(*                                                                         *)
(* A transaction shows when it commits; until then its row locks keep      *)
(* others away.  An edit reads the row, locking it, and saves all columns  *)
(* of what it read; a delete reads it without a lock, and its DELETE waits *)
(* for whoever holds one.  Recipients, contents and times are left out: an *)
(* edit is a new version of the row, and a row is due or not.              *)
(***************************************************************************)
EXTENDS Integers, Sequences, FiniteSetsExt

CONSTANTS
  Ids,         \* of ScheduledMessage rows, which are delivered in this order
  Reminders,   \* those with delivery_type REMIND
  Poison,      \* those whose do_send_messages raises, whenever it is tried
  Requests,    \* concurrent requests
  Nobody, Worker,  \* who may hold a row lock, besides requests
  MaxVersion,  \* bound: edits of a row
  MaxFaults    \* bound: crashes, failed attempts and failed edits

ASSUME IdsAssumption == Ids # {} /\ Ids \subseteq Nat /\ Reminders \subseteq Ids /\ Poison \subseteq Ids
ASSUME HoldersAssumption == Nobody # Worker /\ {Nobody, Worker} \cap Requests = {}
ASSUME BoundsAssumption == MaxVersion \in Nat /\ MaxFaults \in Nat

VARIABLES
  row,      \* the table: each row as committed
  locks,    \* who holds the lock of a row
  worker,   \* the state of deliver_scheduled_messages
  request,  \* the state of each request
  sent,     \* versions of each row that were sent as messages, committed
  faults    \* number of faults so far, for the bound

vars == <<row, locks, worker, request, sent, faults>>

Row == [state: {"unused", "stored", "deleted"}, version: Nat, due: BOOLEAN,
        delivered: BOOLEAN, failed: BOOLEAN]

\* id and copy mean nothing while phase is "idle" or "down".
WorkerState == [phase: {"idle", "sending", "sent", "down"}, id: Ids, copy: Row]

\* new_time: whether an edit sets a new time for the delivery.
RequestState == [phase: {"idle", "editing", "deleting"}, id: Ids, copy: Row, new_time: BOOLEAN]

Holders == {Nobody, Worker} \cup Requests

Unused == [state |-> "unused", version |-> 0, due |-> FALSE, delivered |-> FALSE, failed |-> FALSE]

\* A delivery holds the lock of the row it is sending, an edit that of the row
\* it will save.
LocksHeld ==
  /\ \A m \in Ids : locks[m] = Worker <=> worker.phase \in {"sending", "sent"} /\ worker.id = m
  /\ \A m \in Ids, r \in Requests :
       locks[m] = r <=> request[r].phase = "editing" /\ request[r].id = m

TypeOK ==
  /\ row \in [Ids -> Row]
  /\ locks \in [Ids -> Holders]
  /\ worker \in WorkerState
  /\ request \in [Requests -> RequestState]
  /\ sent \in [Ids -> Seq(Nat)]
  /\ faults \in Nat
  /\ LocksHeld

At(phase) == [phase |-> phase, id |-> CHOOSE m \in Ids : TRUE, copy |-> Unused]

NoRequest ==
  [phase |-> "idle", id |-> CHOOSE m \in Ids : TRUE, copy |-> Unused, new_time |-> FALSE]

Init ==
  /\ row = [m \in Ids |-> Unused]
  /\ locks = [m \in Ids |-> Nobody]
  /\ worker = At("idle")
  /\ request = [r \in Requests |-> NoRequest]
  /\ sent = [m \in Ids |-> <<>>]
  /\ faults = 0

Fault == faults < MaxFaults /\ faults' = faults + 1

Stored(m) == row[m].state = "stored"

Put(m, changed) == row' = [row EXCEPT ![m] = changed]

LocksOf(holder) == {m \in Ids : locks[m] = holder}

\* Mutant: a transaction that rolls back keeps its locks.
Keeps(holder) == UNCHANGED locks

Releases(holder) == locks' = [m \in Ids |-> IF locks[m] = holder THEN Nobody ELSE locks[m]]
---------------------------------------------------------------------------
(* Requests *)

\* Ids are given out in order.
Schedule(m) ==
  /\ row[m].state = "unused" /\ \A k \in Ids : k < m => row[k].state # "unused"
  /\ Put(m, [Unused EXCEPT !.state = "stored"])
  /\ UNCHANGED <<locks, worker, request, sent, faults>>

\* Mutant: the row to be edited is read without a lock.
EditReads(m, r) == UNCHANGED locks

\* access_scheduled_message with lock_message: waits for another's lock.
EditLocks(m, r) == locks[m] = Nobody /\ locks' = [locks EXCEPT ![m] = r]

\* A message that failed needs a new time, which is in the future.
BeginEdit(r, m, new_time) ==
  /\ request[r].phase = "idle" /\ Stored(m) /\ m \notin Reminders
  /\ row[m].version < MaxVersion
  /\ EditLocks(m, r)
  /\ ~row[m].delivered /\ (row[m].failed => new_time)
  /\ request' = [request EXCEPT ![r] =
       [phase |-> "editing", id |-> m, copy |-> row[m], new_time |-> new_time]]
  /\ UNCHANGED <<row, worker, sent, faults>>

\* save() writes every column of the copy, and commits.  Time went on.
Saved(m, copy, new_time) ==
  [state |-> copy.state, version |-> copy.version + 1, due |-> row[m].due /\ ~new_time,
   delivered |-> copy.delivered, failed |-> FALSE]

SaveEdit(r) ==
  /\ request[r].phase = "editing"
  /\ Put(request[r].id, Saved(request[r].id, request[r].copy, request[r].new_time))
  /\ Releases(r)
  /\ request' = [request EXCEPT ![r] = NoRequest]
  /\ UNCHANGED <<worker, sent, faults>>

\* The new content or recipient is refused, or the request dies.
EditFails(r) ==
  /\ request[r].phase = "editing"
  /\ Fault /\ Releases(r)
  /\ request' = [request EXCEPT ![r] = NoRequest]
  /\ UNCHANGED <<row, worker, sent>>

BeginDelete(r, m) ==
  /\ request[r].phase = "idle" /\ Stored(m)
  /\ request' = [request EXCEPT ![r] = [NoRequest EXCEPT !.phase = "deleting", !.id = m]]
  /\ UNCHANGED <<row, locks, worker, sent, faults>>

\* Deletes the row by its id, whatever became of it.
FinishDelete(r) ==
  /\ request[r].phase = "deleting" /\ locks[request[r].id] = Nobody
  /\ Put(request[r].id, [row[request[r].id] EXCEPT !.state = "deleted"])
  /\ request' = [request EXCEPT ![r] = NoRequest]
  /\ UNCHANGED <<locks, worker, sent, faults>>
---------------------------------------------------------------------------
(* deliver_scheduled_messages *)

BecomesDue(m) ==
  /\ Stored(m) /\ ~row[m].due
  /\ Put(m, [row[m] EXCEPT !.due = TRUE])
  /\ UNCHANGED <<locks, worker, request, sent, faults>>

Deliverable(m) == Stored(m) /\ row[m].due /\ ~row[m].delivered /\ ~row[m].failed

\* filter(...).first() orders by id.
FirstDeliverable(m) == Deliverable(m) /\ \A k \in Ids : Deliverable(k) => m <= k

\* select_for_update waits for a row that an edit has locked, and looks at
\* the row again when it gets it.
TakeNext(m) ==
  /\ worker.phase = "idle" /\ FirstDeliverable(m) /\ locks[m] = Nobody
  /\ locks' = [locks EXCEPT ![m] = Worker]
  /\ worker' = [phase |-> "sending", id |-> m, copy |-> row[m]]
  /\ UNCHANGED <<row, request, sent, faults>>

\* do_send_messages, in the same transaction.
SendMessage ==
  /\ worker.phase = "sending" /\ worker.id \notin Poison
  /\ worker' = [worker EXCEPT !.phase = "sent"]
  /\ UNCHANGED <<row, locks, request, sent, faults>>

\* Mutant: the row is left as it was.
MarkNothing(m) == UNCHANGED row

MarkDelivered(m) == Put(m, [row[m] EXCEPT !.delivered = TRUE])

\* Message and row change in one commit; the callbacks that publish the events
\* run after it.
CommitSent ==
  /\ worker.phase = "sent"
  /\ sent' = [sent EXCEPT ![worker.id] = Append(@, worker.copy.version)]
  /\ Releases(Worker)
  /\ worker' = At("idle")
  /\ UNCHANGED request

Delivers == CommitSent /\ MarkDelivered(worker.id) /\ UNCHANGED faults

\* An exception after the row was saved: it is marked as failed too.
DeliversAndFails ==
  /\ CommitSent /\ Fault
  /\ Put(worker.id, [row[worker.id] EXCEPT !.delivered = TRUE, !.failed = TRUE])

\* An exception before do_send_messages.  The row is marked and the author told.
AttemptFails ==
  /\ worker.phase = "sending"
  /\ Put(worker.id, [row[worker.id] EXCEPT !.failed = TRUE])
  /\ Releases(Worker)
  /\ worker' = At("idle")
  /\ UNCHANGED <<request, sent>>

\* No permission, the account or the organization is deactivated.
IsRefused == AttemptFails /\ Fault

\* Mutant: the cutoff counts from the attempt, not from the scheduled time.
NeverTooLate(m) == FALSE

\* Reminders are sent however late.
MayBeTooLate(m) == m \notin Reminders

\* Past SCHEDULED_MESSAGE_LATE_CUTOFF_MINUTES.
IsTooLate(m) == m = worker.id /\ MayBeTooLate(m) /\ AttemptFails /\ UNCHANGED faults

WorkerEnds ==
  /\ Releases(Worker)
  /\ worker' = At("down")
  /\ UNCHANGED <<row, request, sent>>

\* An exception within do_send_messages, whose atomic block has no savepoint:
\* the handler's refresh_from_db fails, and the command ends.
SendRaises == worker.phase = "sending" /\ worker.id \in Poison /\ WorkerEnds /\ UNCHANGED faults

Crash == worker.phase # "down" /\ Fault /\ WorkerEnds

Restart ==
  /\ worker.phase = "down"
  /\ worker' = At("idle")
  /\ UNCHANGED <<row, locks, request, sent, faults>>
---------------------------------------------------------------------------
RequestStep(r) == SaveEdit(r) \/ FinishDelete(r)

WorkerStep ==
  \/ SendMessage \/ Delivers \/ SendRaises \/ Restart
  \/ \E m \in Ids : TakeNext(m) \/ IsTooLate(m)

Next ==
  \/ WorkerStep \/ IsRefused \/ DeliversAndFails \/ Crash
  \/ \E r \in Requests : RequestStep(r) \/ EditFails(r)
  \/ \E m \in Ids : Schedule(m) \/ BecomesDue(m)
  \/ \E m \in Ids, r \in Requests :
       BeginDelete(r, m) \/ \E new_time \in BOOLEAN : BeginEdit(r, m, new_time)

Spec == Init /\ [][Next]_vars

\* supervisord restarts the command, which loops; requests end.  Time passes:
\* a message that is tried again and again is too late some day.
FairSpec ==
  /\ Spec /\ WF_vars(WorkerStep)
  /\ \A r \in Requests : WF_vars(RequestStep(r))
  /\ \A m \in Poison : SF_vars(IsTooLate(m))
---------------------------------------------------------------------------
status ==
  [m \in Ids |->
     IF sent[m] # <<>> THEN "sent"
     ELSE IF row[m].state = "unused" THEN "unused"
     ELSE IF row[m].state = "deleted" THEN "cancelled"
     ELSE IF row[m].failed THEN "failed" ELSE "pending"]

version == [m \in Ids |-> row[m].version]

Promise == INSTANCE ScheduledOnce WITH
  Messages <- Ids, status <- status, version <- version, sent <- sent

\* "Callers that are going to modify the row should take this lock to avoid
\* racing with an in-progress delivery": whatever edits, deletions, crashes and
\* failures do to a delivery under way, a message is sent at most once, in the
\* version of the last edit that was accepted, and none is accepted afterwards.
ImplementsScheduledOnce == Promise!Spec

\* A message that is due is sent, marked as failed, deleted or put off, also behind
\* one that makes do_send_messages raise, which is given up at the cutoff; but for
\* reminders, which have none.
DueGetsHandled ==
  \A m \in Ids : (\A p \in Poison \cap Reminders : m < p) => Deliverable(m) ~> ~Deliverable(m)
===========================================================================
