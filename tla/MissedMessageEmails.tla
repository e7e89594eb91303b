------------------------ MODULE MissedMessageEmails ------------------------
(***************************************************************************)
(* The worker of the missedmessage_emails queue, run as a process of its   *)
(* own.  Its main thread consumes the notices that Tornado enqueued and    *)
(* makes a row of each; a background thread waits on the condition         *)
(* variable cv and turns rows that are due into emails.  The main thread   *)
(* also runs the signal handlers: SIGALRM, which limits consume, and       *)
(* SIGTERM, which calls stop() and joins the background thread.  When an   *)
(* exception ends the main thread it is "dead"; when the process is gone,  *)
(* "down".                                                                 *)
(*                                                                         *)
(* The background thread holds cv only within a step; the main thread      *)
(* holds it while it is in "locked" or "created".  Recipients, messages    *)
(* and scheduled timestamps are left out: a notice stands for all three,   *)
(* and any row may become due at any time.                                 *)
(***************************************************************************)
EXTENDS Naturals

CONSTANTS
  Notices,    \* events of the queue, each published once
  NoNotice,   \* the main thread holds no event
  MaxFaults   \* bound: kills, SIGTERMs, SIGALRMs and exceptions

ASSUME NoNoticeAssumption == NoNotice \notin Notices
ASSUME BoundsAssumption == MaxFaults \in Nat

VARIABLES
  broker,       \* notices in the RabbitMQ queue that the worker does not hold
  current,      \* the notice being consumed, not acked yet
  deliveries,   \* how often a notice was handed to the worker
  main,         \* where the main thread is
  joining,      \* it runs the SIGTERM handler and waits for the other thread
  stopping, has_timeout,  \* as in the code, protected by cv
  thread,       \* where the background thread is
  notified,     \* cv.notify() reached it; it wakes up when cv is free
  rows,         \* ScheduledMessageNotificationEmail: <<notice, delivery>>
  due,          \* those whose scheduled_timestamp has passed
  batch,        \* rows selected and locked by the open transaction
  outbox,       \* rows of the committed transaction, email not published yet
  emailed,      \* history: rows whose email reached the email_senders queue
  settled,      \* history: rows deleted without an email, message read or an
                \*   exception logged
  errors,       \* history: notices written to the .errors file
  lost,         \* history: rows that a kill or an exception cut off after commit
  gone,         \* notices whose message was deleted
  unnotified,   \* history: an exception came between a row and its notify()
  faults        \* number of faults so far, for the bound

queue  == <<broker, current, deliveries>>
shared == <<stopping, has_timeout, notified>>
table  == <<rows, due, gone>>
ledger == <<emailed, settled, errors, lost>>

vars == <<queue, main, joining, shared, thread, table, batch, outbox, ledger,
          unnotified, faults>>

Rows == Notices \X Nat

TypeOK ==
  /\ broker \subseteq Notices /\ current \in Notices \cup {NoNotice}
  /\ deliveries \in [Notices -> Nat]
  /\ main \in {"idle", "consuming", "locked", "created", "leaving", "dead", "down"}
  /\ joining \in BOOLEAN /\ stopping \in BOOLEAN
  /\ has_timeout \in BOOLEAN /\ notified \in BOOLEAN
  /\ thread \in {"loop", "waiting", "sending", "publishing", "failed", "backoff", "ended"}
  /\ rows \subseteq Rows /\ due \subseteq rows /\ batch \subseteq rows
  /\ outbox \subseteq Rows /\ emailed \subseteq Rows /\ settled \subseteq Rows
  /\ lost \subseteq Rows /\ errors \subseteq Notices /\ gone \subseteq Notices
  /\ unnotified \in BOOLEAN
  /\ faults \in Nat
  /\ current = NoNotice <=> main \in {"idle", "dead", "down"}
  /\ current \notin broker

Init ==
  /\ broker = Notices /\ current = NoNotice /\ deliveries = [n \in Notices |-> 0]
  /\ main = "idle" /\ joining = FALSE
  /\ stopping = FALSE /\ has_timeout = FALSE /\ notified = FALSE
  /\ thread = "loop"
  /\ rows = {} /\ due = {} /\ gone = {} /\ batch = {} /\ outbox = {}
  /\ emailed = {} /\ settled = {} /\ errors = {} /\ lost = {}
  /\ unnotified = FALSE
  /\ faults = 0

cvHeld == main \in {"locked", "created"}  \* by the main thread

InWait == thread \in {"waiting", "backoff"}

Fault == faults < MaxFaults /\ faults' = faults + 1

NoticesOf(some_rows) == {r[1] : r \in some_rows}
---------------------------------------------------------------------------
(* The main thread: consume *)

Deliver(n) ==
  /\ main = "idle" /\ ~joining /\ n \in broker
  /\ main' = "consuming" /\ current' = n /\ broker' = broker \ {n}
  /\ deliveries' = [deliveries EXCEPT ![n] = @ + 1]
  /\ UNCHANGED <<joining, shared, thread, table, batch, outbox, ledger, unnotified, faults>>

Acquire ==
  /\ main = "consuming" /\ ~joining
  /\ main' = "locked"
  /\ UNCHANGED <<queue, joining, shared, thread, table, batch, outbox, ledger, unnotified, faults>>

\* The row's INSERT, or IntegrityError since the message is gone.
CreateRow ==
  /\ main = "locked" /\ ~joining
  /\ IF current \in gone
     THEN main' = "leaving" /\ UNCHANGED rows
     ELSE main' = "created" /\ rows' = rows \cup {<<current, deliveries[current]>>}
  /\ UNCHANGED <<queue, joining, shared, thread, due, gone, batch, outbox, ledger,
                 unnotified, faults>>

\* Mutant: the background thread is told when it would wake up anyway.
NotifyIfTimeout == notified' = (notified \/ (has_timeout /\ InWait))

\* Mutant: it is told in every case.
NotifyAlways == notified' = (notified \/ InWait)

\* cv.notify() wakes a thread that waits and is nothing otherwise.
NotifyUnlessTimeout == notified' = (notified \/ (~has_timeout /\ InWait))

Notify ==
  /\ main = "created" /\ ~joining
  /\ NotifyUnlessTimeout
  /\ main' = "leaving"
  /\ UNCHANGED <<queue, joining, stopping, has_timeout, thread, table, batch,
                 outbox, ledger, unnotified, faults>>

\* The callback has returned: basic_ack.
Ack ==
  /\ main = "leaving" /\ ~joining
  /\ main' = "idle" /\ current' = NoNotice
  /\ UNCHANGED <<broker, deliveries, joining, shared, thread, table, batch, outbox,
                 ledger, unnotified, faults>>

Consuming == main \in {"consuming", "locked", "created"}

\* Mutant: an exception gives the notice up without a trace.
ForgetNotice == UNCHANGED errors

\* _handle_consume_exception
LogNotice == errors' = errors \cup {current}

\* SIGALRM after MAX_CONSUME_SECONDS, or an exception of consume, anywhere in
\* it.  The signal also cuts a SIGTERM handler short that interrupted consume.
ConsumeFails ==
  /\ Consuming
  /\ Fault
  /\ LogNotice
  /\ main' = "leaving" /\ joining' = FALSE
  /\ unnotified' = (unnotified \/ main = "created")
  /\ UNCHANGED <<queue, shared, thread, table, batch, outbox, emailed, settled, lost>>
\* Mutant: a worker with nothing in hand gives something back.
RequeueAnything == broker' = broker \cup {current}

\* basic_nack.  RabbitMQ does the same with what a connection that was closed,
\* or a dead process, had not acked.
Requeue == broker' = broker \cup ({current} \ {NoNotice})

\* An exception that do_consume does not catch: of basic_ack or the connection
\* to RabbitMQ, or while the statistics or the errors file are written.
\* sys.exit(1) in the main thread does not call stop(), and the background
\* thread is no daemon: the process stays, and nothing restarts it.
ConsumerDies ==
  /\ main \notin {"dead", "down"} /\ (joining => Consuming)
  /\ Fault
  /\ Requeue
  /\ main' = "dead" /\ current' = NoNotice /\ joining' = FALSE
  /\ unnotified' = (unnotified \/ main = "created")
  /\ UNCHANGED <<deliveries, shared, thread, table, batch, outbox, ledger>>
---------------------------------------------------------------------------
(* The background thread: work, background_loop *)

\* background_loop up to cv.wait_for.
Loop ==
  /\ thread = "loop" /\ ~cvHeld
  /\ IF stopping
     THEN thread' = "ended" /\ UNCHANGED <<has_timeout, unnotified>>
     ELSE thread' = "waiting" /\ has_timeout' = (rows # {}) /\ unnotified' = FALSE
  /\ UNCHANGED <<queue, main, joining, stopping, notified, table, batch, outbox,
                 ledger, faults>>

\* Woken up, it holds cv again and tests wait_condition.
Wake ==
  /\ thread = "waiting" /\ notified /\ ~cvHeld
  /\ notified' = FALSE
  /\ thread' = IF stopping \/ (~has_timeout /\ rows # {}) THEN "loop" ELSE "waiting"
  /\ UNCHANGED <<queue, main, joining, stopping, has_timeout, table, batch, outbox,
                 ledger, unnotified, faults>>

\* After CHECK_FREQUENCY_SECONDS, maybe_send_batched_emails: the transaction
\* opens and locks the rows that are due.
Timeout ==
  /\ thread = "waiting" /\ has_timeout /\ ~cvHeld
  /\ notified' = FALSE
  /\ IF stopping
     THEN thread' = "loop" /\ UNCHANGED batch
     ELSE thread' = "sending" /\ batch' = due
  /\ UNCHANGED <<queue, main, joining, stopping, has_timeout, table, outbox, ledger,
                 unnotified, faults>>

\* Mutant: the rows are deleted by their timestamps once more.
DeleteDue == rows' = rows \ due /\ due' = {}

DeleteSeen == rows' = rows \ batch /\ due' = due \ batch

\* Every recipient was handled; messages read meanwhile, and those of a
\* recipient whose emails raised an exception, get no email.
Commit(for_email) ==
  /\ thread = "sending"
  /\ for_email \subseteq NoticesOf(batch)
  /\ DeleteSeen
  /\ outbox' = {r \in batch : r[1] \in for_email}
  /\ settled' = settled \cup (batch \ outbox')
  /\ batch' = {} /\ thread' = "publishing"
  /\ UNCHANGED <<queue, main, joining, shared, gone, emailed, errors, lost,
                 unnotified, faults>>

\* transaction.on_commit callbacks, one email after the other.
Publish(n) ==
  /\ thread = "publishing" /\ n \in NoticesOf(outbox)
  /\ outbox' = {r \in outbox : r[1] # n}
  /\ emailed' = emailed \cup (outbox \ outbox')
  /\ UNCHANGED <<queue, main, joining, shared, thread, table, batch, settled, errors,
                 lost, unnotified, faults>>

Published ==
  /\ thread = "publishing" /\ outbox = {}
  /\ thread' = "loop"
  /\ UNCHANGED <<queue, main, joining, shared, table, batch, outbox, ledger,
                 unnotified, faults>>

\* Mutant: emails are published before the transaction ends.
PublishAnyway == emailed' = emailed \cup batch

\* An open transaction rolls back, and no callback of it runs.
PublishNothing == UNCHANGED emailed

\* An exception: of a query in background_loop, of the transaction (a database
\* error while a recipient is handled makes it fail at its end), or of an
\* on_commit callback, which leaves the callbacks behind it out.
ThreadFails ==
  /\ Fault
  /\ \/ thread = "loop" /\ ~stopping /\ ~cvHeld
     \/ thread \in {"sending", "publishing"}
  /\ PublishNothing
  /\ lost' = lost \cup outbox /\ outbox' = {} /\ batch' = {}
  /\ thread' = "failed"
  /\ UNCHANGED <<queue, main, joining, shared, table, settled, errors, unnotified>>

\* The except clause of work takes cv and waits for the backoff.
Backoff ==
  /\ thread = "failed" /\ ~cvHeld
  /\ thread' = "backoff" /\ has_timeout' = TRUE
  /\ UNCHANGED <<queue, main, joining, stopping, notified, table, batch, outbox,
                 ledger, unnotified, faults>>

BackoffEnds ==
  /\ thread = "backoff" /\ ~cvHeld
  /\ thread' = "loop" /\ notified' = FALSE
  /\ UNCHANGED <<queue, main, joining, stopping, has_timeout, table, batch, outbox,
                 ledger, unnotified, faults>>
---------------------------------------------------------------------------
(* Stopping, dying and starting *)

\* The SIGTERM handler interrupts the main thread anywhere, also while it holds
\* cv (an RLock, which stop() takes again), or after its death, where it waits
\* for the last thread, and begins to join the thread.
Stop ==
  /\ main # "down" /\ ~joining /\ Fault
  /\ joining' = TRUE /\ stopping' = TRUE
  /\ notified' = (notified \/ InWait)
  /\ UNCHANGED <<queue, main, has_timeout, thread, table, batch, outbox, ledger,
                 unnotified>>

ProcessEnds ==
  /\ Requeue
  /\ main' = "down" /\ current' = NoNotice /\ joining' = FALSE
  /\ stopping' = FALSE /\ has_timeout' = FALSE /\ notified' = FALSE
  /\ thread' = "ended" /\ batch' = {}
  /\ lost' = lost \cup outbox /\ outbox' = {}
  /\ unnotified' = FALSE
  /\ UNCHANGED <<deliveries, table, emailed, settled, errors>>

\* The join returns; stop_consuming, sys.exit.  Without a main thread the
\* process ends with its last thread.
Exit ==
  /\ joining \/ main = "dead"
  /\ thread = "ended"
  /\ ProcessEnds
  /\ UNCHANGED faults

\* supervisord sends SIGKILL when stopwaitsecs have passed.
KillStopped == stopping /\ ProcessEnds /\ UNCHANGED faults

Kill ==
  /\ main # "down" /\ Fault
  /\ ProcessEnds

\* supervisord starts the process again.
Start ==
  /\ main = "down"
  /\ main' = "idle" /\ thread' = "loop"
  /\ UNCHANGED <<queue, joining, shared, table, batch, outbox, ledger, unnotified, faults>>
---------------------------------------------------------------------------
(* Outside the process *)

BecomesDue(r) ==
  /\ r \in rows \ due
  /\ due' = due \cup {r}
  /\ UNCHANGED <<queue, main, joining, shared, thread, rows, gone, batch, outbox,
                 ledger, unnotified, faults>>

\* The message is deleted, its rows with it, unless a transaction locks them.
DeleteMessage(n) ==
  /\ n \notin gone \cup NoticesOf(batch)
  /\ gone' = gone \cup {n}
  /\ rows' = {r \in rows : r[1] # n} /\ due' = due \cap rows'
  /\ UNCHANGED <<queue, main, joining, shared, thread, batch, outbox, ledger,
                 unnotified, faults>>
---------------------------------------------------------------------------
MainStep == Acquire \/ CreateRow \/ Notify \/ Ack \/ \E n \in broker : Deliver(n)

SendStep == \E for_email \in SUBSET NoticesOf(batch) : Commit(for_email)

PublishStep == Published \/ \E n \in NoticesOf(outbox) : Publish(n)

ThreadStep == Loop \/ Wake \/ Timeout \/ SendStep \/ PublishStep \/ Backoff \/ BackoffEnds

Next ==
  \/ MainStep \/ ConsumeFails \/ ConsumerDies \/ ThreadStep \/ ThreadFails
  \/ Stop \/ Exit \/ KillStopped \/ Kill \/ Start
  \/ \E r \in rows : BecomesDue(r)
  \/ \E n \in Notices : DeleteMessage(n)

Spec == Init /\ [][Next]_vars

\* Both threads run, waits with a timeout end, time passes, supervisord kills
\* what does not stop and restarts what ended.
Fairness ==
  /\ WF_vars(MainStep) /\ WF_vars(ThreadStep)
  /\ WF_vars(Exit) /\ WF_vars(KillStopped) /\ WF_vars(Start)
  /\ WF_vars(\E r \in rows : BecomesDue(r))

FairSpec == Spec /\ Fairness
---------------------------------------------------------------------------
\* "if we fail to awake case (3), the worker thread will never wake up": while
\* there are rows, the background thread is not waiting without a timeout,
\* unless it is about to be woken, or the main thread, which made the row and
\* still holds cv, is about to notify it, or an exception kept it from that.
NoLostWakeup ==
  thread = "waiting" /\ ~has_timeout /\ rows # {} =>
    notified \/ main = "created" \/ unnotified

\* "With has_timeout set, this will only be notified by .stop()": nothing cuts
\* a backoff short but the end of the process.
BackoffUndisturbed == thread = "backoff" /\ notified => stopping

\* Rows and their emails change hands in one transaction: a row whose email
\* was published, or is going to be, cannot be selected again, whatever fails.
EmailedRowsGone == rows \cap (outbox \cup emailed \cup settled \cup lost) = {}

\* Wherever a thread fails or the process dies, a notice handed out by Tornado
\* is in the RabbitMQ queue, in hand, a row, an email or written to a log, or
\* its message is gone or its emails were cut off after their transaction.
NothingForgotten ==
  \A n \in Notices :
    \/ n \in broker \cup {current} \cup errors \cup gone
    \/ n \in NoticesOf(rows \cup outbox \cup emailed \cup settled \cup lost)

Settled(n) ==
  n \in errors \cup gone \cup NoticesOf(emailed \cup settled \cup lost)

\* A process without its main thread consumes no notice; of those consumed
\* before, the background thread still makes emails.
Stranded(n) == main = "dead" /\ n \notin NoticesOf(rows \cup outbox)

\* Every notice comes to an end: no wait, backoff or stop holds emails up for
\* good, unless an exception kept the main thread from notifying, or ended it
\* before it had consumed the notice.
EveryNoticeSettled == \A n \in Notices : <>(Settled(n) \/ Stranded(n) \/ unnotified)

\* What log_and_exit_if_exception is there for: a worker that cannot go on
\* exits, and is started again.  (Not so: ConsumerDies.)
ExitsOnException == main # "dead" \/ stopping

\* "Instead of using time.sleep, which would block this thread and delay
\* attempts to exit, we wait on the condition variable."  (Not so when the
\* signal finds the main thread in "with self.cv": it waits, holding cv, for a
\* thread that needs cv to end.)
StopNeverBlocked == ~(joining /\ cvHeld /\ thread \in {"loop", "waiting", "failed", "backoff"})
===========================================================================
