--------------------- MODULE MissedMessageEmailsProofs ---------------------
(***************************************************************************)
(* The safety properties of MissedMessageEmails, for every set of notices  *)
(* and any number of faults.                                               *)
(***************************************************************************)
EXTENDS MissedMessageEmails, TLAPS

\* cv.notify() reaches a thread that waits, and its wait clears the mark.
NotifiedWaits == notified => InWait

\* A process that ended runs no thread.
DownAltogether == main = "down" => thread = "ended"

\* The backoff is a wait with a timeout.
BackoffHasTimeout == thread = "backoff" => has_timeout

Existing == rows \cup outbox \cup emailed \cup settled \cup lost

\* A delivery makes one row, and makes it while it is being consumed.
RowsOfDeliveries ==
  /\ current # NoNotice => deliveries[current] >= 1
  /\ \A r \in Existing :
       /\ 1 <= r[2] /\ r[2] <= deliveries[r[1]]
       /\ main \in {"consuming", "locked"} => r # <<current, deliveries[current]>>

\* The on_commit callbacks run in maybe_send_batched_emails.
OutboxWhilePublishing == outbox # {} => thread = "publishing"

\* What consume is done with is not lost when it is acked.
Accounted ==
  main \in {"created", "leaving"} => current \in errors \cup gone \cup NoticesOf(Existing)

---------------------------------------------------------------------------
\* Every variable keeps its type, and the main thread has a notice in hand
\* exactly while it consumes.
THEOREM TypeCorrect == Spec => []TypeOK
<1>1. Init => TypeOK
  <2> SUFFICES ASSUME Init PROVE TypeOK
    OBVIOUS
  <2>1. deliveries \in [Notices -> Nat]
    BY DEF Init
  <2>2. current \notin broker
    BY NoNoticeAssumption DEF Init
  <2> QED
    BY <2>1, <2>2 DEF Init, TypeOK
<1>2. TypeOK /\ [Next]_vars => TypeOK'
  <2> SUFFICES ASSUME TypeOK, [Next]_vars PROVE TypeOK'
    OBVIOUS
  <2> USE NoNoticeAssumption DEF TypeOK, Rows, NoticesOf, queue, shared, table, ledger
  <2>1. ASSUME NEW n \in broker, Deliver(n) PROVE TypeOK'
    BY <2>1 DEF Deliver
  <2>2. CASE Acquire
    BY <2>2 DEF Acquire
  <2>3. CASE CreateRow
    <3>1. current \in Notices
      BY <2>3 DEF CreateRow
    <3>2. rows \subseteq rows' /\ rows' \subseteq Rows
      BY <2>3, <3>1 DEF CreateRow
    <3> QED
      BY <2>3, <3>2 DEF CreateRow
  <2>4. CASE Notify
    BY <2>4 DEF Notify, NotifyUnlessTimeout
  <2>5. CASE Ack
    BY <2>5 DEF Ack
  <2>6. CASE ConsumeFails
    <3>1. errors' \subseteq Notices
      BY <2>6 DEF ConsumeFails, Consuming, LogNotice
    <3>2. faults' \in Nat
      BY <2>6 DEF ConsumeFails, Consuming, Fault
    <3> QED
      BY <2>6, <3>1, <3>2 DEF ConsumeFails, Consuming
  <2>7. CASE Loop
    BY <2>7 DEF Loop
  <2>8. CASE Wake
    BY <2>8 DEF Wake
  <2>9. CASE Timeout
    BY <2>9 DEF Timeout
  <2>10. ASSUME NEW for_email \in SUBSET NoticesOf(batch), Commit(for_email) PROVE TypeOK'
    BY <2>10 DEF Commit, DeleteSeen
  <2>11. ASSUME NEW n \in NoticesOf(outbox), Publish(n) PROVE TypeOK'
    BY <2>11 DEF Publish
  <2>12. CASE Published
    BY <2>12 DEF Published
  <2>13. CASE ThreadFails
    BY <2>13 DEF ThreadFails, Fault, PublishNothing
  <2>14. CASE Backoff
    BY <2>14 DEF Backoff
  <2>15. CASE BackoffEnds
    BY <2>15 DEF BackoffEnds
  <2>16. CASE Stop
    BY <2>16 DEF Stop, Fault
  <2>17. CASE Exit
    BY <2>17 DEF Exit, ProcessEnds, Requeue
  <2>18. CASE KillStopped
    BY <2>18 DEF KillStopped, ProcessEnds, Requeue
  <2>19. CASE Kill
    <3>1. faults' \in Nat
      BY <2>19 DEF Kill, Fault
    <3> QED
      BY <2>19, <3>1 DEF Kill, ProcessEnds, Requeue
  <2>20. CASE Start
    BY <2>20 DEF Start
  <2>21. ASSUME NEW r \in rows, BecomesDue(r) PROVE TypeOK'
    BY <2>21 DEF BecomesDue
  <2>22. ASSUME NEW n \in Notices, DeleteMessage(n) PROVE TypeOK'
    BY <2>22 DEF DeleteMessage
  <2>23. CASE UNCHANGED vars
    BY <2>23 DEF vars
  <2>24. CASE ConsumerDies
    <3>1. faults' \in Nat
      BY <2>24 DEF ConsumerDies, Fault
    <3>2. unnotified' \in BOOLEAN
      BY <2>24 DEF ConsumerDies
    <3>3. broker' \subseteq Notices /\ current' = NoNotice
      BY <2>24 DEF ConsumerDies, Requeue
    <3> QED
      BY <2>24, <3>1, <3>2, <3>3 DEF ConsumerDies
  <2> QED
    BY <2>1, <2>24, <2>2, <2>3, <2>4, <2>5, <2>6, <2>7, <2>8, <2>9, <2>10, <2>11, <2>12, <2>13, <2>14, <2>15, <2>16, <2>17, <2>18, <2>19, <2>20, <2>21, <2>22, <2>23
       DEF Next, MainStep, SendStep, PublishStep, ThreadStep
<1> QED
  BY <1>1, <1>2, PTL DEF Spec

\* A thread that waits without a timeout is told of the first row, and one in
\* its backoff of nothing but the end: the two halves of the comment on the
\* condition variable hold together, for any number of faults.
THEOREM WakeupsReachTheThread == Spec => [](NoLostWakeup /\ BackoffUndisturbed)
<1> DEFINE Wakeup == NotifiedWaits /\ DownAltogether /\ BackoffHasTimeout /\ NoLostWakeup /\ BackoffUndisturbed
<1>1. Init => Wakeup
  BY DEF Init, NotifiedWaits, DownAltogether, BackoffHasTimeout, NoLostWakeup, BackoffUndisturbed
<1>2. TypeOK /\ Wakeup /\ [Next]_vars => Wakeup'
  <2> SUFFICES ASSUME TypeOK, Wakeup, [Next]_vars PROVE Wakeup'
    OBVIOUS
  <2> USE DEF TypeOK, NotifiedWaits, DownAltogether, BackoffHasTimeout, NoLostWakeup, BackoffUndisturbed,
              InWait, cvHeld, queue, shared, table, ledger
  <2>1. ASSUME NEW n \in broker, Deliver(n) PROVE Wakeup'
    BY <2>1 DEF Deliver
  <2>2. CASE Acquire
    BY <2>2 DEF Acquire
  <2>3. CASE CreateRow
    BY <2>3 DEF CreateRow
  <2>4. CASE Notify
    BY <2>4 DEF Notify, NotifyUnlessTimeout
  <2>5. CASE Ack
    BY <2>5 DEF Ack
  <2>6. CASE ConsumeFails
    BY <2>6 DEF ConsumeFails, Consuming, Fault, LogNotice
  <2>7. CASE Loop
    BY <2>7 DEF Loop
  <2>8. CASE Wake
    BY <2>8 DEF Wake
  <2>9. CASE Timeout
    BY <2>9 DEF Timeout
  <2>10. ASSUME NEW for_email \in SUBSET NoticesOf(batch), Commit(for_email) PROVE Wakeup'
    BY <2>10 DEF Commit, DeleteSeen
  <2>11. ASSUME NEW n \in NoticesOf(outbox), Publish(n) PROVE Wakeup'
    BY <2>11 DEF Publish
  <2>12. CASE Published
    BY <2>12 DEF Published
  <2>13. CASE ThreadFails
    BY <2>13 DEF ThreadFails, Fault, PublishNothing
  <2>14. CASE Backoff
    BY <2>14 DEF Backoff
  <2>15. CASE BackoffEnds
    BY <2>15 DEF BackoffEnds
  <2>16. CASE Stop
    BY <2>16 DEF Stop, Fault
  <2>17. CASE Exit
    BY <2>17 DEF Exit, ProcessEnds, Requeue
  <2>18. CASE KillStopped
    BY <2>18 DEF KillStopped, ProcessEnds, Requeue
  <2>19. CASE Kill
    BY <2>19 DEF Kill, Fault, ProcessEnds, Requeue
  <2>20. CASE Start
    BY <2>20 DEF Start
  <2>21. ASSUME NEW r \in rows, BecomesDue(r) PROVE Wakeup'
    BY <2>21 DEF BecomesDue
  <2>22. ASSUME NEW n \in Notices, DeleteMessage(n) PROVE Wakeup'
    BY <2>22 DEF DeleteMessage
  <2>23. CASE UNCHANGED vars
    BY <2>23 DEF vars
  <2>24. CASE ConsumerDies
    BY <2>24 DEF ConsumerDies, Consuming, Fault, Requeue
  <2> QED
    BY <2>1, <2>24, <2>2, <2>3, <2>4, <2>5, <2>6, <2>7, <2>8, <2>9, <2>10, <2>11, <2>12, <2>13, <2>14, <2>15, <2>16, <2>17, <2>18, <2>19, <2>20, <2>21, <2>22, <2>23
       DEF Next, MainStep, SendStep, PublishStep, ThreadStep
<1> QED
  BY <1>1, <1>2, TypeCorrect, PTL DEF Spec

\* Nothing but the end of the process cuts the backoff after an exception
\* short: has_timeout is set then, and notify() is called only without it.
THEOREM BackoffKept == Spec => []BackoffUndisturbed
<1>1. NoLostWakeup /\ BackoffUndisturbed => BackoffUndisturbed
  OBVIOUS
<1> QED
  BY <1>1, WakeupsReachTheThread, PTL

LEMMA LedgerInvariant == Spec => [](RowsOfDeliveries /\ EmailedRowsGone)
<1> DEFINE Ledger == RowsOfDeliveries /\ EmailedRowsGone
<1>1. Init => Ledger
  BY DEF Init, RowsOfDeliveries, EmailedRowsGone, Existing
<1>2. TypeOK /\ Ledger /\ [Next]_vars => Ledger'
  <2> SUFFICES ASSUME TypeOK, Ledger, [Next]_vars PROVE Ledger'
    OBVIOUS
  <2> USE DEF TypeOK, Rows, RowsOfDeliveries, EmailedRowsGone, Existing, NoticesOf,
              queue, shared, table, ledger
  <2>1. ASSUME NEW n \in broker, Deliver(n) PROVE Ledger'
    BY <2>1 DEF Deliver
  <2>2. CASE Acquire
    BY <2>2 DEF Acquire
  <2>3. CASE CreateRow
    BY <2>3 DEF CreateRow
  <2>4. CASE Notify
    BY <2>4 DEF Notify, NotifyUnlessTimeout
  <2>5. CASE Ack
    BY <2>5 DEF Ack
  <2>6. CASE ConsumeFails
    BY <2>6 DEF ConsumeFails, Consuming, Fault, LogNotice
  <2>7. CASE Loop
    BY <2>7 DEF Loop
  <2>8. CASE Wake
    BY <2>8 DEF Wake
  <2>9. CASE Timeout
    BY <2>9 DEF Timeout
  <2>10. ASSUME NEW for_email \in SUBSET NoticesOf(batch), Commit(for_email) PROVE Ledger'
    BY <2>10 DEF Commit, DeleteSeen
  <2>11. ASSUME NEW n \in NoticesOf(outbox), Publish(n) PROVE Ledger'
    BY <2>11 DEF Publish
  <2>12. CASE Published
    BY <2>12 DEF Published
  <2>13. CASE ThreadFails
    BY <2>13 DEF ThreadFails, Fault, PublishNothing
  <2>14. CASE Backoff
    BY <2>14 DEF Backoff
  <2>15. CASE BackoffEnds
    BY <2>15 DEF BackoffEnds
  <2>16. CASE Stop
    BY <2>16 DEF Stop, Fault
  <2>17. CASE Exit
    BY <2>17 DEF Exit, ProcessEnds, Requeue
  <2>18. CASE KillStopped
    BY <2>18 DEF KillStopped, ProcessEnds, Requeue
  <2>19. CASE Kill
    BY <2>19 DEF Kill, Fault, ProcessEnds, Requeue
  <2>20. CASE Start
    BY <2>20 DEF Start
  <2>21. ASSUME NEW r \in rows, BecomesDue(r) PROVE Ledger'
    BY <2>21 DEF BecomesDue
  <2>22. ASSUME NEW n \in Notices, DeleteMessage(n) PROVE Ledger'
    BY <2>22 DEF DeleteMessage
  <2>23. CASE UNCHANGED vars
    BY <2>23 DEF vars
  <2>24. CASE ConsumerDies
    BY <2>24 DEF ConsumerDies, Consuming, Fault, Requeue
  <2> QED
    BY <2>1, <2>24, <2>2, <2>3, <2>4, <2>5, <2>6, <2>7, <2>8, <2>9, <2>10, <2>11, <2>12, <2>13, <2>14, <2>15, <2>16, <2>17, <2>18, <2>19, <2>20, <2>21, <2>22, <2>23
       DEF Next, MainStep, SendStep, PublishStep, ThreadStep
<1> QED
  BY <1>1, <1>2, TypeCorrect, PTL DEF Spec

\* A row never outlives the transaction that turned it into an email.
THEOREM RowsEmailedOnce == Spec => []EmailedRowsGone
<1>1. RowsOfDeliveries /\ EmailedRowsGone => EmailedRowsGone
  OBVIOUS
<1> QED
  BY <1>1, LedgerInvariant, PTL

\* RabbitMQ delivers a notice again only after a fault.  A SIGTERM leaves the
\* notice in hand to the worker until it ends.
DeliveriesPaid ==
  /\ joining => stopping
  /\ \A n \in Notices :
       LET delivered == deliveries[n] + (IF stopping THEN 1 ELSE 0)
       IN IF n \in broker THEN delivered <= faults ELSE delivered <= faults + 1

\* A notice has a row for each of its deliveries at most, and one delivery more
\* than there were faults.
RowsBoundedByFaults == \A r \in Existing : r[2] \in 1 .. faults + 1

LEMMA PaidInvariant == Spec => []DeliveriesPaid
<1>1. Init => DeliveriesPaid
  BY DEF Init, DeliveriesPaid
<1>2. TypeOK /\ DeliveriesPaid /\ [Next]_vars => DeliveriesPaid'
  <2> SUFFICES ASSUME TypeOK, DeliveriesPaid, [Next]_vars PROVE DeliveriesPaid'
    OBVIOUS
  <2>1. faults \in Nat /\ deliveries \in [Notices -> Nat] /\ stopping \in BOOLEAN
    BY DEF TypeOK
  <2>2. ASSUME NEW n \in broker, Deliver(n) PROVE DeliveriesPaid'
    BY <2>1, <2>2 DEF Deliver, DeliveriesPaid, shared
  <2>3. CASE Stop
    BY <2>1, <2>3 DEF Stop, Fault, DeliveriesPaid, queue
  <2>4. CASE ConsumeFails
    BY <2>1, <2>4 DEF ConsumeFails, Fault, DeliveriesPaid, queue, shared
  <2>5. CASE ThreadFails
    BY <2>1, <2>5 DEF ThreadFails, Fault, DeliveriesPaid, queue, shared
  <2>6. CASE Exit \/ KillStopped
    <3>1. CASE stopping
      BY <2>1, <2>6, <3>1 DEF Exit, KillStopped, ProcessEnds, DeliveriesPaid
    <3>2. CASE ~stopping
      <4>1. current = NoNotice
        BY <2>6, <3>2 DEF Exit, KillStopped, DeliveriesPaid, TypeOK
      <4>2. UNCHANGED broker
        BY <2>6, <4>1 DEF Exit, KillStopped, ProcessEnds, Requeue
      <4> QED
        BY <2>1, <2>6, <3>2, <4>2 DEF Exit, KillStopped, ProcessEnds, DeliveriesPaid
    <3> QED
      BY <2>1, <3>1, <3>2
  <2>7. CASE Kill
    BY <2>1, <2>7 DEF Kill, Fault, ProcessEnds, DeliveriesPaid
  <2>8. CASE ConsumerDies
    BY <2>1, <2>8 DEF ConsumerDies, Fault, Requeue, DeliveriesPaid, shared
  <2>9. CASE UNCHANGED <<broker, deliveries, joining, stopping, faults>>
    BY <2>9 DEF DeliveriesPaid
  <2>10. CASE Acquire \/ CreateRow \/ Notify \/ Ack \/ Start
    BY <2>9, <2>10 DEF Acquire, CreateRow, Notify, Ack, Start, queue, shared
  <2>11. CASE ThreadStep
    BY <2>9, <2>11 DEF ThreadStep, Loop, Wake, Timeout, SendStep, Commit, PublishStep, Publish,
                       Published, Backoff, BackoffEnds, queue, shared
  <2>12. CASE (\E r \in rows : BecomesDue(r)) \/ (\E n \in Notices : DeleteMessage(n))
    BY <2>9, <2>12 DEF BecomesDue, DeleteMessage, queue, shared
  <2>13. CASE UNCHANGED vars
    BY <2>9, <2>13 DEF vars, queue, shared
  <2> QED
    BY <2>2, <2>3, <2>4, <2>5, <2>6, <2>7, <2>8, <2>10, <2>11, <2>12, <2>13 DEF Next, MainStep
<1> QED
  BY <1>1, <1>2, TypeCorrect, PTL DEF Spec

\* A notice is acked after its row is committed, so that it may come again and
\* make another row: a message is in the table, or in emails, as often as a fault
\* had RabbitMQ deliver its notice again, and once without one (wrapped_consumer,
\* consume, stop).
THEOREM DuplicatesNeedFaults == Spec => []RowsBoundedByFaults
<1>1. TypeOK /\ RowsOfDeliveries /\ DeliveriesPaid => RowsBoundedByFaults
  <2> SUFFICES ASSUME TypeOK, RowsOfDeliveries, DeliveriesPaid, NEW r \in Existing
               PROVE  r[2] \in 1 .. faults + 1
    BY DEF RowsBoundedByFaults
  <2>1. r[1] \in Notices /\ r[2] \in Nat
    BY DEF TypeOK, Existing, Rows
  <2>2. deliveries[r[1]] \in Nat /\ faults \in Nat
    BY <2>1 DEF TypeOK
  <2>3. deliveries[r[1]] <= faults + 1
    BY <2>1, <2>2 DEF DeliveriesPaid, TypeOK
  <2> QED
    BY <2>1, <2>2, <2>3 DEF RowsOfDeliveries
<1> QED
  BY <1>1, TypeCorrect, LedgerInvariant, PaidInvariant, PTL

\* No notice is lost between RabbitMQ, the worker and the table.
THEOREM NoticesKept == Spec => []NothingForgotten
<1> DEFINE Custody == DownAltogether /\ OutboxWhilePublishing /\ Accounted /\ NothingForgotten
<1>1. Init => Custody
  BY DEF Init, DownAltogether, OutboxWhilePublishing, Accounted, NothingForgotten
<1>2. TypeOK /\ Custody /\ [Next]_vars => Custody'
  <2> SUFFICES ASSUME TypeOK, Custody, [Next]_vars PROVE Custody'
    OBVIOUS
  <2> USE DEF TypeOK, Rows, DownAltogether, OutboxWhilePublishing, Accounted,
              NothingForgotten, Existing, NoticesOf, queue, shared, table, ledger
  <2>1. ASSUME NEW n \in broker, Deliver(n) PROVE Custody'
    <3>1. Existing' = Existing
      BY <2>1 DEF Deliver
    <3>2. Accounted'
      BY <2>1 DEF Deliver
    <3>3. /\ broker \subseteq broker' \cup {current'}
          /\ current = NoNotice
          /\ UNCHANGED <<errors, gone>>
      BY <2>1 DEF Deliver
    <3>4. NothingForgotten'
      <4> SUFFICES ASSUME NEW k \in Notices, k \notin NoticesOf(Existing)
                   PROVE  k \in broker' \cup {current'} \cup errors' \cup gone'
        BY <3>1
      <4>1. k \in broker \cup {current} \cup errors \cup gone
        OBVIOUS
      <4> QED
        BY <4>1, <3>3, NoNoticeAssumption
    <3>5. DownAltogether' /\ OutboxWhilePublishing'
      BY <2>1 DEF Deliver
    <3> QED
      BY <3>2, <3>4, <3>5
  <2>2. CASE Acquire
    BY <2>2 DEF Acquire
  <2>3. CASE CreateRow
    <3>1. /\ Existing \subseteq Existing'
          /\ UNCHANGED <<broker, current, errors, gone>>
      BY <2>3 DEF CreateRow
    <3>2. NothingForgotten'
      BY <3>1
    <3>5. DownAltogether' /\ OutboxWhilePublishing'
      BY <2>3 DEF CreateRow
    <3>3. CASE current \in gone
      BY <2>3, <3>2, <3>3, <3>5 DEF CreateRow
    <3>4. CASE current \notin gone
      <4>1. <<current, deliveries[current]>> \in Existing'
        BY <2>3, <3>4 DEF CreateRow
      <4>2. current \in NoticesOf(Existing')
        BY <4>1
      <4> QED
        BY <3>1, <3>2, <3>5, <4>2
    <3> QED
      BY <3>3, <3>4
  <2>4. CASE Notify
    BY <2>4 DEF Notify, NotifyUnlessTimeout
  <2>5. CASE Ack
    BY <2>5 DEF Ack
  <2>6. CASE ConsumeFails
    BY <2>6 DEF ConsumeFails, Consuming, Fault, LogNotice
  <2>7. CASE Loop
    BY <2>7 DEF Loop
  <2>8. CASE Wake
    BY <2>8 DEF Wake
  <2>9. CASE Timeout
    BY <2>9 DEF Timeout
  <2>10. ASSUME NEW for_email \in SUBSET NoticesOf(batch), Commit(for_email) PROVE Custody'
    <3>1. rows \subseteq rows' \cup batch /\ batch \subseteq outbox' \cup settled'
      BY <2>10 DEF Commit, DeleteSeen
    <3>2. outbox \cup emailed \cup settled \cup lost \subseteq Existing'
      BY <2>10 DEF Commit
    <3>3. UNCHANGED <<broker, current, main, errors, gone>>
      BY <2>10 DEF Commit
    <3>4. Existing \subseteq Existing'
      BY <3>1, <3>2
    <3>5. DownAltogether' /\ OutboxWhilePublishing'
      BY <2>10 DEF Commit
    <3>6. Accounted' /\ NothingForgotten'
      BY <3>3, <3>4
    <3> QED
      BY <3>5, <3>6
  <2>11. ASSUME NEW n \in NoticesOf(outbox), Publish(n) PROVE Custody'
    BY <2>11 DEF Publish
  <2>12. CASE Published
    BY <2>12 DEF Published
  <2>13. CASE ThreadFails
    BY <2>13 DEF ThreadFails, Fault, PublishNothing
  <2>14. CASE Backoff
    BY <2>14 DEF Backoff
  <2>15. CASE BackoffEnds
    BY <2>15 DEF BackoffEnds
  <2>16. CASE Stop
    BY <2>16 DEF Stop, Fault
  <2>17. CASE Exit
    BY <2>17 DEF Exit, ProcessEnds, Requeue
  <2>18. CASE KillStopped
    BY <2>18 DEF KillStopped, ProcessEnds, Requeue
  <2>19. CASE Kill
    BY <2>19 DEF Kill, Fault, ProcessEnds, Requeue
  <2>20. CASE Start
    BY <2>20 DEF Start
  <2>21. ASSUME NEW r \in rows, BecomesDue(r) PROVE Custody'
    BY <2>21 DEF BecomesDue
  <2>22. ASSUME NEW n \in Notices, DeleteMessage(n) PROVE Custody'
    BY <2>22 DEF DeleteMessage
  <2>23. CASE UNCHANGED vars
    BY <2>23 DEF vars
  <2>24. CASE ConsumerDies
    BY <2>24 DEF ConsumerDies, Consuming, Fault, Requeue
  <2> QED
    BY <2>1, <2>24, <2>2, <2>3, <2>4, <2>5, <2>6, <2>7, <2>8, <2>9, <2>10, <2>11, <2>12, <2>13, <2>14, <2>15, <2>16, <2>17, <2>18, <2>19, <2>20, <2>21, <2>22, <2>23
       DEF Next, MainStep, SendStep, PublishStep, ThreadStep
<1> QED
  BY <1>1, <1>2, TypeCorrect, PTL DEF Spec
===========================================================================
