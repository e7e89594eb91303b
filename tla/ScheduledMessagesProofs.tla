----------------------- MODULE ScheduledMessagesProofs -----------------------
(***************************************************************************)
(* Proofs about ScheduledMessages: the types, with who holds which lock,   *)
(* and that it implements ScheduledOnce, for any number of messages and    *)
(* requests.                                                               *)
(***************************************************************************)
EXTENDS ScheduledMessages, TLAPS, SequenceTheorems

LEMMA InitialTypes ==
  /\ Unused \in Row
  /\ NoRequest \in RequestState /\ NoRequest.phase = "idle"
  /\ \A p \in {"idle", "down"} : At(p) \in WorkerState /\ At(p).phase = p
<1>1. (CHOOSE m \in Ids : TRUE) \in Ids
  BY IdsAssumption
<1>2. Unused \in Row
  BY DEF Unused, Row
<1> QED
  BY <1>1, <1>2 DEF NoRequest, RequestState, At, WorkerState

LEMMA RowTypes ==
  ASSUME NEW x \in Row
  PROVE  /\ \A b \in BOOLEAN : [x EXCEPT !.due = b] \in Row
         /\ [x EXCEPT !.delivered = TRUE] \in Row
         /\ [x EXCEPT !.failed = TRUE] \in Row
         /\ [x EXCEPT !.delivered = TRUE, !.failed = TRUE] \in Row
         /\ [x EXCEPT !.state = "deleted"] \in Row
         /\ [Unused EXCEPT !.state = "stored"] \in Row
<1>1. \A b \in BOOLEAN : [x EXCEPT !.due = b] \in Row
  BY DEF Row
<1>2. /\ [x EXCEPT !.delivered = TRUE] \in Row /\ [x EXCEPT !.failed = TRUE] \in Row
      /\ [x EXCEPT !.delivered = TRUE, !.failed = TRUE] \in Row
  BY DEF Row
<1>3. [x EXCEPT !.state = "deleted"] \in Row /\ [Unused EXCEPT !.state = "stored"] \in Row
  BY DEF Row, Unused
<1> QED
  BY <1>1, <1>2, <1>3

LEMMA ReleasedLocks ==
  ASSUME locks \in [Ids -> Holders], NEW holder, Releases(holder)
  PROVE  /\ locks' \in [Ids -> Holders]
         /\ \A m \in Ids : locks'[m] = IF locks[m] = holder THEN Nobody ELSE locks[m]
BY DEF Releases, Holders

LEMMA PutType ==
  ASSUME row \in [Ids -> Row], NEW m \in Ids, NEW x \in Row, Put(m, x)
  PROVE  row' \in [Ids -> Row]
BY DEF Put

\* A request that ends gives up its locks.
LEMMA RequestReleases ==
  ASSUME TypeOK, NEW r \in Requests, Releases(r),
         request' = [request EXCEPT ![r] = NoRequest], UNCHANGED worker
  PROVE  LocksHeld' /\ request' \in [Requests -> RequestState]
<1>1. locks' \in [Ids -> Holders]
      /\ \A m \in Ids : locks'[m] = IF locks[m] = r THEN Nobody ELSE locks[m]
  BY ReleasedLocks DEF TypeOK
<1>2. request'[r] = NoRequest /\ \A q \in Requests \ {r} : request'[q] = request[q]
  BY DEF TypeOK
<1>3. ASSUME NEW m \in Ids
      PROVE  locks'[m] = Worker <=> worker'.phase \in {"sending", "sent"} /\ worker'.id = m
  BY <1>1, HoldersAssumption DEF TypeOK, LocksHeld
<1>4. ASSUME NEW m \in Ids, NEW q \in Requests
      PROVE  locks'[m] = q <=> request'[q].phase = "editing" /\ request'[q].id = m
  <2>1. CASE q = r
    BY <2>1, <1>1, <1>2, HoldersAssumption DEF NoRequest
  <2>2. CASE q # r
    BY <2>2, <1>1, <1>2, HoldersAssumption DEF TypeOK, LocksHeld
  <2> QED
    BY <2>1, <2>2
<1> QED
  BY <1>3, <1>4, InitialTypes DEF LocksHeld, TypeOK

\* The delivery gives up its lock when the transaction ends.
LEMMA WorkerReleases ==
  ASSUME TypeOK, Releases(Worker), NEW p \in {"idle", "down"}, worker' = At(p),
         UNCHANGED request
  PROVE  LocksHeld' /\ worker' \in WorkerState
<1>1. locks' \in [Ids -> Holders]
      /\ \A m \in Ids : locks'[m] = IF locks[m] = Worker THEN Nobody ELSE locks[m]
  BY ReleasedLocks DEF TypeOK
<1>2. worker'.phase = p /\ worker' \in WorkerState
  BY InitialTypes
<1>3. ASSUME NEW m \in Ids
      PROVE  locks'[m] = Worker <=> worker'.phase \in {"sending", "sent"} /\ worker'.id = m
  BY <1>1, <1>2, HoldersAssumption
<1>4. ASSUME NEW m \in Ids, NEW q \in Requests
      PROVE  locks'[m] = q <=> request'[q].phase = "editing" /\ request'[q].id = m
  BY <1>1, HoldersAssumption DEF TypeOK, LocksHeld
<1> QED
  BY <1>2, <1>3, <1>4 DEF LocksHeld

\* Beginning and finishing a deletion takes and gives no lock.
LEMMA DeletesUnlocked ==
  ASSUME TypeOK, NEW r \in Requests, NEW x \in RequestState,
         request[r].phase # "editing", x.phase # "editing",
         request' = [request EXCEPT ![r] = x], UNCHANGED <<locks, worker>>
  PROVE  LocksHeld' /\ request' \in [Requests -> RequestState]
<1>1. request'[r] = x /\ \A q \in Requests \ {r} : request'[q] = request[q]
  BY DEF TypeOK
<1>2. ASSUME NEW m \in Ids, NEW q \in Requests
      PROVE  locks'[m] = q <=> request'[q].phase = "editing" /\ request'[q].id = m
  BY <1>1 DEF TypeOK, LocksHeld
<1> QED
  BY <1>2 DEF LocksHeld, TypeOK

\* Every variable keeps its type; the delivery holds the lock of the row it is
\* sending, an edit that of the row it will save, and nobody another.
THEOREM TypeCorrect == Spec => []TypeOK
<1> USE IdsAssumption, HoldersAssumption, BoundsAssumption
<1>1. Init => TypeOK
  BY InitialTypes DEF Init, TypeOK, LocksHeld, Holders
<1>2. TypeOK /\ [Next]_vars => TypeOK'
  <2> SUFFICES ASSUME TypeOK, [Next]_vars PROVE TypeOK'
    OBVIOUS
  <2> DEFINE Types == /\ row \in [Ids -> Row] /\ locks \in [Ids -> Holders]
                      /\ worker \in WorkerState /\ request \in [Requests -> RequestState]
                      /\ sent \in [Ids -> Seq(Nat)] /\ faults \in Nat
  <2>0. Types /\ LocksHeld /\ (Types' /\ LocksHeld' => TypeOK')
    BY DEF TypeOK
  <2>1. ASSUME NEW r \in Requests, SaveEdit(r) PROVE TypeOK'
    <3> DEFINE x == request[r]
    <3>1. x \in RequestState /\ x.id \in Ids /\ x.copy \in Row /\ x.new_time \in BOOLEAN
      BY <2>0 DEF RequestState
    <3>2. (row[x.id].due /\ ~x.new_time) \in BOOLEAN
      OBVIOUS
    <3>3. Saved(x.id, x.copy, x.new_time) \in Row
      BY <3>1, <3>2 DEF Saved, Row
    <3>4. row' \in [Ids -> Row]
      BY <2>0, <2>1, <3>1, <3>3, PutType DEF SaveEdit
    <3>5. LocksHeld' /\ request' \in [Requests -> RequestState]
      BY <2>1, RequestReleases DEF SaveEdit
    <3> QED
      BY <2>0, <2>1, <3>4, <3>5, ReleasedLocks DEF SaveEdit
  <2>2. ASSUME NEW r \in Requests, EditFails(r) PROVE TypeOK'
    <3>1. LocksHeld' /\ request' \in [Requests -> RequestState]
      BY <2>2, RequestReleases DEF EditFails
    <3>2. faults' \in Nat
      BY <2>0, <2>2 DEF EditFails, Fault
    <3> QED
      BY <2>0, <2>2, <3>1, <3>2, ReleasedLocks DEF EditFails
  <2>3. ASSUME NEW r \in Requests, FinishDelete(r) PROVE TypeOK'
    <3>1. LocksHeld' /\ request' \in [Requests -> RequestState]
      BY <2>3, InitialTypes, DeletesUnlocked DEF FinishDelete
    <3>2. request[r].id \in Ids
      BY <2>0 DEF RequestState
    <3>3. row' \in [Ids -> Row]
      BY <2>0, <2>3, <3>2, RowTypes, PutType DEF FinishDelete
    <3> QED
      BY <2>0, <2>3, <3>1, <3>3 DEF FinishDelete
  <2>4. ASSUME NEW m \in Ids, Schedule(m) PROVE TypeOK'
    <3>1. Types'
      BY <2>4, <2>0, InitialTypes, RowTypes, ReleasedLocks, PutType
      DEF Schedule, RequestState, WorkerState, Holders
    <3>2. LocksHeld'
      BY <2>4, <2>0, InitialTypes, ReleasedLocks
      DEF Schedule, LocksHeld, RequestState, WorkerState, Holders
    <3> QED
      BY <2>0, <3>1, <3>2
  <2>5. ASSUME NEW m \in Ids, BecomesDue(m) PROVE TypeOK'
    <3>1. Types'
      BY <2>5, <2>0, InitialTypes, RowTypes, ReleasedLocks, PutType
      DEF BecomesDue, RequestState, WorkerState, Holders
    <3>2. LocksHeld'
      BY <2>5, <2>0, InitialTypes, ReleasedLocks
      DEF BecomesDue, LocksHeld, RequestState, WorkerState, Holders
    <3> QED
      BY <2>0, <3>1, <3>2
  <2>6. ASSUME NEW m \in Ids, NEW r \in Requests, BeginDelete(r, m) PROVE TypeOK'
    <3> DEFINE x == [NoRequest EXCEPT !.phase = "deleting", !.id = m]
    <3>1. x \in RequestState /\ x.phase = "deleting"
      BY InitialTypes DEF RequestState
    <3>2. LocksHeld' /\ request' \in [Requests -> RequestState]
      BY <2>6, <3>1, DeletesUnlocked DEF BeginDelete
    <3> QED
      BY <2>0, <2>6, <3>2 DEF BeginDelete
  <2>7. ASSUME NEW m \in Ids, NEW r \in Requests, NEW b \in BOOLEAN, BeginEdit(r, m, b) PROVE TypeOK'
    <3>1. Types'
      <4> DEFINE x == [phase |-> "editing", id |-> m, copy |-> row[m], new_time |-> b]
      <4>1. x \in RequestState
        BY <2>0 DEF RequestState
      <4>2. request' \in [Requests -> RequestState]
        BY <2>0, <2>7, <4>1 DEF BeginEdit
      <4>3. locks' \in [Ids -> Holders]
        BY <2>0, <2>7 DEF BeginEdit, EditLocks, Holders
      <4> QED
        BY <2>0, <2>7, <4>2, <4>3 DEF BeginEdit
    <3>2. LocksHeld'
      BY <2>7, <2>0, InitialTypes, ReleasedLocks
      DEF BeginEdit, EditLocks, LocksHeld, RequestState, WorkerState, Holders
    <3> QED
      BY <2>0, <3>1, <3>2
  <2>8. ASSUME NEW m \in Ids, TakeNext(m) PROVE TypeOK'
    <3>1. Types'
      BY <2>8, <2>0, InitialTypes, RowTypes, ReleasedLocks, PutType
      DEF TakeNext, RequestState, WorkerState, Holders
    <3>2. LocksHeld'
      BY <2>8, <2>0, InitialTypes, ReleasedLocks
      DEF TakeNext, LocksHeld, RequestState, WorkerState, Holders
    <3> QED
      BY <2>0, <3>1, <3>2
  <2>9. ASSUME SendMessage PROVE TypeOK'
    <3>1. Types'
      BY <2>9, <2>0, InitialTypes, RowTypes, ReleasedLocks, PutType
      DEF SendMessage, RequestState, WorkerState, Holders
    <3>2. LocksHeld'
      BY <2>9, <2>0, InitialTypes, ReleasedLocks
      DEF SendMessage, LocksHeld, RequestState, WorkerState, Holders
    <3> QED
      BY <2>0, <3>1, <3>2
  <2>10. ASSUME Delivers \/ DeliversAndFails PROVE TypeOK'
    <3>1. worker.id \in Ids /\ worker.copy.version \in Nat
      BY <2>0 DEF WorkerState, Row
    <3>2. row' \in [Ids -> Row]
      BY <2>0, <2>10, <3>1, RowTypes, PutType DEF Delivers, DeliversAndFails, MarkDelivered
    <3>0. CommitSent /\ faults' \in Nat
      BY <2>0, <2>10 DEF Delivers, DeliversAndFails, Fault
    <3>3. LocksHeld' /\ worker' \in WorkerState
      BY <3>0, WorkerReleases DEF CommitSent
    <3>4. sent' \in [Ids -> Seq(Nat)]
      <4>1. sent[worker.id] \in Seq(Nat)
        BY <2>0, <3>1
      <4>2. Append(sent[worker.id], worker.copy.version) \in Seq(Nat)
        BY <3>1, <4>1
      <4> QED
        BY <2>0, <3>0, <3>1, <4>2 DEF CommitSent
    <3> QED
      BY <2>0, <3>0, <3>2, <3>3, <3>4, ReleasedLocks DEF CommitSent
  <2>11. ASSUME AttemptFails, faults' \in Nat PROVE TypeOK'
    <3>1. worker.id \in Ids
      BY <2>0 DEF WorkerState
    <3>2. row' \in [Ids -> Row]
      BY <2>0, <2>11, <3>1, RowTypes, PutType DEF AttemptFails
    <3>3. LocksHeld' /\ worker' \in WorkerState
      BY <2>11, WorkerReleases DEF AttemptFails
    <3> QED
      BY <2>0, <2>11, <3>1, <3>2, <3>3, ReleasedLocks DEF AttemptFails
  <2>12. ASSUME SendRaises \/ Crash PROVE TypeOK'
    <3>1. WorkerEnds /\ faults' \in Nat
      BY <2>0, <2>12 DEF SendRaises, Crash, Fault
    <3>2. LocksHeld' /\ worker' \in WorkerState
      BY <3>1, WorkerReleases DEF WorkerEnds
    <3> QED
      BY <2>0, <3>1, <3>2, ReleasedLocks DEF WorkerEnds
  <2>13. ASSUME Restart PROVE TypeOK'
    <3>1. worker' \in WorkerState /\ worker'.phase = "idle"
      BY <2>13, InitialTypes DEF Restart
    <3>2. LocksHeld'
      BY <2>0, <2>13, <3>1 DEF Restart, LocksHeld
    <3> QED
      BY <2>0, <2>13, <3>1, <3>2 DEF Restart
  <2>14. CASE UNCHANGED vars
    BY <2>0, <2>14 DEF vars, TypeOK, LocksHeld
  <2>15. CASE IsRefused \/ \E m \in Ids : IsTooLate(m)
    BY <2>0, <2>11, <2>15 DEF IsRefused, IsTooLate, Fault
  <2> QED
    BY <2>1, <2>2, <2>3, <2>4, <2>5, <2>6, <2>7, <2>8, <2>9, <2>10, <2>12, <2>13, <2>14, <2>15
    DEF Next, WorkerStep, RequestStep
<1> QED
  BY <1>1, <1>2, PTL DEF Spec

---------------------------------------------------------------------------
\* A row is marked as delivered in the commit that sends it.
DeliveredIsSent == \A m \in Ids : row[m].delivered <=> sent[m] # <<>>

UnusedFresh == \A m \in Ids : row[m].state = "unused" => row[m] = Unused

\* What a delivery or an edit copied is still so: the lock keeps others away.
CopyTrue(m, copy) ==
  /\ row[m].state = "stored" /\ ~row[m].delivered
  /\ copy.version = row[m].version

SendingTrue ==
  worker.phase \in {"sending", "sent"} => CopyTrue(worker.id, worker.copy) /\ ~row[worker.id].failed

EditingTrue ==
  \A r \in Requests : request[r].phase = "editing" =>
    /\ CopyTrue(request[r].id, request[r].copy)
    /\ request[r].copy.state = "stored" /\ ~request[r].copy.delivered

DeletingUsed ==
  \A r \in Requests : request[r].phase = "deleting" => row[request[r].id].state # "unused"

CopyInv == DeliveredIsSent /\ UnusedFresh /\ SendingTrue /\ EditingTrue /\ DeletingUsed

Promised == Promise!Next \/ UNCHANGED <<status, version, sent>>

\* A step that changes one row touches no other edit, deletion or delivery: it
\* has the row's lock, or nobody has, or it leaves alone what they rely on.
LEMMA OthersUntouched ==
  ASSUME TypeOK, CopyInv, NEW m \in Ids, NEW x \in Row, Put(m, x), x.state # "unused"
  PROVE  /\ \A k \in Ids : row'[k] = IF k = m THEN x ELSE row[k]
         /\ \A q \in Requests : request'[q] = request[q] =>
              /\ request[q].phase = "deleting" => row'[request'[q].id].state # "unused"
              /\ request[q].phase = "editing" /\ locks[m] # q =>
                   /\ CopyTrue(request[q].id, request[q].copy)'
                   /\ request'[q].copy.state = "stored" /\ ~request'[q].copy.delivered
         /\ worker' = worker /\ locks[m] # Worker => SendingTrue'
<1>1. \A k \in Ids : row'[k] = IF k = m THEN x ELSE row[k]
  BY DEF Put, TypeOK
<1>2. worker.id \in Ids /\ \A q \in Requests : request[q].id \in Ids
  BY DEF TypeOK, RequestState, WorkerState
<1>3. ASSUME NEW q \in Requests, request'[q] = request[q]
      PROVE  /\ request[q].phase = "deleting" => row'[request'[q].id].state # "unused"
             /\ request[q].phase = "editing" /\ locks[m] # q =>
                  /\ CopyTrue(request[q].id, request[q].copy)'
                  /\ request'[q].copy.state = "stored" /\ ~request'[q].copy.delivered
  <2>1. request[q].phase = "editing" /\ locks[m] # q => request[q].id # m
    BY <1>2 DEF TypeOK, LocksHeld
  <2> QED
    BY <1>1, <1>2, <1>3, <2>1 DEF CopyInv, EditingTrue, DeletingUsed, CopyTrue
<1>4. ASSUME worker' = worker, locks[m] # Worker PROVE SendingTrue'
  <2>1. worker.phase \in {"sending", "sent"} => worker.id # m
    BY <1>2, <1>4 DEF TypeOK, LocksHeld
  <2> QED
    BY <1>1, <1>2, <1>4, <2>1 DEF CopyInv, SendingTrue, CopyTrue
<1> QED
  BY <1>1, <1>3, <1>4

\* The abstract state of the rows that a step leaves alone.
LEMMA AbstractFrame ==
  ASSUME NEW m \in Ids, \A k \in Ids \ {m} : row'[k] = row[k] /\ sent'[k] = sent[k]
  PROVE  /\ status' = [status EXCEPT ![m] = status'[m]]
         /\ version' = [version EXCEPT ![m] = row'[m].version]
BY DEF status, version

LEMMA AbstractStutter ==
  ASSUME \A k \in Ids : /\ sent'[k] = sent[k] /\ row'[k].version = row[k].version
                        /\ row'[k].state = row[k].state /\ row'[k].failed = row[k].failed
  PROVE  status' = status /\ version' = version
BY DEF status, version

\* An edit saves what it read, of a row nobody has touched since.
LEMMA SaveEditImplements ==
  ASSUME TypeOK, CopyInv, NEW r \in Requests, SaveEdit(r)
  PROVE  CopyInv' /\ Promised
<1> DEFINE m == request[r].id
           x == Saved(m, request[r].copy, request[r].new_time)
<1>1. m \in Ids /\ request[r].copy \in Row /\ request[r].new_time \in BOOLEAN
  BY DEF TypeOK, RequestState
<1>2. /\ row[m].state = "stored" /\ ~row[m].delivered /\ locks[m] = r
      /\ x.state = "stored" /\ ~x.delivered /\ ~x.failed /\ x.version = row[m].version + 1
  BY <1>1 DEF SaveEdit, CopyInv, EditingTrue, CopyTrue, TypeOK, LocksHeld, Saved
<1>3. x \in Row
  BY <1>1 DEF Saved, Row
<1>4. /\ Put(m, x) /\ UNCHANGED <<worker, sent>>
      /\ request'[r] = NoRequest /\ \A q \in Requests \ {r} : request'[q] = request[q]
  BY DEF SaveEdit, TypeOK
<1>5. \A k \in Ids : row'[k] = IF k = m THEN x ELSE row[k]
  BY <1>1, <1>2, <1>3, <1>4, OthersUntouched
<1>6. CopyInv'
  <2>1. DeliveredIsSent' /\ UnusedFresh'
    BY <1>2, <1>4, <1>5 DEF CopyInv, DeliveredIsSent, UnusedFresh
  <2>2. SendingTrue'
    BY <1>1, <1>2, <1>3, <1>4, OthersUntouched, HoldersAssumption
  <2>3. EditingTrue' /\ DeletingUsed'
    BY <1>1, <1>2, <1>3, <1>4, OthersUntouched DEF EditingTrue, DeletingUsed, NoRequest
  <2> QED
    BY <2>1, <2>2, <2>3 DEF CopyInv
<1>7. sent[m] = <<>>
  BY <1>1, <1>2 DEF CopyInv, DeliveredIsSent
<1>8. status[m] \in {"pending", "failed"} /\ status'[m] = "pending"
  BY <1>1, <1>2, <1>4, <1>5, <1>7 DEF status
<1>9. status' = [status EXCEPT ![m] = "pending"] /\ version' = [version EXCEPT ![m] = @ + 1]
  <2>1. version[m] = row[m].version
    BY <1>1 DEF version
  <2> QED
    BY <1>1, <1>2, <1>4, <1>5, <1>8, <2>1, AbstractFrame
<1>10. Promise!Edit(m)
  BY <1>4, <1>8, <1>9 DEF Promise!Edit, Promise!Moves
<1> QED
  BY <1>1, <1>6, <1>10 DEF Promised, Promise!Next

\* A deletion finds nobody at the row; a message that was sent stays sent.
LEMMA FinishDeleteImplements ==
  ASSUME TypeOK, CopyInv, NEW r \in Requests, FinishDelete(r)
  PROVE  CopyInv' /\ Promised
<1> DEFINE m == request[r].id
           x == [row[m] EXCEPT !.state = "deleted"]
<1>1. m \in Ids /\ row[m].state # "unused" /\ locks[m] = Nobody
  BY DEF TypeOK, RequestState, FinishDelete, CopyInv, DeletingUsed
<1>2. /\ x \in Row /\ x.state = "deleted" /\ x.version = row[m].version
      /\ x.delivered = row[m].delivered /\ x.failed = row[m].failed
  BY <1>1 DEF TypeOK, Row
<1>3. /\ Put(m, x) /\ UNCHANGED <<worker, sent>>
      /\ request'[r] = NoRequest /\ \A q \in Requests \ {r} : request'[q] = request[q]
  BY DEF FinishDelete, TypeOK
<1>4. \A k \in Ids : row'[k] = IF k = m THEN x ELSE row[k]
  BY <1>1, <1>2, <1>3, OthersUntouched
<1>5. CopyInv'
  <2>1. DeliveredIsSent' /\ UnusedFresh'
    BY <1>2, <1>3, <1>4 DEF CopyInv, DeliveredIsSent, UnusedFresh
  <2>2. SendingTrue'
    BY <1>1, <1>2, <1>3, OthersUntouched, HoldersAssumption
  <2>3. ASSUME NEW q \in Requests
        PROVE  /\ request'[q].phase = "deleting" => row'[request'[q].id].state # "unused"
               /\ request'[q].phase = "editing" =>
                    /\ CopyTrue(request[q].id, request[q].copy)'
                    /\ request'[q].copy.state = "stored" /\ ~request'[q].copy.delivered
    <3>1. CASE q = r
      BY <1>3, <3>1 DEF NoRequest
    <3>2. CASE q # r
      <4>1. request'[q] = request[q] /\ locks[m] # q
        BY <1>1, <1>3, <3>2, HoldersAssumption
      <4>2. /\ request'[q].phase = "deleting" => row'[request'[q].id].state # "unused"
            /\ request[q].phase = "editing" =>
                 /\ CopyTrue(request[q].id, request[q].copy)'
                 /\ request'[q].copy.state = "stored" /\ ~request'[q].copy.delivered
        <5>1. m \in Ids /\ x \in Row /\ Put(m, x) /\ x.state # "unused"
          BY <1>1, <1>2, <1>3
        <5> HIDE DEF m, x
        <5>2. request[q].phase = "deleting" => row'[request'[q].id].state # "unused"
          BY <4>1, <5>1, OthersUntouched
        <5>3. request[q].phase = "editing" =>
                /\ CopyTrue(request[q].id, request[q].copy)'
                /\ request'[q].copy.state = "stored" /\ ~request'[q].copy.delivered
          BY <4>1, <5>1, OthersUntouched
        <5> QED
          BY <4>1, <5>2, <5>3
      <4> QED
        BY <4>1, <4>2
    <3> QED
      BY <3>1, <3>2
  <2>4. EditingTrue' /\ DeletingUsed'
    BY <2>3 DEF EditingTrue, DeletingUsed
  <2> QED
    BY <2>1, <2>2, <2>4 DEF CopyInv
<1>6. CASE sent[m] # <<>> \/ row[m].state = "deleted"
  <2> HIDE DEF m, x
  <2>1. version' = version
    BY <1>2, <1>4 DEF version
  <2>2. \A k \in Ids :
          /\ sent'[k] = sent[k] /\ row'[k].failed = row[k].failed
          /\ sent[k] # <<>> \/ row'[k].state = row[k].state
    BY <1>2, <1>3, <1>4, <1>6
  <2>3. status' = status
    BY <2>2 DEF status
  <2> QED
    BY <1>3, <1>5, <2>1, <2>3 DEF Promised
<1>7. CASE sent[m] = <<>> /\ row[m].state # "deleted"
  <2>1. status[m] \in {"pending", "failed"} /\ status'[m] = "cancelled"
    BY <1>1, <1>2, <1>3, <1>4, <1>7 DEF status
  <2>2. status' = [status EXCEPT ![m] = "cancelled"]
    BY <1>1, <1>3, <1>4, <2>1, AbstractFrame
  <2>3. version' = version
    BY <1>2, <1>4 DEF version
  <2>4. Promise!Cancel(m)
    BY <1>3, <2>1, <2>2, <2>3 DEF Promise!Cancel, Promise!Moves
  <2> QED
    BY <1>1, <1>5, <2>4 DEF Promised, Promise!Next
<1> QED
  BY <1>6, <1>7

LEMMA ScheduleImplements ==
  ASSUME TypeOK, CopyInv, NEW m \in Ids, Schedule(m)
  PROVE  CopyInv' /\ Promised
<1> DEFINE x == [Unused EXCEPT !.state = "stored"]
<1>1. /\ x \in Row /\ x.state = "stored" /\ x.version = 0 /\ ~x.delivered /\ ~x.failed
      /\ row[m] = Unused /\ Unused.state = "unused" /\ Unused.version = 0 /\ ~Unused.delivered
  BY DEF Row, Unused, Schedule, CopyInv, UnusedFresh
<1>2. Put(m, x) /\ UNCHANGED <<locks, worker, request, sent>>
  BY DEF Schedule
<1>3. \A k \in Ids : row'[k] = IF k = m THEN x ELSE row[k]
  BY <1>1, <1>2, OthersUntouched
<1>4. /\ worker.phase \in {"sending", "sent"} => worker.id # m
      /\ \A q \in Requests : request[q].phase = "editing" => request[q].id # m
  BY <1>1 DEF CopyInv, SendingTrue, EditingTrue, CopyTrue
<1>5. locks[m] # Worker /\ \A q \in Requests : locks[m] # q
  BY <1>4 DEF TypeOK, LocksHeld
<1>6. CopyInv'
  <2>1. DeliveredIsSent' /\ UnusedFresh'
    BY <1>1, <1>2, <1>3 DEF CopyInv, DeliveredIsSent, UnusedFresh
  <2>2. SendingTrue'
    BY <1>1, <1>2, <1>5, OthersUntouched
  <2>3. EditingTrue' /\ DeletingUsed'
    BY <1>1, <1>2, <1>5, OthersUntouched DEF EditingTrue, DeletingUsed
  <2> QED
    BY <2>1, <2>2, <2>3 DEF CopyInv
<1>7. sent[m] = <<>>
  BY <1>1 DEF CopyInv, DeliveredIsSent
<1>8. status[m] = "unused" /\ status'[m] = "pending"
  BY <1>1, <1>2, <1>3, <1>7 DEF status
<1>9. status' = [status EXCEPT ![m] = "pending"]
  BY <1>2, <1>3, <1>8, AbstractFrame
<1>10. version' = version
  BY <1>1, <1>3 DEF version
<1>11. Promise!Schedule(m)
  BY <1>2, <1>8, <1>9, <1>10 DEF Promise!Schedule, Promise!Moves
<1> QED
  BY <1>6, <1>11 DEF Promised, Promise!Next

\* Time passes also for a row that is locked.
LEMMA BecomesDueImplements ==
  ASSUME TypeOK, CopyInv, NEW m \in Ids, BecomesDue(m)
  PROVE  CopyInv' /\ Promised
<1> DEFINE x == [row[m] EXCEPT !.due = TRUE]
<1>1. /\ x \in Row /\ x.state = row[m].state /\ x.version = row[m].version
      /\ x.delivered = row[m].delivered /\ x.failed = row[m].failed
      /\ row[m].state = "stored"
  BY DEF TypeOK, Row, BecomesDue, Stored
<1>2. Put(m, x) /\ UNCHANGED <<locks, worker, request, sent>>
  BY DEF BecomesDue
<1>3. \A k \in Ids : row'[k] = IF k = m THEN x ELSE row[k]
  BY <1>1, <1>2, OthersUntouched
<1>4. \A k \in Ids : /\ row'[k].state = row[k].state /\ row'[k].version = row[k].version
                     /\ row'[k].delivered = row[k].delivered /\ row'[k].failed = row[k].failed
  BY <1>1, <1>3
<1>5. worker.id \in Ids /\ \A q \in Requests : request[q].id \in Ids
  BY DEF TypeOK, WorkerState, RequestState
<1>6. CopyInv'
  <2>1. DeliveredIsSent' /\ UnusedFresh'
    BY <1>1, <1>2, <1>3, <1>4 DEF CopyInv, DeliveredIsSent, UnusedFresh
  <2>2. SendingTrue'
    BY <1>2, <1>4, <1>5 DEF CopyInv, SendingTrue, CopyTrue
  <2>3. EditingTrue' /\ DeletingUsed'
    BY <1>2, <1>4, <1>5 DEF CopyInv, EditingTrue, DeletingUsed, CopyTrue
  <2> QED
    BY <2>1, <2>2, <2>3 DEF CopyInv
<1> QED
  BY <1>2, <1>4, <1>6, AbstractStutter DEF Promised

\* The message is sent as the row is, and the row was not sent before, whether it
\* is marked as failed as well or not.
LEMMA CommitSentImplements ==
  ASSUME TypeOK, CopyInv, CommitSent, NEW failed \in BOOLEAN,
         Put(worker.id, [row[worker.id] EXCEPT !.delivered = TRUE, !.failed = failed])
  PROVE  CopyInv' /\ Promised
<1> DEFINE m == worker.id
           x == [row[m] EXCEPT !.delivered = TRUE, !.failed = failed]
<1>1. m \in Ids /\ worker.copy \in Row
  BY DEF TypeOK, WorkerState
<1>2. /\ row[m].state = "stored" /\ ~row[m].delivered /\ ~row[m].failed /\ locks[m] = Worker
      /\ worker.copy.version = row[m].version
  BY <1>1 DEF CommitSent, CopyInv, SendingTrue, CopyTrue, TypeOK, LocksHeld
<1>3. x \in Row /\ x.state = "stored" /\ x.version = row[m].version /\ x.delivered
  BY <1>1, <1>2 DEF TypeOK, Row
<1>4. /\ Put(m, x) /\ UNCHANGED request /\ worker' = At("idle")
      /\ sent' = [sent EXCEPT ![m] = Append(@, worker.copy.version)]
  BY DEF CommitSent
<1>5. \A k \in Ids : row'[k] = IF k = m THEN x ELSE row[k]
  BY <1>1, <1>3, <1>4, OthersUntouched
<1>6. /\ sent'[m] # <<>> /\ \A k \in Ids \ {m} : sent'[k] = sent[k]
      /\ sent[m] = <<>> /\ sent'[m] = Append(sent[m], row[m].version)
  <2>1. sent[m] \in Seq(Nat) /\ worker.copy.version \in Nat
    BY <1>1 DEF TypeOK, Row
  <2>2. sent'[m] = Append(sent[m], worker.copy.version) /\ \A k \in Ids \ {m} : sent'[k] = sent[k]
    BY <1>1, <1>4 DEF TypeOK
  <2>3. Append(sent[m], worker.copy.version) # <<>>
    BY <2>1, AppendProperties
  <2> QED
    BY <1>1, <1>2, <2>2, <2>3 DEF CopyInv, DeliveredIsSent
<1>7. CopyInv'
  <2>1. DeliveredIsSent' /\ UnusedFresh'
    BY <1>3, <1>4, <1>5, <1>6 DEF CopyInv, DeliveredIsSent, UnusedFresh
  <2>2. SendingTrue'
    BY <1>4, InitialTypes DEF SendingTrue
  <2>3. EditingTrue' /\ DeletingUsed'
    BY <1>1, <1>2, <1>3, <1>4, OthersUntouched, HoldersAssumption DEF EditingTrue, DeletingUsed
  <2> QED
    BY <2>1, <2>2, <2>3 DEF CopyInv
<1>8. status[m] = "pending" /\ status'[m] = "sent"
  BY <1>1, <1>2, <1>6 DEF status
<1>9. status' = [status EXCEPT ![m] = "sent"]
  BY <1>1, <1>5, <1>6, <1>8, AbstractFrame
<1>10. version' = version /\ version[m] = row[m].version
  BY <1>1, <1>3, <1>5 DEF version
<1>11. sent' = [sent EXCEPT ![m] = Append(@, version[m])]
  BY <1>2, <1>4, <1>10
<1>12. Promise!Send(m)
  BY <1>8, <1>9, <1>10, <1>11 DEF Promise!Send, Promise!Moves
<1> QED
  BY <1>1, <1>7, <1>12 DEF Promised, Promise!Next

LEMMA DeliversImplements ==
  ASSUME TypeOK, CopyInv, Delivers
  PROVE  CopyInv' /\ Promised
<1>1. worker.phase = "sent" /\ worker.id \in Ids
  BY DEF Delivers, CommitSent, TypeOK, WorkerState
<1>2. row[worker.id] \in Row /\ row[worker.id].failed = FALSE
  BY <1>1 DEF CopyInv, SendingTrue, TypeOK, Row
<1>3. [row[worker.id] EXCEPT !.delivered = TRUE]
        = [row[worker.id] EXCEPT !.delivered = TRUE, !.failed = FALSE]
  BY <1>2 DEF Row
<1> QED
  BY <1>3, CommitSentImplements DEF Delivers, MarkDelivered

LEMMA AttemptFailsImplements ==
  ASSUME TypeOK, CopyInv, AttemptFails
  PROVE  CopyInv' /\ Promised
<1> DEFINE m == worker.id
           x == [row[m] EXCEPT !.failed = TRUE]
<1>1. m \in Ids
  BY DEF TypeOK, WorkerState
<1>2. row[m].state = "stored" /\ ~row[m].delivered /\ ~row[m].failed /\ locks[m] = Worker
  BY <1>1 DEF AttemptFails, CopyInv, SendingTrue, CopyTrue, TypeOK, LocksHeld
<1>3. /\ x \in Row /\ x.state = "stored" /\ x.version = row[m].version /\ x.failed
      /\ x.delivered = row[m].delivered
  BY <1>1, <1>2 DEF TypeOK, Row
<1>4. Put(m, x) /\ UNCHANGED <<request, sent>> /\ worker' = At("idle")
  BY DEF AttemptFails
<1>5. \A k \in Ids : row'[k] = IF k = m THEN x ELSE row[k]
  BY <1>1, <1>3, <1>4, OthersUntouched
<1>6. CopyInv'
  <2>1. DeliveredIsSent' /\ UnusedFresh'
    BY <1>3, <1>4, <1>5 DEF CopyInv, DeliveredIsSent, UnusedFresh
  <2>2. SendingTrue'
    BY <1>4, InitialTypes DEF SendingTrue
  <2>3. EditingTrue' /\ DeletingUsed'
    BY <1>1, <1>2, <1>3, <1>4, OthersUntouched, HoldersAssumption DEF EditingTrue, DeletingUsed
  <2> QED
    BY <2>1, <2>2, <2>3 DEF CopyInv
<1>7. sent[m] = <<>>
  BY <1>1, <1>2 DEF CopyInv, DeliveredIsSent
<1>8. status[m] = "pending" /\ status'[m] = "failed"
  BY <1>1, <1>2, <1>3, <1>4, <1>5, <1>7 DEF status
<1>9. status' = [status EXCEPT ![m] = "failed"]
  BY <1>1, <1>4, <1>5, <1>8, AbstractFrame
<1>10. version' = version
  BY <1>3, <1>5 DEF version
<1>11. Promise!Fail(m)
  BY <1>4, <1>8, <1>9, <1>10 DEF Promise!Fail, Promise!Moves
<1> QED
  BY <1>1, <1>6, <1>11 DEF Promised, Promise!Next

\* The other steps leave the table and what was sent alone.
LEMMA OthersImplement ==
  ASSUME TypeOK, CopyInv, UNCHANGED <<row, sent>>,
         UNCHANGED worker \/ worker'.phase \notin {"sending", "sent"}
           \/ SendMessage \/ \E m \in Ids : TakeNext(m),
         UNCHANGED request \/ \E r \in Requests : EditFails(r)
           \/ \E m \in Ids : BeginDelete(r, m) \/ \E b \in BOOLEAN : BeginEdit(r, m, b)
  PROVE  CopyInv' /\ Promised
<1>1. SendingTrue'
  <2>1. CASE UNCHANGED worker \/ worker'.phase \notin {"sending", "sent"}
    BY <2>1 DEF CopyInv, SendingTrue, CopyTrue
  <2>2. CASE SendMessage
    BY <2>2 DEF SendMessage, CopyInv, SendingTrue, CopyTrue, TypeOK, WorkerState
  <2>3. ASSUME NEW m \in Ids, TakeNext(m) PROVE SendingTrue'
    BY <2>3 DEF TakeNext, FirstDeliverable, Deliverable, Stored, SendingTrue, CopyTrue
  <2> QED
    BY <2>1, <2>2, <2>3
<1>2. EditingTrue' /\ DeletingUsed'
  <2>1. CASE UNCHANGED request
    BY <2>1 DEF CopyInv, EditingTrue, DeletingUsed, CopyTrue
  <2>2. ASSUME NEW r \in Requests, EditFails(r) PROVE EditingTrue' /\ DeletingUsed'
    <3>1. request'[r].phase = "idle" /\ \A q \in Requests \ {r} : request'[q] = request[q]
      BY <2>2, InitialTypes DEF EditFails, TypeOK
    <3> QED
      BY <3>1 DEF CopyInv, EditingTrue, DeletingUsed, CopyTrue
  <2>3. ASSUME NEW r \in Requests, NEW m \in Ids, BeginDelete(r, m)
        PROVE  EditingTrue' /\ DeletingUsed'
    <3>1. /\ request'[r].phase = "deleting" /\ request'[r].id = m /\ row[m].state = "stored"
          /\ \A q \in Requests \ {r} : request'[q] = request[q]
      BY <2>3 DEF BeginDelete, TypeOK, NoRequest, Stored
    <3> QED
      BY <3>1 DEF CopyInv, EditingTrue, DeletingUsed, CopyTrue
  <2>4. ASSUME NEW r \in Requests, NEW m \in Ids, NEW b \in BOOLEAN, BeginEdit(r, m, b)
        PROVE  EditingTrue' /\ DeletingUsed'
    <3>1. /\ request'[r].phase = "editing" /\ request'[r].id = m /\ request'[r].copy = row[m]
          /\ row[m].state = "stored" /\ ~row[m].delivered
          /\ \A q \in Requests \ {r} : request'[q] = request[q]
      BY <2>4 DEF BeginEdit, TypeOK, Stored
    <3> QED
      BY <3>1 DEF CopyInv, EditingTrue, DeletingUsed, CopyTrue
  <2> QED
    BY <2>1, <2>2, <2>3, <2>4
<1> QED
  BY <1>1, <1>2, AbstractStutter DEF CopyInv, DeliveredIsSent, UnusedFresh, Promised

\* Whatever edits, deletions, crashes and failures come between the steps of a
\* delivery, a message is sent at most once, in the version of the last edit
\* that was accepted, and none is accepted afterwards.
THEOREM SendsOnce == Spec => ImplementsScheduledOnce
<1>1. Init => CopyInv /\ Promise!Init
  <2> SUFFICES ASSUME Init PROVE CopyInv /\ Promise!Init
    OBVIOUS
  <2>1. \A m \in Ids : row[m] = Unused /\ sent[m] = <<>> /\ Unused.state = "unused"
                       /\ Unused.version = 0 /\ ~Unused.delivered
    BY DEF Init, Unused
  <2>2. CopyInv
    BY <2>1, InitialTypes
    DEF Init, CopyInv, DeliveredIsSent, UnusedFresh, SendingTrue, EditingTrue, DeletingUsed
  <2>3. Promise!Init
    BY <2>1 DEF Init, Promise!Init, status, version
  <2> QED
    BY <2>2, <2>3
<1>2. TypeOK /\ CopyInv /\ [Next]_vars => CopyInv' /\ [Promise!Next]_<<status, version, sent>>
  <2> SUFFICES ASSUME TypeOK, CopyInv, [Next]_vars PROVE CopyInv' /\ Promised
    BY DEF Promised
  <2>1. ASSUME NEW r \in Requests, SaveEdit(r) \/ FinishDelete(r) PROVE CopyInv' /\ Promised
    BY <2>1, SaveEditImplements, FinishDeleteImplements
  <2>2. ASSUME NEW m \in Ids, Schedule(m) \/ BecomesDue(m) PROVE CopyInv' /\ Promised
    BY <2>2, ScheduleImplements, BecomesDueImplements
  <2>3. CASE Delivers \/ DeliversAndFails \/ IsRefused \/ \E m \in Ids : IsTooLate(m)
    BY <2>3, DeliversImplements, CommitSentImplements, AttemptFailsImplements
    DEF DeliversAndFails, IsRefused, IsTooLate
  <2>4. CASE SendMessage \/ \E m \in Ids : TakeNext(m)
    BY <2>4, OthersImplement DEF SendMessage, TakeNext
  <2>5. CASE SendRaises \/ Crash \/ Restart
    BY <2>5, OthersImplement, InitialTypes DEF SendRaises, Crash, Restart, WorkerEnds
  <2>6. ASSUME NEW r \in Requests, EditFails(r) PROVE CopyInv' /\ Promised
    BY <2>6, OthersImplement DEF EditFails
  <2>7. ASSUME NEW r \in Requests, NEW m \in Ids,
               BeginDelete(r, m) \/ \E b \in BOOLEAN : BeginEdit(r, m, b)
        PROVE  CopyInv' /\ Promised
    BY <2>7, OthersImplement DEF BeginDelete, BeginEdit
  <2>8. CASE UNCHANGED vars
    BY <2>8, OthersImplement DEF vars
  <2> QED
    BY <2>1, <2>2, <2>3, <2>4, <2>5, <2>6, <2>7, <2>8 DEF Next, WorkerStep, RequestStep
<1> QED
  BY <1>1, <1>2, TypeCorrect, PTL DEF Spec, ImplementsScheduledOnce, Promise!Spec
=============================================================================
