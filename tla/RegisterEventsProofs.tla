------------------------ MODULE RegisterEventsProofs ------------------------
(***************************************************************************)
(* What a client that registers ends up with, for any tables, any number   *)
(* of writers and of changes.                                              *)
(***************************************************************************)
EXTENDS RegisterEvents, SequenceTheorems, TLAPS

\* Changes of a table in a sequence of them, and the last one's number.
Has(changes, t) == \E i \in 1 .. Len(changes) : changes[i].table = t

LastIs(changes, t, n) ==
  \A i \in 1 .. Len(changes) :
    /\ changes[i].table = t
    /\ \A j \in i + 1 .. Len(changes) : changes[j].table # t
    => changes[i].number = n

\* The last change of a table that was published is the last on its way.
LastPublished ==
  \A t \in Tables :
    /\ LastIs(channel, t, published[t])
    /\ ~Has(channel, t) => LastIs(queue, t, published[t])
    /\ ~Has(channel, t) /\ ~Has(queue, t) => LastIs(batch, t, published[t])

\* A change that was committed is older than the table, or made it what it is;
\* nothing but a removal follows one, unless an edit brings the row back.
Committed(c) ==
  /\ c.op # "none" /\ (c.op \in {"set", "partial"} <=> c.table \notin Listed)
  /\ c.table \in Early => c.op = "set"
  /\ c.number <= db[c.table].number
  /\ c.number = db[c.table].number => c = db[c.table]
  /\ c.op = "remove" /\ c.table \notin reborn => db[c.table].op = "remove"

AllCommitted ==
  /\ \A i \in 1 .. Len(channel) : Committed(channel[i])
  /\ \A i \in 1 .. Len(queue) : Committed(queue[i])
  /\ \A i \in 1 .. Len(batch) : Committed(batch[i])
  /\ \A w \in Writers : writer[w] # <<>> => Committed(writer[w])

\* Nothing is known of a table that it has not been.
Numbers ==
  \A t \in Tables :
    /\ db[t].table = t
    /\ (db[t].op = "none" /\ db[t].number = 0) \/ Committed(db[t])
    /\ published[t] <= db[t].number
    /\ \A i \in 1 .. Len(state[t]) : state[t][i] <= db[t].number

\* Where the registration is.
Progress ==
  /\ phase \in {"start", "requested"} => queue = <<>>
  /\ phase # "applying" => batch = <<>>
  /\ phase = "requested" =>
       unread = Tables \ Early /\ \A t \in Early : Len(state[t]) <= 1

Fetched(t) == phase # "start" /\ t \notin unread

AddIn(changes, t) == \E i \in 1 .. Len(changes) : changes[i].table = t /\ changes[i].op = "add"

AddUnderWay(t) ==
  \/ AddIn(channel, t) \/ AddIn(queue, t) \/ AddIn(batch, t)
  \/ \E w \in Writers : writer[w] # <<>> /\ writer[w].table = t /\ writer[w].op = "add"

\* A row that an update will look for has been fetched, or will be added first.
RowFound ==
  \A t \in Listed \ reborn :
    Fetched(t) /\ phase # "done" /\ db[t].op \in {"add", "update"} =>
      state[t] # <<>> \/ AddUnderWay(t)

Pending(t) ==
  \/ Has(channel, t) \/ Has(queue, t) \/ Has(batch, t)
  \/ \E w \in Writers : writer[w] # <<>> /\ writer[w].table = t

\* With nothing on its way, a table is what it was last published to be.
Raced == missed \cup repeated \cup (ignored \cap reborn)

CurrentUnlessPending ==
  \A t \in Tables \ Raced :
    Fetched(t) /\ published[t] = db[t].number /\ db[t].op # "partial" /\ ~Pending(t) =>
      Shown(t) = Entries(t)

\* What was read of a list was there.
ReadRows == \A w \in Writers, t \in Listed : HasRead(w, t) => db[t].op # "none"

RegistrationInv ==
  /\ TypeOK /\ LastPublished /\ AllCommitted /\ Numbers /\ Progress
  /\ RowFound /\ CurrentUnlessPending
---------------------------------------------------------------------------
LEMMA ChangesAreNoTuple ==
  ASSUME NEW c \in Change
  PROVE  c # <<>>
<1>1. "table" \in DOMAIN c
  BY DEF Change
<1>2. DOMAIN <<>> = {}
  OBVIOUS
<1> QED
  BY <1>1, <1>2

LEMMA NothingInEmpty ==
  ASSUME NEW t, NEW n
  PROVE  ~Has(<<>>, t) /\ LastIs(<<>>, t, n) /\ ~AddIn(<<>>, t)
  BY EmptySeq DEF Has, LastIs, AddIn

LEMMA AfterAppend ==
  ASSUME NEW s \in Seq(Change), NEW c \in Change, NEW t
  PROVE  /\ Append(s, c) \in Seq(Change)
         /\ Has(Append(s, c), t) <=> Has(s, t) \/ c.table = t
         /\ AddIn(Append(s, c), t) <=> AddIn(s, t) \/ (c.table = t /\ c.op = "add")
         /\ c.table = t => LastIs(Append(s, c), t, c.number)
         /\ \A n : c.table # t /\ LastIs(s, t, n) => LastIs(Append(s, c), t, n)
         /\ (\A i \in 1 .. Len(s) : Committed(s[i])) /\ Committed(c) =>
              \A i \in 1 .. Len(Append(s, c)) : Committed(Append(s, c)[i])
<1> DEFINE u == Append(s, c)
           k == Len(s)
<1>1. /\ u \in Seq(Change) /\ Len(u) = k + 1 /\ k \in Nat /\ u[k + 1] = c
      /\ \A i \in 1 .. k : u[i] = s[i]
  BY AppendProperties, LenProperties
<1>2. 1 .. Len(u) = 1 .. k \cup {k + 1}
  BY <1>1
<1> HIDE DEF u, k
<1>3. Has(u, t) <=> Has(s, t) \/ c.table = t
  BY <1>1, <1>2 DEF Has, k
<1>4. AddIn(u, t) <=> AddIn(s, t) \/ (c.table = t /\ c.op = "add")
  BY <1>1, <1>2 DEF AddIn, k
<1>5. c.table = t => LastIs(u, t, c.number)
  <2> SUFFICES ASSUME c.table = t, NEW i \in 1 .. Len(u),
                      \A j \in i + 1 .. Len(u) : u[j].table # t
               PROVE  u[i].number = c.number
    BY DEF LastIs
  <2>1. ~(i < k + 1)
    BY <1>1
  <2> QED
    BY <1>1, <2>1
<1>6. ASSUME NEW n, c.table # t, LastIs(s, t, n) PROVE LastIs(u, t, n)
  <2> SUFFICES ASSUME NEW i \in 1 .. Len(u), u[i].table = t,
                      \A j \in i + 1 .. Len(u) : u[j].table # t
               PROVE  u[i].number = n
    BY DEF LastIs
  <2>1. i \in 1 .. k /\ s[i].table = t
    BY <1>1, <1>2, <1>6
  <2>2. \A j \in i + 1 .. k : s[j].table # t
    BY <1>1, <2>1
  <2> QED
    BY <1>1, <1>6, <2>1, <2>2 DEF LastIs, k
<1>7. (\A i \in 1 .. Len(s) : Committed(s[i])) /\ Committed(c) =>
        \A i \in 1 .. Len(u) : Committed(u[i])
  BY <1>1, <1>2 DEF k
<1> QED
  BY <1>1, <1>3, <1>4, <1>5, <1>6, <1>7 DEF u

LEMMA AfterTail ==
  ASSUME NEW s \in Seq(Change), s # <<>>, NEW t
  PROVE  /\ Head(s) \in Change /\ Tail(s) \in Seq(Change)
         /\ Has(s, t) <=> Has(Tail(s), t) \/ Head(s).table = t
         /\ AddIn(s, t) <=> AddIn(Tail(s), t) \/ (Head(s).table = t /\ Head(s).op = "add")
         /\ \A n : LastIs(s, t, n) =>
              /\ LastIs(Tail(s), t, n)
              /\ Head(s).table = t /\ ~Has(Tail(s), t) => Head(s).number = n
         /\ (\A i \in 1 .. Len(s) : Committed(s[i])) =>
              Committed(Head(s)) /\ \A i \in 1 .. Len(Tail(s)) : Committed(Tail(s)[i])
<1> DEFINE u == Tail(s)
           k == Len(u)
<1>1. /\ u \in Seq(Change) /\ Head(s) \in Change /\ Head(s) = s[1]
      /\ Len(s) = k + 1 /\ k \in Nat
      /\ \A i \in 1 .. k : u[i] = s[i + 1]
  BY HeadTailProperties, LenProperties
<1> HIDE DEF u
<1>2. \A i \in 1 .. Len(s) : i = 1 \/ (i - 1 \in 1 .. k /\ s[i] = u[i - 1])
  BY <1>1
<1>3. Has(s, t) <=> Has(u, t) \/ Head(s).table = t
  <2>1. Has(s, t) => Has(u, t) \/ Head(s).table = t
    BY <1>1, <1>2 DEF Has
  <2>2. Has(u, t) \/ Head(s).table = t => Has(s, t)
    BY <1>1 DEF Has
  <2> QED
    BY <2>1, <2>2
<1>4. AddIn(s, t) <=> AddIn(u, t) \/ (Head(s).table = t /\ Head(s).op = "add")
  <2>1. ASSUME AddIn(s, t) PROVE AddIn(u, t) \/ (Head(s).table = t /\ Head(s).op = "add")
    <3>1. PICK i \in 1 .. Len(s) : s[i].table = t /\ s[i].op = "add"
      BY <2>1 DEF AddIn
    <3>2. CASE i = 1
      BY <1>1, <3>1, <3>2
    <3>3. CASE i # 1
      BY <1>2, <3>1, <3>3 DEF AddIn
    <3> QED
      BY <3>2, <3>3
  <2>2. AddIn(u, t) => AddIn(s, t)
    <3>1. \A i \in 1 .. k : i + 1 \in 1 .. Len(s)
      BY <1>1
    <3> QED
      BY <1>1, <3>1 DEF AddIn
  <2>3. Head(s).table = t /\ Head(s).op = "add" => AddIn(s, t)
    <3>1. 1 \in 1 .. Len(s)
      BY <1>1
    <3> QED
      BY <1>1, <3>1 DEF AddIn
  <2> QED
    BY <2>1, <2>2, <2>3
<1>5. ASSUME NEW n, LastIs(s, t, n)
      PROVE  /\ LastIs(u, t, n)
             /\ Head(s).table = t /\ ~Has(u, t) => Head(s).number = n
  <2>1. ASSUME NEW i \in 1 .. k, u[i].table = t, \A j \in i + 1 .. k : u[j].table # t
        PROVE  u[i].number = n
    <3>1. i + 1 \in 1 .. Len(s) /\ s[i + 1].table = t
      BY <1>1, <2>1
    <3>2. \A j \in (i + 1) + 1 .. Len(s) : s[j].table # t
      BY <1>1, <1>2, <2>1
    <3> QED
      BY <1>1, <1>5, <3>1, <3>2 DEF LastIs
  <2>2. ASSUME Head(s).table = t, ~Has(u, t) PROVE Head(s).number = n
    <3>1. \A j \in 1 + 1 .. Len(s) : s[j].table # t
      BY <1>1, <1>2, <2>2 DEF Has
    <3> QED
      BY <1>1, <1>5, <2>2, <3>1 DEF LastIs
  <2> QED
    BY <2>1, <2>2 DEF LastIs
<1>6. (\A i \in 1 .. Len(s) : Committed(s[i])) =>
        Committed(Head(s)) /\ \A i \in 1 .. Len(u) : Committed(u[i])
  BY <1>1
<1> QED
  BY <1>1, <1>3, <1>4, <1>5, <1>6 DEF u
---------------------------------------------------------------------------
LEMMA EntriesType ==
  ASSUME TypeOK, NEW t \in Tables
  PROVE  /\ Entries(t) \in Seq(Nat)
         /\ Entries(t) = <<>> \/ Entries(t) = <<db[t].number>>
         /\ db[t].number \in Nat
<1>1. db[t].number \in Nat
  BY DEF TypeOK, Change
<1> QED
  BY <1>1, EmptySeq DEF Entries

LEMMA AppliedType ==
  ASSUME NEW entries \in Seq(Nat), NEW e \in Change
  PROVE  Applied(entries, e) \in Seq(Nat)
<1>1. e.number \in Nat
  BY DEF Change
<1>2. Append(entries, e.number) \in Seq(Nat) /\ <<e.number>> \in Seq(Nat) /\ <<0>> \in Seq(Nat)
  BY <1>1, AppendProperties
<1>3. CASE entries = <<>>
  <2>1. Applied(entries, e) \in {<<e.number>>, <<0>>, Append(entries, e.number), <<>>}
    BY <1>3 DEF Applied
  <2> QED
    BY <1>2, <2>1, EmptySeq
<1>4. CASE entries # <<>>
  <2>1. Tail(entries) \in Seq(Nat)
    BY <1>4, HeadTailProperties
  <2>2. [entries EXCEPT ![1] = e.number] \in Seq(Nat)
    <3>1. 1 \in 1 .. Len(entries)
      BY <1>4, EmptySeq, LenProperties
    <3> QED
      BY <1>1, <3>1, ExceptSeq
  <2>3. Applied(entries, e) \in {<<e.number>>, <<0>>, Append(entries, e.number),
                                [entries EXCEPT ![1] = e.number], Tail(entries)}
    BY <1>4 DEF Applied
  <2> QED
    BY <1>2, <2>1, <2>2, <2>3
<1> QED
  BY <1>3, <1>4

LEMMA CommitType ==
  ASSUME TypeOK, NEW w \in Writers, NEW t \in Tables, Commit(w, t)
  PROVE  \E change \in Change :
           /\ change.table = t /\ change.op \in Ops(w, t) /\ change.number = db[t].number + 1
           /\ db' = [db EXCEPT ![t] = change] /\ writer' = [writer EXCEPT ![w] = change]
           /\ reborn' = reborn \cup {u \in {t} : change.op = "update" /\ db[t].op = "remove"}
<1>1. PICK op \in Ops(w, t) :
        LET change == [table |-> t, op |-> op, number |-> db[t].number + 1]
        IN  /\ db' = [db EXCEPT ![t] = change] /\ writer' = [writer EXCEPT ![w] = change]
            /\ reborn' = reborn \cup {u \in {t} : op = "update" /\ db[t].op = "remove"}
  BY DEF Commit
<1> DEFINE change == [table |-> t, op |-> op, number |-> db[t].number + 1]
<1>2. op \in {"none", "set", "partial", "add", "update", "remove"}
  BY DEF Ops
<1>3. change \in Change
  BY <1>2, EntriesType DEF Change
<1> WITNESS change \in Change
<1> QED
  BY <1>1

\* An update is of a row of a list, and no other row is brought back.
LEMMA RebornListed ==
  ASSUME TypeOK, NEW w \in Writers, NEW t \in Tables, Commit(w, t)
  PROVE  reborn' \subseteq Listed
<1>1. PICK change \in Change :
        /\ change.op \in Ops(w, t)
        /\ reborn' = reborn \cup {u \in {t} : change.op = "update" /\ db[t].op = "remove"}
  BY CommitType
<1>2. change.op = "update" => t \in Listed
  BY <1>1 DEF Ops
<1> QED
  BY <1>1, <1>2 DEF TypeOK

\* Every variable keeps its type, and nothing is left to fetch when the events
\* are applied.
THEOREM TypeCorrect == Spec => []TypeOK
<1>1. Init => TypeOK
  BY EmptySeq DEF Init, TypeOK, Change, Phases
<1>2. TypeOK /\ [Next]_vars => TypeOK'
  <2> SUFFICES ASSUME TypeOK, [Next]_vars PROVE TypeOK'
    OBVIOUS
  <2> USE EmptySeq DEF TypeOK, Phases, registration, database
  <2>1. ASSUME NEW w \in Writers, NEW t \in Tables, Commit(w, t) PROVE TypeOK'
    <3>1. PICK change \in Change :
            db' = [db EXCEPT ![t] = change] /\ writer' = [writer EXCEPT ![w] = change]
      BY <2>1, CommitType
    <3>2. db' \in [Tables -> Change] /\ writer' \in [Writers -> Change \cup {<<>>}]
      BY <3>1
    <3>3. UNCHANGED <<channel, published, queue, phase, unread, state, batch, missed, repeated, ignored>>
      BY <2>1 DEF Commit
    <3>4. read' \in [Writers -> Read \cup {<<>>}]
      BY <2>1 DEF Commit
    <3>5. reborn' \subseteq Listed
      BY <2>1, RebornListed
    <3> QED
      BY <3>2, <3>3, <3>4, <3>5
  <2>2. ASSUME NEW w \in Writers, Publish(w) PROVE TypeOK'
    <3>1. writer[w] \in Change /\ writer[w].table \in Tables /\ writer[w].number \in Nat
      BY <2>2 DEF Publish, Change
    <3>2. Append(channel, writer[w]) \in Seq(Change)
      BY <3>1, AppendProperties
    <3>3. /\ writer' = [writer EXCEPT ![w] = <<>>]
          /\ published' = [published EXCEPT ![writer[w].table] = writer[w].number]
          /\ channel' = Append(channel, writer[w])
          /\ UNCHANGED <<db, read, reborn, phase, unread, state, queue, batch, missed, repeated, ignored>>
      BY <2>2 DEF Publish
    <3>4. writer' \in [Writers -> Change \cup {<<>>}]
      BY <3>3
    <3>5. published' \in [Tables -> Nat]
      BY <3>1, <3>3
    <3> QED
      BY <3>2, <3>3, <3>4, <3>5
  <2>3. CASE Deliver
    <3>1. Head(channel) \in Change /\ Tail(channel) \in Seq(Change)
      BY <2>3, HeadTailProperties DEF Deliver
    <3>2. Append(queue, Head(channel)) \in Seq(Change)
      BY <3>1, AppendProperties
    <3> QED
      BY <2>3, <3>1, <3>2 DEF Deliver
  <2>4. CASE Authenticate
    BY <2>4, EntriesType, TablesAssumption DEF Authenticate
  <2>5. CASE AllocateQueue
    BY <2>5 DEF AllocateQueue
  <2>6. ASSUME NEW t \in Tables, Fetch(t) PROVE TypeOK'
    BY <2>6, EntriesType DEF Fetch, Fetches
  <2>7. CASE GetEvents
    BY <2>7 DEF GetEvents, Asks
  <2>8. CASE ApplyNext
    <3>1. Head(batch) \in Change /\ Tail(batch) \in Seq(Change)
      BY <2>8, HeadTailProperties DEF ApplyNext
    <3>2. Applied(state[Head(batch).table], Head(batch)) \in Seq(Nat)
      BY <3>1, AppliedType DEF Change
    <3> QED
      BY <2>8, <3>1, <3>2 DEF ApplyNext
  <2>9. CASE ApplyRaises
    BY <2>9 DEF ApplyRaises
  <2>10. CASE Respond
    BY <2>10 DEF Respond
  <2>11. CASE ClientHandles
    <3>1. Head(queue) \in Change /\ Tail(queue) \in Seq(Change)
      BY <2>11, HeadTailProperties DEF ClientHandles
    <3>2. Handled(Head(queue)) \in Seq(Nat)
      BY <3>1 DEF Handled, Change
    <3> QED
      BY <2>11, <3>1, <3>2 DEF ClientHandles
  <2>12. CASE UNCHANGED vars
    BY <2>12 DEF vars
  <2>13. ASSUME NEW w \in Writers, NEW t \in Tables, Reads(w, t) PROVE TypeOK'
    <3>1. [table |-> t, number |-> db[t].number] \in Read
      BY EntriesType DEF Read
    <3>2. read' \in [Writers -> Read \cup {<<>>}]
      BY <2>13, <3>1 DEF Reads
    <3> QED
      BY <2>13, <3>2 DEF Reads
  <2> QED
    BY <2>1, <2>13, <2>2, <2>3, <2>4, <2>5, <2>6, <2>7, <2>8, <2>9, <2>10, <2>11, <2>12 DEF Next
<1> QED
  BY <1>1, <1>2, PTL DEF Spec
---------------------------------------------------------------------------
LEMMA AtMostOne ==
  ASSUME NEW n \in Nat, n <= 1
  PROVE  (n # 0 => n = 1) /\ \A i \in 1 .. n : i = 1 /\ n = 1
  OBVIOUS

LEMMA ShownOfOne ==
  ASSUME NEW t, state[t] \in Seq(Nat), Len(state[t]) <= 1
  PROVE  Shown(t) = state[t]
<1>1. CASE state[t] = <<>>
  BY <1>1 DEF Shown
<1>2. CASE state[t] # <<>>
  <2>1. Len(state[t]) = 1
    <3>1. Len(state[t]) \in Nat /\ Len(state[t]) # 0
      BY <1>2, EmptySeq, LenProperties
    <3> QED
      BY <3>1, AtMostOne
  <2>2. state[t] = <<state[t][1]>>
    BY <2>1
  <2> QED
    BY <1>2, <2>1, <2>2 DEF Shown, Last
<1> QED
  BY <1>1, <1>2

LEMMA EntriesOfOne ==
  ASSUME TypeOK, NEW t \in Tables
  PROVE  Entries(t) \in Seq(Nat) /\ Len(Entries(t)) <= 1
         /\ \A i \in 1 .. Len(Entries(t)) : Entries(t)[i] <= db[t].number
<1>1. Entries(t) \in Seq(Nat) /\ (Entries(t) = <<>> \/ Entries(t) = <<db[t].number>>)
  BY EntriesType
<1>2. db[t].number \in Nat
  BY EntriesType
<1>3. CASE Entries(t) = <<>>
  BY <1>1, <1>3
<1>4. CASE Entries(t) = <<db[t].number>>
  BY <1>1, <1>2, <1>4
<1> QED
  BY <1>1, <1>3, <1>4

LEMMA InitInv == Init => RegistrationInv
<1> SUFFICES ASSUME Init PROVE RegistrationInv
  OBVIOUS
<1>1. TypeOK
  BY EmptySeq DEF Init, TypeOK, Change, Phases
<1>2. LastPublished
  BY NothingInEmpty DEF Init, LastPublished
<1>3. AllCommitted
  BY EmptySeq DEF Init, AllCommitted
<1>4. Numbers
  BY EmptySeq DEF Init, Numbers
<1>5. Progress /\ RowFound /\ CurrentUnlessPending
  BY DEF Init, Progress, RowFound, CurrentUnlessPending, Fetched
<1> QED
  BY <1>1, <1>2, <1>3, <1>4, <1>5 DEF RegistrationInv

LEMMA CommitInv ==
  ASSUME RegistrationInv, ReadRows, TypeOK', NEW w \in Writers, NEW t \in Tables, Commit(w, t)
  PROVE  RegistrationInv'
<1> USE DEF RegistrationInv, Raced, database
<1>1. PICK change \in Change :
        /\ change.table = t /\ change.op \in Ops(w, t) /\ change.number = db[t].number + 1
        /\ db' = [db EXCEPT ![t] = change] /\ writer' = [writer EXCEPT ![w] = change]
        /\ reborn' = reborn \cup {u \in {t} : change.op = "update" /\ db[t].op = "remove"}
  BY CommitType
<1>2. UNCHANGED <<channel, published, queue, phase, unread, state, batch, missed, repeated, ignored>>
  BY DEF Commit, registration
<1>3. /\ db'[t] = change /\ \A u \in Tables \ {t} : db'[u] = db[u]
      /\ writer'[w] = change /\ \A v \in Writers \ {w} : writer'[v] = writer[v]
  BY <1>1 DEF TypeOK
<1>4. writer[w] = <<>> /\ change # <<>>
  BY ChangesAreNoTuple DEF Commit
<1>6. ASSUME NEW c \in Change, Committed(c) PROVE Committed(c)'
  <2>1. c.table \in Tables /\ c.number \in Nat /\ db[t].number \in Nat
    BY EntriesType DEF Change
  <2>2. CASE c.table # t
    BY <1>1, <1>3, <1>6, <2>1, <2>2 DEF Committed
  <2>3. CASE c.table = t
    <3>1. c.number < change.number
      BY <1>1, <1>6, <2>1, <2>3 DEF Committed
    <3>2. ASSUME c.op = "remove", t \notin reborn' PROVE change.op = "remove"
      <4>1. t \in Listed /\ t \notin Early /\ t \notin reborn
        BY <1>1, <1>6, <2>3, <3>2, TablesAssumption DEF Committed
      <4>2. db[t].op = "remove"
        BY <1>6, <2>3, <3>2, <4>1 DEF Committed
      <4> QED
        BY <1>1, <3>2, <4>1, <4>2 DEF Ops
    <3>3. c.number <= change.number /\ c.number # change.number
      BY <1>1, <2>1, <3>1
    <3> QED
      BY <1>3, <1>6, <2>3, <3>2, <3>3 DEF Committed
  <2> QED
    BY <2>2, <2>3
<1>7. Committed(change)'
  <2>1. /\ change.op # "none" /\ (change.op \in {"set", "partial"} <=> t \notin Listed)
        /\ t \in Early => change.op = "set"
    BY <1>1, TablesAssumption DEF Ops
  <2>2. change.number <= change.number
    BY <1>1, EntriesType
  <2> QED
    BY <1>1, <1>3, <2>1, <2>2 DEF Committed
<1>8. LastPublished' /\ Progress'
  BY <1>2 DEF LastPublished, Progress, Has, LastIs
<1>9. AllCommitted'
  <2>1. \A v \in Writers : writer[v] # <<>> => writer[v] \in Change
    BY DEF TypeOK
  <2>2. /\ \A i \in 1 .. Len(channel) : channel[i] \in Change
        /\ \A i \in 1 .. Len(queue) : queue[i] \in Change
        /\ \A i \in 1 .. Len(batch) : batch[i] \in Change
    BY ElementOfSeq DEF TypeOK
  <2> QED
    BY <1>2, <1>3, <1>6, <1>7, <2>1, <2>2 DEF AllCommitted
<1>10. Numbers'
  <2> SUFFICES ASSUME NEW u \in Tables
               PROVE  /\ db'[u].table = u
                      /\ (db'[u].op = "none" /\ db'[u].number = 0) \/ Committed(db[u])'
                      /\ published'[u] <= db'[u].number
                      /\ \A i \in 1 .. Len(state'[u]) : state'[u][i] <= db'[u].number
    BY DEF Numbers
  <2>1. CASE u # t
    <3>1. db'[u] = db[u] /\ db[u] \in Change
      BY <1>3, <2>1 DEF TypeOK
    <3> QED
      BY <1>2, <1>6, <3>1 DEF Numbers
  <2>2. CASE u = t
    <3>1. db[t].number \in Nat /\ published[t] \in Nat /\ state[t] \in Seq(Nat)
      BY EntriesType DEF TypeOK
    <3>2. \A i \in 1 .. Len(state[t]) : state[t][i] \in Nat
      BY <3>1, ElementOfSeq
    <3>3. change.table = t /\ change.number \in Nat /\ db[t].number <= change.number
      BY <1>1, <3>1
    <3>4. published[t] <= change.number
      BY <3>1, <3>3 DEF Numbers
    <3>5. \A i \in 1 .. Len(state[t]) : state[t][i] <= change.number
      BY <3>1, <3>2, <3>3 DEF Numbers
    <3> QED
      BY <1>2, <1>3, <1>7, <2>2, <3>3, <3>4, <3>5
  <2> QED
    BY <2>1, <2>2
<1>11. RowFound'
  <2> SUFFICES ASSUME NEW u \in Listed \ reborn', Fetched(u)', phase' # "done",
                      db'[u].op \in {"add", "update"}
               PROVE  state'[u] # <<>> \/ AddUnderWay(u)'
    BY DEF RowFound
  <2>1. AddUnderWay(u) => AddUnderWay(u)'
    BY <1>2, <1>3, <1>4 DEF AddUnderWay, AddIn
  <2>2. Fetched(u) /\ u \in Tables /\ u \notin Early /\ u \notin reborn
    BY <1>1, <1>2, TablesAssumption DEF Fetched
  <2>3. CASE u = t /\ change.op = "add"
    BY <1>1, <1>3, <1>4, <2>3 DEF AddUnderWay
  <2>4. CASE u = t /\ change.op # "add"
    <3>1. change.op = "update" /\ HasRead(w, t)
      BY <1>1, <1>3, <2>2, <2>4 DEF Ops
    <3>2. db[t].op \notin {"none", "remove", "set", "partial"}
      BY <1>1, <2>2, <2>4, <3>1 DEF ReadRows, Numbers, Committed
    <3>3. db[t].op \in {"add", "update"}
      BY <3>2 DEF TypeOK, Change
    <3> QED
      BY <1>2, <2>1, <2>2, <2>4, <3>3 DEF RowFound
  <2>5. CASE u # t
    BY <1>2, <1>3, <2>1, <2>2, <2>5 DEF RowFound
  <2> QED
    BY <2>3, <2>4, <2>5
<1>12. CurrentUnlessPending'
  <2> SUFFICES ASSUME NEW u \in Tables \ Raced', Fetched(u)', published'[u] = db'[u].number,
                      db'[u].op # "partial", ~Pending(u)'
               PROVE  Shown(u)' = Entries(u)'
    BY DEF CurrentUnlessPending
  <2>1. u # t
    BY <1>1, <1>3, <1>4 DEF Pending
  <2>2. db'[u] = db[u] /\ ~Pending(u) /\ Fetched(u) /\ u \notin Raced
    BY <1>1, <1>2, <1>3, <1>4, <2>1 DEF Pending, Has, Fetched
  <2>3. Shown(u) = Entries(u)
    BY <1>2, <2>2 DEF CurrentUnlessPending
  <2> QED
    BY <1>2, <2>2, <2>3 DEF Shown, Entries
<1> QED
  BY <1>8, <1>9, <1>10, <1>11, <1>12

\* Reading, and steps of anything else, change nothing the invariant is about.
LEMMA UnchangedInv ==
  ASSUME RegistrationInv, TypeOK',
         UNCHANGED <<db, writer, reborn, channel, published, queue, registration>>
  PROVE  RegistrationInv'
<1> USE DEF RegistrationInv, registration
<1>1. LastPublished' /\ AllCommitted' /\ Progress'
  BY DEF LastPublished, AllCommitted, Progress, Has, LastIs, Committed
<1>2. Numbers'
  BY DEF Numbers, Committed
<1>3. RowFound'
  BY DEF RowFound, Fetched, AddUnderWay, AddIn
<1>4. CurrentUnlessPending'
  BY DEF CurrentUnlessPending, Fetched, Pending, Has, Shown, Entries, Raced
<1> QED
  BY <1>1, <1>2, <1>3, <1>4

LEMMA ReadsRows == Spec => []ReadRows
<1>1. Init => ReadRows
  BY DEF Init, ReadRows, HasRead
<1>2. ReadRows /\ TypeOK /\ [Next]_vars => ReadRows'
  <2> SUFFICES ASSUME ReadRows, TypeOK, [Next]_vars PROVE ReadRows'
    OBVIOUS
  <2>1. ASSUME NEW w \in Writers, NEW t \in Tables, Reads(w, t) PROVE ReadRows'
    <3>1. db' = db /\ read' = [read EXCEPT ![w] = [table |-> t, number |-> db[t].number]]
          /\ (t \in Listed => db[t].op # "none")
      BY <2>1 DEF Reads
    <3> QED
      BY <3>1 DEF ReadRows, HasRead, TypeOK
  <2>2. ASSUME NEW w \in Writers, NEW t \in Tables, Commit(w, t) PROVE ReadRows'
    <3>1. PICK change \in Change : change.op \in Ops(w, t) /\ db' = [db EXCEPT ![t] = change]
      BY <2>2, CommitType
    <3>2. change.op # "none" /\ read' = [read EXCEPT ![w] = <<>>]
      BY <2>2, <3>1 DEF Ops, Commit
    <3> QED
      BY <3>1, <3>2, TablesAssumption DEF ReadRows, HasRead, TypeOK
  <2>3. CASE UNCHANGED <<db, read>>
    BY <2>3 DEF ReadRows, HasRead
  <2> QED
    BY <2>1, <2>2, <2>3
       DEF Next, vars, database, Publish, Deliver, Authenticate, AllocateQueue, Fetch, GetEvents,
           ApplyNext, ApplyRaises, Respond, ClientHandles
<1> QED
  BY <1>1, <1>2, TypeCorrect, PTL DEF Spec

LEMMA CommittedLast ==
  ASSUME RegistrationInv, NEW c \in Change, Committed(c), c.number = db[c.table].number
  PROVE  /\ c = db[c.table]
         /\ c.op # "partial" => Entries(c.table) = Handled(c)
  BY DEF Committed, Entries, Handled

LEMMA PublishInv ==
  ASSUME RegistrationInv, TypeOK', NEW w \in Writers, Publish(w)
  PROVE  RegistrationInv'
<1> USE DEF RegistrationInv, Raced, database
<1> DEFINE c == writer[w]
<1>1. /\ c \in Change /\ c # <<>> /\ Committed(c)
      /\ c.table \in Tables /\ c.number \in Nat /\ c.number <= db[c.table].number
      /\ channel \in Seq(Change)
  BY DEF Publish, TypeOK, AllCommitted, Change, Committed
<1>2. /\ channel' = Append(channel, c)
      /\ writer' = [writer EXCEPT ![w] = <<>>]
      /\ published' = [published EXCEPT ![c.table] = c.number]
      /\ UNCHANGED <<db, read, reborn, phase, unread, state, queue, batch, missed, repeated, ignored>>
  BY DEF Publish, registration
<1>3. /\ writer'[w] = <<>> /\ \A v \in Writers \ {w} : writer'[v] = writer[v]
      /\ published'[c.table] = c.number
      /\ \A t \in Tables \ {c.table} : published'[t] = published[t]
  BY <1>1, <1>2 DEF TypeOK
<1> HIDE DEF c
<1>4. LastPublished'
  <2> SUFFICES ASSUME NEW t \in Tables
               PROVE  /\ LastIs(channel', t, published'[t])
                      /\ ~Has(channel', t) => LastIs(queue, t, published'[t])
                      /\ ~Has(channel', t) /\ ~Has(queue, t) => LastIs(batch, t, published'[t])
    BY <1>2 DEF LastPublished
  <2>1. CASE t = c.table
    BY <1>1, <1>2, <1>3, <2>1, AfterAppend
  <2>2. CASE t # c.table
    <3>1. LastIs(channel, t, published[t]) /\ published'[t] = published[t]
      BY <1>3, <2>2 DEF LastPublished
    <3>2. LastIs(channel', t, published[t]) /\ (Has(channel', t) <=> Has(channel, t))
      BY <1>1, <1>2, <2>2, <3>1, AfterAppend
    <3> QED
      BY <3>1, <3>2 DEF LastPublished
  <2> QED
    BY <2>1, <2>2
<1>5. AllCommitted'
  <2>1. \A i \in 1 .. Len(channel') : Committed(channel'[i])
    <3>1. \A i \in 1 .. Len(channel) : Committed(channel[i])
      BY DEF AllCommitted
    <3> HIDE DEF RegistrationInv
    <3> QED
      BY <1>1, <1>2, <3>1, AfterAppend
  <2>2. \A x : Committed(x)' <=> Committed(x)
    BY <1>2 DEF Committed
  <2>3. (\A i \in 1 .. Len(channel) : Committed(channel[i]))'
    BY <2>1, <2>2
  <2>4. (\A i \in 1 .. Len(queue) : Committed(queue[i]))'
    BY <1>2, <2>2 DEF AllCommitted
  <2>5. (\A i \in 1 .. Len(batch) : Committed(batch[i]))'
    BY <1>2, <2>2 DEF AllCommitted
  <2>6. (\A v \in Writers : writer[v] # <<>> => Committed(writer[v]))'
    BY <1>3, <2>2 DEF AllCommitted
  <2> QED
    BY <2>3, <2>4, <2>5, <2>6 DEF AllCommitted
<1>6. Numbers'
  <2>1. \A t \in Tables : published'[t] <= db[t].number
    BY <1>1, <1>3 DEF Numbers
  <2> QED
    BY <1>2, <2>1 DEF Numbers, Committed
<1>7. Progress'
  BY <1>2 DEF Progress
<1>8. \A t : /\ Pending(t) => Pending(t)'
             /\ AddUnderWay(t) => AddUnderWay(t)'
  <2> SUFFICES ASSUME NEW t PROVE (Pending(t) => Pending(t)') /\ (AddUnderWay(t) => AddUnderWay(t)')
    OBVIOUS
  <2>1. /\ Has(channel', t) <=> Has(channel, t) \/ c.table = t
        /\ AddIn(channel', t) <=> AddIn(channel, t) \/ (c.table = t /\ c.op = "add")
    BY <1>1, <1>2, AfterAppend
  <2> QED
    BY <1>2, <1>3, <2>1 DEF Pending, AddUnderWay, Has, AddIn, c
<1>9. RowFound'
  BY <1>2, <1>8 DEF RowFound, Fetched
<1>10. CurrentUnlessPending'
  <2> SUFFICES ASSUME NEW t \in Tables \ Raced, Fetched(t), published'[t] = db[t].number,
                      db[t].op # "partial", ~Pending(t)'
               PROVE  Shown(t) = Entries(t)
    BY <1>2 DEF CurrentUnlessPending, Fetched, Shown, Entries
  <2>1. Has(channel', c.table)
    BY <1>1, <1>2, AfterAppend
  <2>2. t # c.table
    BY <2>1 DEF Pending
  <2> QED
    BY <1>3, <1>8, <2>2 DEF CurrentUnlessPending
<1> QED
  BY <1>4, <1>5, <1>6, <1>7, <1>9, <1>10

LEMMA DeliverInv ==
  ASSUME RegistrationInv, TypeOK', Deliver
  PROVE  RegistrationInv'
<1> USE DEF RegistrationInv, Raced, database
<1> DEFINE h == Head(channel)
<1>1. /\ channel \in Seq(Change) /\ channel # <<>> /\ queue \in Seq(Change)
      /\ channel' = Tail(channel)
      /\ UNCHANGED <<db, writer, reborn, published, phase, unread, state, batch, repeated, ignored>>
  BY DEF Deliver, TypeOK
<1>2. h \in Change /\ Committed(h) /\ h.table \in Tables /\ h.number \in Nat
  <2>1. h \in Change /\ Committed(h)
    BY <1>1, AfterTail DEF AllCommitted
  <2> QED
    BY <2>1 DEF Change
<1>3. \A t \in Tables :
        /\ Has(channel, t) <=> Has(channel', t) \/ h.table = t
        /\ AddIn(channel, t) <=> AddIn(channel', t) \/ (h.table = t /\ h.op = "add")
        /\ LastIs(channel', t, published[t])
        /\ h.table = t /\ ~Has(channel', t) => h.number = published[t]
  BY <1>1, AfterTail DEF LastPublished
<1>4. \A i \in 1 .. Len(channel') : Committed(channel'[i])
  BY <1>1, AfterTail DEF AllCommitted
<1>5. \A x : Committed(x)' <=> Committed(x)
  BY <1>1 DEF Committed
<1>6. Numbers'
  BY <1>1, <1>5 DEF Numbers, Committed
<1>7. CASE phase \in {"fetching", "applying", "done"}
  <2>1. queue' = Append(queue, h) /\ UNCHANGED missed
    BY <1>7 DEF Deliver
  <2> HIDE DEF h
  <2>2. \A t \in Tables :
          /\ Has(queue', t) <=> Has(queue, t) \/ h.table = t
          /\ AddIn(queue', t) <=> AddIn(queue, t) \/ (h.table = t /\ h.op = "add")
          /\ h.table = t => LastIs(queue', t, h.number)
          /\ \A n : h.table # t /\ LastIs(queue, t, n) => LastIs(queue', t, n)
    BY <1>1, <1>2, <2>1, AfterAppend
  <2>3. LastPublished'
    <3> SUFFICES ASSUME NEW t \in Tables
                 PROVE  /\ LastIs(channel', t, published[t])
                        /\ ~Has(channel', t) => LastIs(queue', t, published[t])
                        /\ ~Has(channel', t) /\ ~Has(queue', t) =>
                             LastIs(batch, t, published[t])
      BY <1>1 DEF LastPublished
    <3>1. ASSUME ~Has(channel', t) PROVE LastIs(queue', t, published[t])
      <4>1. CASE h.table = t
        BY <1>3, <2>2, <3>1, <4>1
      <4>2. CASE h.table # t
        BY <1>3, <2>2, <3>1, <4>2 DEF LastPublished
      <4> QED
        BY <4>1, <4>2
    <3>2. ASSUME ~Has(channel', t), ~Has(queue', t) PROVE LastIs(batch, t, published[t])
      BY <1>3, <2>2, <3>2 DEF LastPublished
    <3> QED
      BY <1>3, <3>1, <3>2
  <2>4. AllCommitted'
    <3>1. \A i \in 1 .. Len(queue') : Committed(queue'[i])
      BY <1>1, <1>2, <2>1, AfterAppend DEF AllCommitted
    <3> QED
      BY <1>1, <1>4, <1>5, <3>1 DEF AllCommitted, Committed
  <2>5. Progress'
    BY <1>1, <1>7 DEF Progress
  <2>6. \A t \in Tables : (AddUnderWay(t) => AddUnderWay(t)') /\ (Pending(t) => Pending(t)')
    BY <1>1, <1>3, <2>2 DEF AddUnderWay, Pending, Has, AddIn
  <2>7. RowFound'
    BY <1>1, <2>6, TablesAssumption DEF RowFound, Fetched
  <2>8. CurrentUnlessPending'
    BY <1>1, <2>1, <2>6 DEF CurrentUnlessPending, Fetched, Shown, Entries
  <2> QED
    BY <1>6, <2>3, <2>4, <2>5, <2>7, <2>8
<1>8. CASE phase \in {"start", "requested"}
  <2>1. /\ queue' = <<>> /\ queue = <<>> /\ batch = <<>>
        /\ missed' = missed \cup {t \in Early : Misses(t, h)}
    BY <1>8 DEF Deliver, Progress
  <2> HIDE DEF h
  <2>2. LastPublished'
    <3>1. \A t \in Tables : LastIs(queue', t, published[t]) /\ LastIs(batch, t, published[t])
      BY <2>1, NothingInEmpty
    <3> QED
      BY <1>1, <1>3, <3>1 DEF LastPublished
  <2>3. AllCommitted'
    BY <1>1, <1>4, <1>5, <2>1 DEF AllCommitted, Committed
  <2>4. Progress'
    BY <1>1, <2>1 DEF Progress
  <2>5. RowFound'
    <3>1. \A t \in Listed : ~Fetched(t)
      BY <1>8, TablesAssumption DEF Progress, Fetched
    <3> QED
      BY <1>1, <3>1 DEF RowFound, Fetched
  <2>6. CurrentUnlessPending'
    <3> SUFFICES ASSUME NEW t \in Tables \ Raced', Fetched(t), published[t] = db[t].number,
                        db[t].op # "partial", ~Pending(t)'
                 PROVE  Shown(t) = Entries(t)
      BY <1>1 DEF CurrentUnlessPending, Fetched, Shown, Entries
    <3>1. t \notin Raced /\ phase = "requested" /\ t \in Early /\ ~Misses(t, h)
      BY <1>1, <1>8, <2>1 DEF Fetched, Progress
    <3>2. ~Has(channel', t) /\ ~Has(queue, t) /\ ~Has(batch, t)
          /\ \A w \in Writers : ~(writer[w] # <<>> /\ writer[w].table = t)
      BY <1>1, <2>1 DEF Pending, Has
    <3>3. CASE h.table # t
      BY <1>3, <3>1, <3>2, <3>3 DEF CurrentUnlessPending, Pending
    <3>4. CASE h.table = t
      <4>1. h.number = db[t].number /\ Entries(t) = Handled(h) /\ h.op = "set"
        <5>1. h.number = db[t].number
          BY <1>3, <3>2, <3>4
        <5>2. h.op = "set"
          BY <1>2, <3>1, <3>4 DEF Committed
        <5> QED
          BY <1>2, <3>4, <5>1, <5>2, CommittedLast
      <4>2. PICK i \in 1 .. Len(state[t]) : ~(state[t][i] < h.number)
        BY <3>1, <3>4 DEF Misses
      <4>3. /\ state[t] \in Seq(Nat) /\ Len(state[t]) \in Nat /\ Len(state[t]) <= 1
            /\ state[t][i] \in Nat /\ state[t][i] <= h.number
        BY <3>1, <4>1, ElementOfSeq, LenProperties DEF TypeOK, Progress, Numbers
      <4>4. i = 1 /\ Len(state[t]) = 1 /\ state[t][1] = h.number
        <5>1. \A m, n \in Nat : m <= n /\ ~(m < n) => m = n
          OBVIOUS
        <5>2. state[t][i] = h.number
          BY <1>2, <4>2, <4>3, <5>1
        <5> QED
          BY <4>3, <5>2, AtMostOne
      <4>5. state[t] = <<h.number>>
        BY <4>3, <4>4
      <4> QED
        BY <4>1, <4>3, <4>5, ShownOfOne DEF Handled
    <3> QED
      BY <3>3, <3>4
  <2> QED
    BY <1>6, <2>2, <2>3, <2>4, <2>5, <2>6
<1> QED
  BY <1>7, <1>8 DEF TypeOK, Phases
---------------------------------------------------------------------------
LEMMA AuthenticateInv ==
  ASSUME RegistrationInv, TypeOK', Authenticate
  PROVE  RegistrationInv'
<1> USE DEF RegistrationInv, Raced, database
<1>1. /\ phase = "start" /\ phase' = "requested" /\ unread' = Tables \ Early
      /\ state' = [t \in Tables |-> IF t \in Early THEN Entries(t) ELSE <<>>]
      /\ missed' = {} /\ repeated' = {} /\ ignored' = {}
      /\ UNCHANGED <<db, writer, reborn, channel, published, queue, batch>>
  BY DEF Authenticate
<1>2. \A t \in Tables :
        /\ Len(state'[t]) <= 1 /\ \A i \in 1 .. Len(state'[t]) : state'[t][i] <= db[t].number
        /\ t \in Early => state'[t] = Entries(t) /\ Entries(t) \in Seq(Nat)
  BY <1>1, EntriesOfOne, EmptySeq
<1>3. LastPublished' /\ AllCommitted'
  BY <1>1 DEF LastPublished, AllCommitted, Has, LastIs, Committed
<1>4. Numbers'
  BY <1>1, <1>2 DEF Numbers, Committed
<1>5. Progress'
  BY <1>1, <1>2, TablesAssumption DEF Progress
<1>6. RowFound'
  BY <1>1, TablesAssumption DEF RowFound, Fetched
<1>7. CurrentUnlessPending'
  <2> SUFFICES ASSUME NEW t \in Tables, Fetched(t)' PROVE Shown(t)' = Entries(t)'
    BY DEF CurrentUnlessPending
  <2>1. t \in Early
    BY <1>1 DEF Fetched
  <2>2. /\ state'[t] \in Seq(Nat) /\ Len(state'[t]) <= 1 /\ state'[t] = Entries(t)
    BY <1>2, <2>1
  <2>3. Shown(t)' = state'[t]
    <3>1. CASE state'[t] = <<>>
      BY <3>1 DEF Shown
    <3>2. CASE state'[t] = <<db[t].number>>
      BY <3>2 DEF Shown, Last
    <3> QED
      BY <2>2, <3>1, <3>2, EntriesType
  <2> QED
    BY <1>1, <2>2, <2>3 DEF Entries
<1> QED
  BY <1>3, <1>4, <1>5, <1>6, <1>7

LEMMA AllocateQueueInv ==
  ASSUME RegistrationInv, TypeOK', AllocateQueue
  PROVE  RegistrationInv'
<1> USE DEF RegistrationInv, Raced, database
<1>1. /\ phase = "requested" /\ phase' = "fetching" /\ queue = <<>> /\ queue' = <<>>
      /\ batch = <<>>
      /\ UNCHANGED <<db, writer, reborn, channel, published, unread, state, batch, missed, repeated, ignored>>
  BY DEF AllocateQueue, Progress
<1>2. LastPublished' /\ AllCommitted' /\ Numbers' /\ Progress'
  BY <1>1 DEF LastPublished, AllCommitted, Numbers, Progress, Has, LastIs, Committed
<1>3. RowFound'
  BY <1>1 DEF RowFound, Fetched, AddUnderWay, AddIn
<1>4. CurrentUnlessPending'
  BY <1>1 DEF CurrentUnlessPending, Fetched, Pending, Has, Shown, Entries
<1> QED
  BY <1>2, <1>3, <1>4

LEMMA FetchInv ==
  ASSUME RegistrationInv, TypeOK', NEW t \in Tables, Fetch(t)
  PROVE  RegistrationInv'
<1> USE DEF RegistrationInv, Raced, database
<1>1. /\ phase = "fetching"
      /\ state' = [state EXCEPT ![t] = Entries(t)] /\ unread' = unread \ {t}
      /\ UNCHANGED <<db, writer, reborn, channel, published, phase, queue, batch, missed, repeated, ignored>>
  BY DEF Fetch, Fetches
<1>2. state'[t] = Entries(t) /\ \A u \in Tables \ {t} : state'[u] = state[u]
  BY <1>1 DEF TypeOK
<1>3. LastPublished' /\ AllCommitted' /\ Progress'
  BY <1>1 DEF LastPublished, AllCommitted, Progress, Has, LastIs, Committed
<1>4. Numbers'
  <2>1. \A u \in Tables : \A i \in 1 .. Len(state'[u]) : state'[u][i] <= db[u].number
    BY <1>2, EntriesOfOne DEF Numbers
  <2> QED
    BY <1>1, <2>1 DEF Numbers, Committed
<1>5. RowFound'
  <2> SUFFICES ASSUME NEW u \in Listed \ reborn, Fetched(u)', db[u].op \in {"add", "update"}
               PROVE  state'[u] # <<>> \/ AddUnderWay(u)
    BY <1>1 DEF RowFound, AddUnderWay, AddIn
  <2>1. CASE u = t
    BY <1>2, <2>1 DEF Entries
  <2>2. CASE u # t
    <3>1. Fetched(u) /\ state'[u] = state[u]
      BY <1>1, <1>2, <2>2, TablesAssumption DEF Fetched
    <3> QED
      BY <1>1, <3>1 DEF RowFound
  <2> QED
    BY <2>1, <2>2
<1>6. CurrentUnlessPending'
  <2> SUFFICES ASSUME NEW u \in Tables \ Raced, Fetched(u)', published[u] = db[u].number,
                      db[u].op # "partial", ~Pending(u)
               PROVE  Shown(u)' = Entries(u)
    BY <1>1 DEF CurrentUnlessPending, Pending, Has, Entries
  <2>1. CASE u = t
    BY <1>2, <2>1, EntriesType DEF Shown, Last
  <2>2. CASE u # t
    <3>1. Fetched(u) /\ state'[u] = state[u]
      BY <1>1, <1>2, <2>2 DEF Fetched
    <3> QED
      BY <3>1 DEF CurrentUnlessPending, Shown
  <2> QED
    BY <2>1, <2>2
<1> QED
  BY <1>3, <1>4, <1>5, <1>6

LEMMA GetEventsInv ==
  ASSUME RegistrationInv, TypeOK', GetEvents
  PROVE  RegistrationInv'
<1> USE DEF RegistrationInv, Raced, database
<1>1. /\ phase = "fetching" /\ phase' = "applying" /\ batch' = queue /\ queue' = <<>>
      /\ batch = <<>>
      /\ UNCHANGED <<db, writer, reborn, channel, published, unread, state, missed, repeated, ignored>>
  BY DEF GetEvents, Asks, Progress
<1>2. \A t, n : ~Has(batch, t) /\ ~AddIn(batch, t) /\ LastIs(queue', t, n)
  BY <1>1, NothingInEmpty
<1>3. LastPublished'
  <2> SUFFICES ASSUME NEW t \in Tables
               PROVE  /\ LastIs(channel, t, published[t])
                      /\ LastIs(queue', t, published[t])
                      /\ ~Has(channel, t) => LastIs(batch', t, published[t])
    BY <1>1 DEF LastPublished
  <2> QED
    BY <1>1, <1>2 DEF LastPublished
<1>4. AllCommitted' /\ Numbers' /\ Progress'
  BY <1>1, EmptySeq DEF AllCommitted, Numbers, Progress, Committed
<1>5. \A t : (AddUnderWay(t) => AddUnderWay(t)') /\ (Pending(t) => Pending(t)')
  BY <1>1, <1>2 DEF AddUnderWay, Pending, Has, AddIn
<1>6. RowFound' /\ CurrentUnlessPending'
  BY <1>1, <1>5 DEF RowFound, CurrentUnlessPending, Fetched, Shown, Entries
<1> QED
  BY <1>3, <1>4, <1>6

LEMMA ApplyRaisesInv ==
  ASSUME RegistrationInv, TypeOK', ApplyRaises
  PROVE  RegistrationInv'
<1> USE DEF RegistrationInv, Raced, database
<1>1. /\ phase' = "start" /\ batch' = <<>> /\ queue' = <<>>
      /\ UNCHANGED <<db, writer, reborn, channel, published, unread, state, missed, repeated, ignored>>
  BY DEF ApplyRaises
<1>2. LastPublished'
  BY <1>1, NothingInEmpty DEF LastPublished
<1>3. AllCommitted' /\ Numbers' /\ Progress'
  BY <1>1, EmptySeq DEF AllCommitted, Numbers, Progress, Committed
<1>4. RowFound' /\ CurrentUnlessPending'
  BY <1>1 DEF RowFound, CurrentUnlessPending, Fetched
<1> QED
  BY <1>2, <1>3, <1>4

LEMMA RespondInv ==
  ASSUME RegistrationInv, TypeOK', Respond
  PROVE  RegistrationInv'
<1> USE DEF RegistrationInv, Raced, database
<1>1. /\ phase = "applying" /\ batch = <<>> /\ phase' = "done"
      /\ UNCHANGED <<db, writer, reborn, channel, published, unread, state, batch, queue, missed, repeated, ignored>>
  BY DEF Respond
<1>2. LastPublished' /\ AllCommitted' /\ Numbers' /\ Progress' /\ RowFound'
  BY <1>1
     DEF LastPublished, AllCommitted, Numbers, Progress, RowFound, Has, LastIs, Committed
<1>3. CurrentUnlessPending'
  BY <1>1 DEF CurrentUnlessPending, Fetched, Pending, Has, Shown, Entries
<1> QED
  BY <1>2, <1>3

LEMMA ClientHandlesInv ==
  ASSUME RegistrationInv, TypeOK', ClientHandles
  PROVE  RegistrationInv'
<1> USE DEF RegistrationInv, Raced, database
<1> DEFINE e == Head(queue)
<1>1. /\ phase = "done" /\ batch = <<>> /\ queue \in Seq(Change) /\ queue # <<>>
      /\ state' = [state EXCEPT ![e.table] = Handled(e)]
      /\ queue' = Tail(queue)
      /\ UNCHANGED <<db, writer, reborn, channel, published, phase, unread, batch, missed, repeated, ignored>>
  BY DEF ClientHandles, Progress, TypeOK
<1>2. e \in Change /\ Committed(e) /\ \A i \in 1 .. Len(queue') : Committed(queue'[i])
  BY <1>1, AfterTail DEF AllCommitted
<1>3. e.table \in Tables /\ e.number \in Nat
  BY <1>2 DEF Change
<1>4. \A t \in Tables :
        /\ Has(queue, t) <=> Has(queue', t) \/ e.table = t
        /\ \A n : LastIs(queue, t, n) =>
             /\ LastIs(queue', t, n)
             /\ e.table = t /\ ~Has(queue', t) => e.number = n
  BY <1>1, AfterTail
<1>5. state'[e.table] = Handled(e) /\ \A t \in Tables \ {e.table} : state'[t] = state[t]
  BY <1>1, <1>3 DEF TypeOK
<1> HIDE DEF e
<1>6. LastPublished'
  <2> SUFFICES ASSUME NEW t \in Tables
               PROVE  /\ LastIs(channel, t, published[t])
                      /\ ~Has(channel, t) => LastIs(queue', t, published[t])
                      /\ LastIs(batch, t, published[t])
    BY <1>1 DEF LastPublished
  <2> QED
    BY <1>1, <1>4, NothingInEmpty DEF LastPublished
<1>7. AllCommitted'
  BY <1>1, <1>2 DEF AllCommitted, Committed
<1>8. Numbers'
  <2>1. \A i \in 1 .. Len(Handled(e)) : Handled(e)[i] <= db[e.table].number
    <3>1. CASE Handled(e) = <<>>
      BY <3>1
    <3>2. CASE Handled(e) = <<e.number>>
      BY <1>2, <3>2 DEF Committed
    <3>3. CASE Handled(e) = <<0>>
      BY <1>3, <3>3, EntriesType
    <3> QED
      BY <3>1, <3>2, <3>3 DEF Handled
  <2>2. \A t \in Tables : \A i \in 1 .. Len(state'[t]) : state'[t][i] <= db[t].number
    BY <1>5, <2>1 DEF Numbers
  <2> QED
    BY <1>1, <2>2 DEF Numbers, Committed
<1>9. Progress' /\ RowFound'
  BY <1>1 DEF Progress, RowFound
<1>10. CurrentUnlessPending'
  <2> SUFFICES ASSUME NEW t \in Tables \ Raced, Fetched(t), published[t] = db[t].number,
                      db[t].op # "partial", ~Pending(t)'
               PROVE  Shown(t)' = Entries(t)
    BY <1>1 DEF CurrentUnlessPending, Fetched, Entries
  <2>1. ~Has(channel, t) /\ ~Has(queue', t) /\ ~Has(batch, t)
    BY <1>1 DEF Pending, Has
  <2>2. CASE t = e.table
    <3>1. e.number = db[t].number
      BY <1>4, <2>1, <2>2 DEF LastPublished
    <3>2. Handled(e) = Entries(t)
      BY <1>2, <2>2, <3>1, CommittedLast
    <3> QED
      BY <1>5, <2>2, <3>2, EntriesType DEF Shown, Last
  <2>3. CASE t # e.table
    <3>1. ~Pending(t) /\ state'[t] = state[t]
      BY <1>1, <1>4, <1>5, <2>3 DEF Pending, Has
    <3> QED
      BY <3>1 DEF CurrentUnlessPending, Shown
  <2> QED
    BY <2>2, <2>3
<1> QED
  BY <1>6, <1>7, <1>8, <1>9, <1>10
---------------------------------------------------------------------------
\* What an event leaves of a table's entries.
LEMMA AppliedBounded ==
  ASSUME NEW entries \in Seq(Nat), NEW e \in Change, NEW n \in Nat, e.number <= n,
         \A i \in 1 .. Len(entries) : entries[i] <= n
  PROVE  \A i \in 1 .. Len(Applied(entries, e)) : Applied(entries, e)[i] <= n
<1>1. e.number \in Nat
  BY DEF Change
<1>2. CASE Applied(entries, e) = <<e.number>>
  BY <1>2
<1>3. CASE Applied(entries, e) = Append(entries, e.number)
  <2>1. /\ Len(Append(entries, e.number)) = Len(entries) + 1 /\ Len(entries) \in Nat
        /\ \A i \in 1 .. Len(entries) : Append(entries, e.number)[i] = entries[i]
        /\ Append(entries, e.number)[Len(entries) + 1] = e.number
    BY <1>1, AppendProperties, LenProperties
  <2> QED
    BY <1>3, <2>1
<1>4. CASE Applied(entries, e) = <<>>
  BY <1>4, EmptySeq
<1>5. CASE entries # <<>> /\ Applied(entries, e) = [entries EXCEPT ![1] = e.number]
  <2> DEFINE u == [entries EXCEPT ![1] = e.number]
  <2>1. Len(u) = Len(entries) /\ \A i \in 1 .. Len(entries) : u[i] \in {e.number, entries[i]}
    <3>1. DOMAIN entries = 1 .. Len(entries) /\ Len(entries) \in Nat
      BY LenProperties
    <3>2. DOMAIN u = DOMAIN entries /\ \A i \in DOMAIN entries : u[i] \in {e.number, entries[i]}
      OBVIOUS
    <3>3. u \in Seq(Nat)
      BY <1>1, <1>5, EmptySeq, ExceptSeq, LenProperties
    <3>4. DOMAIN u = 1 .. Len(u) /\ Len(u) \in Nat
      BY <3>3, LenProperties
    <3> HIDE DEF u
    <3>5. Len(u) = Len(entries)
      BY <3>1, <3>2, <3>4
    <3> QED
      BY <3>1, <3>2, <3>5
  <2> HIDE DEF u
  <2>2. \A i \in 1 .. Len(u) : u[i] <= n
    BY <2>1
  <2> QED
    BY <1>5, <2>2 DEF u
<1>6. CASE entries # <<>> /\ Applied(entries, e) = Tail(entries)
  <2>1. /\ Len(Tail(entries)) = Len(entries) - 1 /\ Len(entries) \in Nat
        /\ \A i \in 1 .. Len(Tail(entries)) : Tail(entries)[i] = entries[i + 1]
    BY <1>6, HeadTailProperties, LenProperties
  <2> QED
    BY <1>6, <2>1
<1>7. CASE Applied(entries, e) = <<0>>
  BY <1>7
<1> QED
  BY <1>2, <1>3, <1>4, <1>5, <1>6, <1>7 DEF Applied

LEMMA AppliedNonempty ==
  ASSUME NEW entries \in Seq(Nat), NEW e \in Change, e.op \notin {"none", "remove"},
         entries # <<>> \/ e.op \in {"set", "add"}
  PROVE  Applied(entries, e) # <<>>
<1>1. e.number \in Nat
  BY DEF Change
<1>2. CASE e.op \in {"set", "partial"}
  BY <1>2 DEF Applied
<1>3. CASE e.op = "add"
  <2>1. Append(entries, e.number) # <<>>
    BY <1>1, AppendProperties, EmptySeq, LenProperties
  <2> QED
    BY <1>3, <2>1 DEF Applied
<1>4. CASE e.op = "update"
  <2>1. entries # <<>> /\ Applied(entries, e) = [entries EXCEPT ![1] = e.number]
    BY <1>4 DEF Applied
  <2>2. 1 \in DOMAIN entries /\ DOMAIN [entries EXCEPT ![1] = e.number] = DOMAIN entries
    <3>1. 1 \in DOMAIN entries
      BY <2>1, EmptySeq, LenProperties
    <3> QED
      BY <3>1
  <2>3. DOMAIN <<>> = {}
    OBVIOUS
  <2> QED
    BY <2>1, <2>2, <2>3
<1> QED
  BY <1>2, <1>3, <1>4 DEF Change

LEMMA AppliedOfOne ==
  ASSUME NEW t, NEW entries \in Seq(Nat), NEW e \in Change,
         Len(entries) <= 1 \/ e.op \in {"set", "partial"},
         e.op = "update" => entries # <<>>, e.op # "none",
         state'[t] = Applied(entries, e)
  PROVE  Shown(t)' = Handled(e)
<1>1. e.number \in Nat
  BY DEF Change
<1>2. CASE e.op \in {"set", "partial"}
  BY <1>2 DEF Applied, Shown, Handled, Last
<1>3. CASE e.op = "add"
  <2> DEFINE u == Append(entries, e.number)
  <2>1. Len(u) = Len(entries) + 1 /\ u[Len(entries) + 1] = e.number /\ u # <<>>
    BY <1>1, AppendProperties, EmptySeq, LenProperties
  <2>2. state'[t] = u
    BY <1>3 DEF Applied
  <2> HIDE DEF u
  <2>3. Shown(t)' = <<u[Len(u)]>>
    BY <2>1, <2>2 DEF Shown, Last
  <2> QED
    BY <1>3, <2>1, <2>3 DEF Handled
<1>4. ASSUME e.op \in {"update", "remove"}, entries # <<>>
      PROVE  \E n \in Nat : entries = <<n>>
  <2>1. Len(entries) \in Nat /\ Len(entries) # 0 /\ Len(entries) <= 1
    BY <1>4, EmptySeq, LenProperties
  <2>2. Len(entries) = 1
    BY <2>1, AtMostOne
  <2>3. entries = <<entries[1]>> /\ entries[1] \in Nat
    BY <2>2, ElementOfSeq
  <2> QED
    BY <2>3
<1>5. CASE e.op = "update"
  <2>1. PICK n \in Nat : entries = <<n>>
    BY <1>4, <1>5
  <2>2. Applied(entries, e) = [<<n>> EXCEPT ![1] = e.number]
    BY <1>5, <2>1 DEF Applied
  <2>3. [<<n>> EXCEPT ![1] = e.number] = <<e.number>>
    OBVIOUS
  <2> QED
    BY <1>5, <2>2, <2>3 DEF Shown, Handled, Last
<1>6. CASE e.op = "remove"
  <2>1. state'[t] = <<>>
    <3>1. CASE entries = <<>>
      BY <1>6, <3>1 DEF Applied
    <3>2. CASE entries # <<>>
      <4>1. PICK n \in Nat : entries = <<n>>
        BY <1>4, <1>6, <3>2
      <4>2. Applied(entries, e) = Tail(<<n>>)
        BY <1>6, <4>1 DEF Applied
      <4> QED
        BY <4>2
    <3> QED
      BY <3>1, <3>2
  <2> QED
    BY <1>6, <2>1 DEF Shown, Handled
<1> QED
  BY <1>2, <1>3, <1>5, <1>6 DEF Change

LEMMA ApplyNextInv ==
  ASSUME RegistrationInv, TypeOK', ApplyNext
  PROVE  RegistrationInv'
<1> USE DEF RegistrationInv, Raced, database
<1> DEFINE e == Head(batch)
<1>1. /\ phase = "applying" /\ unread = {} /\ batch \in Seq(Change) /\ batch # <<>>
      /\ state' = [state EXCEPT ![e.table] = Applied(state[e.table], e)]
      /\ repeated' = repeated \cup {t \in Listed : t = e.table /\ Len(state[t]) > 1}
      /\ ignored' = ignored \cup {t \in Listed : t = e.table /\ e.op = "update" /\ state[t] = <<>>}
      /\ batch' = Tail(batch)
      /\ UNCHANGED <<db, writer, reborn, channel, published, phase, unread, queue, missed>>
  BY DEF ApplyNext, TypeOK
<1>2. e \in Change /\ Committed(e) /\ \A i \in 1 .. Len(batch') : Committed(batch'[i])
  BY <1>1, AfterTail DEF AllCommitted
<1>3. e.table \in Tables /\ e.number \in Nat /\ state[e.table] \in Seq(Nat) /\ e.op # "none"
  BY <1>2 DEF Change, Committed, TypeOK
<1>4. \A t \in Tables :
        /\ Has(batch, t) <=> Has(batch', t) \/ e.table = t
        /\ AddIn(batch, t) <=> AddIn(batch', t) \/ (e.table = t /\ e.op = "add")
        /\ \A n : LastIs(batch, t, n) =>
             /\ LastIs(batch', t, n)
             /\ e.table = t /\ ~Has(batch', t) => e.number = n
  BY <1>1, AfterTail
<1>5. /\ state'[e.table] = Applied(state[e.table], e)
      /\ \A t \in Tables \ {e.table} : state'[t] = state[t]
  BY <1>1, <1>3 DEF TypeOK
<1> HIDE DEF e
<1>6. LastPublished'
  <2> SUFFICES ASSUME NEW t \in Tables
               PROVE  /\ LastIs(channel, t, published[t])
                      /\ ~Has(channel, t) => LastIs(queue, t, published[t])
                      /\ ~Has(channel, t) /\ ~Has(queue, t) => LastIs(batch', t, published[t])
    BY <1>1 DEF LastPublished
  <2> QED
    BY <1>4 DEF LastPublished
<1>7. AllCommitted'
  BY <1>1, <1>2 DEF AllCommitted, Committed
<1>8. Numbers'
  <2>1. db[e.table].number \in Nat /\ e.number <= db[e.table].number
    BY <1>2, <1>3, EntriesType DEF Committed
  <2>2. \A i \in 1 .. Len(state[e.table]) : state[e.table][i] <= db[e.table].number
    BY <1>3 DEF Numbers
  <2>3. \A i \in 1 .. Len(state'[e.table]) : state'[e.table][i] <= db[e.table].number
    BY <1>2, <1>3, <1>5, <2>1, <2>2, AppliedBounded
  <2>4. \A t \in Tables : \A i \in 1 .. Len(state'[t]) : state'[t][i] <= db[t].number
    BY <1>5, <2>3 DEF Numbers
  <2> QED
    BY <1>1, <2>4 DEF Numbers, Committed
<1>9. Progress'
  BY <1>1 DEF Progress
<1>10. RowFound'
  <2> SUFFICES ASSUME NEW t \in Listed \ reborn, db[t].op \in {"add", "update"}
               PROVE  state'[t] # <<>> \/ AddUnderWay(t)'
    BY <1>1 DEF RowFound
  <2>1. t \in Tables /\ (state[t] # <<>> \/ AddUnderWay(t))
    BY <1>1, TablesAssumption DEF RowFound, Fetched
  <2>2. AddUnderWay(t) => AddUnderWay(t)' \/ (e.table = t /\ e.op = "add")
    BY <1>1, <1>4, <2>1 DEF AddUnderWay, AddIn
  <2>3. CASE e.table # t
    BY <1>5, <2>1, <2>2, <2>3
  <2>4. CASE e.table = t
    <3>1. e.op # "remove"
      BY <1>2, <2>4 DEF Committed
    <3>2. e.op # "add" /\ ~AddUnderWay(t)' => state[t] # <<>>
      BY <2>1, <2>2
    <3>3. ~AddUnderWay(t)' => Applied(state[t], e) # <<>>
      BY <1>2, <1>3, <2>4, <3>1, <3>2, AppliedNonempty
    <3> QED
      BY <1>5, <2>4, <3>3
  <2> QED
    BY <2>3, <2>4
<1>11. CurrentUnlessPending'
  <2> SUFFICES ASSUME NEW t \in Tables \ Raced', published[t] = db[t].number,
                      db[t].op # "partial", ~Pending(t)'
               PROVE  Shown(t)' = Entries(t)
    BY <1>1 DEF CurrentUnlessPending, Entries
  <2>1. t \notin Raced /\ t \notin repeated' /\ (t \in ignored' => t \notin reborn) /\ Fetched(t)
    BY <1>1 DEF Fetched
  <2>2. /\ ~Has(channel, t) /\ ~Has(queue, t) /\ ~Has(batch', t)
        /\ \A w \in Writers : ~(writer[w] # <<>> /\ writer[w].table = t)
    BY <1>1 DEF Pending, Has
  <2>3. CASE e.table # t
    <3>1. ~Pending(t)
      BY <1>4, <2>2, <2>3 DEF Pending
    <3>2. state'[t] = state[t]
      BY <1>5, <2>3
    <3> QED
      BY <2>1, <3>1, <3>2 DEF CurrentUnlessPending, Shown
  <2>4. CASE e.table = t
    <3>1. e.number = db[t].number
      BY <1>4, <2>2, <2>4 DEF LastPublished
    <3>2. e = db[t] /\ Entries(t) = Handled(e)
      BY <1>2, <2>4, <3>1, CommittedLast
    <3>3. Len(state[t]) <= 1 \/ e.op \in {"set", "partial"}
      <4>1. t \in Listed => ~(Len(state[t]) > 1)
        BY <1>1, <2>1, <2>4
      <4>2. Len(state[t]) \in Nat
        BY <1>3, <2>4, LenProperties
      <4>3. t \in Listed => Len(state[t]) <= 1
        BY <4>1, <4>2
      <4> QED
        BY <1>2, <2>4, <4>3 DEF Committed
    <3>4. e.op = "update" => state[t] # <<>>
      <4> SUFFICES ASSUME e.op = "update" PROVE state[t] # <<>>
        OBVIOUS
      <4>1. t \in Listed /\ (t \in reborn => state[t] # <<>>)
        BY <1>1, <1>2, <2>1, <2>4 DEF Committed
      <4>2. ~AddUnderWay(t)
        <5>1. ~AddIn(channel, t) /\ ~AddIn(queue, t) /\ ~AddIn(batch', t)
          BY <2>2 DEF Has, AddIn
        <5> QED
          BY <1>4, <2>2, <5>1 DEF AddUnderWay
      <4> QED
        BY <1>1, <2>1, <3>2, <4>1, <4>2 DEF RowFound
    <3> QED
      BY <1>2, <1>3, <1>5, <2>4, <3>2, <3>3, <3>4, AppliedOfOne
  <2> QED
    BY <2>3, <2>4
<1> QED
  BY <1>6, <1>7, <1>8, <1>9, <1>10, <1>11
---------------------------------------------------------------------------
\* A client whose registration is over, and that has handled everything, shows
\* what the database has, in every table no race was lost in: not an early table
\* that changed before the queue was there, nor one whose last changes were
\* published in the wrong order, whose row was there twice, whose row an edit
\* brought back and the registration ignored, or whose value was computed from
\* one that another request was replacing.
THEOREM EndsCurrent == Spec => []CurrentButForRaces
<1>1. Init => RegistrationInv
  BY InitInv
<1>2. RegistrationInv /\ ReadRows /\ TypeOK' /\ [Next]_vars => RegistrationInv'
  <2> SUFFICES ASSUME RegistrationInv, ReadRows, TypeOK', [Next]_vars PROVE RegistrationInv'
    OBVIOUS
  <2>1. CASE UNCHANGED vars
    BY <2>1, UnchangedInv DEF vars, database
  <2>2. ASSUME NEW w \in Writers, NEW t \in Tables, Reads(w, t) PROVE RegistrationInv'
    BY <2>2, UnchangedInv DEF Reads
  <2> QED
    BY <2>1, <2>2, CommitInv, PublishInv, DeliverInv, AuthenticateInv, AllocateQueueInv, FetchInv,
       GetEventsInv, ApplyNextInv, ApplyRaisesInv, RespondInv, ClientHandlesInv DEF Next
<1>3. RegistrationInv => CurrentButForRaces
  <2> SUFFICES ASSUME RegistrationInv, Settled, NEW t \in Tables \ Raced,
                      published[t] = db[t].number, db[t].op # "partial"
               PROVE  Shown(t) = Entries(t)
    BY DEF CurrentButForRaces, Raced
  <2>1. phase = "done" /\ unread = {} /\ channel = <<>> /\ queue = <<>> /\ batch = <<>>
    BY DEF Settled, RegistrationInv, TypeOK, Progress
  <2>2. Fetched(t) /\ ~Pending(t)
    BY <2>1, NothingInEmpty DEF Fetched, Pending, Settled
  <2> QED
    BY <2>2 DEF RegistrationInv, CurrentUnlessPending
<1> QED
  BY <1>1, <1>2, <1>3, TypeCorrect, ReadsRows, PTL DEF Spec
===========================================================================
