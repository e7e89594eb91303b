--------------------------- MODULE RegisterEvents ---------------------------
(***************************************************************************)
(* Registration: do_events_register allocates an event queue, fetches the  *)
(* initial state table by table, and applies the events queued meanwhile,  *)
(* beside requests that change the tables and publish what they changed.   *)
(*                                                                         *)
(* One client and one row of each table.  A row is told by the number of   *)
(* the change that made it what it is; a table's part of the state is the  *)
(* sequence of its entries for that row, of which there may be too many.   *)
(* The path of the events is EventStream's: here nothing is lost on it.    *)
(***************************************************************************)
EXTENDS Integers, SequencesExt, FiniteSetsExt

CONSTANTS
  Tables,     \* parts of the state
  Early,      \* those taken from the request's user_profile: user_settings
  Listed,     \* those kept as lists of rows: saved_snippets
  Asserted,   \* lists whose rows must be found: drafts
              \* the others are values computed from what is there: alert words
  Writers,    \* requests that change tables
  MaxChanges  \* bound: changes of all tables together

ASSUME TablesAssumption ==
  Early \subseteq Tables /\ Listed \subseteq Tables \ Early /\ Asserted \subseteq Listed
ASSUME BoundAssumption == MaxChanges \in Nat

VARIABLES
  db,         \* the last committed change of each table
  read,       \* what each writer has read and is going to change
  writer,     \* the change each writer has committed and not published
  channel,    \* changes published, on their way to the queue
  published,  \* number of the change of each table published last
  phase,      \* of the registration
  unread,     \* tables still to be fetched
  state,      \* the state fetched, then the client's: entries of each table
  queue,      \* the events in the client's queue
  batch,      \* those that are being applied to the state
  missed,     \* history: tables changed between their reading and the queue
  repeated,   \* history: tables that had two entries of their row when an
              \* event was applied
  reborn,     \* history: tables whose row an edit saved after its deletion
  ignored     \* history: tables in which an update found no row to be applied to

database == <<db, read, writer, reborn>>

registration == <<phase, unread, state, batch, missed, repeated, ignored>>

vars == <<database, channel, published, queue, registration>>

Change ==
  [table: Tables, op: {"none", "set", "partial", "add", "update", "remove"}, number: Nat]

Read == [table: Tables, number: Nat]

Phases == {"start", "requested", "fetching", "applying", "done"}

TypeOK ==
  /\ db \in [Tables -> Change]
  /\ read \in [Writers -> Read \cup {<<>>}]
  /\ writer \in [Writers -> Change \cup {<<>>}]
  /\ channel \in Seq(Change)
  /\ published \in [Tables -> Nat]
  /\ phase \in Phases
  /\ unread \subseteq Tables
  /\ state \in [Tables -> Seq(Nat)]
  /\ queue \in Seq(Change)
  /\ batch \in Seq(Change)
  /\ missed \subseteq Early
  /\ repeated \subseteq Listed /\ reborn \subseteq Listed /\ ignored \subseteq Listed
  /\ phase \in {"applying", "done"} => unread = {}

Init ==
  /\ db = [t \in Tables |-> [table |-> t, op |-> "none", number |-> 0]]
  /\ read = [w \in Writers |-> <<>>] /\ writer = [w \in Writers |-> <<>>]
  /\ channel = <<>>
  /\ published = [t \in Tables |-> 0]
  /\ phase = "start"
  /\ unread = Tables
  /\ state = [t \in Tables |-> <<>>]
  /\ queue = <<>>
  /\ batch = <<>>
  /\ missed = {} /\ repeated = {} /\ reborn = {} /\ ignored = {}
---------------------------------------------------------------------------
(* Writers *)

\* An edit or a deletion gets its row first; alert words are read back in the
\* transaction that changes them.  Nothing is locked.
Reads(w, t) ==
  /\ read[w] = <<>> /\ writer[w] = <<>> /\ t \notin Early
  /\ t \in Listed => db[t].op \notin {"none", "remove"}
  /\ read' = [read EXCEPT ![w] = [table |-> t, number |-> db[t].number]]
  /\ UNCHANGED <<db, writer, reborn, channel, published, queue, registration>>

HasRead(w, t) == read[w] # <<>> /\ read[w].table = t

\* What writer w can do to table t.  A row is added once; save() of a row that is
\* gone by then inserts it again, delete() of one deletes nothing, and both publish
\* their events.  A setting is written as it is given, a computed value lacks what
\* was committed after it was read.
Ops(w, t) ==
  IF t \in Early THEN {"set"}
  ELSE IF t \in Listed
  THEN IF HasRead(w, t) THEN {"update", "remove"}
       ELSE IF db[t].op = "none" THEN {"add"} ELSE {}
  ELSE IF ~HasRead(w, t) THEN {}
  ELSE IF read[w].number = db[t].number THEN {"set"} ELSE {"partial"}

Commit(w, t) ==
  /\ writer[w] = <<>> /\ MapThenSumSet(LAMBDA u : db[u].number, Tables) < MaxChanges
  /\ \E op \in Ops(w, t) :
       LET change == [table |-> t, op |-> op, number |-> db[t].number + 1] IN
       /\ db' = [db EXCEPT ![t] = change] /\ writer' = [writer EXCEPT ![w] = change]
       /\ reborn' = reborn \cup {u \in {t} : op = "update" /\ db[t].op = "remove"}
  /\ read' = [read EXCEPT ![w] = <<>>]
  /\ UNCHANGED <<channel, published, queue, registration>>

\* send_event_on_commit: after the commit, and not in the order of the commits
\* of other requests.
Publish(w) ==
  /\ writer[w] # <<>>
  /\ channel' = Append(channel, writer[w])
  /\ published' = [published EXCEPT ![writer[w].table] = writer[w].number]
  /\ writer' = [writer EXCEPT ![w] = <<>>]
  /\ UNCHANGED <<db, read, reborn, queue, registration>>

Misses(t, e) ==
  phase = "requested" /\ e.table = t /\ \A i \in 1 .. Len(state[t]) : state[t][i] < e.number

\* process_event, for a client that has a queue or has none yet.
Deliver ==
  /\ channel # <<>>
  /\ channel' = Tail(channel)
  /\ IF phase \in {"fetching", "applying", "done"}
     THEN queue' = Append(queue, Head(channel)) /\ UNCHANGED missed
     ELSE missed' = missed \cup {t \in Early : Misses(t, Head(channel))} /\ UNCHANGED queue
  /\ UNCHANGED <<database, published, phase, unread, state, batch, repeated, ignored>>
---------------------------------------------------------------------------
(* The registration *)

\* The entries of a table as the database has them.
Entries(t) ==
  IF db[t].op \in {"none", "remove"} THEN <<>> ELSE <<db[t].number>>

\* Authentication loads the user_profile that user_settings are taken from.
Authenticate ==
  /\ phase = "start"
  /\ phase' = "requested"
  /\ state' = [t \in Tables |-> IF t \in Early THEN Entries(t) ELSE <<>>]
  /\ unread' = Tables \ Early
  /\ missed' = {} /\ repeated' = {} /\ ignored' = {}
  /\ UNCHANGED <<database, channel, published, queue, batch>>

AllocateQueue ==
  /\ phase = "requested"
  /\ phase' = "fetching"
  /\ queue' = <<>>
  /\ UNCHANGED <<database, channel, published, unread, state, batch, missed, repeated, ignored>>

\* Mutant: the state is fetched before the queue is allocated.
FetchesAtOnce == phase \in {"requested", "fetching"}

Fetches == phase = "fetching"

Fetch(t) ==
  /\ Fetches /\ t \in unread
  /\ state' = [state EXCEPT ![t] = Entries(t)]
  /\ unread' = unread \ {t}
  /\ UNCHANGED <<database, channel, published, phase, queue, batch, missed, repeated, ignored>>

\* Mutant: the events are asked for before everything is fetched.
AsksAtOnce == phase = "fetching"

Asks == phase = "fetching" /\ unread = {}

\* get_user_events; the client's first poll acknowledges what this returned.
GetEvents ==
  /\ Asks
  /\ phase' = "applying"
  /\ batch' = queue /\ queue' = <<>>
  /\ UNCHANGED <<database, channel, published, unread, state, missed, repeated, ignored>>

\* apply_event: an added row is appended whether it is there or not; an update
\* or a removal is done to the first entry there is.  A value that lacks words is
\* none that the table has had.
Applied(entries, e) ==
  CASE e.op = "set" -> <<e.number>>
    [] e.op = "partial" -> <<0>>
    [] e.op = "add" -> Append(entries, e.number)
    [] e.op = "update" -> IF entries = <<>> THEN <<>> ELSE [entries EXCEPT ![1] = e.number]
    [] OTHER -> IF entries = <<>> THEN <<>> ELSE Tail(entries)

\* The assertion that the draft to update or to remove is in the list.
AssertionFails(e) ==
  e.table \in Asserted /\ e.op \in {"update", "remove"} /\ state[e.table] = <<>>

ApplyNext ==
  /\ phase = "applying" /\ batch # <<>>
  /\ LET e == Head(batch) IN
       /\ ~AssertionFails(e)
       /\ state' = [state EXCEPT ![e.table] = Applied(@, e)]
       /\ repeated' = repeated \cup {t \in Listed : t = e.table /\ Len(state[t]) > 1}
       /\ ignored' = ignored \cup {t \in Listed : t = e.table /\ e.op = "update" /\ state[t] = <<>>}
  /\ batch' = Tail(batch)
  /\ UNCHANGED <<database, channel, published, phase, unread, queue, missed>>

\* The request ends in an error, and the client makes another; nobody polls
\* the queue of the first.
ApplyRaises ==
  /\ phase = "applying" /\ batch # <<>> /\ AssertionFails(Head(batch))
  /\ phase' = "start"
  /\ batch' = <<>> /\ queue' = <<>>
  /\ UNCHANGED <<database, channel, published, unread, state, missed, repeated, ignored>>

Respond ==
  /\ phase = "applying" /\ batch = <<>>
  /\ phase' = "done"
  /\ UNCHANGED <<database, channel, published, unread, state, batch, queue, missed, repeated, ignored>>

\* The client has its rows in a Map by id, made from the list: the last entry
\* of a row is the one it shows.
Shown(t) == IF state[t] = <<>> THEN <<>> ELSE <<Last(state[t])>>

Handled(e) ==
  CASE e.op = "remove" -> <<>> [] e.op = "partial" -> <<0>> [] OTHER -> <<e.number>>

ClientHandles ==
  /\ phase = "done" /\ queue # <<>>
  /\ state' = [state EXCEPT ![Head(queue).table] = Handled(Head(queue))]
  /\ queue' = Tail(queue)
  /\ UNCHANGED <<database, channel, published, phase, unread, batch, missed, repeated, ignored>>
---------------------------------------------------------------------------
Next ==
  \/ \E w \in Writers : Publish(w) \/ \E t \in Tables : Reads(w, t) \/ Commit(w, t)
  \/ Deliver \/ Authenticate \/ AllocateQueue
  \/ \E t \in Tables : Fetch(t)
  \/ GetEvents \/ ApplyNext \/ ApplyRaises \/ Respond \/ ClientHandles

Spec == Init /\ [][Next]_vars
---------------------------------------------------------------------------
Settled ==
  /\ phase = "done" /\ queue = <<>> /\ channel = <<>>
  /\ \A w \in Writers : writer[w] = <<>>

\* "A more complicated algorithm that can produce the atomic result from
\* non-atomic subroutines": when everything published has been handled, the
\* client shows what the database has.  (Not so, see the next property.)
ClientCurrent == Settled => \A t \in Tables : Shown(t) = Entries(t)

\* The same, but for five races: early tables changed before the queue was there,
\* tables where an event was applied to a row that was there twice, or an update to
\* none after an edit had brought it back, tables whose last two changes were
\* published in the wrong order, and values computed from others than the last.
CurrentButForRaces ==
  Settled =>
    \A t \in Tables \ (missed \cup repeated \cup (ignored \cap reborn)) :
      published[t] = db[t].number /\ db[t].op # "partial" => Shown(t) = Entries(t)
===========================================================================
