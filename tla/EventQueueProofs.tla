-------------------------- MODULE EventQueueProofs --------------------------
(***************************************************************************)
(* Compression of flag events preserves payloads and, but for messages     *)
(* that move both ways, flags: the properties of FlagSync for every set of *)
(* templates and any number of events.  And when a queue expires: those of *)
(* QueueExpiry for all timeouts, heartbeats and delays.                    *)
(*                                                                         *)
(* The argument about FlagSync.  What the client has received, what its    *)
(* next acknowledgement leaves in the queue and what is held back as a     *)
(* virtual event are, one after the other and type by type, the log        *)
(* (PayloadKept).  contents() moves the held part behind the queued one:   *)
(* a virtual event has a later id than the events of its type in the queue *)
(* (IdsOrdered), so it is merged in after them (MergePayload), and a later *)
(* id than what was acknowledged (IdsRecent), so it never lands in front   *)
(* of it (MergedPrefix).                                                   *)
(*                                                                         *)
(* Where nothing is compressed, the operations on a queue are those of     *)
(* EventLog on a log, so the queue is one (OperationsAreLogOperations,     *)
(* UncompressedQueueIsLog), as EventStream has it.                         *)
(***************************************************************************)
EXTENDS FlagSync, EventLog, QueueExpiry, SequenceTheorems, FiniteSetTheorems,
        WellFoundedInduction, TLAPS

\* What push puts into a queue.
QueuedEvent ==
  [id : Nat, type : STRING, op : STRING, flag : STRING, all : BOOLEAN,
   messages : Seq(Int)]

\* What a payload is taken from: templates, in the log, and queued events.
Item == Templates \cup QueuedEvent

\* The fields of an EventQueue.
IsQueue(q) ==
  DOMAIN q = {"queue", "next_event_id", "newest_pruned_id", "virtual_events"}

\* What an event queue is made of, whatever its ids.
QueueShape(q) ==
  /\ q.queue \in Seq(QueuedEvent)
  /\ IsFiniteSet(DOMAIN q.virtual_events)
  /\ \A t \in DOMAIN q.virtual_events : q.virtual_events[t] \in QueuedEvent

\* The payload of one type that waits as a virtual event.
Held(q, fullType) ==
  IF fullType \in DOMAIN q.virtual_events
  THEN q.virtual_events[fullType].messages ELSE <<>>

\* The queue has increasing ids.  A virtual event has an id of its own, above
\* those of its type in the queue, which were merged before it began.
IdsOrdered(q) ==
  /\ \A i, j \in DOMAIN q.queue : i < j => q.queue[i].id < q.queue[j].id
  /\ \A t \in DOMAIN q.virtual_events :
       LET event == q.virtual_events[t]
       IN  /\ compute_full_event_type(event) = t
           /\ \A i \in DOMAIN q.queue :
                /\ q.queue[i].id # event.id
                /\ compute_full_event_type(q.queue[i]) = t => q.queue[i].id < event.id
           /\ \A u \in DOMAIN q.virtual_events :
                q.virtual_events[u].id = event.id => u = t

\* Ids in the queue are newer than what was pruned; virtual events are newer
\* than all that the client has seen, since to be served is to be merged.
IdsRecent ==
  /\ \A i \in DOMAIN event_queue.queue :
       event_queue.queue[i].id \in event_queue.newest_pruned_id + 1 .. Len(log) - 1
  /\ \A t \in DOMAIN event_queue.virtual_events :
       event_queue.virtual_events[t].id \in last_event_id + 1 .. Len(log) - 1

\* What the client acknowledges was pruned last or is still in the queue.
AcknowledgedKnown ==
  /\ event_queue.newest_pruned_id <= last_event_id
  /\ \/ last_event_id = event_queue.newest_pruned_id
     \/ \E i \in DOMAIN event_queue.queue : event_queue.queue[i].id = last_event_id

\* Types, and that ids are given out in the order of the log.
SyncTypes ==
  /\ IsQueue(event_queue) /\ QueueShape(event_queue)
  /\ event_queue.next_event_id = Len(log)
  /\ event_queue.newest_pruned_id \in -1 .. Len(log) - 1
  /\ last_event_id \in -1 .. Len(log) - 1
  /\ log \in Seq(Templates) /\ Len(log) <= MaxEvents
  /\ received \in Seq(QueuedEvent)
  /\ \A t \in DOMAIN event_queue.virtual_events : Compressible(t)

\* Received, not acknowledged, held: one after the other, what was pushed.  For
\* any type there might be, not only those that are pushed.
PayloadKept ==
  \A t : (Payload(received, t) \o Payload(prune(event_queue, last_event_id).queue, t))
            \o Held(event_queue, t) = Payload(log, t)

\* The inductive invariant.
SyncInv ==
  /\ SyncTypes /\ IdsOrdered(event_queue) /\ IdsRecent /\ AcknowledgedKnown
  /\ PayloadKept
---------------------------------------------------------------------------
(* Induction over the naturals by their least element; FlattenSeq.       *)

Less == {p \in Nat \X Nat : p[1] < p[2]}

\* A set of naturals has a least element.
LEMMA LeastNumber ==
  ASSUME NEW T \in SUBSET Nat, T # {}
  PROVE  \E m \in T : \A n \in T : m <= n
<1>1. Less = OpToRel(<, Nat)
  BY Zenon DEF Less, OpToRel
<1>2. IsWellFoundedOn(Less, Nat)
  BY <1>1, NatLessThanWellFounded
<1>3. \E m \in T : \A n \in T : <<n, m>> \notin Less
  BY <1>2, WFMin
<1>4. \A m, n \in Nat : <<n, m>> \notin Less => m <= n
  BY DEF Less
<1> QED
  BY <1>3, <1>4

\* Induction, as a statement about a set of naturals: the library's theorem
\* takes an operator.
LEMMA NumberInduction ==
  ASSUME NEW T \in SUBSET Nat, 0 \in T, \A n \in T : n + 1 \in T
  PROVE  T = Nat
<1> SUFFICES ASSUME T # Nat PROVE FALSE
  OBVIOUS
<1>1. PICK m \in Nat \ T : \A n \in Nat \ T : m <= n
  BY LeastNumber
<1>2. m # 0 /\ m - 1 \in T
  BY <1>1
<1> QED
  BY <1>1, <1>2

\* flat satisfies the equation of FlattenSeq(ss) up to position n.
FlatUpTo(flat, ss, n) ==
  flat = [i \in 1 .. n |-> IF i = 1 THEN ss[i] ELSE flat[i - 1] \o ss[i]]

\* The function of partial concatenations that FlattenSeq chooses exists ...
LEMMA FlatExists ==
  ASSUME NEW S, NEW ss \in Seq(Seq(S))
  PROVE  \A n \in Nat : n <= Len(ss) =>
           \E flat \in [1 .. n -> Seq(S)] : FlatUpTo(flat, ss, n)
<1> DEFINE T == {n \in Nat : n <= Len(ss) =>
                   \E flat \in [1 .. n -> Seq(S)] : FlatUpTo(flat, ss, n)}
<1>1. 0 \in T
  <2> DEFINE flat == [i \in 1 .. 0 |-> <<>>]
  <2>1. FlatUpTo(flat, ss, 0) /\ flat \in [1 .. 0 -> Seq(S)]
    BY DEF FlatUpTo
  <2> QED
    BY <2>1
<1>2. ASSUME NEW n \in T
      PROVE  n + 1 \in T
  <2> SUFFICES ASSUME n + 1 <= Len(ss)
               PROVE  \E flat \in [1 .. n + 1 -> Seq(S)] : FlatUpTo(flat, ss, n + 1)
    OBVIOUS
  <2>1. n \in Nat /\ n <= Len(ss) /\ ss[n + 1] \in Seq(S)
    BY ElementOfSeq, LenProperties
  <2>2. PICK flat \in [1 .. n -> Seq(S)] : FlatUpTo(flat, ss, n)
    BY <1>2, <2>1
  <2> DEFINE last == IF n = 0 THEN ss[n + 1] ELSE flat[n] \o ss[n + 1]
             longer == [i \in 1 .. n + 1 |-> IF i = n + 1 THEN last ELSE flat[i]]
  <2>3. last \in Seq(S)
    <3>1. CASE n = 0
      BY <2>1, <3>1
    <3>2. CASE n # 0
      <4>1. flat[n] \in Seq(S)
        BY <2>1, <2>2, <3>2
      <4> QED
        BY <2>1, <3>2, <4>1, ConcatProperties
    <3> QED
      BY <3>1, <3>2
  <2> HIDE DEF last
  <2>4. longer \in [1 .. n + 1 -> Seq(S)]
    BY <2>1, <2>2, <2>3
  <2>5. \A i \in 1 .. n + 1 :
          longer[i] = IF i = 1 THEN ss[i] ELSE longer[i - 1] \o ss[i]
    <3> TAKE i \in 1 .. n + 1
    <3>1. CASE i = n + 1
      BY <2>1, <3>1 DEF last
    <3>2. CASE i # n + 1
      <4>1. i \in 1 .. n /\ longer[i] = flat[i] /\ (i # 1 => longer[i - 1] = flat[i - 1])
        BY <2>1, <3>2
      <4> QED
        BY <2>2, <4>1 DEF FlatUpTo
    <3> QED
      BY <3>1, <3>2
  <2>6. FlatUpTo(longer, ss, n + 1)
    BY <2>5 DEF FlatUpTo
  <2> QED
    BY <2>4, <2>6
<1> HIDE DEF T
<1>3. T = Nat
  <2>1. T \subseteq Nat
    BY DEF T
  <2> QED
    BY <1>1, <1>2, <2>1, NumberInduction
<1> QED
  BY <1>3 DEF T

\* ... agrees with that of any longer sequence of sequences ...
LEMMA FlatUnique ==
  ASSUME NEW f, NEW g, NEW ss, NEW rr, NEW n \in Nat, NEW m \in Nat, n <= m,
         FlatUpTo(f, ss, n), FlatUpTo(g, rr, m), \A i \in 1 .. n : ss[i] = rr[i]
  PROVE  \A i \in 1 .. n : f[i] = g[i]
<1> DEFINE T == {k \in Nat : k + 1 <= n => f[k + 1] = g[k + 1]}
<1>0. /\ \A i \in 1 .. n : f[i] = IF i = 1 THEN ss[i] ELSE f[i - 1] \o ss[i]
      /\ \A i \in 1 .. n : g[i] = IF i = 1 THEN ss[i] ELSE g[i - 1] \o ss[i]
  <2>1. \A i \in 1 .. n : f[i] = IF i = 1 THEN ss[i] ELSE f[i - 1] \o ss[i]
    BY DEF FlatUpTo
  <2>2. \A i \in 1 .. m : g[i] = IF i = 1 THEN rr[i] ELSE g[i - 1] \o rr[i]
    BY DEF FlatUpTo
  <2> QED
    BY <2>1, <2>2
<1>1. 0 \in T
  BY <1>0
<1>2. ASSUME NEW k \in T PROVE k + 1 \in T
  BY <1>0, <1>2
<1>3. T = Nat
  <2>1. T \subseteq Nat
    OBVIOUS
  <2> HIDE DEF T
  <2> QED
    BY <1>1, <1>2, <2>1, NumberInduction
<1> QED
  <2> TAKE i \in 1 .. n
  <2>1. i - 1 \in T /\ (i - 1) + 1 = i
    <3> HIDE DEF T
    <3> QED
      BY <1>3
  <2> QED
    BY <2>1

\* What FlattenSeq of a sequence that is not empty is.
LEMMA FlatFacts ==
  ASSUME NEW S, NEW ss \in Seq(Seq(S)), ss # <<>>
  PROVE  \E flat \in [1 .. Len(ss) -> Seq(S)] :
           FlatUpTo(flat, ss, Len(ss)) /\ FlattenSeq(ss) = flat[Len(ss)]
<1> DEFINE f == CHOOSE f : FlatUpTo(f, ss, Len(ss))
<1>1. Len(ss) \in Nat /\ Len(ss) # 0
  BY EmptySeq, LenProperties
<1>2. PICK flat \in [1 .. Len(ss) -> Seq(S)] : FlatUpTo(flat, ss, Len(ss))
  <2>1. Len(ss) <= Len(ss)
    BY <1>1
  <2> QED
    BY <1>1, <2>1, FlatExists, Zenon
<1>3. FlatUpTo(f, ss, Len(ss))
  BY <1>2
<1>4. FlattenSeq(ss) = f[Len(ss)]
  BY <1>1, Zenon DEF FlattenSeq, FlatUpTo
<1> HIDE DEF f
<1>5. \A i \in 1 .. Len(ss) : f[i] = flat[i]
  BY <1>1, <1>2, <1>3, FlatUnique
<1>6. FlattenSeq(ss) = flat[Len(ss)]
  BY <1>1, <1>4, <1>5
<1> QED
  BY <1>2, <1>6, Zenon

\* Nothing concatenated is the empty sequence.
LEMMA FlattenEmpty == FlattenSeq(<<>>) = <<>>
  BY EmptySeq DEF FlattenSeq

\* FlattenSeq of one more sequence.
LEMMA FlattenAppend ==
  ASSUME NEW S, NEW ss \in Seq(Seq(S)), NEW x \in Seq(S)
  PROVE  /\ FlattenSeq(ss) \in Seq(S)
         /\ FlattenSeq(Append(ss, x)) = FlattenSeq(ss) \o x
<1> DEFINE rr == Append(ss, x)
<1>1. /\ rr \in Seq(Seq(S)) /\ rr # <<>> /\ Len(ss) \in Nat /\ Len(rr) = Len(ss) + 1
      /\ \A i \in 1 .. Len(ss) : rr[i] = ss[i]
      /\ rr[Len(ss) + 1] = x
  BY AppendProperties, LenProperties
<1> HIDE DEF rr
<1>2. PICK g \in [1 .. Len(rr) -> Seq(S)] :
        FlatUpTo(g, rr, Len(rr)) /\ FlattenSeq(rr) = g[Len(rr)]
  BY <1>1, FlatFacts
<1>3. CASE ss = <<>>
  <2>1. Len(rr) = 1 /\ rr[1] = x /\ g[1] = rr[1]
    BY <1>1, <1>2, <1>3 DEF FlatUpTo
  <2>2. <<>> \o x = x /\ <<>> \in Seq(S)
    BY ConcatEmptySeq, EmptySeq
  <2> QED
    BY <1>2, <1>3, <2>1, <2>2, FlattenEmpty DEF rr
<1>4. CASE ss # <<>>
  <2>1. PICK f \in [1 .. Len(ss) -> Seq(S)] :
          FlatUpTo(f, ss, Len(ss)) /\ FlattenSeq(ss) = f[Len(ss)]
    BY <1>4, FlatFacts
  <2>2. Len(ss) # 0
    BY <1>4, EmptySeq
  <2>3. f[Len(ss)] = g[Len(ss)]
    <3>1. \A i \in 1 .. Len(ss) : f[i] = g[i]
      <4>1. Len(ss) \in Nat
        BY <1>1
      <4>2. Len(rr) \in Nat /\ Len(ss) <= Len(rr)
        BY <1>1
      <4>3. \A i \in 1 .. Len(ss) : ss[i] = rr[i]
        BY <1>1
      <4>4. FlatUpTo(f, ss, Len(ss))
        BY <2>1
      <4>5. FlatUpTo(g, rr, Len(rr))
        BY <1>2
      <4> QED
        BY ONLY <4>1, <4>2, <4>3, <4>4, <4>5, FlatUnique, SMTT(60)
    <3> QED
      BY <1>1, <2>2, <3>1
  <2>4. g[Len(rr)] = g[Len(ss)] \o x
    <3>1. \A i \in 1 .. Len(rr) : g[i] = IF i = 1 THEN rr[i] ELSE g[i - 1] \o rr[i]
      BY <1>2, Zenon DEF FlatUpTo
    <3>2. Len(rr) \in 1 .. Len(rr) /\ Len(rr) # 1 /\ Len(rr) - 1 = Len(ss) /\ rr[Len(rr)] = x
      BY <1>1, <2>2
    <3> QED
      BY <3>1, <3>2
  <2> QED
    BY <1>1, <1>2, <2>1, <2>2, <2>3, <2>4 DEF rr
<1> QED
  BY <1>3, <1>4
---------------------------------------------------------------------------
(* Payloads of sequences.                                                *)

\* A template and a queued event have their message ids in a sequence.
LEMMA ItemMessages == \A e \in Item : e.messages \in Seq(Int)
  BY TemplatesAssumption DEF Item, QueuedEvent

\* What one event contributes to the payload of a type.
Part(event, t) == IF compute_full_event_type(event) = t THEN event.messages ELSE <<>>

Parts(events, t) == [i \in 1 .. Len(events) |-> Part(events[i], t)]

\* A payload is the concatenation of what its events contribute.
LEMMA PartsFacts ==
  ASSUME NEW s \in Seq(Item), NEW t
  PROVE  /\ Payload(s, t) = FlattenSeq(Parts(s, t))
         /\ Parts(s, t) \in Seq(Seq(Int)) /\ Len(Parts(s, t)) = Len(s)
         /\ \A e \in Item : Part(e, t) \in Seq(Int)
<1>1. Payload(s, t) = FlattenSeq(Parts(s, t))
  BY DEF Payload, Parts, Part
<1>2. \A e \in Item : Part(e, t) \in Seq(Int)
  BY EmptySeq, ItemMessages DEF Part
<1>3. \A i \in 1 .. Len(s) : Part(s[i], t) \in Seq(Int)
  BY <1>2, ElementOfSeq
<1>4. Len(s) \in Nat
  BY LenProperties
<1>5. Parts(s, t) \in [1 .. Len(s) -> Seq(Int)]
  BY <1>3 DEF Parts
<1>6. Parts(s, t) \in Seq(Seq(Int)) /\ Len(Parts(s, t)) = Len(s)
  BY <1>4, <1>5
<1> QED
  BY <1>1, <1>2, <1>6

\* Payloads are concatenated in any grouping.
LEMMA PayloadAssociative ==
  \A x, y, z \in Seq(Int) : (x \o y) \o z = x \o (y \o z)
<1> TAKE x, y, z \in Seq(Int)
<1> QED
  BY ONLY x \in Seq(Int), y \in Seq(Int), z \in Seq(Int), ConcatAssociative

\* One more event adds what it contributes at the end of the payload.
LEMMA PayloadAppend ==
  ASSUME NEW s \in Seq(Item), NEW e \in Item, NEW t
  PROVE  /\ Payload(s, t) \in Seq(Int) /\ Part(e, t) \in Seq(Int)
         /\ Payload(Append(s, e), t) = Payload(s, t) \o Part(e, t)
<1>1. /\ Payload(s, t) = FlattenSeq(Parts(s, t)) /\ Parts(s, t) \in Seq(Seq(Int))
      /\ Part(e, t) \in Seq(Int) /\ Len(Parts(s, t)) = Len(s)
  BY PartsFacts, Zenon
<1>2. Append(s, e) \in Seq(Item)
  BY AppendProperties
<1>3. /\ Payload(Append(s, e), t) = FlattenSeq(Parts(Append(s, e), t))
      /\ Parts(Append(s, e), t) \in Seq(Seq(Int))
  BY <1>2, PartsFacts, Zenon
<1>4. Parts(Append(s, e), t) = Append(Parts(s, t), Part(e, t))
  <2> DEFINE a == Append(s, e)
  <2>1. /\ Len(s) \in Nat /\ Len(a) = Len(s) + 1 /\ a[Len(s) + 1] = e
        /\ \A i \in 1 .. Len(s) : a[i] = s[i]
    BY AppendProperties, LenProperties
  <2> HIDE DEF a
  <2>2. Parts(a, t) = [i \in 1 .. Len(s) + 1 |-> IF i = Len(s) + 1 THEN Part(e, t) ELSE Part(s[i], t)]
    BY <2>1 DEF Parts
  <2>3. /\ Append(Parts(s, t), Part(e, t)) \in Seq(Seq(Int))
        /\ Len(Append(Parts(s, t), Part(e, t))) = Len(s) + 1
        /\ \A i \in 1 .. Len(s) : Append(Parts(s, t), Part(e, t))[i] = Parts(s, t)[i]
        /\ Append(Parts(s, t), Part(e, t))[Len(s) + 1] = Part(e, t)
    BY <1>1, AppendProperties
  <2>4. \A i \in 1 .. Len(s) : Parts(s, t)[i] = Part(s[i], t)
    BY DEF Parts
  <2>5. Parts(a, t) \in Seq(Seq(Int))
    BY <1>3 DEF a
  <2>6. Len(Parts(a, t)) = Len(s) + 1
    BY <2>1, <2>2, <2>5, LenProperties
  <2>7. \A i \in 1 .. Len(s) + 1 : Parts(a, t)[i] = Append(Parts(s, t), Part(e, t))[i]
    BY <2>1, <2>2, <2>3, <2>4
  <2>8. Parts(a, t) = Append(Parts(s, t), Part(e, t))
    BY <2>3, <2>5, <2>6, <2>7, SeqEqual
  <2> QED
    BY <2>8 DEF a
<1>5. /\ FlattenSeq(Parts(s, t)) \in Seq(Int)
      /\ FlattenSeq(Append(Parts(s, t), Part(e, t))) = FlattenSeq(Parts(s, t)) \o Part(e, t)
  BY <1>1, FlattenAppend
<1> QED
  BY <1>1, <1>3, <1>4, <1>5

\* No events have no payload.
LEMMA PayloadEmpty ==
  ASSUME NEW t
  PROVE  Payload(<<>>, t) = <<>>
<1>1. [i \in 1 .. Len(<<>>) |-> Part(<<>>[i], t)] = <<>>
  BY EmptySeq
<1> QED
  BY <1>1, FlattenEmpty DEF Payload, Part

\* A payload is a sequence of message ids.
LEMMA PayloadType ==
  ASSUME NEW s \in Seq(Item), NEW t
  PROVE  Payload(s, t) \in Seq(Int)
<1>1. CASE s = <<>>
  BY <1>1, PayloadEmpty, EmptySeq
<1>2. CASE s # <<>>
  <2>1. PICK front \in Seq(Item), e \in Item : s = Append(front, e)
    BY <1>2, SequenceEmptyOrAppend
  <2>2. /\ Payload(front, t) \in Seq(Int) /\ Part(e, t) \in Seq(Int)
        /\ Payload(s, t) = Payload(front, t) \o Part(e, t)
    BY <2>1, PayloadAppend, Zenon
  <2> QED
    BY <2>2, ConcatProperties
<1> QED
  BY <1>1, <1>2

\* The payload of two sequences, one after the other.
LEMMA PayloadConcat ==
  ASSUME NEW s \in Seq(Item), NEW r \in Seq(Item), NEW t
  PROVE  Payload(s \o r, t) = Payload(s, t) \o Payload(r, t)
<1> DEFINE T == {n \in Nat : \A u \in Seq(Item) : Len(u) = n =>
                   Payload(s \o u, t) = Payload(s, t) \o Payload(u, t)}
<1>1. 0 \in T
  <2> SUFFICES ASSUME NEW u \in Seq(Item), Len(u) = 0
               PROVE  Payload(s \o u, t) = Payload(s, t) \o Payload(u, t)
    OBVIOUS
  <2>1. u = <<>>
    BY EmptySeq
  <2>2. s \o u = s /\ Payload(u, t) = <<>>
    BY <2>1, ConcatEmptySeq, PayloadEmpty
  <2>3. Payload(s, t) \in Seq(Int)
    BY PayloadType
  <2> QED
    BY <2>2, <2>3, ConcatEmptySeq
<1>2. ASSUME NEW n \in T PROVE n + 1 \in T
  <2> SUFFICES ASSUME NEW u \in Seq(Item), Len(u) = n + 1
               PROVE  Payload(s \o u, t) = Payload(s, t) \o Payload(u, t)
    OBVIOUS
  <2>1. u # <<>>
    BY EmptySeq
  <2>2. PICK front \in Seq(Item), e \in Item : u = Append(front, e)
    BY <2>1, SequenceEmptyOrAppend
  <2>3. Len(front) = n
    BY <2>2, AppendProperties, LenProperties
  <2>4. Payload(s \o front, t) = Payload(s, t) \o Payload(front, t)
    BY <1>2, <2>3
  <2>5. s \o u = Append(s \o front, e) /\ s \o front \in Seq(Item)
    <3>1. u = front \o <<e>> /\ <<e>> \in Seq(Item)
      BY <2>2, AppendIsConcat
    <3>2. s \o front \in Seq(Item) /\ s \o u = (s \o front) \o <<e>>
      BY <3>1, ConcatAssociative, ConcatProperties
    <3> QED
      BY <3>2, AppendIsConcat
  <2>6. /\ Payload(s \o u, t) = Payload(s \o front, t) \o Part(e, t)
        /\ Part(e, t) \in Seq(Int)
    <3>1. /\ Payload(Append(s \o front, e), t) = Payload(s \o front, t) \o Part(e, t)
          /\ Part(e, t) \in Seq(Int)
      BY <2>5, PayloadAppend, Zenon
    <3> QED
      BY <2>5, <3>1, Zenon
  <2>7. Payload(u, t) = Payload(front, t) \o Part(e, t)
    <3>1. Payload(Append(front, e), t) = Payload(front, t) \o Part(e, t)
      BY <2>2, PayloadAppend, Zenon
    <3> QED
      BY <2>2, <3>1, Zenon
  <2>8. Payload(s, t) \in Seq(Int) /\ Payload(front, t) \in Seq(Int)
    BY PayloadType
  <2> QED
    <3> DEFINE x == Payload(s, t)
               y == Payload(front, t)
               z == Part(e, t)
    <3>1. (x \o y) \o z = x \o (y \o z)
      BY <2>6, <2>8, PayloadAssociative
    <3> HIDE DEF x, y, z
    <3>2. Payload(s \o u, t) = (x \o y) \o z /\ Payload(u, t) = y \o z
      BY <2>4, <2>6, <2>7 DEF x, y, z
    <3> QED
      BY <3>1, <3>2 DEF x
<1> HIDE DEF T
<1>3. T = Nat
  <2>1. T \subseteq Nat
    BY DEF T
  <2> QED
    BY <1>1, <1>2, <2>1, NumberInduction
<1>4. Len(r) \in T
  BY <1>3, LenProperties
<1> QED
  BY <1>4 DEF T

\* The messages in the payload of a type are those of the events of the type.
LEMMA PayloadElements ==
  ASSUME NEW s \in Seq(Item), NEW t, NEW m
  PROVE  m \in ToSet(Payload(s, t)) <=>
           \E i \in 1 .. Len(s) :
             compute_full_event_type(s[i]) = t /\ m \in ToSet(s[i].messages)
<1> DEFINE In(u) == \E i \in 1 .. Len(u) :
                      compute_full_event_type(u[i]) = t /\ m \in ToSet(u[i].messages)
           T == {n \in Nat : \A u \in Seq(Item) : Len(u) = n =>
                   (m \in ToSet(Payload(u, t)) <=> In(u))}
<1>1. 0 \in T
  <2> SUFFICES ASSUME NEW u \in Seq(Item), Len(u) = 0
               PROVE  m \in ToSet(Payload(u, t)) <=> In(u)
    OBVIOUS
  <2>1. u = <<>>
    BY EmptySeq
  <2>2. Payload(u, t) = <<>> /\ DOMAIN <<>> = {}
    BY <2>1, PayloadEmpty
  <2>3. m \notin ToSet(Payload(u, t))
    BY <2>2 DEF ToSet
  <2> QED
    BY <2>3
<1>2. ASSUME NEW n \in T PROVE n + 1 \in T
  <2> SUFFICES ASSUME NEW u \in Seq(Item), Len(u) = n + 1
               PROVE  m \in ToSet(Payload(u, t)) <=> In(u)
    OBVIOUS
  <2>1. u # <<>>
    BY EmptySeq
  <2>2. PICK front \in Seq(Item), e \in Item : u = Append(front, e)
    BY <2>1, SequenceEmptyOrAppend
  <2>3. /\ Len(front) = n /\ n \in Nat /\ u[n + 1] = e
        /\ \A i \in 1 .. n : u[i] = front[i]
    BY <2>2, AppendProperties, LenProperties
  <2>4. m \in ToSet(Payload(front, t)) <=> In(front)
    BY <1>2, <2>3
  <2>5. /\ Payload(u, t) = Payload(front, t) \o Part(e, t)
        /\ Payload(front, t) \in Seq(Int) /\ Part(e, t) \in Seq(Int)
    <3>1. /\ Payload(Append(front, e), t) = Payload(front, t) \o Part(e, t)
          /\ Payload(front, t) \in Seq(Int) /\ Part(e, t) \in Seq(Int)
      BY <2>2, PayloadAppend, Zenon
    <3> QED
      BY <2>2, <3>1, Zenon
  <2>6. m \in ToSet(Payload(u, t)) <=>
          m \in ToSet(Payload(front, t)) \/ m \in ToSet(Part(e, t))
    <3> DEFINE a == Payload(front, t)
               b == Part(e, t)
    <3>1. /\ a \o b \in Seq(Int) /\ Len(a \o b) = Len(a) + Len(b)
          /\ \A i \in 1 .. Len(a) + Len(b) :
               (a \o b)[i] = IF i <= Len(a) THEN a[i] ELSE b[i - Len(a)]
          /\ Len(a) \in Nat /\ Len(b) \in Nat
      BY <2>5, ConcatProperties, LenProperties
    <3> HIDE DEF a, b
    <3>2. \A z \in Seq(Int) : m \in ToSet(z) <=> \E i \in 1 .. Len(z) : z[i] = m
      BY DEF ToSet
    <3>3. m \in ToSet(a \o b) <=> \E i \in 1 .. Len(a) + Len(b) : (a \o b)[i] = m
      BY <3>1, <3>2
    <3>4. (\E i \in 1 .. Len(a) + Len(b) : (a \o b)[i] = m)
            <=> (\E i \in 1 .. Len(a) : a[i] = m) \/ (\E i \in 1 .. Len(b) : b[i] = m)
      <4>1. ASSUME NEW i \in 1 .. Len(b), b[i] = m
            PROVE  \E j \in 1 .. Len(a) + Len(b) : (a \o b)[j] = m
        <5>1. Len(a) + i \in 1 .. Len(a) + Len(b) /\ (a \o b)[Len(a) + i] = m
          BY <3>1, <4>1
        <5> QED
          BY <5>1
      <4>2. ASSUME NEW i \in 1 .. Len(a), a[i] = m
            PROVE  \E j \in 1 .. Len(a) + Len(b) : (a \o b)[j] = m
        BY <3>1, <4>2
      <4>3. ASSUME NEW i \in 1 .. Len(a) + Len(b), (a \o b)[i] = m
            PROVE  (\E j \in 1 .. Len(a) : a[j] = m) \/ (\E j \in 1 .. Len(b) : b[j] = m)
        BY <3>1, <4>3
      <4> QED
        BY <4>1, <4>2, <4>3
    <3>5. a \in Seq(Int) /\ b \in Seq(Int)
      BY <2>5 DEF a, b
    <3>6. m \in ToSet(a \o b) <=> m \in ToSet(a) \/ m \in ToSet(b)
      BY <3>2, <3>3, <3>4, <3>5
    <3> QED
      BY <2>5, <3>6 DEF a, b
  <2>7. m \in ToSet(Part(e, t)) <=>
          compute_full_event_type(e) = t /\ m \in ToSet(e.messages)
    <3>1. m \notin ToSet(<<>>)
      BY DEF ToSet
    <3> QED
      BY <3>1 DEF Part
  <2>8. In(u) <=> In(front) \/ (compute_full_event_type(e) = t /\ m \in ToSet(e.messages))
    <3> DEFINE Has(f) == compute_full_event_type(f) = t /\ m \in ToSet(f.messages)
    <3>1. In(u) <=> \E i \in 1 .. n + 1 : Has(u[i])
      OBVIOUS
    <3>2. In(front) <=> \E i \in 1 .. n : Has(front[i])
      BY <2>3
    <3> HIDE DEF Has, In
    <3>3. In(u) <=> In(front) \/ Has(e)
      BY <2>3, <3>1, <3>2
    <3> QED
      BY <3>3 DEF Has
  <2> QED
    BY <2>4, <2>6, <2>7, <2>8
<1> HIDE DEF T
<1>3. T = Nat
  <2>1. T \subseteq Nat
    BY DEF T
  <2> QED
    BY <1>1, <1>2, <2>1, NumberInduction
<1>4. Len(s) \in T
  BY <1>3, LenProperties
<1> QED
  BY <1>4 DEF T

\* If at most one event of a sequence has the type, the payload is its messages.
LEMMA PayloadOfNone ==
  ASSUME NEW s \in Seq(Item), NEW t,
         \A i \in 1 .. Len(s) : compute_full_event_type(s[i]) # t
  PROVE  Payload(s, t) = <<>>
<1>1. \A m : m \notin ToSet(Payload(s, t))
  <2> TAKE m
  <2>1. m \in ToSet(Payload(s, t)) <=>
          \E i \in 1 .. Len(s) :
             compute_full_event_type(s[i]) = t /\ m \in ToSet(s[i].messages)
    BY PayloadElements
  <2> QED
    BY <2>1
<1>2. Payload(s, t) \in Seq(Int)
  BY PayloadType
<1>3. \A z \in Seq(Int) : z # <<>> => z[1] \in ToSet(z)
  BY DEF ToSet
<1> QED
  BY <1>1, <1>2, <1>3

\* One event of the type: the payload is its messages.
LEMMA PayloadOfOne ==
  ASSUME NEW s \in Seq(Item), NEW t,
         NEW p \in 1 .. Len(s), compute_full_event_type(s[p]) = t,
         \A i \in 1 .. Len(s) : compute_full_event_type(s[i]) = t => i = p
  PROVE  Payload(s, t) = s[p].messages
<1> DEFINE a == SubSeq(s, 1, p - 1)
           b == SubSeq(s, p + 1, Len(s))
<1>0. Len(s) \in Nat /\ \A i \in 1 .. Len(s) : s[i] \in Item
  BY ElementOfSeq, LenProperties
<1>1. a \in Seq(Item) /\ Len(a) = p - 1 /\ \A i \in 1 .. p - 1 : a[i] = s[i]
  <2>1. /\ a \in Seq(Item) /\ Len(a) = IF 1 <= p - 1 THEN (p - 1) - 1 + 1 ELSE 0
        /\ \A i \in 1 .. (p - 1) - 1 + 1 : a[i] = s[1 + i - 1]
    BY <1>0, SubSeqProperties
  <2> QED
    BY <1>0, <2>1
<1>2. b \in Seq(Item) /\ Len(b) = Len(s) - p /\ \A i \in 1 .. Len(s) - p : b[i] = s[p + i]
  <2>1. /\ b \in Seq(Item) /\ Len(b) = IF p + 1 <= Len(s) THEN Len(s) - (p + 1) + 1 ELSE 0
        /\ \A i \in 1 .. Len(s) - (p + 1) + 1 : b[i] = s[(p + 1) + i - 1]
    BY <1>0, SubSeqProperties
  <2> QED
    BY <1>0, <2>1
<1>3. s = Append(a, s[p]) \o b
  <2> DEFINE c == Append(a, s[p])
  <2>1. c \in Seq(Item) /\ Len(c) = p /\ c[p] = s[p] /\ \A i \in 1 .. p - 1 : c[i] = s[i]
    BY <1>0, <1>1, AppendProperties
  <2> HIDE DEF a, b, c
  <2>2. /\ c \o b \in Seq(Item) /\ Len(c \o b) = Len(s)
        /\ \A i \in 1 .. Len(s) : (c \o b)[i] = IF i <= p THEN c[i] ELSE b[i - p]
    <3>1. b \in Seq(Item) /\ c \in Seq(Item) /\ Len(c) = p /\ Len(b) = Len(s) - p
      BY <1>2, <2>1
    <3>2. /\ c \o b \in Seq(Item) /\ Len(c \o b) = Len(c) + Len(b)
          /\ \A i \in 1 .. Len(c) + Len(b) :
               (c \o b)[i] = IF i <= Len(c) THEN c[i] ELSE b[i - Len(c)]
      BY ONLY <3>1, ConcatProperties
    <3> QED
      BY ONLY <1>0, <3>1, <3>2, p \in 1 .. Len(s)
  <2>3. \A i \in 1 .. Len(s) : (c \o b)[i] = s[i]
    <3> TAKE i \in 1 .. Len(s)
    <3>1. CASE i <= p
      <4>1. (c \o b)[i] = c[i]
        BY <2>2, <3>1
      <4>2. i = p \/ i \in 1 .. p - 1
        BY <3>1
      <4> QED
        BY <2>1, <4>1, <4>2
    <3>2. CASE i > p
      <4>1. i - p \in 1 .. Len(s) - p /\ p + (i - p) = i
        BY <1>0, <3>2
      <4> QED
        BY <1>2, <2>2, <3>2, <4>1
    <3>3. i <= p \/ i > p
      BY <1>0
    <3> QED
      BY <3>1, <3>2, <3>3
  <2>4. c \o b = s
    BY <2>2, <2>3, SeqEqual
  <2> QED
    BY <2>4 DEF c
<1> HIDE DEF a, b
<1>4. Payload(a, t) = <<>>
  <2>1. \A i \in 1 .. Len(a) : compute_full_event_type(a[i]) # t
    BY <1>0, <1>1
  <2> QED
    BY <1>1, <2>1, PayloadOfNone
<1>5. Payload(b, t) = <<>>
  <2>1. \A i \in 1 .. Len(b) : compute_full_event_type(b[i]) # t
    <3> TAKE i \in 1 .. Len(b)
    <3>1. p + i \in 1 .. Len(s) /\ p + i # p /\ b[i] = s[p + i]
      BY <1>0, <1>2
    <3> QED
      BY <3>1
  <2> QED
    BY <1>2, <2>1, PayloadOfNone
<1>6. Payload(Append(a, s[p]), t) = s[p].messages /\ s[p].messages \in Seq(Int)
  <2>1. Payload(Append(a, s[p]), t) = Payload(a, t) \o Part(s[p], t)
    BY <1>0, <1>1, PayloadAppend, Zenon
  <2>2. Part(s[p], t) = s[p].messages /\ s[p].messages \in Seq(Int)
    BY <1>0, ItemMessages DEF Part
  <2> QED
    BY <1>4, <2>1, <2>2, ConcatEmptySeq
<1>7. Append(a, s[p]) \in Seq(Item)
  BY <1>0, <1>1, AppendProperties
<1>8. Payload(s, t) = Payload(Append(a, s[p]), t) \o Payload(b, t)
  <2>1. Payload(Append(a, s[p]) \o b, t) = Payload(Append(a, s[p]), t) \o Payload(b, t)
    BY <1>2, <1>7, PayloadConcat, Zenon
  <2> QED
    BY <1>3, <2>1
<1> QED
  BY <1>5, <1>6, <1>8, ConcatEmptySeq
---------------------------------------------------------------------------
(* Sorting by id, and the slots of virtual events.                       *)

DistinctIds(S) == \A e, f \in S : e.id = f.id => e = f

Sorts(s, S, n) ==
  /\ s \in Bijection(1 .. n, S)
  /\ \A i, j \in DOMAIN s : i < j => s[i].id <= s[j].id

\* A finite set of events can be listed by id: the one with the least id
\* first, then the others.
LEMMA SortExists ==
  \A n \in Nat : \A S \in SUBSET QueuedEvent :
    IsFiniteSet(S) /\ Cardinality(S) = n => \E s : Sorts(s, S, n)
<1> DEFINE T == {n \in Nat : \A S \in SUBSET QueuedEvent :
                   IsFiniteSet(S) /\ Cardinality(S) = n => \E s : Sorts(s, S, n)}
<1>1. 0 \in T
  <2> SUFFICES ASSUME NEW S \in SUBSET QueuedEvent, IsFiniteSet(S), Cardinality(S) = 0
               PROVE  \E s : Sorts(s, S, 0)
    OBVIOUS
  <2>1. S = {}
    BY FS_EmptySet
  <2> DEFINE s == [i \in 1 .. 0 |-> <<>>]
  <2>2. s \in [1 .. 0 -> S] /\ DOMAIN s = {}
    OBVIOUS
  <2>3. Sorts(s, S, 0)
    BY <2>1, <2>2 DEF Sorts, Bijection, Injection, Surjection, IsInjective
  <2> QED
    BY <2>3
<1>2. ASSUME NEW n \in T PROVE n + 1 \in T
  <2> SUFFICES ASSUME NEW S \in SUBSET QueuedEvent, IsFiniteSet(S), Cardinality(S) = n + 1
               PROVE  \E s : Sorts(s, S, n + 1)
    OBVIOUS
  <2>0. n \in Nat
    OBVIOUS
  <2>1. S # {}
    BY <2>0, FS_EmptySet
  <2> DEFINE Ids == {e.id : e \in S}
  <2>2. Ids \in SUBSET Nat /\ Ids # {}
    BY <2>1 DEF QueuedEvent
  <2>3. PICK m \in Ids : \A i \in Ids : m <= i
    BY <2>2, LeastNumber
  <2>4. PICK e \in S : e.id = m
    BY <2>3
  <2>5. \A f \in S : e.id <= f.id
    BY <2>3, <2>4
  <2> DEFINE R == S \ {e}
  <2>6. R \in SUBSET QueuedEvent /\ IsFiniteSet(R) /\ Cardinality(R) = n
    <3>1. IsFiniteSet(S \ {e}) /\ Cardinality(S \ {e}) = IF e \in S THEN Cardinality(S) - 1 ELSE Cardinality(S)
      BY FS_RemoveElement
    <3>2. e \in S /\ (n + 1) - 1 = n
      BY <2>0, <2>4
    <3> QED
      BY <3>1, <3>2
  <2>7. PICK r : Sorts(r, R, n)
    BY <1>2, <2>6
  <2> DEFINE s == [i \in 1 .. n + 1 |-> IF i = 1 THEN e ELSE r[i - 1]]
  <2>8. r \in [1 .. n -> R] /\ DOMAIN r = 1 .. n
    BY <2>7 DEF Sorts, Bijection, Injection
  <2>9. s \in [1 .. n + 1 -> S] /\ DOMAIN s = 1 .. n + 1
    BY <2>0, <2>4, <2>8
  <2>10. \A i \in 2 .. n + 1 : i - 1 \in 1 .. n /\ s[i] = r[i - 1] /\ s[i] \in R
    BY <2>0, <2>8
  <2>11. s[1] = e
    BY <2>0
  <2>12. \A i \in 1 .. n + 1 : i = 1 \/ i \in 2 .. n + 1
    BY <2>0
  <2>13. \A i, j \in 1 .. n : r[i] = r[j] => i = j
    BY <2>7, <2>8 DEF Sorts, Bijection, Injection, IsInjective
  <2>14. \A i, j \in 1 .. n : i < j => r[i].id <= r[j].id
    BY <2>7, <2>8 DEF Sorts
  <2>15. \A f \in R : \E i \in 1 .. n : r[i] = f
    BY <2>7 DEF Sorts, Bijection, Surjection
  <2> HIDE DEF s, R
  <2>16. \A i, j \in 1 .. n + 1 : s[i] = s[j] => i = j
    <3> SUFFICES ASSUME NEW i \in 1 .. n + 1, NEW j \in 1 .. n + 1, s[i] = s[j]
                 PROVE  i = j
      OBVIOUS
    <3>1. e \notin R
      BY DEF R
    <3>2. CASE i = 1
      BY <2>10, <2>11, <2>12, <3>1, <3>2
    <3>3. CASE j = 1
      BY <2>10, <2>11, <2>12, <3>1, <3>3
    <3>4. CASE i # 1 /\ j # 1
      <4>1. i - 1 \in 1 .. n /\ j - 1 \in 1 .. n /\ r[i - 1] = r[j - 1]
        BY <2>10, <2>12, <3>4
      <4>2. i - 1 = j - 1
        BY <2>13, <4>1
      <4> QED
        BY <4>2
    <3> QED
      BY <3>2, <3>3, <3>4
  <2>17. \A f \in S : \E i \in 1 .. n + 1 : s[i] = f
    <3> TAKE f \in S
    <3>1. CASE f = e
      <4>1. 1 \in 1 .. n + 1
        BY <2>0
      <4> QED
        BY <2>11, <3>1, <4>1
    <3>2. CASE f # e
      <4>1. PICK i \in 1 .. n : r[i] = f
        BY <2>15, <3>2 DEF R
      <4>2. i + 1 \in 2 .. n + 1 /\ i + 1 \in 1 .. n + 1 /\ (i + 1) - 1 = i
        BY <2>0
      <4>3. s[i + 1] = f
        BY <2>10, <4>1, <4>2
      <4> QED
        BY <4>2, <4>3
    <3> QED
      BY <3>1, <3>2
  <2>18. \A i, j \in 1 .. n + 1 : i < j => s[i].id <= s[j].id
    <3> SUFFICES ASSUME NEW i \in 1 .. n + 1, NEW j \in 1 .. n + 1, i < j
                 PROVE  s[i].id <= s[j].id
      OBVIOUS
    <3>1. j \in 2 .. n + 1
      BY <2>0
    <3>2. CASE i = 1
      BY <2>5, <2>9, <2>11, <3>2
    <3>3. CASE i # 1
      <4>1. i \in 2 .. n + 1 /\ i - 1 < j - 1
        BY <2>12, <3>3
      <4> QED
        BY <2>10, <2>14, <3>1, <4>1
    <3> QED
      BY <3>2, <3>3
  <2>19. s \in Bijection(1 .. n + 1, S)
    BY <2>9, <2>16, <2>17 DEF Bijection, Injection, Surjection, IsInjective
  <2>20. Sorts(s, S, n + 1)
    BY <2>9, <2>18, <2>19 DEF Sorts
  <2> QED
    BY <2>20
<1> HIDE DEF T
<1>3. T = Nat
  <2>1. T \subseteq Nat
    BY DEF T
  <2> QED
    BY <1>1, <1>2, <2>1, NumberInduction
<1> QED
  BY <1>3 DEF T

Increasing(s) == \A i, j \in 1 .. Len(s) : i < j => s[i].id < s[j].id

\* ById lists the events of a set, each once, by increasing id.
LEMMA ByIdFacts ==
  ASSUME NEW S \in SUBSET QueuedEvent, IsFiniteSet(S), DistinctIds(S)
  PROVE  /\ ById(S) \in Seq(QueuedEvent) /\ Increasing(ById(S))
         /\ \A i \in 1 .. Len(ById(S)) : ById(S)[i] \in S
         /\ \A e \in S : \E i \in 1 .. Len(ById(S)) : ById(S)[i] = e
<1> DEFINE s == ById(S)
           n == Cardinality(S)
<1>1. n \in Nat
  BY FS_CardinalityType
<1>2. \E r : Sorts(r, S, n)
  BY <1>1, SortExists
<1>3. Sorts(s, S, n)
  BY <1>2, Zenon DEF ById, Sorts
<1> HIDE DEF s, n
<1>4. s \in [1 .. n -> S] /\ DOMAIN s = 1 .. n
  BY <1>3 DEF Sorts, Bijection, Injection
<1>5. s \in Seq(QueuedEvent) /\ Len(s) = n
  <2>1. s \in [1 .. n -> QueuedEvent]
    BY <1>4
  <2> QED
    BY <1>1, <2>1
<1>6. \A i, j \in 1 .. n : s[i] = s[j] => i = j
  BY <1>3, <1>4 DEF Sorts, Bijection, Injection, IsInjective
<1>7. \A i, j \in 1 .. n : i < j => s[i].id <= s[j].id
  BY <1>3, <1>4 DEF Sorts
<1>8. \A e \in S : \E i \in 1 .. n : s[i] = e
  BY <1>3 DEF Sorts, Bijection, Surjection
<1>9. Increasing(s)
  <2> SUFFICES ASSUME NEW i \in 1 .. n, NEW j \in 1 .. n, i < j
               PROVE  s[i].id < s[j].id
    BY <1>5 DEF Increasing
  <2>1. s[i] \in S /\ s[j] \in S /\ s[i] # s[j] /\ s[i].id <= s[j].id
    BY <1>4, <1>6, <1>7
  <2>2. s[i].id # s[j].id
    BY <2>1 DEF DistinctIds
  <2>3. s[i].id \in Nat /\ s[j].id \in Nat
    BY <2>1 DEF QueuedEvent
  <2> QED
    BY <2>1, <2>2, <2>3
<1>10. \A i \in 1 .. Len(s) : s[i] \in S
  BY <1>4, <1>5
<1>11. \A e \in S : \E i \in 1 .. Len(s) : s[i] = e
  BY <1>5, <1>8
<1> QED
  BY <1>5, <1>9, <1>10, <1>11 DEF s

\* A slot is behind all older events and in front of the next newer one.
LEMMA SlotFacts ==
  ASSUME NEW q, q.queue \in Seq(QueuedEvent), NEW e \in QueuedEvent
  PROVE  /\ Slot(q, e) \in 1 .. Len(q.queue) + 1
         /\ Slot(q, e) <= Len(q.queue) => e.id < q.queue[Slot(q, e)].id
         /\ \A j \in 1 .. Len(q.queue) : j < Slot(q, e) => q.queue[j].id <= e.id
<1> DEFINE n == Len(q.queue)
           After(i) == i <= n => e.id < q.queue[i].id
           T == {i \in 1 .. n + 1 : After(i)}
<1>1. n \in Nat /\ e.id \in Nat /\ \A i \in 1 .. n : q.queue[i].id \in Nat
  <2>1. n \in Nat /\ \A i \in 1 .. n : q.queue[i] \in QueuedEvent
    BY ElementOfSeq, LenProperties
  <2>2. \A f \in QueuedEvent : f.id \in Nat
    BY DEF QueuedEvent
  <2> QED
    BY <2>1, <2>2
<1>2. n + 1 \in T /\ T \in SUBSET Nat
  BY <1>1
<1>3. PICK m \in T : \A i \in T : m <= i
  <2> HIDE DEF T
  <2> QED
    BY <1>2, LeastNumber
<1>4. \A j \in 1 .. m - 1 : e.id >= q.queue[j].id
  <2> TAKE j \in 1 .. m - 1
  <2>1. j \in 1 .. n /\ j \notin T
    BY <1>1, <1>3
  <2> QED
    BY <1>1, <2>1
<1>5. \E i \in 1 .. n + 1 :
        After(i) /\ \A j \in 1 .. i - 1 : e.id >= q.queue[j].id
  BY <1>3, <1>4
<1>6. /\ Slot(q, e) \in 1 .. n + 1 /\ After(Slot(q, e))
      /\ \A j \in 1 .. Slot(q, e) - 1 : e.id >= q.queue[j].id
  BY <1>5 DEF Slot
<1>7. \A j \in 1 .. n : j < Slot(q, e) => q.queue[j].id <= e.id
  BY <1>1, <1>6
<1> QED
  BY <1>6, <1>7

\* Virtual events are told apart by id and by type, and from the queued ones by id.
LEMMA VirtualFacts ==
  ASSUME NEW q, QueueShape(q), IdsOrdered(q)
  PROVE  /\ VirtualSet(q) \in SUBSET QueuedEvent /\ IsFiniteSet(VirtualSet(q))
         /\ DistinctIds(VirtualSet(q))
         /\ \A e \in VirtualSet(q) :
              /\ compute_full_event_type(e) \in DOMAIN q.virtual_events
              /\ q.virtual_events[compute_full_event_type(e)] = e
              /\ \A j \in 1 .. Len(q.queue) : q.queue[j].id # e.id
         /\ \A t \in DOMAIN q.virtual_events :
              /\ q.virtual_events[t] \in VirtualSet(q)
              /\ compute_full_event_type(q.virtual_events[t]) = t
<1> DEFINE D == DOMAIN q.virtual_events
           f == [t \in D |-> q.virtual_events[t]]
<1>1. f \in Surjection(D, VirtualSet(q))
  BY DEF Surjection, VirtualSet
<1>2. IsFiniteSet(VirtualSet(q))
  BY <1>1, FS_Surjection DEF QueueShape
<1>3. DOMAIN q.queue = 1 .. Len(q.queue)
  BY LenProperties DEF QueueShape
<1>4. \A t \in D : compute_full_event_type(q.virtual_events[t]) = t
  BY Zenon DEF IdsOrdered
<1>5. \A t, u \in D : q.virtual_events[u].id = q.virtual_events[t].id => u = t
  BY Zenon DEF IdsOrdered
<1>6. \A t \in D : \A i \in DOMAIN q.queue : q.queue[i].id # q.virtual_events[t].id
  BY Zenon DEF IdsOrdered
<1>7. \A e \in VirtualSet(q) : \E t \in D : e = q.virtual_events[t]
  BY DEF VirtualSet
<1>8. DistinctIds(VirtualSet(q))
  BY <1>5, <1>7 DEF DistinctIds
<1>9. VirtualSet(q) \in SUBSET QueuedEvent
  BY <1>7 DEF QueueShape
<1>10. \A e \in VirtualSet(q) :
          /\ compute_full_event_type(e) \in D
          /\ q.virtual_events[compute_full_event_type(e)] = e
          /\ \A j \in 1 .. Len(q.queue) : q.queue[j].id # e.id
  BY <1>3, <1>4, <1>6, <1>7
<1>11. \A t \in D : q.virtual_events[t] \in VirtualSet(q)
  BY DEF VirtualSet
<1> QED
  BY <1>2, <1>4, <1>8, <1>9, <1>10, <1>11

\* What is where in a concatenation of two queues.
LEMMA ConcatEvents ==
  ASSUME NEW a \in Seq(QueuedEvent), NEW b \in Seq(QueuedEvent)
  PROVE  /\ a \o b \in Seq(QueuedEvent) /\ Len(a \o b) = Len(a) + Len(b)
         /\ Len(a) \in Nat /\ Len(b) \in Nat
         /\ \A i \in 1 .. Len(a) : (a \o b)[i] = a[i]
         /\ \A i \in 1 .. Len(b) : (a \o b)[Len(a) + i] = b[i]
         /\ \A p \in 1 .. Len(a \o b) :
              \/ p \in 1 .. Len(a) /\ (a \o b)[p] = a[p]
              \/ p - Len(a) \in 1 .. Len(b) /\ (a \o b)[p] = b[p - Len(a)]
<1>1. /\ a \o b \in Seq(QueuedEvent) /\ Len(a \o b) = Len(a) + Len(b)
      /\ \A i \in 1 .. Len(a) + Len(b) :
           (a \o b)[i] = IF i <= Len(a) THEN a[i] ELSE b[i - Len(a)]
      /\ Len(a) \in Nat /\ Len(b) \in Nat
  BY ConcatProperties, LenProperties
<1> DEFINE c == a \o b
<1> HIDE DEF c
<1>2. \A i \in 1 .. Len(a) : c[i] = a[i]
  BY <1>1 DEF c
<1>3. \A i \in 1 .. Len(b) : c[Len(a) + i] = b[i]
  <2> TAKE i \in 1 .. Len(b)
  <2>1. Len(a) + i \in 1 .. Len(a) + Len(b) /\ ~(Len(a) + i <= Len(a))
        /\ (Len(a) + i) - Len(a) = i
    BY <1>1
  <2> QED
    BY <1>1, <2>1 DEF c
<1>4. \A p \in 1 .. Len(a) + Len(b) :
         \/ p \in 1 .. Len(a) /\ c[p] = a[p]
         \/ p - Len(a) \in 1 .. Len(b) /\ c[p] = b[p - Len(a)]
  <2> TAKE p \in 1 .. Len(a) + Len(b)
  <2>1. CASE p <= Len(a)
    BY <1>1, <2>1 DEF c
  <2>2. CASE p > Len(a)
    <3>1. p - Len(a) \in 1 .. Len(b) /\ ~(p <= Len(a))
      BY <1>1, <2>2
    <3> QED
      BY <1>1, <3>1 DEF c
  <2> QED
    BY <1>1, <2>1, <2>2
<1> QED
  BY <1>1, <1>2, <1>3, <1>4 DEF c

\* A queue behind another one with smaller ids has increasing ids.
LEMMA ConcatIncreasing ==
  ASSUME NEW a \in Seq(QueuedEvent), NEW b \in Seq(QueuedEvent),
         Increasing(a), Increasing(b),
         \A i \in 1 .. Len(a), j \in 1 .. Len(b) : a[i].id < b[j].id
  PROVE  Increasing(a \o b)
<1> DEFINE c == a \o b
<1>1. /\ Len(c) = Len(a) + Len(b) /\ Len(a) \in Nat /\ Len(b) \in Nat
      /\ \A p \in 1 .. Len(c) :
              \/ p \in 1 .. Len(a) /\ c[p] = a[p]
              \/ p - Len(a) \in 1 .. Len(b) /\ c[p] = b[p - Len(a)]
  BY ConcatEvents
<1> HIDE DEF c
<1> SUFFICES ASSUME NEW i \in 1 .. Len(c), NEW j \in 1 .. Len(c), i < j
             PROVE  c[i].id < c[j].id
  BY DEF Increasing, c
<1>2. CASE j \in 1 .. Len(a) /\ c[j] = a[j]
  <2>1. i \in 1 .. Len(a) /\ c[i] = a[i]
    BY <1>1, <1>2
  <2> QED
    BY <1>2, <2>1 DEF Increasing
<1>3. CASE j - Len(a) \in 1 .. Len(b) /\ c[j] = b[j - Len(a)]
  <2>1. CASE i \in 1 .. Len(a) /\ c[i] = a[i]
    BY <1>3, <2>1
  <2>2. CASE i - Len(a) \in 1 .. Len(b) /\ c[i] = b[i - Len(a)]
    <3>1. i - Len(a) < j - Len(a)
      BY <1>1
    <3> QED
      BY <1>3, <2>2, <3>1 DEF Increasing
  <2> QED
    BY <1>1, <2>1, <2>2
<1> QED
  BY <1>1, <1>2, <1>3
---------------------------------------------------------------------------
(* The merge, one slot after the other.                                  *)

At(q, k) == {e \in VirtualSet(q) : Slot(q, e) = k}

\* The k-th piece of the merge: virtual events by id, then the real one.
LEMMA PieceFacts ==
  ASSUME NEW q, QueueShape(q), IdsOrdered(q), NEW k \in 1 .. Len(q.queue) + 1
  PROVE  /\ VirtualAt(q, k) \in Seq(QueuedEvent) /\ Increasing(VirtualAt(q, k))
         /\ \A i \in 1 .. Len(VirtualAt(q, k)) : VirtualAt(q, k)[i] \in At(q, k)
         /\ \A e \in At(q, k) : \E i \in 1 .. Len(VirtualAt(q, k)) : VirtualAt(q, k)[i] = e
         /\ RealAt(q, k) \in Seq(QueuedEvent)
         /\ VirtualAt(q, k) \o RealAt(q, k) \in Seq(QueuedEvent)
<1>1. At(q, k) \in SUBSET VirtualSet(q)
  BY DEF At
<1>2. At(q, k) \in SUBSET QueuedEvent /\ IsFiniteSet(At(q, k)) /\ DistinctIds(At(q, k))
  <2>1. /\ VirtualSet(q) \in SUBSET QueuedEvent /\ IsFiniteSet(VirtualSet(q))
        /\ DistinctIds(VirtualSet(q))
    BY VirtualFacts
  <2>2. IsFiniteSet(At(q, k))
    BY <1>1, <2>1, FS_Subset
  <2> QED
    BY <1>1, <2>1, <2>2 DEF DistinctIds
<1>3. VirtualAt(q, k) = ById(At(q, k))
  BY DEF VirtualAt, At
<1>4. RealAt(q, k) \in Seq(QueuedEvent)
  <2>1. \A j \in 1 .. Len(q.queue) : q.queue[j] \in QueuedEvent
    BY ElementOfSeq DEF QueueShape
  <2>2. Len(q.queue) \in Nat
    BY LenProperties DEF QueueShape
  <2>3. CASE k <= Len(q.queue)
    <3>1. q.queue[k] \in QueuedEvent
      BY <2>1, <2>2, <2>3
    <3> QED
      BY <2>3, <3>1 DEF RealAt
  <2>4. CASE ~(k <= Len(q.queue))
    BY <2>4, EmptySeq DEF RealAt
  <2> QED
    BY <2>3, <2>4
<1>5. /\ ById(At(q, k)) \in Seq(QueuedEvent) /\ Increasing(ById(At(q, k)))
      /\ \A i \in 1 .. Len(ById(At(q, k))) : ById(At(q, k))[i] \in At(q, k)
      /\ \A e \in At(q, k) : \E i \in 1 .. Len(ById(At(q, k))) : ById(At(q, k))[i] = e
  BY <1>2, ByIdFacts
<1>6. VirtualAt(q, k) \o RealAt(q, k) \in Seq(QueuedEvent)
  BY <1>3, <1>4, <1>5, ConcatProperties
<1> QED
  BY <1>3, <1>4, <1>5, <1>6

Pieces(q) == [i \in 1 .. Len(q.queue) + 1 |-> VirtualAt(q, i) \o RealAt(q, i)]

\* The contents after the first k pieces.
MergedUpTo(q, k) == FlattenSeq(SubSeq(Pieces(q), 1, k))

\* The merge goes slot by slot.
LEMMA MergeUnfolded ==
  ASSUME NEW q, QueueShape(q), IdsOrdered(q)
  PROVE  /\ MergedUpTo(q, 0) = <<>>
         /\ \A k \in 0 .. Len(q.queue) :
              /\ MergedUpTo(q, k) \in Seq(QueuedEvent)
              /\ MergedUpTo(q, k + 1) =
                   MergedUpTo(q, k) \o (VirtualAt(q, k + 1) \o RealAt(q, k + 1))
         /\ MergedUpTo(q, Len(q.queue) + 1) = Merged(q)
<1> DEFINE n == Len(q.queue)
           P == Pieces(q)
<1>1. n \in Nat
  BY LenProperties DEF QueueShape
<1>2. \A k \in 1 .. n + 1 : P[k] = VirtualAt(q, k) \o RealAt(q, k) /\ P[k] \in Seq(QueuedEvent)
  BY PieceFacts DEF Pieces
<1>3. P \in Seq(Seq(QueuedEvent)) /\ Len(P) = n + 1
  <2>1. P = [k \in 1 .. n + 1 |-> P[k]]
    BY DEF Pieces
  <2> HIDE DEF P
  <2>2. P \in [1 .. n + 1 -> Seq(QueuedEvent)]
    BY <1>2, <2>1
  <2> QED
    BY <1>1, <2>2
<1> HIDE DEF P
<1>4. MergedUpTo(q, n + 1) = Merged(q)
  <2>1. SubSeq(P, 1, n + 1) = P
    BY <1>3, SubSeqFull
  <2> QED
    BY <2>1 DEF MergedUpTo, Merged, Pieces, P
<1>5. SubSeq(P, 1, 0) = <<>>
  BY SubSeqEmpty
<1>6. MergedUpTo(q, 0) = <<>>
  BY <1>5, FlattenEmpty DEF MergedUpTo, P
<1>7. ASSUME NEW k \in 0 .. n
      PROVE  /\ MergedUpTo(q, k) \in Seq(QueuedEvent)
             /\ MergedUpTo(q, k + 1) =
                   MergedUpTo(q, k) \o (VirtualAt(q, k + 1) \o RealAt(q, k + 1))
  <2>1. SubSeq(P, 1, k) \in Seq(Seq(QueuedEvent))
    <3>1. \A i \in 1 .. k : P[i] \in Seq(QueuedEvent)
      BY <1>1, <1>2
    <3> QED
      BY <1>1, <3>1, SubSeqProperties
  <2>2. k + 1 \in 1 .. n + 1 /\ (k + 1) - 1 = k /\ 1 \in 1 .. Len(P) /\ k + 1 \in 1 .. Len(P)
    BY <1>1, <1>3
  <2>3. SubSeq(P, 1, k + 1) = SubSeq(P, 1, k) \o <<P[k + 1]>>
    BY <1>3, <2>2, SubSeqRecursiveSecond
  <2>4. P[k + 1] \in Seq(QueuedEvent)
    BY <1>2, <2>2
  <2>5. SubSeq(P, 1, k + 1) = Append(SubSeq(P, 1, k), P[k + 1])
    BY <2>1, <2>3, <2>4, AppendIsConcat
  <2>6. /\ FlattenSeq(SubSeq(P, 1, k)) \in Seq(QueuedEvent)
        /\ FlattenSeq(Append(SubSeq(P, 1, k), P[k + 1]))
             = FlattenSeq(SubSeq(P, 1, k)) \o P[k + 1]
    BY <2>1, <2>4, FlattenAppend
  <2> QED
    BY <1>2, <2>2, <2>5, <2>6 DEF MergedUpTo, P
<1> QED
  BY <1>4, <1>6, <1>7

\* An element of the first k pieces is a real event up to k or a virtual one
\* with such a slot.
FromPieces(q, e, k) ==
  \/ \E j \in 1 .. Len(q.queue) : j <= k /\ e = q.queue[j]
  \/ e \in VirtualSet(q) /\ Slot(q, e) <= k

MergeInv(q, k) ==
  /\ Increasing(MergedUpTo(q, k))
  /\ \A p \in 1 .. Len(MergedUpTo(q, k)) : FromPieces(q, MergedUpTo(q, k)[p], k)

\* A piece has increasing ids, above those of the queued events before it.
LEMMA PieceIncreasing ==
  ASSUME NEW q, QueueShape(q), IdsOrdered(q), NEW k \in 1 .. Len(q.queue) + 1
  PROVE  /\ Increasing(VirtualAt(q, k) \o RealAt(q, k))
         /\ \A p \in 1 .. Len(VirtualAt(q, k) \o RealAt(q, k)) :
              LET e == (VirtualAt(q, k) \o RealAt(q, k))[p]
              IN  /\ FromPieces(q, e, k)
                  /\ \A j \in 1 .. Len(q.queue) : j < k => q.queue[j].id < e.id
<1> DEFINE v == VirtualAt(q, k)
           r == RealAt(q, k)
           n == Len(q.queue)
<1>1. /\ v \in Seq(QueuedEvent) /\ Increasing(v) /\ r \in Seq(QueuedEvent)
      /\ \A i \in 1 .. Len(v) : v[i] \in At(q, k)
  BY PieceFacts
<1>2. n \in Nat /\ k \in 1 .. n + 1 /\ \A j \in 1 .. n : q.queue[j] \in QueuedEvent
  BY ElementOfSeq, LenProperties DEF QueueShape
<1>3. /\ k <= n => Len(r) = 1 /\ r[1] = q.queue[k]
      /\ k > n => Len(r) = 0
  BY <1>2 DEF RealAt
<1>4. \A i, j \in 1 .. n : i < j => q.queue[i].id < q.queue[j].id
  <2>1. DOMAIN q.queue = 1 .. n
    BY LenProperties DEF QueueShape
  <2> QED
    BY <2>1 DEF IdsOrdered
<1>5. \A e \in At(q, k) : /\ e \in QueuedEvent /\ e \in VirtualSet(q) /\ Slot(q, e) = k
                          /\ k <= n => e.id < q.queue[k].id
                          /\ \A j \in 1 .. n : j < k => q.queue[j].id < e.id
  <2> TAKE e \in At(q, k)
  <2>1. e \in VirtualSet(q) /\ Slot(q, e) = k
    BY DEF At
  <2>2. e \in QueuedEvent /\ \A j \in 1 .. n : q.queue[j].id # e.id
    BY <2>1, VirtualFacts
  <2>3. /\ Slot(q, e) <= n => e.id < q.queue[Slot(q, e)].id
        /\ \A j \in 1 .. n : j < Slot(q, e) => q.queue[j].id <= e.id
    BY <2>2, SlotFacts DEF QueueShape
  <2>4. e.id \in Nat /\ \A j \in 1 .. n : q.queue[j].id \in Nat
    BY <1>2, <2>2 DEF QueuedEvent
  <2> QED
    BY <2>1, <2>2, <2>3, <2>4
<1> HIDE DEF v, r, n
<1>11. \A j \in 1 .. Len(r) : k <= n /\ j = 1
  <2> TAKE j \in 1 .. Len(r)
  <2>1. CASE k <= n
    <3>1. Len(r) = 1
      BY <1>3, <2>1
    <3> QED
      BY <2>1, <3>1
  <2>2. CASE k > n
    <3>1. Len(r) = 0
      BY <1>3, <2>2
    <3> QED
      BY <3>1
  <2> QED
    BY <1>2, <2>1, <2>2
<1>6. Increasing(r)
  BY <1>2, <1>3 DEF Increasing
<1>7. \A i \in 1 .. Len(v), j \in 1 .. Len(r) : v[i].id < r[j].id
  <2> TAKE i \in 1 .. Len(v), j \in 1 .. Len(r)
  <2>1. k <= n /\ j = 1
    BY <1>11
  <2> QED
    BY <1>1, <1>3, <1>5, <2>1
<1>8. Increasing(v \o r)
  BY <1>1, <1>6, <1>7, ConcatIncreasing
<1>9. \A p \in 1 .. Len(v \o r) :
        \/ p \in 1 .. Len(v) /\ (v \o r)[p] = v[p]
        \/ p - Len(v) \in 1 .. Len(r) /\ (v \o r)[p] = r[p - Len(v)]
  BY <1>1, ConcatEvents
<1>10. ASSUME NEW p \in 1 .. Len(v \o r)
       PROVE  /\ FromPieces(q, (v \o r)[p], k)
              /\ \A j \in 1 .. n : j < k => q.queue[j].id < (v \o r)[p].id
  <2>1. CASE p \in 1 .. Len(v) /\ (v \o r)[p] = v[p]
    <3>1. v[p] \in At(q, k)
      BY <1>1, <2>1
    <3>2. FromPieces(q, v[p], k)
      BY <1>5, <3>1 DEF FromPieces
    <3> QED
      BY <1>5, <2>1, <3>1, <3>2
  <2>2. CASE p - Len(v) \in 1 .. Len(r) /\ (v \o r)[p] = r[p - Len(v)]
    <3>1. k <= n /\ (v \o r)[p] = q.queue[k] /\ k \in 1 .. n
      BY <1>2, <1>3, <1>11, <2>2
    <3>2. FromPieces(q, q.queue[k], k)
      BY <3>1 DEF FromPieces, n
    <3> QED
      BY <1>4, <3>1, <3>2
  <2> QED
    BY <1>9, <2>1, <2>2
<1> QED
  BY <1>8, <1>10 DEF v, r, n

\* So has what is merged up to any slot, and it is made of the pieces.
LEMMA MergeIncreasing ==
  ASSUME NEW q, QueueShape(q), IdsOrdered(q)
  PROVE  \A k \in 0 .. Len(q.queue) + 1 : MergeInv(q, k)
<1> DEFINE n == Len(q.queue)
           T == {k \in Nat : k <= n + 1 => MergeInv(q, k)}
<1>0. n \in Nat /\ \A j \in 1 .. n : q.queue[j] \in QueuedEvent
  BY ElementOfSeq, LenProperties DEF QueueShape
<1>1. 0 \in T
  <2>1. MergedUpTo(q, 0) = <<>> /\ Len(<<>>) = 0
    BY MergeUnfolded
  <2> QED
    BY <2>1 DEF MergeInv, Increasing
<1>2. ASSUME NEW k \in T PROVE k + 1 \in T
  <2> SUFFICES ASSUME k + 1 <= n + 1 PROVE MergeInv(q, k + 1)
    OBVIOUS
  <2>0. k \in 0 .. n /\ k + 1 \in 1 .. n + 1 /\ MergeInv(q, k)
    BY <1>0
  <2> DEFINE a == MergedUpTo(q, k)
             b == VirtualAt(q, k + 1) \o RealAt(q, k + 1)
  <2>1. MergedUpTo(q, k + 1) = a \o b /\ a \in Seq(QueuedEvent)
    BY <2>0, MergeUnfolded
  <2>2. b \in Seq(QueuedEvent)
    BY <2>0, PieceFacts
  <2>3. /\ Increasing(b)
        /\ \A p \in 1 .. Len(b) :
             FromPieces(q, b[p], k + 1) /\ \A j \in 1 .. n : j < k + 1 => q.queue[j].id < b[p].id
    BY <2>0, PieceIncreasing
  <2>4. Increasing(a) /\ \A p \in 1 .. Len(a) : FromPieces(q, a[p], k)
    BY <2>0 DEF MergeInv
  <2> HIDE DEF a, b, T, n
  <2>5. \A i \in 1 .. Len(a), j \in 1 .. Len(b) : a[i].id < b[j].id
    <3> TAKE i \in 1 .. Len(a), j \in 1 .. Len(b)
    <3>0. b[j] \in QueuedEvent /\ b[j].id \in Nat
      <4>1. b[j] \in QueuedEvent
        BY <2>2, ElementOfSeq
      <4> QED
        BY <4>1 DEF QueuedEvent
    <3>1. CASE \E l \in 1 .. n : l <= k /\ a[i] = q.queue[l]
      BY <2>0, <2>3, <3>1
    <3>2. CASE a[i] \in VirtualSet(q) /\ Slot(q, a[i]) <= k
      <4>1. a[i] \in QueuedEvent
        BY <3>2, VirtualFacts
      <4>2. /\ Slot(q, a[i]) \in 1 .. n + 1
            /\ Slot(q, a[i]) <= n => a[i].id < q.queue[Slot(q, a[i])].id
        BY <4>1, SlotFacts DEF QueueShape, n
      <4> DEFINE l == Slot(q, a[i])
      <4>3. l \in 1 .. n /\ l < k + 1 /\ a[i].id < q.queue[l].id
        BY <1>0, <2>0, <3>2, <4>2
      <4>4. q.queue[l].id < b[j].id
        BY <2>3, <4>3
      <4>5. q.queue[l].id \in Nat /\ a[i].id \in Nat
        BY <1>0, <4>1, <4>3 DEF QueuedEvent
      <4> QED
        BY <3>0, <4>3, <4>4, <4>5
    <3> QED
      BY <2>4, <3>1, <3>2 DEF FromPieces, n
  <2>6. Increasing(a \o b)
    BY <2>1, <2>2, <2>3, <2>4, <2>5, ConcatIncreasing
  <2>7. ASSUME NEW p \in 1 .. Len(a \o b) PROVE FromPieces(q, (a \o b)[p], k + 1)
    <3>1. \/ p \in 1 .. Len(a) /\ (a \o b)[p] = a[p]
          \/ p - Len(a) \in 1 .. Len(b) /\ (a \o b)[p] = b[p - Len(a)]
      BY <2>1, <2>2, ConcatEvents
    <3>2. \A e : FromPieces(q, e, k) => FromPieces(q, e, k + 1)
      <4> SUFFICES ASSUME NEW e, FromPieces(q, e, k) PROVE FromPieces(q, e, k + 1)
        OBVIOUS
      <4>1. CASE \E j \in 1 .. n : j <= k /\ e = q.queue[j]
        BY <2>0, <4>1 DEF FromPieces, n
      <4>2. CASE e \in VirtualSet(q) /\ Slot(q, e) <= k
        <5>1. e \in QueuedEvent
          BY <4>2, VirtualFacts
        <5>2. Slot(q, e) \in 1 .. n + 1
          BY <5>1, SlotFacts DEF QueueShape, n
        <5>3. Slot(q, e) <= k + 1
          BY <2>0, <4>2, <5>2
        <5> QED
          BY <4>2, <5>3 DEF FromPieces
      <4> QED
        BY <4>1, <4>2 DEF FromPieces, n
    <3> QED
      BY <2>3, <2>4, <3>1, <3>2
  <2> QED
    BY <2>1, <2>6, <2>7 DEF MergeInv
<1> HIDE DEF T
<1>3. T = Nat
  <2>1. T \subseteq Nat
    BY DEF T
  <2> QED
    BY <1>1, <1>2, <2>1, NumberInduction
<1>4. \A k \in 0 .. n + 1 : k \in T
  BY <1>3
<1> QED
  BY <1>0, <1>4 DEF T
---------------------------------------------------------------------------
(* The payload of the merged queue.                                      *)

\* Payload lemmas apply to queues.
LEMMA EventsAreItems ==
  \A s \in Seq(QueuedEvent) : s \in Seq(Item)
<1>1. QueuedEvent \subseteq Item
  BY DEF Item
<1> QED
  BY <1>1, SeqMonotonic

\* What the virtual events in slot k, and in the slots up to k, hold.
HeldAt(q, t, k) ==
  IF t \in DOMAIN q.virtual_events /\ Slot(q, q.virtual_events[t]) = k
  THEN q.virtual_events[t].messages ELSE <<>>

HeldUpTo(q, t, k) ==
  IF t \in DOMAIN q.virtual_events /\ Slot(q, q.virtual_events[t]) <= k
  THEN q.virtual_events[t].messages ELSE <<>>

\* Held payload moves to its slot, behind all queued events of the type.
LEMMA HeldFacts ==
  ASSUME NEW q, QueueShape(q), IdsOrdered(q), NEW t, NEW k \in 0 .. Len(q.queue)
  PROVE  /\ HeldAt(q, t, k + 1) \in Seq(Int) /\ HeldUpTo(q, t, k) \in Seq(Int)
         /\ HeldUpTo(q, t, 0) = <<>>
         /\ HeldUpTo(q, t, Len(q.queue) + 1) = Held(q, t)
         /\ HeldUpTo(q, t, k + 1) = HeldUpTo(q, t, k) \o HeldAt(q, t, k + 1)
         /\ k < Len(q.queue) /\ compute_full_event_type(q.queue[k + 1]) = t
              => HeldUpTo(q, t, k + 1) = <<>>
<1> DEFINE n == Len(q.queue)
<1>1. n \in Nat /\ k \in 0 .. n /\ k \in Nat
  <2>1. n \in Nat
    BY LenProperties DEF QueueShape
  <2> QED
    BY <2>1
<1>2. <<>> \in Seq(Int) /\ \A x \in Seq(Int) : x \o <<>> = x /\ <<>> \o x = x
  BY EmptySeq, ConcatEmptySeq
<1>3. CASE t \notin DOMAIN q.virtual_events
  BY <1>2, <1>3 DEF HeldAt, HeldUpTo, Held
<1>4. CASE t \in DOMAIN q.virtual_events
  <2> DEFINE e == q.virtual_events[t]
             s == Slot(q, e)
  <2>1. e \in QueuedEvent /\ e.messages \in Seq(Int) /\ e.id \in Nat
    BY <1>4 DEF QueueShape, QueuedEvent
  <2>2. /\ s \in 1 .. n + 1 /\ s \in Nat /\ (s <= n => e.id < q.queue[s].id)
    <3>1. /\ s \in 1 .. n + 1 /\ (s <= n => e.id < q.queue[s].id)
      BY <2>1, SlotFacts DEF QueueShape
    <3> QED
      BY <1>1, <3>1
  <2>3. \A j \in 1 .. n : compute_full_event_type(q.queue[j]) = t => q.queue[j].id < e.id
    <3>1. DOMAIN q.queue = 1 .. n
      BY LenProperties DEF QueueShape
    <3> QED
      BY <1>4, <3>1 DEF IdsOrdered
  <2>4. \A i, j \in 1 .. n : i < j => q.queue[i].id < q.queue[j].id
    <3>1. DOMAIN q.queue = 1 .. n
      BY LenProperties DEF QueueShape
    <3> QED
      BY <3>1 DEF IdsOrdered
  <2>5. \A j \in 1 .. n : q.queue[j].id \in Nat
    <3>1. \A j \in 1 .. n : q.queue[j] \in QueuedEvent
      BY ElementOfSeq DEF QueueShape
    <3> QED
      BY <3>1 DEF QueuedEvent
  <2>6. /\ HeldAt(q, t, k + 1) = IF s = k + 1 THEN e.messages ELSE <<>>
        /\ HeldUpTo(q, t, k) = IF s <= k THEN e.messages ELSE <<>>
        /\ HeldUpTo(q, t, k + 1) = IF s <= k + 1 THEN e.messages ELSE <<>>
        /\ HeldUpTo(q, t, 0) = IF s <= 0 THEN e.messages ELSE <<>>
        /\ HeldUpTo(q, t, n + 1) = IF s <= n + 1 THEN e.messages ELSE <<>>
        /\ Held(q, t) = e.messages
    BY <1>4 DEF HeldAt, HeldUpTo, Held
  <2> HIDE DEF e, s, n
  <2>7. ASSUME k < n, compute_full_event_type(q.queue[k + 1]) = t
        PROVE  ~(s <= k + 1)
    <3> SUFFICES ASSUME s <= k + 1 PROVE FALSE
      OBVIOUS
    <3>1. k + 1 \in 1 .. n /\ s \in 1 .. n /\ q.queue[k + 1].id < e.id
      BY <1>1, <2>2, <2>3, <2>7
    <3>2. s = k + 1 \/ s < k + 1
      BY <2>2, <3>1, <1>1
    <3> QED
      BY <2>1, <2>2, <2>4, <2>5, <3>1, <3>2
  <2>8. HeldUpTo(q, t, k + 1) = HeldUpTo(q, t, k) \o HeldAt(q, t, k + 1)
    <3>1. CASE s <= k
      <4>1. s <= k + 1 /\ s # k + 1
        BY <1>1, <2>2, <3>1
      <4> QED
        BY <1>2, <2>1, <2>6, <3>1, <4>1
    <3>2. CASE s = k + 1
      <4>1. s <= k + 1 /\ ~(s <= k)
        BY <1>1, <2>2, <3>2
      <4> QED
        BY <1>2, <2>1, <2>6, <3>2, <4>1
    <3>3. CASE s > k + 1
      <4>1. ~(s <= k + 1) /\ ~(s <= k) /\ s # k + 1
        BY <1>1, <2>2, <3>3
      <4> QED
        BY <1>2, <2>6, <4>1
    <3> QED
      BY <1>1, <2>2, <3>1, <3>2, <3>3
  <2>9. HeldAt(q, t, k + 1) \in Seq(Int) /\ HeldUpTo(q, t, k) \in Seq(Int)
    BY <1>2, <2>1, <2>6
  <2>10. HeldUpTo(q, t, 0) = <<>> /\ HeldUpTo(q, t, n + 1) = Held(q, t)
    BY <1>1, <2>2, <2>6
  <2>11. k < n /\ compute_full_event_type(q.queue[k + 1]) = t => HeldUpTo(q, t, k + 1) = <<>>
    BY <2>6, <2>7
  <2> QED
    BY <2>8, <2>9, <2>10, <2>11 DEF n
<1> QED
  BY <1>3, <1>4

\* The virtual events in a slot have one event of each type at most.
LEMMA VirtualPayload ==
  ASSUME NEW q, QueueShape(q), IdsOrdered(q), NEW t, NEW k \in 1 .. Len(q.queue) + 1
  PROVE  Payload(VirtualAt(q, k), t) = HeldAt(q, t, k)
<1> DEFINE v == VirtualAt(q, k)
<1>1. /\ v \in Seq(QueuedEvent) /\ Increasing(v)
      /\ \A i \in 1 .. Len(v) : v[i] \in At(q, k)
      /\ \A e \in At(q, k) : \E i \in 1 .. Len(v) : v[i] = e
  BY PieceFacts
<1> HIDE DEF v
<1>2. v \in Seq(Item)
  BY <1>1, EventsAreItems
<1>3. \A i \in 1 .. Len(v) : compute_full_event_type(v[i]) = t =>
         /\ t \in DOMAIN q.virtual_events /\ v[i] = q.virtual_events[t]
         /\ Slot(q, q.virtual_events[t]) = k
  <2> SUFFICES ASSUME NEW i \in 1 .. Len(v), compute_full_event_type(v[i]) = t
               PROVE  /\ t \in DOMAIN q.virtual_events /\ v[i] = q.virtual_events[t]
                      /\ Slot(q, q.virtual_events[t]) = k
    OBVIOUS
  <2>1. v[i] \in VirtualSet(q) /\ Slot(q, v[i]) = k
    BY <1>1 DEF At
  <2>2. /\ compute_full_event_type(v[i]) \in DOMAIN q.virtual_events
        /\ q.virtual_events[compute_full_event_type(v[i])] = v[i]
    BY <2>1, VirtualFacts
  <2> QED
    BY <2>1, <2>2
<1>4. CASE t \in DOMAIN q.virtual_events /\ Slot(q, q.virtual_events[t]) = k
  <2>1. /\ q.virtual_events[t] \in At(q, k)
        /\ compute_full_event_type(q.virtual_events[t]) = t
    BY <1>4, VirtualFacts DEF At
  <2>2. PICK p \in 1 .. Len(v) : v[p] = q.virtual_events[t]
    BY <1>1, <2>1
  <2>3. \A i \in 1 .. Len(v) : compute_full_event_type(v[i]) = t => i = p
    <3> SUFFICES ASSUME NEW i \in 1 .. Len(v), compute_full_event_type(v[i]) = t
                 PROVE  i = p
      OBVIOUS
    <3>1. v[i] = v[p]
      BY <1>3, <2>2
    <3>2. v[p].id \in Nat /\ Len(v) \in Nat
      <4>1. v[p] \in QueuedEvent
        BY <1>1, ElementOfSeq
      <4> QED
        BY <1>1, <4>1, LenProperties DEF QueuedEvent
    <3>3. ~(i < p) /\ ~(p < i)
      BY <1>1, <3>1, <3>2 DEF Increasing
    <3> QED
      BY <3>2, <3>3
  <2>4. compute_full_event_type(v[p]) = t
    BY <2>1, <2>2
  <2>5. Payload(v, t) = v[p].messages
    BY <1>2, <2>3, <2>4, PayloadOfOne
  <2> QED
    BY <1>4, <2>2, <2>5 DEF HeldAt, v
<1>5. CASE ~(t \in DOMAIN q.virtual_events /\ Slot(q, q.virtual_events[t]) = k)
  <2>1. \A i \in 1 .. Len(v) : compute_full_event_type(v[i]) # t
    BY <1>3, <1>5
  <2>2. Payload(v, t) = <<>>
    BY <1>2, <2>1, PayloadOfNone
  <2>3. HeldAt(q, t, k) = <<>>
    BY <1>5 DEF HeldAt
  <2> QED
    BY <2>2, <2>3 DEF v
<1> QED
  BY <1>4, <1>5

\* The empty payload changes none.
LEMMA EmptyLaws ==
  /\ <<>> \in Seq(Int)
  /\ \A x \in Seq(Int) : x \o <<>> = x /\ <<>> \o x = x
  BY EmptySeq, ConcatEmptySeq

\* Two payloads make a payload.
LEMMA IntConcat == \A x, y \in Seq(Int) : x \o y \in Seq(Int)
  BY ConcatProperties

\* contents() appends, type by type, what was held to what was queued: no payload
\* is lost, repeated or moved before an older one of its type.
LEMMA MergePayload ==
  ASSUME NEW q, QueueShape(q), IdsOrdered(q), NEW t
  PROVE  Payload(Merged(q), t) = Payload(q.queue, t) \o Held(q, t)
<1> DEFINE n == Len(q.queue)
           Before(k) == SubSeq(q.queue, 1, k)
           T == {k \in Nat : k <= n =>
                   Payload(MergedUpTo(q, k), t) = Payload(Before(k), t) \o HeldUpTo(q, t, k)}
<1>1. n \in Nat /\ q.queue \in Seq(QueuedEvent)
      /\ \A j \in 1 .. n : q.queue[j] \in QueuedEvent /\ q.queue[j] \in Item
  BY ElementOfSeq, LenProperties DEF QueueShape, Item
<1>2. \A k \in 0 .. n : Before(k) \in Seq(Item)
  <2> TAKE k \in 0 .. n
  <2>1. \A j \in 1 .. k : q.queue[j] \in Item
    BY <1>1
  <2> QED
    BY <1>1, <2>1, SubSeqProperties
<1>3. Before(0) = <<>> /\ Before(n) = q.queue
  <2>1. Before(0) = <<>>
    BY SubSeqEmpty
  <2>2. Before(n) = q.queue
    BY <1>1, SubSeqFull
  <2> QED
    BY <2>1, <2>2
<1>4. ASSUME NEW k \in 0 .. n
      PROVE  /\ Payload(MergedUpTo(q, k + 1), t) =
                  Payload(MergedUpTo(q, k), t) \o (HeldAt(q, t, k + 1) \o Payload(RealAt(q, k + 1), t))
             /\ Payload(MergedUpTo(q, k), t) \in Seq(Int)
             /\ Payload(RealAt(q, k + 1), t) \in Seq(Int)
  <2>1. k + 1 \in 1 .. n + 1
    BY <1>1
  <2> DEFINE m == MergedUpTo(q, k)
             v == VirtualAt(q, k + 1)
             r == RealAt(q, k + 1)
  <2>2. m \in Seq(Item) /\ MergedUpTo(q, k + 1) = m \o (v \o r)
    BY MergeUnfolded, EventsAreItems
  <2>3. v \in Seq(Item) /\ r \in Seq(Item) /\ v \o r \in Seq(Item)
    BY <2>1, PieceFacts, EventsAreItems
  <2>4. Payload(v, t) = HeldAt(q, t, k + 1)
    BY <2>1, VirtualPayload
  <2> HIDE DEF m, v, r
  <2>5. Payload(m \o (v \o r), t) = Payload(m, t) \o Payload(v \o r, t)
    BY <2>2, <2>3, PayloadConcat
  <2>6. Payload(v \o r, t) = Payload(v, t) \o Payload(r, t)
    BY <2>3, PayloadConcat
  <2>7. Payload(m, t) \in Seq(Int) /\ Payload(r, t) \in Seq(Int)
    BY <2>2, <2>3, PayloadType
  <2> QED
    BY <2>2, <2>4, <2>5, <2>6, <2>7 DEF m, r
<1>5. 0 \in T
  <2>1. Payload(MergedUpTo(q, 0), t) = <<>>
    BY MergeUnfolded, PayloadEmpty
  <2>2. Payload(Before(0), t) = <<>>
    BY <1>3, PayloadEmpty
  <2>3. HeldUpTo(q, t, 0) = <<>>
    BY <1>1, HeldFacts
  <2> QED
    BY <2>1, <2>2, <2>3, EmptyLaws
<1>6. ASSUME NEW k \in T PROVE k + 1 \in T
  <2> SUFFICES ASSUME k + 1 <= n
               PROVE  Payload(MergedUpTo(q, k + 1), t)
                        = Payload(Before(k + 1), t) \o HeldUpTo(q, t, k + 1)
    OBVIOUS
  <2>1. k \in 0 .. n /\ k + 1 \in 1 .. n /\ k < n
    BY <1>1
  <2> DEFINE x == Payload(Before(k), t)
             y == HeldUpTo(q, t, k)
             z == HeldAt(q, t, k + 1)
             w == Part(q.queue[k + 1], t)
  <2>2. Payload(MergedUpTo(q, k), t) = x \o y
    BY <2>1
  <2>3. Payload(RealAt(q, k + 1), t) = w
    <3>1. RealAt(q, k + 1) = Append(<<>>, q.queue[k + 1]) /\ <<>> \in Seq(Item)
      BY <2>1, EmptySeq DEF RealAt
    <3>2. /\ Payload(Append(<<>>, q.queue[k + 1]), t) = Payload(<<>>, t) \o w
          /\ w \in Seq(Int)
      BY <1>1, <2>1, <3>1, PayloadAppend
    <3> QED
      BY <3>1, <3>2, PayloadEmpty, EmptyLaws
  <2>4. Payload(Before(k + 1), t) = x \o w /\ w \in Seq(Int)
    <3>1. Before(k + 1) = Before(k) \o <<q.queue[k + 1]>>
      <4>1. 1 \in 1 .. n /\ k + 1 \in 1 .. n /\ (k + 1) - 1 = k
        BY <1>1, <2>1
      <4> QED
        BY <1>1, <4>1, SubSeqRecursiveSecond
    <3>2. Before(k + 1) = Append(Before(k), q.queue[k + 1])
      BY <1>1, <1>2, <2>1, <3>1, AppendIsConcat
    <3>3. /\ Payload(Append(Before(k), q.queue[k + 1]), t) = Payload(Before(k), t) \o w
          /\ w \in Seq(Int)
      BY <1>1, <1>2, <2>1, PayloadAppend
    <3> QED
      BY <3>2, <3>3
  <2>5. /\ y \in Seq(Int) /\ z \in Seq(Int) /\ HeldUpTo(q, t, k + 1) = y \o z
        /\ compute_full_event_type(q.queue[k + 1]) = t => HeldUpTo(q, t, k + 1) = <<>>
    BY <2>1, HeldFacts
  <2>6. x \in Seq(Int)
    BY <1>2, <2>1, PayloadType
  <2>7. Payload(MergedUpTo(q, k + 1), t) = (x \o y) \o (z \o w)
    BY <1>4, <2>1, <2>2, <2>3
  <2>8. w = <<>> \/ compute_full_event_type(q.queue[k + 1]) = t
    BY DEF Part
  <2> HIDE DEF T, x, y, z, w, Before
  <2>9. CASE w = <<>>
    <3>1. z \o w = z /\ x \o w = x /\ (x \o y) \o z = x \o (y \o z)
      BY <2>5, <2>6, <2>9, EmptyLaws, PayloadAssociative
    <3> QED
      BY <2>4, <2>5, <2>7, <3>1
  <2>10. CASE compute_full_event_type(q.queue[k + 1]) = t
    <3>1. y \o z = <<>>
      BY <2>5, <2>10
    <3>2. y = <<>> /\ z = <<>>
      BY <2>5, <3>1, ConcatEqualIffEmpty
    <3>3. x \o y = x /\ z \o w = w
      BY <2>4, <2>6, <3>2, EmptyLaws
    <3>4. (x \o w) \o HeldUpTo(q, t, k + 1) = x \o w
      <4>1. HeldUpTo(q, t, k + 1) = <<>>
        BY <2>5, <2>10
      <4>2. x \o w \in Seq(Int)
        BY <2>4, <2>6, IntConcat
      <4> QED
        BY <4>1, <4>2, EmptyLaws
    <3> QED
      BY <2>4, <2>7, <3>3, <3>4
  <2> QED
    BY <2>8, <2>9, <2>10
<1>7. T = Nat
  <2> HIDE DEF T
  <2>1. T \subseteq Nat
    BY DEF T
  <2> QED
    BY <1>5, <1>6, <2>1, NumberInduction
<1>8. Payload(MergedUpTo(q, n), t) = Payload(q.queue, t) \o HeldUpTo(q, t, n)
  <2>1. n \in T /\ n <= n
    <3> HIDE DEF T
    <3> QED
      BY <1>1, <1>7
  <2>2. Payload(MergedUpTo(q, n), t) = Payload(Before(n), t) \o HeldUpTo(q, t, n)
    <3> HIDE DEF Before
    <3> QED
      BY <2>1
  <2> QED
    BY <1>3, <2>2
<1>9. RealAt(q, n + 1) = <<>>
  BY <1>1 DEF RealAt
<1> HIDE DEF T, Before
<1>10. /\ HeldUpTo(q, t, n) \in Seq(Int) /\ HeldAt(q, t, n + 1) \in Seq(Int)
       /\ HeldUpTo(q, t, n) \o HeldAt(q, t, n + 1) = Held(q, t)
  <2>1. n \in 0 .. n
    BY <1>1
  <2>2. /\ HeldUpTo(q, t, n) \in Seq(Int) /\ HeldAt(q, t, n + 1) \in Seq(Int)
        /\ HeldUpTo(q, t, n + 1) = HeldUpTo(q, t, n) \o HeldAt(q, t, n + 1)
        /\ HeldUpTo(q, t, n + 1) = Held(q, t)
    BY <2>1, HeldFacts
  <2> QED
    BY <2>2
<1>11. Payload(Merged(q), t) =
         Payload(MergedUpTo(q, n), t) \o (HeldAt(q, t, n + 1) \o <<>>)
  <2>1. n \in 0 .. n
    BY <1>1
  <2>2. MergedUpTo(q, n + 1) = Merged(q)
    BY MergeUnfolded
  <2> QED
    BY <1>4, <1>9, <2>1, <2>2, PayloadEmpty
<1>12. Payload(q.queue, t) \in Seq(Int)
  BY <1>1, EventsAreItems, PayloadType
<1> DEFINE x == Payload(q.queue, t)
           y == HeldUpTo(q, t, n)
           z == HeldAt(q, t, n + 1)
<1>13. (x \o y) \o z = x \o (y \o z) /\ z \o <<>> = z
  BY <1>10, <1>12, EmptyLaws, PayloadAssociative
<1> HIDE DEF x, y, z
<1> QED
  BY <1>8, <1>10, <1>11, <1>13 DEF x, y, z
---------------------------------------------------------------------------
(* prune, and what an acknowledgement covers.                            *)

\* IdsOrdered over positions.
LEMMA OrderedIncreasing ==
  ASSUME NEW q, QueueShape(q), IdsOrdered(q)
  PROVE  /\ Increasing(q.queue) /\ q.queue \in Seq(QueuedEvent)
         /\ DOMAIN q.queue = 1 .. Len(q.queue) /\ Len(q.queue) \in Nat
         /\ \A i \in 1 .. Len(q.queue) : q.queue[i] \in QueuedEvent /\ q.queue[i].id \in Nat
<1>1. /\ q.queue \in Seq(QueuedEvent)
      /\ DOMAIN q.queue = 1 .. Len(q.queue) /\ Len(q.queue) \in Nat
  BY LenProperties DEF QueueShape
<1>2. Increasing(q.queue)
  BY <1>1 DEF IdsOrdered, Increasing
<1>3. \A i \in 1 .. Len(q.queue) : q.queue[i] \in QueuedEvent
  BY <1>1, ElementOfSeq
<1>4. \A e \in QueuedEvent : e.id \in Nat
  BY DEF QueuedEvent
<1> QED
  BY <1>1, <1>2, <1>3, <1>4

\* What contents() returns: the queue and the virtual events, by id.
LEMMA MergedFacts ==
  ASSUME NEW q, QueueShape(q), IdsOrdered(q)
  PROVE  /\ Merged(q) \in Seq(QueuedEvent) /\ Increasing(Merged(q))
         /\ \A p \in 1 .. Len(Merged(q)) :
              \/ \E j \in 1 .. Len(q.queue) : Merged(q)[p] = q.queue[j]
              \/ Merged(q)[p] \in VirtualSet(q)
<1> DEFINE n == Len(q.queue)
<1>1. n \in 0 .. n /\ n + 1 \in 1 .. n + 1 /\ n + 1 \in 0 .. n + 1
  BY OrderedIncreasing
<1>2. /\ MergedUpTo(q, n) \in Seq(QueuedEvent)
      /\ Merged(q) = MergedUpTo(q, n) \o (VirtualAt(q, n + 1) \o RealAt(q, n + 1))
      /\ Merged(q) = MergedUpTo(q, n + 1)
  BY <1>1, MergeUnfolded
<1>3. VirtualAt(q, n + 1) \o RealAt(q, n + 1) \in Seq(QueuedEvent)
  BY <1>1, PieceFacts
<1>4. MergeInv(q, n + 1)
  BY <1>1, MergeIncreasing
<1>5. Merged(q) \in Seq(QueuedEvent)
  BY <1>2, <1>3, ConcatEvents
<1> QED
  BY <1>2, <1>4, <1>5 DEF MergeInv, FromPieces

\* The first c events are the ones that an acknowledgement of `last` covers.
Splits(events, last, c) ==
  /\ c \in 0 .. Len(events)
  /\ \A i \in 1 .. Len(events) :
       IF i <= c THEN events[i].id <= last ELSE events[i].id > last

\* An acknowledgement covers one number of events.
LEMMA SplitUnique ==
  ASSUME NEW s \in Seq(QueuedEvent), NEW last \in Int, NEW c, NEW d,
         Splits(s, last, c), Splits(s, last, d)
  PROVE  c = d
<1>1. Len(s) \in Nat /\ \A i \in 1 .. Len(s) : s[i].id \in Nat
  <2>1. Len(s) \in Nat /\ \A i \in 1 .. Len(s) : s[i] \in QueuedEvent
    BY ElementOfSeq, LenProperties
  <2>2. \A e \in QueuedEvent : e.id \in Nat
    BY DEF QueuedEvent
  <2> QED
    BY <2>1, <2>2
<1>2. c \in Nat /\ d \in Nat /\ c <= Len(s) /\ d <= Len(s)
  BY <1>1 DEF Splits
<1>3. CASE c < d
  <2>1. d \in 1 .. Len(s) /\ s[d].id <= last /\ s[d].id > last
    BY <1>1, <1>2, <1>3 DEF Splits
  <2> QED
    BY <1>1, <2>1
<1>4. CASE d < c
  <2>1. c \in 1 .. Len(s) /\ s[c].id <= last /\ s[c].id > last
    BY <1>1, <1>2, <1>4 DEF Splits
  <2> QED
    BY <1>1, <2>1
<1> QED
  BY <1>2, <1>3, <1>4

\* PrunedCount is that number: in a queue in id order, all events up to the id.
LEMMA CountFacts ==
  ASSUME NEW q, q.queue \in Seq(QueuedEvent), Increasing(q.queue), NEW last \in Int
  PROVE  Splits(q.queue, last, PrunedCount(q, last))
<1> DEFINE n == Len(q.queue)
           Stops(i) == i <= n => q.queue[i].id > last
           T == {i \in 1 .. n + 1 : Stops(i)}
<1>1. n \in Nat /\ \A i \in 1 .. n : q.queue[i].id \in Nat
  <2>1. n \in Nat /\ \A i \in 1 .. n : q.queue[i] \in QueuedEvent
    BY ElementOfSeq, LenProperties
  <2>2. \A e \in QueuedEvent : e.id \in Nat
    BY DEF QueuedEvent
  <2> QED
    BY <2>1, <2>2
<1>2. n + 1 \in T /\ T \in SUBSET Nat
  BY <1>1
<1>3. PICK m \in T : \A i \in T : m <= i
  <2> HIDE DEF T
  <2> QED
    BY <1>2, LeastNumber
<1>4. \A i \in 1 .. m - 1 : q.queue[i].id <= last
  <2> TAKE i \in 1 .. m - 1
  <2>1. i \in 1 .. n /\ i \notin T
    BY <1>1, <1>3
  <2> QED
    BY <1>1, <2>1
<1>5. /\ m - 1 \in 0 .. n /\ \A i \in 1 .. m - 1 : q.queue[i].id <= last
      /\ m - 1 < n => q.queue[(m - 1) + 1].id > last
  BY <1>1, <1>3, <1>4
<1> DEFINE c == PrunedCount(q, last)
<1>6. /\ c \in 0 .. n /\ \A i \in 1 .. c : q.queue[i].id <= last
      /\ c < n => q.queue[c + 1].id > last
  BY <1>5 DEF PrunedCount
<1> HIDE DEF c
<1>7. ASSUME NEW i \in 1 .. n, ~(i <= c) PROVE q.queue[i].id > last
  <2>1. c + 1 \in 1 .. n /\ q.queue[c + 1].id > last /\ (c + 1 = i \/ c + 1 < i)
    BY <1>1, <1>6, <1>7
  <2>2. c + 1 < i => q.queue[c + 1].id < q.queue[i].id
    BY <2>1 DEF Increasing
  <2> QED
    BY <1>1, <2>1, <2>2
<1>8. Splits(q.queue, last, c)
  BY <1>6, <1>7 DEF Splits
<1> QED
  BY <1>8 DEF c

\* prune drops what the acknowledgement covers, and nothing else.
LEMMA PruneFacts ==
  ASSUME NEW q, IsQueue(q), QueueShape(q), IdsOrdered(q), NEW last \in Int
  PROVE  LET c == PrunedCount(q, last)
             p == prune(q, last)
         IN  /\ Splits(q.queue, last, c)
             /\ IsQueue(p) /\ QueueShape(p) /\ IdsOrdered(p)
             /\ p.queue = SubSeq(q.queue, c + 1, Len(q.queue))
             /\ Len(p.queue) = Len(q.queue) - c
             /\ \A i \in 1 .. Len(p.queue) :
                  p.queue[i] = q.queue[c + i] /\ c + i \in 1 .. Len(q.queue)
             /\ p.virtual_events = q.virtual_events /\ p.next_event_id = q.next_event_id
             /\ p.newest_pruned_id = IF c = 0 THEN q.newest_pruned_id ELSE q.queue[c].id
<1> DEFINE c == PrunedCount(q, last)
           p == prune(q, last)
           n == Len(q.queue)
<1>1. Splits(q.queue, last, c) /\ c \in 0 .. n /\ n \in Nat
  BY OrderedIncreasing, CountFacts DEF Splits
<1>2. /\ IsQueue(p) /\ p.virtual_events = q.virtual_events
      /\ p.next_event_id = q.next_event_id
      /\ p.newest_pruned_id = IF c = 0 THEN q.newest_pruned_id ELSE q.queue[c].id
      /\ p.queue = IF c = 0 THEN q.queue ELSE SubSeq(q.queue, c + 1, n)
  BY DEF prune, IsQueue
<1> HIDE DEF c, p
<1>3. p.queue = SubSeq(q.queue, c + 1, n)
  <2>1. q.queue = SubSeq(q.queue, 1, n)
    BY OrderedIncreasing, SubSeqFull
  <2> QED
    BY <1>1, <1>2, <2>1
<1>4. \A i \in c + 1 .. n : q.queue[i] \in QueuedEvent
  BY <1>1, OrderedIncreasing
<1>5. /\ p.queue \in Seq(QueuedEvent)
      /\ Len(p.queue) = n - c
      /\ \A i \in 1 .. n - c : p.queue[i] = q.queue[c + i] /\ c + i \in 1 .. n
  <2> DEFINE s == SubSeq(q.queue, c + 1, n)
  <2>1. /\ s \in Seq(QueuedEvent)
        /\ Len(s) = IF c + 1 <= n THEN n - (c + 1) + 1 ELSE 0
        /\ \A i \in 1 .. n - (c + 1) + 1 : s[i] = q.queue[(c + 1) + i - 1]
    BY <1>1, <1>4, SubSeqProperties
  <2> HIDE DEF s
  <2>2. Len(s) = n - c /\ n - (c + 1) + 1 = n - c
    BY <1>1, <2>1
  <2>3. \A i \in 1 .. n - c : (c + 1) + i - 1 = c + i /\ c + i \in 1 .. n
    BY <1>1
  <2> QED
    BY <1>3, <2>1, <2>2, <2>3 DEF s
<1>6. QueueShape(p)
  BY <1>2, <1>5 DEF QueueShape
<1>7. IdsOrdered(p)
  <2>1. DOMAIN p.queue = 1 .. n - c /\ DOMAIN q.queue = 1 .. n
    BY <1>5, LenProperties, OrderedIncreasing
  <2>2. ASSUME NEW i \in 1 .. n - c, NEW j \in 1 .. n - c, i < j
        PROVE  p.queue[i].id < p.queue[j].id
    <3>1. c + i < c + j /\ c + i \in 1 .. n /\ c + j \in 1 .. n
      BY <1>1, <2>2
    <3>2. q.queue[c + i].id < q.queue[c + j].id
      BY <2>1, <3>1 DEF IdsOrdered
    <3> QED
      BY <1>5, <3>2
  <2>3. ASSUME NEW t \in DOMAIN p.virtual_events
        PROVE  LET event == p.virtual_events[t]
               IN  /\ compute_full_event_type(event) = t
                   /\ \A i \in DOMAIN p.queue :
                        /\ p.queue[i].id # event.id
                        /\ compute_full_event_type(p.queue[i]) = t => p.queue[i].id < event.id
                   /\ \A u \in DOMAIN p.virtual_events :
                        p.virtual_events[u].id = event.id => u = t
    <3>1. /\ t \in DOMAIN q.virtual_events /\ compute_full_event_type(q.virtual_events[t]) = t
          /\ \A i \in 1 .. n :
               /\ q.queue[i].id # q.virtual_events[t].id
               /\ compute_full_event_type(q.queue[i]) = t
                    => q.queue[i].id < q.virtual_events[t].id
          /\ \A u \in DOMAIN q.virtual_events :
               q.virtual_events[u].id = q.virtual_events[t].id => u = t
      BY <1>2, <2>1, <2>3 DEF IdsOrdered
    <3> QED
      BY <1>2, <1>5, <2>1, <3>1
  <2> QED
    BY <2>1, <2>2, <2>3 DEF IdsOrdered
<1> QED
  BY <1>1, <1>2, <1>3, <1>5, <1>6, <1>7 DEF c, p

\* If every virtual event is newer than `last`, merging does not touch the
\* events that an acknowledgement of `last` covers.
LEMMA MergedPrefix ==
  ASSUME NEW q, QueueShape(q), IdsOrdered(q), NEW last \in Int,
         NEW c, Splits(q.queue, last, c), \A e \in VirtualSet(q) : e.id > last
  PROVE  /\ Splits(Merged(q), last, c)
         /\ \A i \in 1 .. c : Merged(q)[i] = q.queue[i] /\ i \in 1 .. Len(Merged(q))
<1> DEFINE n == Len(q.queue)
           m(k) == MergedUpTo(q, k)
           Keeps(k) == /\ IF k <= c THEN Len(m(k)) = k ELSE Len(m(k)) >= c
                       /\ \A i \in 1 .. c : i <= k => m(k)[i] = q.queue[i]
           T == {k \in Nat : k <= n + 1 => Keeps(k)}
<1>1. /\ n \in Nat /\ c \in 0 .. n /\ c \in Nat
      /\ \A i \in 1 .. n : q.queue[i] \in QueuedEvent /\ q.queue[i].id \in Nat
      /\ \A i \in 1 .. c : q.queue[i].id <= last
  <2>1. c \in 0 .. n /\ \A i \in 1 .. n : i <= c => q.queue[i].id <= last
    BY DEF Splits
  <2> QED
    BY <2>1, OrderedIncreasing
<1>2. ASSUME NEW k \in 1 .. c PROVE VirtualAt(q, k) = <<>>
  <2>1. k \in 1 .. n /\ k \in 1 .. n + 1 /\ q.queue[k].id <= last
    BY <1>1
  <2>2. ASSUME NEW e \in At(q, k) PROVE FALSE
    <3>1. e \in VirtualSet(q) /\ Slot(q, e) = k /\ e.id > last
      BY <2>2 DEF At
    <3>2. e \in QueuedEvent
      BY <3>1, VirtualFacts
    <3>3. Slot(q, e) <= n => e.id < q.queue[Slot(q, e)].id
      BY <3>2, SlotFacts DEF QueueShape
    <3>4. e.id \in Nat /\ e.id < q.queue[k].id
      BY <1>1, <2>1, <3>1, <3>2, <3>3 DEF QueuedEvent
    <3> QED
      BY <1>1, <2>1, <3>1, <3>4
  <2>3. /\ VirtualAt(q, k) \in Seq(QueuedEvent)
        /\ \A i \in 1 .. Len(VirtualAt(q, k)) : VirtualAt(q, k)[i] \in At(q, k)
    BY <2>1, PieceFacts
  <2>4. ~(1 \in 1 .. Len(VirtualAt(q, k)))
    BY <2>2, <2>3
  <2>5. VirtualAt(q, k) # <<>> => Len(VirtualAt(q, k)) \in Nat \ {0}
    BY <2>3, EmptySeq
  <2> QED
    BY <2>4, <2>5
<1>3. 0 \in T
  <2>1. m(0) = <<>> /\ Len(<<>>) = 0
    BY MergeUnfolded
  <2> QED
    BY <1>1, <2>1
<1>4. ASSUME NEW k \in T PROVE k + 1 \in T
  <2> SUFFICES ASSUME k + 1 <= n + 1 PROVE Keeps(k + 1)
    OBVIOUS
  <2>1. k \in Nat /\ k \in 0 .. n /\ k + 1 \in 1 .. n + 1 /\ Keeps(k)
    BY <1>1
  <2> DEFINE a == m(k)
             b == VirtualAt(q, k + 1) \o RealAt(q, k + 1)
  <2>2. m(k + 1) = a \o b /\ a \in Seq(QueuedEvent)
    BY <2>1, MergeUnfolded
  <2>3. b \in Seq(QueuedEvent)
    BY <2>1, PieceFacts
  <2>4. Keeps(k + 1) <=>
          /\ IF k + 1 <= c THEN Len(a \o b) = k + 1 ELSE Len(a \o b) >= c
          /\ \A i \in 1 .. c : i <= k + 1 => (a \o b)[i] = q.queue[i]
    BY <2>2
  <2>5. /\ IF k <= c THEN Len(a) = k ELSE Len(a) >= c
        /\ \A i \in 1 .. c : i <= k => a[i] = q.queue[i]
    BY <2>1
  <2>6. ASSUME k + 1 <= c PROVE b = <<q.queue[k + 1]>>
    <3>1. VirtualAt(q, k + 1) = <<>>
      BY <1>1, <1>2, <2>1, <2>6
    <3>2. RealAt(q, k + 1) = <<q.queue[k + 1]>> /\ RealAt(q, k + 1) \in Seq(QueuedEvent)
      BY <1>1, <2>1, <2>6, PieceFacts DEF RealAt
    <3> QED
      BY <3>1, <3>2, ConcatEmptySeq
  <2> HIDE DEF a, b, m, T, Keeps, n
  <2>7. /\ Len(a \o b) = Len(a) + Len(b) /\ Len(a) \in Nat /\ Len(b) \in Nat
        /\ \A i \in 1 .. Len(a) : (a \o b)[i] = a[i]
        /\ \A i \in 1 .. Len(b) : (a \o b)[Len(a) + i] = b[i]
    BY <2>2, <2>3, ConcatEvents
  <2>8. CASE k + 1 <= c
    <3>1. Len(a) = k /\ Len(b) = 1 /\ b[1] = q.queue[k + 1]
      BY <1>1, <2>1, <2>5, <2>6, <2>8
    <3>2. (a \o b)[k + 1] = q.queue[k + 1]
      BY <2>7, <3>1
    <3>3. ASSUME NEW i \in 1 .. c, i <= k + 1 PROVE (a \o b)[i] = q.queue[i]
      <4>1. i = k + 1 \/ (i <= k /\ i \in 1 .. Len(a))
        BY <1>1, <2>1, <3>1, <3>3
      <4> QED
        BY <2>5, <2>7, <3>2, <4>1
    <3> QED
      BY <2>4, <2>7, <2>8, <3>1, <3>3
  <2>9. CASE ~(k + 1 <= c)
    <3>1. k >= c /\ Len(a) >= c
      BY <1>1, <2>1, <2>5, <2>9
    <3>2. ASSUME NEW i \in 1 .. c PROVE (a \o b)[i] = q.queue[i]
      <4>1. i <= k /\ i \in 1 .. Len(a)
        BY <1>1, <2>1, <2>7, <3>1
      <4> QED
        BY <2>5, <2>7, <4>1
    <3>3. Len(a \o b) >= c
      BY <1>1, <2>7, <3>1
    <3> QED
      BY <2>4, <2>9, <3>2, <3>3
  <2> QED
    BY <2>8, <2>9
<1>5. Keeps(n + 1)
  <2>1. T = Nat
    <3>1. T \subseteq Nat
      OBVIOUS
    <3> HIDE DEF T
    <3> QED
      BY <1>3, <1>4, <3>1, NumberInduction
  <2>2. n + 1 \in T /\ n + 1 <= n + 1
    <3> HIDE DEF T
    <3> QED
      BY <1>1, <2>1
  <2> HIDE DEF Keeps
  <2> QED
    BY <2>2
<1>6. m(n + 1) = Merged(q)
  BY MergeUnfolded
<1> DEFINE s == Merged(q)
<1>7. Len(s) >= c /\ \A i \in 1 .. c : s[i] = q.queue[i]
  BY <1>1, <1>5, <1>6
<1>8. /\ s \in Seq(QueuedEvent) /\ Increasing(s) /\ Len(s) \in Nat
      /\ \A p \in 1 .. Len(s) : s[p].id \in Nat
      /\ \A p \in 1 .. Len(s) :
           (\E j \in 1 .. n : s[p] = q.queue[j]) \/ s[p] \in VirtualSet(q)
  <2>1. /\ s \in Seq(QueuedEvent) /\ Increasing(s)
        /\ \A p \in 1 .. Len(s) :
             (\E j \in 1 .. n : s[p] = q.queue[j]) \/ s[p] \in VirtualSet(q)
    BY MergedFacts
  <2>2. Len(s) \in Nat /\ \A p \in 1 .. Len(s) : s[p] \in QueuedEvent
    BY <2>1, ElementOfSeq, LenProperties
  <2>3. \A e \in QueuedEvent : e.id \in Nat
    BY DEF QueuedEvent
  <2> QED
    BY <2>1, <2>2, <2>3
<1> HIDE DEF s, n, m, T, Keeps
<1>9. ASSUME NEW p \in 1 .. Len(s), ~(p <= c) PROVE s[p].id > last
  <2>1. CASE s[p] \in VirtualSet(q)
    BY <2>1
  <2>2. CASE \E j \in 1 .. n : s[p] = q.queue[j]
    <3>1. PICK j \in 1 .. n : s[p] = q.queue[j]
      BY <2>2
    <3>2. CASE j <= c
      <4>1. j \in 1 .. c /\ j \in 1 .. Len(s) /\ j < p
        BY <1>1, <1>7, <1>8, <1>9, <3>2
      <4>2. s[j].id < s[p].id /\ s[j] = s[p]
        BY <1>7, <1>8, <3>1, <4>1 DEF Increasing
      <4> QED
        BY <1>8, <4>1, <4>2
    <3>3. CASE ~(j <= c)
      BY <3>1, <3>3 DEF Splits, n
    <3> QED
      BY <3>2, <3>3
  <2> QED
    BY <1>8, <2>1, <2>2
<1>10. ASSUME NEW p \in 1 .. Len(s), p <= c PROVE s[p].id <= last
  <2>1. p \in 1 .. c
    BY <1>1, <1>10
  <2> QED
    BY <1>1, <1>7, <2>1
<1>11. c \in 0 .. Len(s) /\ \A i \in 1 .. c : i \in 1 .. Len(s)
  BY <1>1, <1>7, <1>8
<1> QED
  BY <1>7, <1>9, <1>10, <1>11 DEF Splits, s

\* The payload that is left when the first c events are acknowledged.
LEMMA MergedPayload ==
  ASSUME NEW q, QueueShape(q), IdsOrdered(q), NEW last \in Int, NEW t,
         NEW c, Splits(q.queue, last, c), \A e \in VirtualSet(q) : e.id > last
  PROVE  Payload(SubSeq(Merged(q), c + 1, Len(Merged(q))), t)
           = Payload(SubSeq(q.queue, c + 1, Len(q.queue)), t) \o Held(q, t)
<1> DEFINE s == Merged(q)
           r == q.queue
           sFront == SubSeq(s, 1, c)
           sBack == SubSeq(s, c + 1, Len(s))
           rFront == SubSeq(r, 1, c)
           rBack == SubSeq(r, c + 1, Len(r))
<1>1. s \in Seq(QueuedEvent) /\ r \in Seq(QueuedEvent)
  BY MergedFacts, OrderedIncreasing
<1>2. /\ Len(s) \in Nat /\ Len(r) \in Nat /\ c \in 0 .. Len(r) /\ c \in 0 .. Len(s)
      /\ \A i \in 1 .. c : s[i] = r[i]
      /\ \A i \in 1 .. Len(s) : s[i] \in QueuedEvent
      /\ \A i \in 1 .. Len(r) : r[i] \in QueuedEvent
  <2>1. Splits(s, last, c) /\ \A i \in 1 .. c : s[i] = r[i]
    BY MergedPrefix
  <2> QED
    BY <1>1, <2>1, ElementOfSeq, LenProperties DEF Splits
<1>3. Payload(s, t) = Payload(r, t) \o Held(q, t)
  BY MergePayload
<1>4. Held(q, t) \in Seq(Int)
  BY EmptyLaws DEF Held, QueueShape, QueuedEvent
<1> HIDE DEF s, r
<1>5. /\ sFront \in Seq(QueuedEvent) /\ sBack \in Seq(QueuedEvent)
      /\ rFront \in Seq(QueuedEvent) /\ rBack \in Seq(QueuedEvent)
  <2>1. /\ \A i \in 1 .. c : s[i] \in QueuedEvent /\ r[i] \in QueuedEvent
        /\ \A i \in c + 1 .. Len(s) : s[i] \in QueuedEvent
        /\ \A i \in c + 1 .. Len(r) : r[i] \in QueuedEvent
        /\ 1 \in Int /\ c \in Int /\ c + 1 \in Int /\ Len(s) \in Int /\ Len(r) \in Int
    BY <1>2
  <2> QED
    BY <2>1, SubSeqProperties
<1>6. s = sFront \o sBack /\ r = rFront \o rBack
  <2>1. /\ 1 \in 1 .. Len(s) + 1 /\ c \in 1 - 1 .. Len(s) /\ Len(s) \in c .. Len(s)
        /\ 1 \in 1 .. Len(r) + 1 /\ c \in 1 - 1 .. Len(r) /\ Len(r) \in c .. Len(r)
    BY <1>2
  <2>2. sFront \o sBack = SubSeq(s, 1, Len(s))
    BY <1>1, <2>1, ConcatAdjacentSubSeq
  <2>3. rFront \o rBack = SubSeq(r, 1, Len(r))
    BY <1>1, <2>1, ConcatAdjacentSubSeq
  <2> QED
    BY <1>1, <2>2, <2>3, SubSeqFull
<1>7. sFront = rFront
  <2>1. /\ \A i \in 1 .. c : s[i] \in QueuedEvent /\ r[i] \in QueuedEvent
        /\ 1 \in Int /\ c \in Int
    BY <1>2
  <2>2. /\ Len(sFront) = (IF 1 <= c THEN c - 1 + 1 ELSE 0)
        /\ \A i \in 1 .. c - 1 + 1 : sFront[i] = s[1 + i - 1]
    BY <2>1, SubSeqProperties
  <2>3. /\ Len(rFront) = (IF 1 <= c THEN c - 1 + 1 ELSE 0)
        /\ \A i \in 1 .. c - 1 + 1 : rFront[i] = r[1 + i - 1]
    BY <2>1, SubSeqProperties
  <2> HIDE DEF sFront, rFront
  <2>4. Len(sFront) = c /\ Len(rFront) = c /\ c - 1 + 1 = c
    BY <1>2, <2>2, <2>3
  <2>5. \A i \in 1 .. c : 1 + i - 1 = i
    OBVIOUS
  <2>6. \A i \in 1 .. c : sFront[i] = rFront[i]
    BY <1>2, <2>2, <2>3, <2>4, <2>5
  <2> QED
    BY <1>5, <2>4, <2>6, SeqEqual
<1> HIDE DEF sFront, sBack, rFront, rBack
<1>8. /\ Payload(s, t) = Payload(sFront, t) \o Payload(sBack, t)
      /\ Payload(r, t) = Payload(rFront, t) \o Payload(rBack, t)
      /\ Payload(sFront, t) \in Seq(Int) /\ Payload(sBack, t) \in Seq(Int)
      /\ Payload(rBack, t) \in Seq(Int)
  <2>1. /\ sFront \in Seq(Item) /\ sBack \in Seq(Item)
        /\ rFront \in Seq(Item) /\ rBack \in Seq(Item)
    BY <1>5, EventsAreItems
  <2>2. \A x, y \in Seq(Item) : Payload(x \o y, t) = Payload(x, t) \o Payload(y, t)
    BY PayloadConcat
  <2>3. /\ Payload(sFront \o sBack, t) = Payload(sFront, t) \o Payload(sBack, t)
        /\ Payload(rFront \o rBack, t) = Payload(rFront, t) \o Payload(rBack, t)
    BY <2>1, <2>2, Zenon
  <2>4. Payload(sFront, t) \in Seq(Int) /\ Payload(sBack, t) \in Seq(Int)
    BY <2>1, PayloadType
  <2>5. Payload(rBack, t) \in Seq(Int)
    BY <2>1, PayloadType
  <2> QED
    BY <1>6, <2>3, <2>4, <2>5
<1> DEFINE f == Payload(sFront, t)
           a == Payload(sBack, t)
           b == Payload(rBack, t)
           h == Held(q, t)
<1>9. f \o a = (f \o b) \o h
  BY <1>3, <1>7, <1>8
<1>10. f \in Seq(Int) /\ a \in Seq(Int) /\ b \in Seq(Int) /\ h \in Seq(Int)
  BY <1>4, <1>8
<1> HIDE DEF f, a, b, h
<1>11. f \o a = f \o (b \o h) /\ b \o h \in Seq(Int)
  <2>1. (f \o b) \o h = f \o (b \o h)
    BY <1>10, PayloadAssociative
  <2>2. b \o h \in Seq(Int)
    BY <1>10, IntConcat
  <2> QED
    BY <1>9, <2>1, <2>2
<1>12. a = b \o h
  BY <1>10, <1>11, ConcatSimplifications
<1> QED
  BY <1>12 DEF a, b, h, sBack, rBack, s, r
---------------------------------------------------------------------------
(* The queue after contents() and after push.                            *)

\* A queue after contents(): nothing is virtual any more.
LEMMA MergeFacts ==
  ASSUME NEW q, IsQueue(q), QueueShape(q), IdsOrdered(q)
  PROVE  LET r == MergeVirtual(q)
         IN  /\ IsQueue(r) /\ QueueShape(r) /\ IdsOrdered(r)
             /\ r.queue = Merged(q) /\ DOMAIN r.virtual_events = {}
             /\ r.next_event_id = q.next_event_id
             /\ r.newest_pruned_id = q.newest_pruned_id
             /\ \A t : Held(r, t) = <<>>
<1> DEFINE r == MergeVirtual(q)
<1>1. DOMAIN <<>> = {} /\ IsFiniteSet({})
  BY EmptySeq, LenProperties, FS_EmptySet
<1>2. /\ IsQueue(r) /\ r.queue = Merged(q) /\ r.virtual_events = <<>>
      /\ r.next_event_id = q.next_event_id /\ r.newest_pruned_id = q.newest_pruned_id
  BY DEF IsQueue, MergeVirtual
<1> HIDE DEF r
<1>3. Merged(q) \in Seq(QueuedEvent) /\ Increasing(Merged(q))
  BY MergedFacts
<1>4. QueueShape(r)
  BY <1>1, <1>2, <1>3 DEF QueueShape
<1>5. IdsOrdered(r)
  <2>1. DOMAIN r.queue = 1 .. Len(Merged(q)) /\ DOMAIN r.virtual_events = {}
    BY <1>1, <1>2, <1>3, LenProperties
  <2> QED
    BY <1>2, <1>3, <2>1 DEF IdsOrdered, Increasing
<1>6. \A t : Held(r, t) = <<>>
  BY <1>1, <1>2 DEF Held
<1> QED
  BY <1>1, <1>2, <1>4, <1>5, <1>6 DEF r

\* What is held is a payload.
LEMMA HeldType ==
  ASSUME NEW q, QueueShape(q), NEW t
  PROVE  Held(q, t) \in Seq(Int)
<1>1. \A e \in QueuedEvent : e.messages \in Seq(Int)
  BY DEF QueuedEvent
<1> QED
  BY <1>1, EmptyLaws DEF Held, QueueShape

\* An event keeps the type and the messages of its template.
LEMMA WithIdFacts ==
  ASSUME NEW template \in Templates, NEW id \in Nat
  PROVE  LET e == WithId(template, id)
         IN  /\ e \in QueuedEvent /\ e.id = id /\ e.messages = template.messages
             /\ compute_full_event_type(e) = compute_full_event_type(template)
             /\ \A t : Part(e, t) = Part(template, t)
<1> DEFINE e == WithId(template, id)
<1>1. template \in [type : STRING, op : STRING, flag : STRING,
                    all : BOOLEAN, messages : Seq(Int)]
  BY TemplatesAssumption
<1>2. /\ e.id = id /\ e.messages = template.messages /\ e.type = template.type
      /\ e.op = template.op /\ e.flag = template.flag /\ e.all = template.all
  BY DEF WithId
<1>3. e \in QueuedEvent
  BY <1>1 DEF WithId, QueuedEvent
<1> HIDE DEF e
<1>4. compute_full_event_type(e) = compute_full_event_type(template)
  BY <1>2 DEF compute_full_event_type
<1>5. \A t : Part(e, t) = Part(template, t)
  BY <1>2, <1>4 DEF Part
<1> QED
  BY <1>2, <1>3, <1>4, <1>5 DEF e

\* The entry of the event's type takes its id and gets its messages at the end.
LEMMA CompressedFacts ==
  ASSUME NEW q, QueueShape(q), IdsOrdered(q), NEW e \in QueuedEvent
  PROVE  LET t == compute_full_event_type(e)
             v == Compressed(q.virtual_events, t, e)
         IN  /\ DOMAIN v = DOMAIN q.virtual_events \cup {t} /\ IsFiniteSet(DOMAIN v)
             /\ \A u \in DOMAIN v : u # t => u \in DOMAIN q.virtual_events
                                              /\ v[u] = q.virtual_events[u]
             /\ v[t] \in QueuedEvent /\ v[t].id = e.id /\ compute_full_event_type(v[t]) = t
             /\ v[t].messages = Held(q, t) \o e.messages
<1> DEFINE t == compute_full_event_type(e)
           d == q.virtual_events
           v == Compressed(d, t, e)
           g == [e EXCEPT !.messages = d[t].messages \o @]
<1>1. DOMAIN v = DOMAIN d \cup {t}
  BY DEF Compressed
<1>2. IsFiniteSet(DOMAIN d \cup {t})
  BY FS_AddElement DEF QueueShape
<1>3. \A u \in DOMAIN v : u # t => u \in DOMAIN d /\ v[u] = d[u]
  BY DEF Compressed
<1>4. v[t] = IF t \notin DOMAIN d THEN e ELSE g
  BY DEF Compressed
<1>5. e.messages \in Seq(Int)
  BY DEF QueuedEvent
<1>6. CASE t \notin DOMAIN d
  <2>1. v[t] = e /\ Held(q, t) = <<>>
    BY <1>4, <1>6 DEF Held
  <2>2. v[t].messages = Held(q, t) \o e.messages
    BY <1>5, <2>1, EmptyLaws
  <2> QED
    BY <1>1, <1>2, <1>3, <2>1, <2>2
<1>7. CASE t \in DOMAIN d
  <2>1. v[t] = g /\ Held(q, t) = d[t].messages
    BY <1>4, <1>7 DEF Held
  <2>2. Held(q, t) \o e.messages \in Seq(Int)
    BY <1>5, HeldType, IntConcat
  <2>3. /\ g \in QueuedEvent /\ g.id = e.id /\ g.messages = d[t].messages \o e.messages
        /\ g.type = e.type /\ g.op = e.op /\ g.flag = e.flag /\ g.all = e.all
    BY <2>1, <2>2 DEF QueuedEvent
  <2> HIDE DEF g, d
  <2>4. compute_full_event_type(g) = compute_full_event_type(e)
    BY <2>3 DEF compute_full_event_type
  <2> QED
    BY <1>1, <1>2, <1>3, <2>1, <2>3, <2>4 DEF d
<1> QED
  BY <1>6, <1>7

\* An event with a new id does not change what is pruned.
LEMMA AppendPruned ==
  ASSUME NEW s \in Seq(QueuedEvent), NEW e \in QueuedEvent, NEW last \in Int,
         NEW c, Splits(s, last, c), e.id > last
  PROVE  /\ Splits(Append(s, e), last, c)
         /\ SubSeq(Append(s, e), c + 1, Len(Append(s, e)))
              = Append(SubSeq(s, c + 1, Len(s)), e)
<1> DEFINE n == Len(s)
           a == Append(s, e)
<1>1. /\ n \in Nat /\ a \in Seq(QueuedEvent) /\ Len(a) = n + 1
      /\ \A i \in 1 .. n : a[i] = s[i] /\ s[i] \in QueuedEvent
      /\ a[n + 1] = e
  BY AppendProperties, ElementOfSeq, LenProperties
<1>2. c \in 0 .. n /\ c \in Nat
  BY <1>1 DEF Splits
<1>3. Splits(a, last, c)
  <2>1. \A i \in 1 .. n + 1 : i \in 1 .. n \/ (i = n + 1 /\ ~(i <= c))
    BY <1>1, <1>2
  <2>2. c \in 0 .. n + 1
    BY <1>1, <1>2
  <2> HIDE DEF a
  <2> QED
    BY <1>1, <2>1, <2>2 DEF Splits
<1>4. a = s \o <<e>> /\ <<e>> \in Seq(QueuedEvent) /\ Len(<<e>>) = 1
  <2>1. a = s \o <<e>>
    BY AppendIsConcat
  <2>2. <<e>> = Append(<<>>, e) /\ <<>> \in Seq(QueuedEvent) /\ Len(<<>>) = 0
    BY EmptySeq
  <2> QED
    BY <2>1, <2>2, AppendProperties
<1>5. SubSeq(a, c + 1, n) = SubSeq(s, c + 1, n)
  <2>1. CASE c + 1 <= n
    <3>1. c + 1 \in 1 .. Len(s) /\ n \in 1 .. Len(s)
      BY <1>1, <1>2, <2>1
    <3> QED
      BY <1>4, <3>1, SubSeqOfConcat1
  <2>2. CASE ~(c + 1 <= n)
    <3>1. n < c + 1 /\ n \in Int /\ c + 1 \in Int
      BY <1>1, <1>2, <2>2
    <3> QED
      BY <3>1, SubSeqEmpty
  <2> QED
    BY <2>1, <2>2
<1>6. SubSeq(a, c + 1, n + 1) = SubSeq(a, c + 1, n) \o <<e>>
  <2>1. c + 1 \in 1 .. Len(a) /\ n + 1 \in c + 1 .. Len(a) /\ (n + 1) - 1 = n
    BY <1>1, <1>2
  <2>2. SubSeq(a, c + 1, n + 1) = SubSeq(a, c + 1, (n + 1) - 1) \o <<a[n + 1]>>
    BY <1>1, <2>1, SubSeqRecursiveSecond
  <2> QED
    BY <1>1, <2>1, <2>2
<1>7. SubSeq(s, c + 1, n) \in Seq(QueuedEvent)
  <2>1. \A i \in c + 1 .. n : s[i] \in QueuedEvent
    BY <1>1, <1>2
  <2> QED
    BY <1>1, <1>2, <2>1, SubSeqProperties
<1>8. Append(SubSeq(s, c + 1, n), e) = SubSeq(s, c + 1, n) \o <<e>>
  BY <1>7, AppendIsConcat
<1> QED
  BY <1>1, <1>3, <1>5, <1>6, <1>8
---------------------------------------------------------------------------
(* The client and its queue.                                             *)

\* The ids of the invariant, over positions.
LEMMA SyncFacts ==
  ASSUME SyncInv
  PROVE  /\ Len(log) \in Nat /\ last_event_id \in Int /\ event_queue.newest_pruned_id \in Int
         /\ last_event_id < Len(log) /\ event_queue.newest_pruned_id <= last_event_id
         /\ DOMAIN event_queue.queue = 1 .. Len(event_queue.queue)
         /\ \A i \in 1 .. Len(event_queue.queue) :
              /\ event_queue.queue[i].id \in Nat
              /\ event_queue.newest_pruned_id < event_queue.queue[i].id
              /\ event_queue.queue[i].id < Len(log)
         /\ \A e \in VirtualSet(event_queue) :
              e.id \in Nat /\ last_event_id < e.id /\ e.id < Len(log)
<1>1. Len(log) \in Nat
  BY LenProperties DEF SyncInv, SyncTypes
<1>2. /\ last_event_id \in Int /\ event_queue.newest_pruned_id \in Int
      /\ last_event_id < Len(log) /\ event_queue.newest_pruned_id <= last_event_id
  BY <1>1 DEF SyncInv, SyncTypes, AcknowledgedKnown
<1>3. /\ DOMAIN event_queue.queue = 1 .. Len(event_queue.queue)
      /\ \A i \in 1 .. Len(event_queue.queue) : event_queue.queue[i].id \in Nat
  BY OrderedIncreasing DEF SyncInv, SyncTypes
<1>4. \A i \in 1 .. Len(event_queue.queue) :
         /\ event_queue.newest_pruned_id < event_queue.queue[i].id
         /\ event_queue.queue[i].id < Len(log)
  BY <1>1, <1>2, <1>3 DEF SyncInv, IdsRecent
<1>5. \A e \in VirtualSet(event_queue) : e \in QueuedEvent /\ e.id \in Nat
  BY VirtualFacts DEF SyncInv, SyncTypes, QueuedEvent
<1>6. \A e \in VirtualSet(event_queue) : last_event_id < e.id /\ e.id < Len(log)
  <2> TAKE e \in VirtualSet(event_queue)
  <2>1. PICK t \in DOMAIN event_queue.virtual_events : e = event_queue.virtual_events[t]
    BY DEF VirtualSet
  <2>2. e.id \in last_event_id + 1 .. Len(log) - 1
    BY <2>1 DEF SyncInv, IdsRecent
  <2> QED
    BY <1>1, <1>2, <2>2
<1> QED
  BY <1>1, <1>2, <1>3, <1>4, <1>5, <1>6

\* A client's acknowledgement is accepted, and leaves what is newer.
LEMMA AcceptedFacts ==
  ASSUME SyncInv
  PROVE  LET p == prune(event_queue, last_event_id)
         IN  /\ Accepted(event_queue, last_event_id)
             /\ Fetched(event_queue, last_event_id) = MergeVirtual(p)
             /\ p.newest_pruned_id = last_event_id
             /\ IsQueue(p) /\ QueueShape(p) /\ IdsOrdered(p)
             /\ p.virtual_events = event_queue.virtual_events
             /\ VirtualSet(p) = VirtualSet(event_queue)
             /\ p.next_event_id = event_queue.next_event_id
             /\ \A i \in 1 .. Len(p.queue) :
                  /\ p.queue[i].id \in Nat
                  /\ last_event_id < p.queue[i].id /\ p.queue[i].id < Len(log)
             /\ \A t : Held(p, t) = Held(event_queue, t)
<1> DEFINE q == event_queue
           last == last_event_id
           c == PrunedCount(q, last)
           p == prune(q, last)
           n == Len(q.queue)
<1>1. IsQueue(q) /\ QueueShape(q) /\ IdsOrdered(q) /\ last \in Int
  BY SyncFacts DEF SyncInv, SyncTypes
<1>2. /\ Splits(q.queue, last, c)
      /\ IsQueue(p) /\ QueueShape(p) /\ IdsOrdered(p)
      /\ Len(p.queue) = n - c
      /\ \A i \in 1 .. Len(p.queue) : p.queue[i] = q.queue[c + i] /\ c + i \in 1 .. n
      /\ p.virtual_events = q.virtual_events /\ p.next_event_id = q.next_event_id
      /\ p.newest_pruned_id = IF c = 0 THEN q.newest_pruned_id ELSE q.queue[c].id
  BY <1>1, PruneFacts
<1>3. /\ n \in Nat /\ c \in 0 .. n
      /\ \A i \in 1 .. n : IF i <= c THEN q.queue[i].id <= last ELSE q.queue[i].id > last
  BY <1>1, <1>2, OrderedIncreasing DEF Splits
<1>4. p.newest_pruned_id = last
  <2> HIDE DEF p, c
  <2>1. CASE last = q.newest_pruned_id
    <3>1. c = 0
      <4> SUFFICES ASSUME c # 0 PROVE FALSE
        OBVIOUS
      <4>1. 1 \in 1 .. n /\ 1 <= c
        BY <1>3
      <4>2. q.queue[1].id <= last /\ last < q.queue[1].id /\ q.queue[1].id \in Nat
        BY <1>3, <2>1, <4>1, SyncFacts
      <4> QED
        BY <1>1, <4>2
    <3> QED
      BY <1>2, <2>1, <3>1
  <2>2. CASE \E i \in DOMAIN q.queue : q.queue[i].id = last
    <3>1. PICK i \in 1 .. n : q.queue[i].id = last
      BY <2>2, SyncFacts
    <3>2. i <= c
      BY <1>1, <1>3, <3>1
    <3>3. c \in 1 .. n /\ c # 0
      BY <1>3, <3>1, <3>2
    <3>4. q.queue[c].id <= last
      BY <1>3, <3>3
    <3>5. i < c => q.queue[i].id < q.queue[c].id
      BY <1>1, <3>3, OrderedIncreasing DEF Increasing
    <3>6. i = c \/ i < c
      BY <1>3, <3>1, <3>2
    <3>7. q.queue[c].id = last
      BY <1>1, <1>3, <3>1, <3>3, <3>4, <3>5, <3>6, SyncFacts
    <3> QED
      BY <1>2, <3>3, <3>7
  <2> QED
    BY <2>1, <2>2 DEF SyncInv, AcknowledgedKnown
<1>5. Accepted(q, last)
  <2>1. ~AlreadyPruned(q, last)
    BY <1>1, SyncFacts DEF AlreadyPruned
  <2>2. ~NotInQueue(q, last)
    BY <1>4 DEF NotInQueue
  <2> QED
    BY <2>1, <2>2 DEF Accepted
<1>6. Fetched(q, last) = MergeVirtual(p)
  BY <1>5 DEF Fetched, Accepted
<1>7. \A i \in 1 .. Len(p.queue) :
         /\ p.queue[i].id \in Nat /\ last < p.queue[i].id /\ p.queue[i].id < Len(log)
  <2> TAKE i \in 1 .. Len(p.queue)
  <2> HIDE DEF p, c
  <2>1. p.queue[i] = q.queue[c + i] /\ c + i \in 1 .. n /\ ~(c + i <= c)
    BY <1>2, <1>3
  <2>2. q.queue[c + i].id > last
    BY <1>3, <2>1
  <2>3. q.queue[c + i].id \in Nat /\ q.queue[c + i].id < Len(log)
    BY <2>1, SyncFacts
  <2> QED
    BY <1>1, <2>1, <2>2, <2>3
<1>8. \A t : Held(p, t) = Held(q, t)
  BY <1>2 DEF Held
<1>9. VirtualSet(p) = VirtualSet(q)
  BY <1>2 DEF VirtualSet
<1> QED
  BY <1>2, <1>4, <1>5, <1>6, <1>7, <1>8, <1>9

\* The events of the next response are newer than what the client has seen.
LEMMA ResponseFacts ==
  ASSUME SyncInv
  PROVE  LET s == Merged(prune(event_queue, last_event_id))
         IN  /\ s \in Seq(QueuedEvent) /\ Increasing(s)
             /\ Len(s) \in Nat /\ DOMAIN s = 1 .. Len(s)
             /\ \A i \in 1 .. Len(s) :
                  s[i].id \in Nat /\ last_event_id < s[i].id /\ s[i].id < Len(log)
             /\ \A t : Payload(s, t) \in Seq(Int)
             /\ \A t : Payload(received \o s, t) = Payload(log, t)
<1> DEFINE p == prune(event_queue, last_event_id)
           s == Merged(p)
<1>1. /\ QueueShape(p) /\ IdsOrdered(p) /\ VirtualSet(p) = VirtualSet(event_queue)
      /\ \A i \in 1 .. Len(p.queue) :
           /\ p.queue[i].id \in Nat
           /\ last_event_id < p.queue[i].id /\ p.queue[i].id < Len(log)
      /\ \A t : Held(p, t) = Held(event_queue, t)
  BY AcceptedFacts
<1>2. /\ s \in Seq(QueuedEvent) /\ Increasing(s)
      /\ \A i \in 1 .. Len(s) :
           (\E j \in 1 .. Len(p.queue) : s[i] = p.queue[j]) \/ s[i] \in VirtualSet(p)
  BY <1>1, MergedFacts
<1>3. Len(s) \in Nat /\ DOMAIN s = 1 .. Len(s)
  BY <1>2, LenProperties
<1>4. \A i \in 1 .. Len(s) :
        s[i].id \in Nat /\ last_event_id < s[i].id /\ s[i].id < Len(log)
  BY <1>1, <1>2, SyncFacts
<1>5. \A t : Payload(s, t) = Payload(p.queue, t) \o Held(event_queue, t)
  <2> TAKE t
  <2>1. Payload(s, t) = Payload(p.queue, t) \o Held(p, t)
    BY <1>1, MergePayload
  <2> QED
    BY <1>1, <2>1
<1> HIDE DEF s
<1>6. \A t : Payload(s, t) \in Seq(Int)
  <2>1. s \in Seq(Item)
    BY <1>2, EventsAreItems
  <2> QED
    BY <2>1, PayloadType
<1>7. ASSUME NEW t PROVE Payload(received \o s, t) = Payload(log, t)
  <2>1. received \in Seq(Item) /\ s \in Seq(Item) /\ p.queue \in Seq(Item)
    BY <1>1, <1>2, EventsAreItems DEF SyncInv, SyncTypes, QueueShape
  <2>2. Payload(received \o s, t) = Payload(received, t) \o Payload(s, t)
    BY <2>1, PayloadConcat
  <2> DEFINE x == Payload(received, t)
             y == Payload(p.queue, t)
             z == Held(event_queue, t)
  <2> HIDE DEF p
  <2>3. x \in Seq(Int) /\ y \in Seq(Int)
    BY <2>1, PayloadType
  <2>4. z \in Seq(Int)
    BY HeldType DEF SyncInv, SyncTypes
  <2>5. (x \o y) \o z = Payload(log, t)
    BY DEF SyncInv, PayloadKept, p
  <2>6. Payload(s, t) = y \o z
    BY <1>5
  <2> HIDE DEF x, y, z
  <2>7. (x \o y) \o z = x \o (y \o z)
    BY <2>3, <2>4, PayloadAssociative
  <2> QED
    BY <2>2, <2>5, <2>6, <2>7 DEF x
<1> QED
  BY <1>2, <1>3, <1>4, <1>6, <1>7 DEF s
---------------------------------------------------------------------------
(* The steps of FlagSync.                                                *)

\* A new queue and its client satisfy the invariant.
LEMMA SyncInitially == Init => SyncInv
<1> SUFFICES ASSUME Init PROVE SyncInv
  OBVIOUS
<1>1. /\ Len(<<>>) = 0 /\ DOMAIN <<>> = {} /\ IsFiniteSet({})
      /\ <<>> \in Seq(QueuedEvent) /\ <<>> \in Seq(Templates) /\ <<>> \in Seq(Item)
  BY EmptySeq, LenProperties, FS_EmptySet
<1>2. /\ event_queue.queue = <<>> /\ event_queue.next_event_id = 0
      /\ event_queue.newest_pruned_id = -1 /\ event_queue.virtual_events = <<>>
      /\ IsQueue(event_queue)
  BY DEF Init, EmptyQueue, IsQueue
<1>3. last_event_id = -1 /\ received = <<>> /\ log = <<>>
  BY DEF Init
<1>4. QueueShape(event_queue)
  BY <1>1, <1>2 DEF QueueShape
<1>5. IdsOrdered(event_queue)
  BY <1>1, <1>2 DEF IdsOrdered
<1>6. SyncTypes
  BY <1>1, <1>2, <1>3, <1>4, MaxEventsAssumption DEF SyncTypes
<1>7. IdsRecent /\ AcknowledgedKnown
  BY <1>1, <1>2, <1>3 DEF IdsRecent, AcknowledgedKnown
<1>8. PayloadKept
  <2>1. prune(event_queue, last_event_id).queue = <<>>
    <3> DEFINE p == prune(event_queue, last_event_id)
    <3>1. p.queue \in Seq(QueuedEvent) /\ \A i \in 1 .. Len(p.queue) : FALSE
      <4>1. /\ QueueShape(p)
            /\ \A i \in 1 .. Len(p.queue) :
                 PrunedCount(event_queue, last_event_id) + i \in 1 .. Len(event_queue.queue)
        BY <1>2, <1>3, <1>4, <1>5, PruneFacts
      <4>2. ~\E i : i \in 1 .. Len(event_queue.queue)
        BY <1>1, <1>2
      <4> QED
        BY <4>1, <4>2 DEF QueueShape
    <3>2. p.queue # <<>> => Len(p.queue) \in Nat \ {0}
      BY <3>1, EmptySeq
    <3> QED
      BY <3>1, <3>2
  <2>2. \A t : Held(event_queue, t) = <<>>
    BY <1>1, <1>2 DEF Held
  <2>3. \A t : Payload(<<>>, t) = <<>>
    BY PayloadEmpty
  <2>4. (<<>> \o <<>>) \o <<>> = <<>>
    BY EmptyLaws
  <2> QED
    BY <1>3, <2>1, <2>2, <2>3, <2>4 DEF PayloadKept
<1> QED
  BY <1>5, <1>6, <1>7, <1>8 DEF SyncInv

\* A poll that is answered moves the payload of the response to the client.
LEMMA PollKeeps == SyncInv /\ Poll => SyncInv'
<1> SUFFICES ASSUME SyncInv, Poll PROVE SyncInv'
  OBVIOUS
<1> DEFINE p == prune(event_queue, last_event_id)
           s == Merged(p)
           n == Len(s)
<1>1. /\ IsQueue(p) /\ QueueShape(p) /\ IdsOrdered(p)
      /\ p.next_event_id = event_queue.next_event_id /\ p.newest_pruned_id = last_event_id
      /\ Fetched(event_queue, last_event_id) = MergeVirtual(p)
  BY AcceptedFacts
<1>2. /\ event_queue' = MergeVirtual(p) /\ s # <<>> /\ received' = received \o s
      /\ last_event_id' = Last(s).id /\ log' = log
  <2>1. MergeVirtual(p).queue = s
    BY <1>1, MergeFacts
  <2> HIDE DEF s, p
  <2> QED
    BY <1>1, <2>1 DEF Poll
<1>3. /\ IsQueue(event_queue') /\ QueueShape(event_queue') /\ IdsOrdered(event_queue')
      /\ event_queue'.queue = s /\ DOMAIN event_queue'.virtual_events = {}
      /\ event_queue'.next_event_id = event_queue.next_event_id
      /\ event_queue'.newest_pruned_id = last_event_id
      /\ \A t : Held(event_queue', t) = <<>>
  <2> HIDE DEF p
  <2> QED
    BY <1>1, <1>2, MergeFacts DEF p
<1>4. /\ s \in Seq(QueuedEvent) /\ Increasing(s) /\ n \in Nat /\ DOMAIN s = 1 .. n
      /\ \A i \in 1 .. n : s[i].id \in Nat /\ last_event_id < s[i].id /\ s[i].id < Len(log)
      /\ \A t : Payload(received \o s, t) = Payload(log, t)
  BY ResponseFacts
<1>5. last_event_id \in Int /\ Len(log) \in Nat /\ -1 <= last_event_id
  BY SyncFacts DEF SyncInv, SyncTypes
<1> HIDE DEF s, p
<1>6. n \in 1 .. n /\ last_event_id' = s[n].id
  <2>1. n # 0
    BY <1>2, <1>4, EmptySeq
  <2> QED
    BY <1>2, <1>4, <2>1 DEF Last
<1>7. received' \in Seq(QueuedEvent)
  BY <1>2, <1>4, ConcatProperties DEF SyncInv, SyncTypes
<1>8. SyncTypes'
  BY <1>2, <1>3, <1>4, <1>5, <1>6, <1>7 DEF SyncInv, SyncTypes
<1>9. IdsRecent'
  BY <1>2, <1>3, <1>4, <1>5 DEF IdsRecent
<1>10. AcknowledgedKnown'
  BY <1>3, <1>4, <1>5, <1>6 DEF AcknowledgedKnown
<1>11. prune(event_queue', last_event_id').queue = <<>>
  <2> DEFINE c == PrunedCount(event_queue', last_event_id')
             r == prune(event_queue', last_event_id')
  <2>1. last_event_id' \in Int
    BY <1>4, <1>6
  <2>2. Splits(s, last_event_id', c) /\ QueueShape(r) /\ Len(r.queue) = n - c
    BY <1>3, <2>1, PruneFacts
  <2> HIDE DEF c, r
  <2>3. c = n
    <3>1. c \in 0 .. n /\ (~(n <= c) => s[n].id > s[n].id)
      BY <1>6, <2>2 DEF Splits
    <3>2. s[n].id \in Nat
      BY <1>4, <1>6
    <3>3. ~(s[n].id > s[n].id)
      BY <3>2
    <3>4. n <= c
      BY <3>1, <3>3
    <3>5. n \in Nat /\ c \in 0 .. n
      BY <1>4, <3>1
    <3> HIDE DEF n
    <3> QED
      BY <3>4, <3>5
  <2>4. r.queue = <<>>
    <3>1. r.queue \in Seq(QueuedEvent) /\ Len(r.queue) = 0
      BY <1>4, <2>2, <2>3 DEF QueueShape
    <3> QED
      BY <3>1, EmptySeq
  <2> QED
    BY <2>4 DEF r
<1>12. PayloadKept'
  <2> SUFFICES ASSUME NEW t
               PROVE  (Payload(received', t) \o Payload(prune(event_queue', last_event_id').queue, t))
                        \o Held(event_queue', t) = Payload(log', t)
    BY DEF PayloadKept
  <2>1. Payload(received', t) = Payload(log', t)
    BY <1>2, <1>4
  <2>2. Payload(received', t) \in Seq(Int)
    BY <1>7, EventsAreItems, PayloadType
  <2>3. Payload(prune(event_queue', last_event_id').queue, t) = <<>>
    BY <1>11, PayloadEmpty
  <2>4. Held(event_queue', t) = <<>>
    BY <1>3
  <2> DEFINE x == Payload(received', t)
  <2>5. (x \o <<>>) \o <<>> = x
    BY <2>2, EmptyLaws
  <2> HIDE DEF x
  <2> QED
    BY <2>1, <2>3, <2>4, <2>5 DEF x
<1> QED
  BY <1>3, <1>8, <1>9, <1>10, <1>12 DEF SyncInv

\* The next poll after a lost response finds the same events.
LEMMA PollLostKeeps == SyncInv /\ PollResponseLost => SyncInv'
<1> SUFFICES ASSUME SyncInv, PollResponseLost PROVE SyncInv'
  OBVIOUS
<1> DEFINE p == prune(event_queue, last_event_id)
           s == Merged(p)
           n == Len(s)
<1>1. /\ IsQueue(p) /\ QueueShape(p) /\ IdsOrdered(p)
      /\ p.next_event_id = event_queue.next_event_id /\ p.newest_pruned_id = last_event_id
      /\ Fetched(event_queue, last_event_id) = MergeVirtual(p)
  BY AcceptedFacts
<1>2. /\ event_queue' = MergeVirtual(p) /\ received' = received
      /\ last_event_id' = last_event_id /\ log' = log
  BY <1>1 DEF PollResponseLost
<1>3. /\ IsQueue(event_queue') /\ QueueShape(event_queue') /\ IdsOrdered(event_queue')
      /\ event_queue'.queue = s /\ DOMAIN event_queue'.virtual_events = {}
      /\ event_queue'.next_event_id = event_queue.next_event_id
      /\ event_queue'.newest_pruned_id = last_event_id
      /\ \A t : Held(event_queue', t) = <<>>
  <2> HIDE DEF p
  <2> QED
    BY <1>1, <1>2, MergeFacts DEF p
<1>4. /\ s \in Seq(QueuedEvent) /\ Increasing(s) /\ n \in Nat /\ DOMAIN s = 1 .. n
      /\ \A i \in 1 .. n : s[i].id \in Nat /\ last_event_id < s[i].id /\ s[i].id < Len(log)
      /\ \A t : Payload(s, t) \in Seq(Int)
      /\ \A t : Payload(received \o s, t) = Payload(log, t)
  BY ResponseFacts
<1>5. last_event_id \in Int /\ Len(log) \in Nat /\ -1 <= last_event_id
  BY SyncFacts DEF SyncInv, SyncTypes
<1> HIDE DEF s, p
<1>6. SyncTypes'
  BY <1>2, <1>3, <1>5 DEF SyncInv, SyncTypes
<1>7. IdsRecent'
  BY <1>2, <1>3, <1>4, <1>5 DEF IdsRecent
<1>8. AcknowledgedKnown'
  BY <1>2, <1>3, <1>5 DEF AcknowledgedKnown
<1>9. prune(event_queue', last_event_id').queue = s
  <2> DEFINE c == PrunedCount(event_queue', last_event_id')
             r == prune(event_queue', last_event_id')
  <2>1. last_event_id' \in Int
    BY <1>2, <1>5
  <2>2. Splits(s, last_event_id', c) /\ r.queue = SubSeq(s, c + 1, n)
    BY <1>3, <2>1, PruneFacts
  <2> HIDE DEF c, r
  <2>3. c = 0
    <3> SUFFICES ASSUME c # 0 PROVE FALSE
      OBVIOUS
    <3>1. 1 \in 1 .. n /\ 1 <= c
      BY <1>4, <2>2 DEF Splits
    <3>2. s[1].id <= last_event_id
      BY <1>2, <2>2, <3>1 DEF Splits
    <3> QED
      BY <1>4, <1>5, <3>1, <3>2
  <2>4. r.queue = s
    BY <1>4, <2>2, <2>3, SubSeqFull
  <2> QED
    BY <2>4 DEF r
<1>10. PayloadKept'
  <2> SUFFICES ASSUME NEW t
               PROVE  (Payload(received', t) \o Payload(prune(event_queue', last_event_id').queue, t))
                        \o Held(event_queue', t) = Payload(log', t)
    BY DEF PayloadKept
  <2> DEFINE x == Payload(received, t)
             y == Payload(s, t)
  <2>1. received \in Seq(Item) /\ s \in Seq(Item)
    BY <1>4, EventsAreItems DEF SyncInv, SyncTypes
  <2>2. Payload(received \o s, t) = x \o y
    BY <2>1, PayloadConcat
  <2>3. x \in Seq(Int) /\ y \in Seq(Int)
    BY <2>1, PayloadType
  <2>4. x \o y = Payload(log, t)
    BY <1>4, <2>2
  <2>5. Held(event_queue', t) = <<>>
    BY <1>3
  <2>6. /\ Payload(received', t) = x /\ Payload(log', t) = Payload(log, t)
        /\ Payload(prune(event_queue', last_event_id').queue, t) = y
    BY <1>2, <1>9
  <2> HIDE DEF x, y
  <2>7. (x \o y) \o <<>> = x \o y
    BY <2>3, IntConcat, EmptyLaws
  <2> QED
    BY <2>4, <2>5, <2>6, <2>7
<1> QED
  BY <1>3, <1>6, <1>7, <1>8, <1>10 DEF SyncInv

\* Reading the contents turns virtual events into real ones, and that is all.
LEMMA ReadKeeps == SyncInv /\ ReadContents => SyncInv'
<1> SUFFICES ASSUME SyncInv, ReadContents PROVE SyncInv'
  OBVIOUS
<1> DEFINE q == event_queue
           last == last_event_id
           s == Merged(q)
           n == Len(s)
           c == PrunedCount(q, last)
<1>1. /\ IsQueue(q) /\ QueueShape(q) /\ IdsOrdered(q) /\ last \in Int
      /\ \A e \in VirtualSet(q) : e.id > last
  BY SyncFacts DEF SyncInv, SyncTypes
<1>2. /\ event_queue' = MergeVirtual(q) /\ received' = received
      /\ last_event_id' = last_event_id /\ log' = log
  BY DEF ReadContents
<1>3. /\ IsQueue(event_queue') /\ QueueShape(event_queue') /\ IdsOrdered(event_queue')
      /\ event_queue'.queue = s /\ DOMAIN event_queue'.virtual_events = {}
      /\ event_queue'.next_event_id = q.next_event_id
      /\ event_queue'.newest_pruned_id = q.newest_pruned_id
      /\ \A t : Held(event_queue', t) = <<>>
  BY <1>1, <1>2, MergeFacts
<1>4. /\ Splits(q.queue, last, c)
      /\ prune(q, last).queue = SubSeq(q.queue, c + 1, Len(q.queue))
  BY <1>1, PruneFacts
<1>5. /\ Splits(s, last, c)
      /\ \A i \in 1 .. c : s[i] = q.queue[i] /\ i \in 1 .. n
  BY <1>1, <1>4, MergedPrefix
<1>6. /\ s \in Seq(QueuedEvent) /\ DOMAIN s = 1 .. n /\ n \in Nat
      /\ \A i \in 1 .. n :
           (\E j \in 1 .. Len(q.queue) : s[i] = q.queue[j]) \/ s[i] \in VirtualSet(q)
  BY <1>1, MergedFacts, LenProperties
<1>7. SyncTypes'
  BY <1>2, <1>3 DEF SyncInv, SyncTypes
<1>8. IdsRecent'
  <2>1. ASSUME NEW i \in 1 .. n PROVE s[i].id \in q.newest_pruned_id + 1 .. Len(log) - 1
    <3>1. q.newest_pruned_id \in Int /\ Len(log) \in Nat
      BY SyncFacts
    <3>2. CASE \E j \in 1 .. Len(q.queue) : s[i] = q.queue[j]
      <4>1. /\ s[i].id \in Nat /\ q.newest_pruned_id < s[i].id
            /\ s[i].id < Len(log)
        BY <3>2, SyncFacts
      <4> QED
        BY <3>1, <4>1
    <3>3. CASE s[i] \in VirtualSet(q)
      <4>1. /\ s[i].id \in Nat /\ last < s[i].id /\ s[i].id < Len(log)
            /\ q.newest_pruned_id <= last
        BY <3>3, SyncFacts
      <4> QED
        BY <1>1, <3>1, <4>1
    <3> QED
      BY <1>6, <3>2, <3>3
  <2> QED
    BY <1>2, <1>3, <1>6, <2>1 DEF IdsRecent
<1>9. AcknowledgedKnown'
  <2>1. CASE last = q.newest_pruned_id
    BY <1>2, <1>3, <2>1, SyncFacts DEF AcknowledgedKnown
  <2>2. CASE \E i \in DOMAIN q.queue : q.queue[i].id = last
    <3>1. PICK i \in 1 .. Len(q.queue) : q.queue[i].id = last
      BY <2>2, SyncFacts
    <3>2. i \in 1 .. c
      BY <1>1, <1>4, <3>1 DEF Splits
    <3>3. i \in DOMAIN event_queue'.queue /\ event_queue'.queue[i].id = last
      BY <1>3, <1>5, <1>6, <3>1, <3>2
    <3> QED
      BY <1>2, <1>3, <3>3, SyncFacts DEF AcknowledgedKnown
  <2> QED
    BY <2>1, <2>2 DEF SyncInv, AcknowledgedKnown
<1>10. prune(event_queue', last_event_id').queue = SubSeq(s, c + 1, n)
  <2> DEFINE d == PrunedCount(event_queue', last_event_id')
  <2>1. /\ Splits(s, last, d)
        /\ prune(event_queue', last_event_id').queue = SubSeq(s, d + 1, n)
    BY <1>1, <1>2, <1>3, PruneFacts
  <2> HIDE DEF d, c, s
  <2>2. d = c
    BY <1>1, <1>5, <1>6, <2>1, SplitUnique
  <2> QED
    BY <2>1, <2>2
<1>11. PayloadKept'
  <2> SUFFICES ASSUME NEW t
               PROVE  (Payload(received', t) \o Payload(prune(event_queue', last_event_id').queue, t))
                        \o Held(event_queue', t) = Payload(log', t)
    BY DEF PayloadKept
  <2> DEFINE x == Payload(received, t)
             y == Payload(prune(q, last).queue, t)
             z == Held(q, t)
             w == Payload(prune(event_queue', last_event_id').queue, t)
  <2>1. w = y \o z
    <3>1. Payload(SubSeq(s, c + 1, n), t)
            = Payload(SubSeq(q.queue, c + 1, Len(q.queue)), t) \o z
      BY <1>1, <1>4, MergedPayload
    <3> QED
      BY <1>4, <1>10, <3>1
  <2>2. x \in Seq(Int) /\ y \in Seq(Int) /\ z \in Seq(Int)
    <3>1. received \in Seq(Item)
      BY EventsAreItems DEF SyncInv, SyncTypes
    <3>2. prune(q, last).queue \in Seq(Item)
      BY AcceptedFacts, EventsAreItems DEF QueueShape
    <3> QED
      BY <1>1, <3>1, <3>2, PayloadType, HeldType
  <2>3. (x \o y) \o z = Payload(log, t)
    BY DEF SyncInv, PayloadKept
  <2>4. /\ Payload(received', t) = x /\ Payload(log', t) = Payload(log, t)
        /\ Held(event_queue', t) = <<>>
    BY <1>2, <1>3
  <2> HIDE DEF x, y, z, w
  <2>5. (x \o (y \o z)) \o <<>> = (x \o y) \o z
    <3>1. x \o (y \o z) = (x \o y) \o z
      BY <2>2, PayloadAssociative
    <3>2. y \o z \in Seq(Int)
      BY <2>2, IntConcat
    <3>3. x \o (y \o z) \in Seq(Int)
      BY <2>2, <3>2, IntConcat
    <3> QED
      BY <3>1, <3>3, EmptyLaws
  <2> QED
    BY <2>1, <2>3, <2>4, <2>5 DEF w
<1> QED
  BY <1>3, <1>7, <1>8, <1>9, <1>11 DEF SyncInv

\* push adds the payload to the queue, or to what is held, and to the log.
LEMMA PushKeeps ==
  ASSUME SyncInv, NEW template \in Templates, PushEvent(template)
  PROVE  SyncInv'
<1> DEFINE q == event_queue
           last == last_event_id
           n == Len(log)
           e == WithId(template, q.next_event_id)
           ft == compute_full_event_type(e)
           c == PrunedCount(q, last)
           c2 == PrunedCount(event_queue', last_event_id')
<1>1. /\ IsQueue(q) /\ QueueShape(q) /\ IdsOrdered(q)
      /\ q.next_event_id = n /\ n \in Nat /\ last \in Int /\ last < n
      /\ q.newest_pruned_id \in -1 .. n - 1 /\ last \in -1 .. n - 1
  BY SyncFacts DEF SyncInv, SyncTypes
<1>2. /\ e \in QueuedEvent /\ e.id = n
      /\ \A t : Part(e, t) = Part(template, t)
      /\ e.messages = template.messages
      /\ compute_full_event_type(template) = ft
  BY <1>1, WithIdFacts
<1>3. /\ event_queue' = push(q, template) /\ last_event_id' = last
      /\ received' = received /\ log' = Append(log, template) /\ n < MaxEvents
  BY DEF PushEvent
<1>4. /\ log' \in Seq(Templates) /\ Len(log') = n + 1 /\ Len(log') <= MaxEvents
  BY <1>1, <1>3, AppendProperties, MaxEventsAssumption DEF SyncInv, SyncTypes
<1>5. /\ IsQueue(event_queue') /\ event_queue'.next_event_id = n + 1
      /\ event_queue'.newest_pruned_id = q.newest_pruned_id
      /\ IF Compressible(ft)
         THEN /\ event_queue'.queue = q.queue
              /\ event_queue'.virtual_events = Compressed(q.virtual_events, ft, e)
         ELSE /\ event_queue'.queue = Append(q.queue, e)
              /\ event_queue'.virtual_events = q.virtual_events
  <2> HIDE DEF ft, e
  <2>1. push(q, template) =
          IF Compressible(ft)
          THEN [[q EXCEPT !.next_event_id = @ + 1] EXCEPT !.virtual_events = Compressed(@, ft, e)]
          ELSE [[q EXCEPT !.next_event_id = @ + 1] EXCEPT !.queue = Append(@, e)]
    BY DEF push, ft, e
  <2> QED
    BY <1>1, <1>3, <2>1 DEF IsQueue
<1>6. \A t : Payload(log', t) = Payload(log, t) \o Part(e, t) /\ Part(e, t) \in Seq(Int)
             /\ Payload(log, t) \in Seq(Int)
  <2> TAKE t
  <2>1. log \in Seq(Item) /\ template \in Item
    <3>1. Templates \subseteq Item
      BY DEF Item
    <3> QED
      BY <3>1, SeqMonotonic DEF SyncInv, SyncTypes
  <2>2. /\ Payload(Append(log, template), t) = Payload(log, t) \o Part(template, t)
        /\ Payload(log, t) \in Seq(Int) /\ Part(template, t) \in Seq(Int)
    BY <2>1, PayloadAppend
  <2> QED
    BY <1>2, <1>3, <2>2
<1>7. /\ Splits(q.queue, last, c)
      /\ prune(q, last).queue = SubSeq(q.queue, c + 1, Len(q.queue))
      /\ prune(q, last).queue \in Seq(QueuedEvent)
  BY <1>1, PruneFacts DEF QueueShape
<1>8. /\ q.queue \in Seq(QueuedEvent) /\ DOMAIN q.queue = 1 .. Len(q.queue)
      /\ Len(q.queue) \in Nat
      /\ \A i \in 1 .. Len(q.queue) :
           /\ q.queue[i].id \in Nat /\ q.queue[i].id < n
           /\ q.queue[i].id \in q.newest_pruned_id + 1 .. n - 1
      /\ \A i, j \in 1 .. Len(q.queue) : i < j => q.queue[i].id < q.queue[j].id
  BY <1>1, SyncFacts, OrderedIncreasing DEF Increasing
<1>9. \A t \in DOMAIN q.virtual_events :
        /\ q.virtual_events[t].id \in Nat /\ q.virtual_events[t].id < n
        /\ q.virtual_events[t].id \in last + 1 .. n - 1
  <2> TAKE t \in DOMAIN q.virtual_events
  <2>1. q.virtual_events[t] \in VirtualSet(q)
    BY DEF VirtualSet
  <2> QED
    BY <1>1, <2>1, SyncFacts
<1>10. \A t : /\ Payload(received, t) \in Seq(Int) /\ Held(q, t) \in Seq(Int)
              /\ Payload(prune(q, last).queue, t) \in Seq(Int)
              /\ (Payload(received, t) \o Payload(prune(q, last).queue, t)) \o Held(q, t)
                   = Payload(log, t)
  <2> TAKE t
  <2>1. received \in Seq(Item) /\ prune(q, last).queue \in Seq(Item)
    BY <1>7, EventsAreItems DEF SyncInv, SyncTypes
  <2> QED
    BY <1>1, <2>1, PayloadType, HeldType DEF SyncInv, PayloadKept
<1>11. CASE Compressible(ft)
  <2> DEFINE v == Compressed(q.virtual_events, ft, e)
  <2>1. event_queue'.queue = q.queue /\ event_queue'.virtual_events = v
    BY <1>5, <1>11
  <2>2. /\ DOMAIN v = DOMAIN q.virtual_events \cup {ft} /\ IsFiniteSet(DOMAIN v)
        /\ \A u \in DOMAIN v : u # ft => u \in DOMAIN q.virtual_events
                                          /\ v[u] = q.virtual_events[u]
        /\ v[ft] \in QueuedEvent /\ v[ft].id = n /\ compute_full_event_type(v[ft]) = ft
        /\ v[ft].messages = Held(q, ft) \o e.messages
    BY <1>1, <1>2, CompressedFacts
  <2> HIDE DEF v, ft, e
  <2>3. QueueShape(event_queue')
    <3>1. \A u \in DOMAIN v : v[u] \in QueuedEvent
      BY <1>1, <2>2 DEF QueueShape
    <3> QED
      BY <1>8, <2>1, <2>2, <3>1 DEF QueueShape
  <2>4. ASSUME NEW t \in DOMAIN v
        PROVE  /\ compute_full_event_type(v[t]) = t
               /\ \A i \in 1 .. Len(q.queue) :
                    /\ q.queue[i].id # v[t].id
                    /\ compute_full_event_type(q.queue[i]) = t => q.queue[i].id < v[t].id
               /\ \A u \in DOMAIN v : v[u].id = v[t].id => u = t
    <3>1. CASE t = ft
      <4>1. v[t].id = n
        BY <2>2, <3>1
      <4>2. \A u \in DOMAIN v : v[u].id = n => u = ft
        BY <1>1, <1>9, <2>2
      <4>3. \A i \in 1 .. Len(q.queue) : q.queue[i].id # n
        BY <1>1, <1>8
      <4> QED
        BY <1>8, <2>2, <3>1, <4>1, <4>2, <4>3
    <3>2. CASE t # ft
      <4>1. t \in DOMAIN q.virtual_events /\ v[t] = q.virtual_events[t]
        BY <2>2, <3>2
      <4>2. /\ compute_full_event_type(v[t]) = t
            /\ \A i \in DOMAIN q.queue :
                 /\ q.queue[i].id # v[t].id
                 /\ compute_full_event_type(q.queue[i]) = t => q.queue[i].id < v[t].id
            /\ \A u \in DOMAIN q.virtual_events : q.virtual_events[u].id = v[t].id => u = t
        BY <1>1, <4>1 DEF IdsOrdered
      <4>3. v[t].id \in Nat /\ v[t].id < n
        BY <1>9, <4>1
      <4>4. ASSUME NEW u \in DOMAIN v, v[u].id = v[t].id PROVE u = t
        <5>1. u # ft
          BY <1>1, <2>2, <4>3, <4>4
        <5> QED
          BY <2>2, <4>2, <4>4, <5>1
      <4> QED
        BY <1>8, <4>2, <4>4
    <3> QED
      BY <3>1, <3>2
  <2>5. IdsOrdered(event_queue')
    BY <1>8, <2>1, <2>4 DEF IdsOrdered
  <2>6. SyncTypes'
    <3>1. \A t \in DOMAIN v : Compressible(t)
      BY <1>11, <2>2 DEF SyncInv, SyncTypes
    <3> QED
      BY <1>1, <1>3, <1>4, <1>5, <2>1, <2>3, <3>1 DEF SyncInv, SyncTypes
  <2>7. IdsRecent'
    <3>1. \A i \in 1 .. Len(q.queue) :
            q.queue[i].id \in q.newest_pruned_id + 1 .. (n + 1) - 1
      BY <1>1, <1>8
    <3>2. \A t \in DOMAIN v : v[t].id \in last + 1 .. (n + 1) - 1
      BY <1>1, <1>9, <2>2
    <3> QED
      BY <1>3, <1>4, <1>5, <1>8, <2>1, <3>1, <3>2 DEF IdsRecent
  <2>8. AcknowledgedKnown'
    BY <1>3, <1>5, <2>1 DEF SyncInv, AcknowledgedKnown
  <2>9. prune(event_queue', last_event_id').queue = prune(q, last).queue
    <3>1. /\ Splits(q.queue, last, c2)
          /\ prune(event_queue', last_event_id').queue
               = SubSeq(q.queue, c2 + 1, Len(q.queue))
      BY <1>1, <1>3, <1>5, <2>1, <2>3, <2>5, PruneFacts
    <3> HIDE DEF c, c2
    <3>2. c2 = c
      BY <1>1, <1>7, <1>8, <3>1, SplitUnique
    <3> QED
      BY <1>7, <3>1, <3>2
  <2>10. \A t : Held(event_queue', t) = Held(q, t) \o Part(e, t)
    <3> TAKE t
    <3>1. CASE t = ft
      <4>1. Held(event_queue', t) = v[ft].messages
        BY <2>1, <2>2, <3>1 DEF Held
      <4>2. Part(e, t) = e.messages
        BY <3>1 DEF Part, ft
      <4> QED
        BY <2>2, <3>1, <4>1, <4>2
    <3>2. CASE t # ft
      <4>1. Held(event_queue', t) = Held(q, t)
        BY <2>1, <2>2, <3>2 DEF Held
      <4>2. Part(e, t) = <<>>
        BY <3>2 DEF Part, ft
      <4> QED
        BY <1>10, <4>1, <4>2, EmptyLaws
    <3> QED
      BY <3>1, <3>2
  <2>11. PayloadKept'
    <3> SUFFICES ASSUME NEW t
                 PROVE  (Payload(received', t) \o Payload(prune(event_queue', last_event_id').queue, t))
                          \o Held(event_queue', t) = Payload(log', t)
      BY DEF PayloadKept
    <3> DEFINE x == Payload(received, t)
               y == Payload(prune(q, last).queue, t)
               z == Held(q, t)
               w == Part(e, t)
    <3>1. /\ Payload(received', t) = x
          /\ Payload(prune(event_queue', last_event_id').queue, t) = y
          /\ Held(event_queue', t) = z \o w /\ Payload(log', t) = Payload(log, t) \o w
      BY <1>3, <1>6, <2>9, <2>10
    <3>2. /\ x \in Seq(Int) /\ y \in Seq(Int) /\ z \in Seq(Int) /\ w \in Seq(Int)
          /\ (x \o y) \o z = Payload(log, t)
      BY <1>6, <1>10
    <3> HIDE DEF x, y, z, w
    <3>3. x \o y \in Seq(Int)
      BY <3>2, IntConcat
    <3>4. ((x \o y) \o z) \o w = (x \o y) \o (z \o w)
      BY <3>2, <3>3, PayloadAssociative
    <3> QED
      BY <3>1, <3>2, <3>4
  <2> QED
    BY <2>5, <2>6, <2>7, <2>8, <2>11 DEF SyncInv
<1>12. CASE ~Compressible(ft)
  <2> DEFINE a == Append(q.queue, e)
             m == Len(q.queue)
  <2>1. event_queue'.queue = a /\ event_queue'.virtual_events = q.virtual_events
    BY <1>5, <1>12
  <2>2. /\ a \in Seq(QueuedEvent) /\ DOMAIN a = 1 .. m + 1 /\ Len(a) = m + 1
        /\ \A i \in 1 .. m : a[i] = q.queue[i]
        /\ a[m + 1] = e
    <3>1. /\ a \in Seq(QueuedEvent) /\ Len(a) = m + 1
          /\ \A i \in 1 .. m : a[i] = q.queue[i]
          /\ a[m + 1] = e
      BY <1>2, <1>8, AppendProperties
    <3> HIDE DEF a
    <3> QED
      BY <3>1, LenProperties
  <2>3. \A i \in 1 .. m + 1 : i \in 1 .. m \/ i = m + 1
    BY <1>8
  <2>4. ft \notin DOMAIN q.virtual_events
    BY <1>12 DEF SyncInv, SyncTypes
  <2>5. prune(q, last).queue = SubSeq(q.queue, c + 1, m)
        /\ Splits(a, last, c)
        /\ SubSeq(a, c + 1, Len(a)) = Append(SubSeq(q.queue, c + 1, m), e)
    BY <1>1, <1>2, <1>7, <1>8, AppendPruned
  <2> HIDE DEF a, e, m, c
  <2>6. QueueShape(event_queue')
    BY <1>1, <2>1, <2>2 DEF QueueShape
  <2>7. \A i, j \in 1 .. m + 1 : i < j => a[i].id < a[j].id
    <3> SUFFICES ASSUME NEW i \in 1 .. m + 1, NEW j \in 1 .. m + 1, i < j
                 PROVE  a[i].id < a[j].id
      OBVIOUS
    <3>1. i \in 1 .. m
      BY <1>8, <2>3
    <3>2. CASE j = m + 1
      BY <1>2, <1>8, <2>2, <3>1, <3>2 DEF m
    <3>3. CASE j \in 1 .. m
      BY <1>8, <2>2, <3>1, <3>3 DEF m
    <3> QED
      BY <2>3, <3>2, <3>3
  <2>8. ASSUME NEW t \in DOMAIN q.virtual_events
        PROVE  LET event == q.virtual_events[t]
               IN  /\ compute_full_event_type(event) = t
                   /\ \A i \in 1 .. m + 1 :
                        /\ a[i].id # event.id
                        /\ compute_full_event_type(a[i]) = t => a[i].id < event.id
                   /\ \A u \in DOMAIN q.virtual_events :
                        q.virtual_events[u].id = event.id => u = t
    <3>1. /\ compute_full_event_type(q.virtual_events[t]) = t
          /\ \A i \in 1 .. m :
               /\ q.queue[i].id # q.virtual_events[t].id
               /\ compute_full_event_type(q.queue[i]) = t
                    => q.queue[i].id < q.virtual_events[t].id
          /\ \A u \in DOMAIN q.virtual_events :
               q.virtual_events[u].id = q.virtual_events[t].id => u = t
      BY <1>1, <1>8 DEF IdsOrdered, m
    <3>2. e.id # q.virtual_events[t].id
      BY <1>1, <1>2, <1>9
    <3>3. compute_full_event_type(e) # t
      BY <2>4, <2>8
    <3>4. \A i \in 1 .. m + 1 :
             /\ a[i].id # q.virtual_events[t].id
             /\ compute_full_event_type(a[i]) = t => a[i].id < q.virtual_events[t].id
      <4> TAKE i \in 1 .. m + 1
      <4>1. CASE i \in 1 .. m
        BY <2>2, <3>1, <4>1
      <4>2. CASE i = m + 1
        BY <2>2, <3>2, <3>3, <4>2
      <4> QED
        BY <2>3, <4>1, <4>2
    <3> QED
      BY <3>1, <3>4
  <2>9. IdsOrdered(event_queue')
    BY <2>1, <2>2, <2>7, <2>8 DEF IdsOrdered
  <2>10. SyncTypes'
    BY <1>1, <1>3, <1>4, <1>5, <2>1, <2>6 DEF SyncInv, SyncTypes
  <2>11. IdsRecent'
    <3>1. \A i \in 1 .. m + 1 :
            a[i].id \in q.newest_pruned_id + 1 .. (n + 1) - 1
      <4> TAKE i \in 1 .. m + 1
      <4>1. CASE i \in 1 .. m
        BY <1>1, <1>8, <2>2, <4>1 DEF m
      <4>2. CASE i = m + 1
        BY <1>1, <1>2, <2>2, <4>2
      <4> QED
        BY <2>3, <4>1, <4>2
    <3>2. \A t \in DOMAIN q.virtual_events : q.virtual_events[t].id \in last + 1 .. (n + 1) - 1
      BY <1>1, <1>9
    <3> QED
      BY <1>3, <1>4, <1>5, <2>1, <2>2, <3>1, <3>2 DEF IdsRecent
  <2>12. AcknowledgedKnown'
    <3>1. \A i \in 1 .. m : i \in 1 .. m + 1
      BY <1>8 DEF m
    <3> QED
      BY <1>3, <1>5, <1>8, <2>1, <2>2, <3>1 DEF SyncInv, AcknowledgedKnown, m
  <2>13. prune(event_queue', last_event_id').queue = Append(prune(q, last).queue, e)
    <3>1. /\ Splits(a, last, c2)
          /\ prune(event_queue', last_event_id').queue = SubSeq(a, c2 + 1, Len(a))
      BY <1>1, <1>3, <1>5, <2>1, <2>6, <2>9, PruneFacts
    <3> HIDE DEF c2
    <3>2. c2 = c
      BY <1>1, <2>2, <2>5, <3>1, SplitUnique
    <3> QED
      BY <2>5, <3>1, <3>2
  <2>14. PayloadKept'
    <3> SUFFICES ASSUME NEW t
                 PROVE  (Payload(received', t) \o Payload(prune(event_queue', last_event_id').queue, t))
                          \o Held(event_queue', t) = Payload(log', t)
      BY DEF PayloadKept
    <3> DEFINE x == Payload(received, t)
               y == Payload(prune(q, last).queue, t)
               z == Held(q, t)
               w == Part(e, t)
    <3>1. Payload(Append(prune(q, last).queue, e), t) = y \o w
      <4>1. prune(q, last).queue \in Seq(Item) /\ e \in Item
        BY <1>2, <1>7, EventsAreItems DEF Item
      <4> QED
        BY <4>1, PayloadAppend
    <3>2. /\ Payload(received', t) = x
          /\ Payload(prune(event_queue', last_event_id').queue, t) = y \o w
          /\ Held(event_queue', t) = z /\ Payload(log', t) = Payload(log, t) \o w
      <4>1. Held(event_queue', t) = z
        BY <2>1 DEF Held
      <4> QED
        BY <1>3, <1>6, <2>13, <3>1, <4>1
    <3>3. /\ x \in Seq(Int) /\ y \in Seq(Int) /\ z \in Seq(Int) /\ w \in Seq(Int)
          /\ (x \o y) \o z = Payload(log, t)
      BY <1>6, <1>10
    <3>4. z = <<>> \/ w = <<>>
      BY <2>4 DEF Held, Part
    <3> HIDE DEF x, y, z, w
    <3>5. (x \o (y \o w)) \o z = ((x \o y) \o z) \o w
      <4>1. x \o y \in Seq(Int) /\ x \o (y \o w) = (x \o y) \o w
        <5>1. x \o y \in Seq(Int)
          BY <3>3, IntConcat
        <5>2. x \o (y \o w) = (x \o y) \o w
          BY <3>3, PayloadAssociative
        <5> QED
          BY <5>1, <5>2
      <4>2. (x \o y) \o w \in Seq(Int) /\ (x \o y) \o z \in Seq(Int)
        BY <3>3, <4>1, IntConcat
      <4> DEFINE xy == x \o y
      <4>3. CASE z = <<>>
        <5>1. (xy \o w) \o z = xy \o w /\ xy \o z = xy
          BY <4>1, <4>2, <4>3, EmptyLaws
        <5> QED
          BY <4>1, <5>1
      <4>4. CASE w = <<>>
        <5>1. xy \o w = xy /\ (xy \o z) \o w = xy \o z
          BY <4>1, <4>2, <4>4, EmptyLaws
        <5> QED
          BY <4>1, <5>1
      <4> QED
        BY <3>4, <4>3, <4>4
    <3> QED
      BY <3>2, <3>3, <3>5
  <2> QED
    BY <2>9, <2>10, <2>11, <2>12, <2>14 DEF SyncInv
<1> QED
  BY <1>11, <1>12
---------------------------------------------------------------------------
(* The theorems about FlagSync.                                          *)

\* Every step keeps the invariant.
LEMMA SyncStep == SyncInv /\ [Next]_vars => SyncInv'
<1> SUFFICES ASSUME SyncInv, [Next]_vars PROVE SyncInv'
  OBVIOUS
<1>1. CASE \E template \in Templates : PushEvent(template)
  BY <1>1, PushKeeps
<1>2. CASE Poll
  BY <1>2, PollKeeps
<1>3. CASE PollResponseLost
  BY <1>3, PollLostKeeps
<1>4. CASE ReadContents
  BY <1>4, ReadKeeps
<1>5. CASE UNCHANGED vars
  BY <1>5 DEF vars, SyncInv, SyncTypes, IdsRecent, AcknowledgedKnown, PayloadKept
<1> QED
  BY <1>1, <1>2, <1>3, <1>4, <1>5 DEF Next

\* The inductive invariant of FlagSync: ids, acknowledgement and payload of the
\* queue, for any templates and however many events (EventQueue, fetch_events).
THEOREM SyncInvariant == Spec => []SyncInv
<1> QED
  BY SyncInitially, SyncStep, PTL DEF Spec

\* The queue's ids count what was pushed, and the client's id is one of them
\* (EventQueue.push, fetch_events).
THEOREM SyncTypeCorrect == Spec => []TypeOK
<1>1. SyncInv => TypeOK
  <2> SUFFICES ASSUME SyncInv PROVE TypeOK
    OBVIOUS
  <2>1. Len(log) \in Nat /\ Len(log) <= MaxEvents
    BY SyncFacts DEF SyncInv, SyncTypes
  <2> QED
    BY <2>1, MaxEventsAssumption DEF SyncInv, SyncTypes, IsQueue, TypeOK
<1> QED
  BY <1>1, SyncInvariant, PTL

\* Whatever is pushed, lost, read and polled again: what a client acknowledges was
\* neither pruned before nor is it missing in its queue (fetch_events).
THEOREM AcknowledgementsAccepted == Spec => []AcknowledgementAccepted
<1>1. SyncInv => AcknowledgementAccepted
  BY AcceptedFacts DEF AcknowledgementAccepted
<1> QED
  BY <1>1, SyncInvariant, PTL

\* contents() is in id order, newer than what was pruned, and has no id that was not
\* assigned: the merge finds the right place for every virtual event.
THEOREM QueueServedInOrder == Spec => []ServedInIdOrder
<1>1. SyncInv => ServedInIdOrder
  <2> SUFFICES ASSUME SyncInv PROVE ServedInIdOrder
    OBVIOUS
  <2> DEFINE q == event_queue
             s == Merged(q)
  <2>1. IsQueue(q) /\ QueueShape(q) /\ IdsOrdered(q)
    BY DEF SyncInv, SyncTypes
  <2>2. contents(q) = s
    BY <2>1, MergeFacts DEF contents
  <2>3. /\ Increasing(s)
        /\ \A i \in 1 .. Len(s) :
             (\E j \in 1 .. Len(q.queue) : s[i] = q.queue[j]) \/ s[i] \in VirtualSet(q)
    BY <2>1, MergedFacts
  <2>4. ASSUME NEW i \in 1 .. Len(s)
        PROVE  s[i].id > q.newest_pruned_id /\ s[i].id < Len(log)
    <3>1. q.newest_pruned_id \in Int /\ last_event_id \in Int
          /\ q.newest_pruned_id <= last_event_id
      BY SyncFacts
    <3>2. CASE \E j \in 1 .. Len(q.queue) : s[i] = q.queue[j]
      <4>1. /\ s[i].id \in Nat /\ q.newest_pruned_id < s[i].id
            /\ s[i].id < Len(log)
        BY <3>2, SyncFacts
      <4> QED
        BY <3>1, <4>1
    <3>3. CASE s[i] \in VirtualSet(q)
      <4>1. s[i].id \in Nat /\ last_event_id < s[i].id /\ s[i].id < Len(log)
        BY <3>3, SyncFacts
      <4> QED
        BY <3>1, <4>1
    <3> QED
      BY <2>3, <3>2, <3>3
  <2> HIDE DEF s
  <2> QED
    BY <2>2, <2>3, <2>4 DEF ServedInIdOrder, Increasing
<1> QED
  BY <1>1, SyncInvariant, PTL

\* The next response, and that it completes the payloads.
LEMMA OutstandingFacts ==
  ASSUME SyncInv
  PROVE  /\ Outstanding = Merged(prune(event_queue, last_event_id))
         /\ received \o Outstanding \in Seq(Item) /\ log \in Seq(Item)
         /\ \A t : Payload(received \o Outstanding, t) = Payload(log, t)
<1> DEFINE p == prune(event_queue, last_event_id)
<1>1. IsQueue(p) /\ QueueShape(p) /\ IdsOrdered(p)
      /\ Fetched(event_queue, last_event_id) = MergeVirtual(p)
  BY AcceptedFacts
<1>2. Outstanding = Merged(p)
  BY <1>1, MergeFacts DEF Outstanding
<1>3. /\ Merged(p) \in Seq(QueuedEvent)
      /\ \A t : Payload(received \o Merged(p), t) = Payload(log, t)
  BY ResponseFacts
<1> HIDE DEF p
<1>4. received \o Outstanding \in Seq(QueuedEvent)
  BY <1>2, <1>3, ConcatProperties DEF SyncInv, SyncTypes
<1>5. log \in Seq(Item)
  <2>1. Templates \subseteq Item
    BY DEF Item
  <2> QED
    BY <2>1, SeqMonotonic DEF SyncInv, SyncTypes
<1> QED
  BY <1>2, <1>3, <1>4, <1>5, EventsAreItems DEF p

\* For any templates and any number of events, compression, pruning and lost
\* responses neither lose, repeat nor reorder a payload of a type (EventQueue.push,
\* prune, contents; fetch_events).
THEOREM PayloadsPreserved == Spec => []PayloadPreserved
<1>1. SyncInv => PayloadPreserved
  BY OutstandingFacts DEF PayloadPreserved
<1> QED
  BY <1>1, SyncInvariant, PTL

\* The full type of a flags event tells its flag and its op.
LEMMA TypeTellsFlag ==
  ASSUME NEW e, NEW f, NEW flag, NEW op, NEW m,
         Sets(e, flag, op, m), compute_full_event_type(e) = compute_full_event_type(f),
         m \in ToSet(f.messages)
  PROVE  Sets(f, flag, op, m)
<1>1. e.type = "update_message_flags" /\ e.flag = flag /\ e.op = op
  BY DEF Sets
<1>2. compute_full_event_type(e) \in {<<"all_flags", flag, op>>, <<"flags", op, flag>>}
  BY <1>1 DEF compute_full_event_type
<1>3. f.type = "update_message_flags"
  <2> SUFFICES ASSUME f.type # "update_message_flags" PROVE FALSE
    OBVIOUS
  <2>1. compute_full_event_type(f) = <<f.type>>
    BY DEF compute_full_event_type
  <2> QED
    BY <1>2, <2>1
<1>4. compute_full_event_type(f) \in {<<"all_flags", f.flag, f.op>>, <<"flags", f.op, f.flag>>}
  BY <1>3 DEF compute_full_event_type
<1>5. f.flag = flag /\ f.op = op
  BY <1>2, <1>4
<1> QED
  BY <1>3, <1>5 DEF Sets

SomeSets(s, flag, op, m) == \E i \in DOMAIN s : Sets(s[i], flag, op, m)

\* Sequences with the same payloads set the same flags on the same messages.
LEMMA SamePayloadSameFlags ==
  ASSUME NEW s \in Seq(Item), NEW r \in Seq(Item),
         \A t : Payload(s, t) = Payload(r, t),
         NEW flag, NEW op, NEW m, SomeSets(s, flag, op, m)
  PROVE  SomeSets(r, flag, op, m)
<1>1. DOMAIN s = 1 .. Len(s) /\ DOMAIN r = 1 .. Len(r)
  BY LenProperties
<1>2. PICK i \in 1 .. Len(s) : Sets(s[i], flag, op, m)
  BY <1>1 DEF SomeSets
<1> DEFINE t == compute_full_event_type(s[i])
<1>3. m \in ToSet(s[i].messages)
  BY <1>2 DEF Sets
<1>4. m \in ToSet(Payload(s, t))
  BY <1>3, PayloadElements
<1>5. m \in ToSet(Payload(r, t))
  BY <1>4
<1>6. PICK j \in 1 .. Len(r) :
        compute_full_event_type(r[j]) = t /\ m \in ToSet(r[j].messages)
  BY <1>5, PayloadElements
<1>7. Sets(r[j], flag, op, m)
  BY <1>2, <1>6, TypeTellsFlag
<1> QED
  BY <1>1, <1>7 DEF SomeSets

\* A flag that no event removed is on the messages that an event added.
LEMMA FlagViewFacts ==
  ASSUME NEW s \in Seq(Item), NEW flag, NEW m, ~SomeSets(s, flag, "remove", m)
  PROVE  m \in FlagView(s, flag) <=> SomeSets(s, flag, "add", m)
<1>1. DOMAIN s = 1 .. Len(s) /\ Len(s) \in Nat
  BY LenProperties
<1>2. \A i \in DOMAIN s : \A j \in i .. Len(s) : ~Sets(s[j], flag, "remove", m)
  BY <1>1 DEF SomeSets
<1>3. \A i \in DOMAIN s : Sets(s[i], flag, "add", m) => m \in ToSet(s[i].messages)
  BY DEF Sets
<1>4. m \in FlagView(s, flag) => SomeSets(s, flag, "add", m)
  BY DEF FlagView, SomeSets
<1>5. ASSUME SomeSets(s, flag, "add", m) PROVE m \in FlagView(s, flag)
  <2>1. PICK i \in DOMAIN s : Sets(s[i], flag, "add", m)
    BY <1>5 DEF SomeSets
  <2>2. m \in UNION {ToSet(s[k].messages) : k \in DOMAIN s}
    BY <1>3, <2>1
  <2> QED
    BY <1>2, <2>1, <2>2 DEF FlagView
<1> QED
  BY <1>4, <1>5

\* The client's flags are the server's on every message whose flag moved one way
\* only, for any set of flags and messages (EventQueue.push, contents).
THEOREM FlagsAgreeAfterPoll == Spec => []FlagsAgreeUnlessReversed
<1>1. SyncInv => FlagsAgreeUnlessReversed
  <2> SUFFICES ASSUME SyncInv, NEW flag \in Flags
               PROVE  FlagView(received \o Outstanding, flag) \ Reversed(flag)
                        = FlagView(log, flag) \ Reversed(flag)
    BY DEF FlagsAgreeUnlessReversed
  <2> DEFINE s == received \o Outstanding
  <2>1. s \in Seq(Item) /\ log \in Seq(Item) /\ \A t : Payload(s, t) = Payload(log, t)
    BY OutstandingFacts
  <2> HIDE DEF s
  <2>2. \A op, m : SomeSets(s, flag, op, m) <=> SomeSets(log, flag, op, m)
    <3> TAKE op, m
    <3>1. SomeSets(s, flag, op, m) => SomeSets(log, flag, op, m)
      BY <2>1, SamePayloadSameFlags
    <3>2. SomeSets(log, flag, op, m) => SomeSets(s, flag, op, m)
      <4>1. \A t : Payload(log, t) = Payload(s, t)
        BY <2>1
      <4> QED
        BY <2>1, <4>1, SamePayloadSameFlags
    <3> QED
      BY <3>1, <3>2
  <2>3. \A m : SomeSets(log, flag, "add", m) /\ SomeSets(log, flag, "remove", m)
                 => m \in Reversed(flag)
    <3> SUFFICES ASSUME NEW m, SomeSets(log, flag, "add", m), SomeSets(log, flag, "remove", m)
                 PROVE  m \in Reversed(flag)
      OBVIOUS
    <3>1. PICK i \in DOMAIN log : Sets(log[i], flag, "add", m)
      BY DEF SomeSets
    <3>2. m \in UNION {ToSet(log[k].messages) : k \in DOMAIN log}
      BY <3>1 DEF Sets
    <3>3. \A op \in {"add", "remove"} : \E k \in DOMAIN log : Sets(log[k], flag, op, m)
      BY DEF SomeSets
    <3> QED
      BY <3>2, <3>3 DEF Reversed
  <2>4. \A m : m \in FlagView(s, flag) => SomeSets(s, flag, "add", m)
    BY DEF FlagView, SomeSets
  <2>5. \A m : m \in FlagView(log, flag) => SomeSets(log, flag, "add", m)
    BY DEF FlagView, SomeSets
  <2>6. ASSUME NEW m, m \notin Reversed(flag)
        PROVE  m \in FlagView(s, flag) <=> m \in FlagView(log, flag)
    <3>1. CASE SomeSets(log, flag, "add", m)
      <4>1. ~SomeSets(log, flag, "remove", m) /\ ~SomeSets(s, flag, "remove", m)
            /\ SomeSets(s, flag, "add", m)
        BY <2>2, <2>3, <2>6, <3>1
      <4> QED
        BY <2>1, <3>1, <4>1, FlagViewFacts
    <3>2. CASE ~SomeSets(log, flag, "add", m)
      BY <2>2, <2>4, <2>5, <3>2
    <3> QED
      BY <3>1, <3>2
  <2> QED
    BY <2>6 DEF s
<1> QED
  BY <1>1, SyncInvariant, PTL
---------------------------------------------------------------------------
(* A queue without compressed events is a log (EventLog). *)

\* What EventStream makes of a queue.
Log ==
  {l \in [log : Seq(Templates), newest_pruned_id : Int] :
     l.newest_pruned_id \in -1 .. Len(l.log) - 1}

\* The events of a log that were not deleted, each with its id.
Numbered(l) ==
  [k \in 1 .. Len(l.log) - 1 - l.newest_pruned_id |->
     WithId(l.log[l.newest_pruned_id + 1 + k], l.newest_pruned_id + k)]

IsLog(q, l) ==
  /\ q.queue = Numbered(l)
  /\ q.next_event_id = Len(l.log)
  /\ q.newest_pruned_id = l.newest_pruned_id
  /\ q.virtual_events = <<>>

Uncompressed(event) == ~Compressible(compute_full_event_type(event))

LEMMA NumberedFacts ==
  ASSUME NEW l \in Log
  PROVE  LET n == Len(l.log) - 1 - l.newest_pruned_id
             p == l.newest_pruned_id
         IN  /\ n \in Nat /\ p \in Int /\ p >= -1 /\ Len(l.log) \in Nat
             /\ l.log \in Seq(Templates) /\ l \in [log : Seq(Templates), newest_pruned_id : Int]
             /\ Numbered(l) \in Seq(QueuedEvent) /\ Len(Numbered(l)) = n
             /\ \A k \in 1 .. n : /\ Numbered(l)[k] = WithId(l.log[p + 1 + k], p + k)
                                  /\ Numbered(l)[k].id = p + k
                                  /\ p + 1 + k \in 1 .. Len(l.log)
                                  /\ l.log[p + 1 + k] \in Templates
<1> DEFINE n == Len(l.log) - 1 - l.newest_pruned_id
           p == l.newest_pruned_id
           s == Numbered(l)
<1>1. /\ l \in [log : Seq(Templates), newest_pruned_id : Int]
      /\ l.log \in Seq(Templates) /\ p \in -1 .. Len(l.log) - 1
  BY DEF Log
<1>2. Len(l.log) \in Nat
  BY <1>1, LenProperties
<1>3. n \in Nat /\ p \in Int /\ p >= -1
  BY <1>1, <1>2
<1>4. s = [k \in 1 .. n |-> WithId(l.log[p + 1 + k], p + k)]
  BY DEF Numbered
<1>5. \A k \in 1 .. n : p + 1 + k \in 1 .. Len(l.log) /\ p + k \in Nat
  BY <1>2, <1>3
<1> HIDE DEF s, n, p
<1>6. \A k \in 1 .. n : l.log[p + 1 + k] \in Templates
  BY <1>1, <1>5, ElementOfSeq
<1>7. ASSUME NEW k \in 1 .. n
      PROVE  s[k] = WithId(l.log[p + 1 + k], p + k) /\ s[k].id = p + k /\ s[k] \in QueuedEvent
  <2>1. s[k] = WithId(l.log[p + 1 + k], p + k)
    BY <1>4
  <2> QED
    BY <2>1, <1>5, <1>6, WithIdFacts
<1>8. s \in [1 .. n -> QueuedEvent]
  BY <1>4, <1>7
<1>9. s \in Seq(QueuedEvent) /\ Len(s) = n
  BY <1>3, <1>8
<1> QED
  BY <1>1, <1>2, <1>3, <1>5, <1>6, <1>7, <1>9 DEF s, n, p

\* Such a queue satisfies what the lemmas above assume of a queue.
LEMMA LogShape ==
  ASSUME NEW l \in Log, NEW q, IsLog(q, l)
  PROVE  QueueShape(q) /\ IdsOrdered(q) /\ VirtualSet(q) = {}
<1> DEFINE s == Numbered(l)
           n == Len(l.log) - 1 - l.newest_pruned_id
           p == l.newest_pruned_id
<1>1. /\ n \in Nat /\ p \in Int /\ s \in Seq(QueuedEvent) /\ Len(s) = n
      /\ \A k \in 1 .. n : s[k].id = p + k
  BY NumberedFacts
<1>2. q.queue = s /\ DOMAIN q.virtual_events = {}
  BY DEF IsLog
<1> HIDE DEF s, n, p
<1>3. DOMAIN s = 1 .. n
  BY <1>1
<1>4. QueueShape(q)
  BY <1>1, <1>2, FS_EmptySet DEF QueueShape
<1>5. IdsOrdered(q)
  <2>1. \A i, j \in 1 .. n : i < j => s[i].id < s[j].id
    <3> SUFFICES ASSUME NEW i \in 1 .. n, NEW j \in 1 .. n, i < j PROVE p + i < p + j
      BY <1>1
    <3> QED
      BY <1>1
  <2> QED
    BY <1>2, <1>3, <2>1 DEF IdsOrdered
<1> QED
  BY <1>2, <1>4, <1>5 DEF VirtualSet

\* push
LEMMA LogPush ==
  ASSUME NEW l \in Log, NEW q, IsQueue(q), IsLog(q, l), NEW t \in Templates, Uncompressed(t)
  PROVE  IsLog(push(q, t), Pushed(l, t)) /\ Pushed(l, t) \in Log /\ IsQueue(push(q, t))
<1> DEFINE n == Len(l.log) - 1 - l.newest_pruned_id
           p == l.newest_pruned_id
           e == WithId(t, Len(l.log))
           a == push(q, t)
           m == Pushed(l, t)
<1>1. /\ n \in Nat /\ p \in Int /\ p >= -1 /\ Len(l.log) \in Nat /\ l.log \in Seq(Templates)
      /\ l \in [log : Seq(Templates), newest_pruned_id : Int]
      /\ Numbered(l) \in Seq(QueuedEvent) /\ Len(Numbered(l)) = n
      /\ \A k \in 1 .. n : /\ Numbered(l)[k] = WithId(l.log[p + 1 + k], p + k)
                           /\ p + 1 + k \in 1 .. Len(l.log)
  BY NumberedFacts
<1>2. e \in QueuedEvent /\ ~Compressible(compute_full_event_type(e))
  BY <1>1, WithIdFacts DEF Uncompressed
<1>3. /\ a.queue = Append(q.queue, e) /\ a.next_event_id = Len(l.log) + 1
      /\ a.newest_pruned_id = p /\ a.virtual_events = <<>> /\ IsQueue(a)
  BY <1>2 DEF push, IsLog, IsQueue
<1>4. m.log = Append(l.log, t) /\ m.newest_pruned_id = p /\ m \in [log : Seq(Templates), newest_pruned_id : Int]
  <2>1. Append(l.log, t) \in Seq(Templates)
    BY <1>1, AppendProperties
  <2> QED
    BY <1>1, <2>1 DEF Pushed
<1>5. /\ Len(m.log) = Len(l.log) + 1 /\ m.log[Len(l.log) + 1] = t
      /\ \A i \in 1 .. Len(l.log) : m.log[i] = l.log[i]
  BY <1>1, <1>4, AppendProperties
<1>6. q.queue = Numbered(l)
  BY DEF IsLog
<1> HIDE DEF m, a, e, n, p
<1>7. m \in Log
  <2>1. p \in -1 .. Len(m.log) - 1
    BY <1>1, <1>5 DEF n, p
  <2> QED
    BY <1>4, <2>1 DEF Log
<1>8. /\ Numbered(m) \in Seq(QueuedEvent) /\ Len(Numbered(m)) = n + 1
      /\ \A k \in 1 .. n + 1 : Numbered(m)[k] = WithId(m.log[p + 1 + k], p + k)
  <2>1. Len(m.log) - 1 - m.newest_pruned_id = n + 1
    BY <1>1, <1>4, <1>5 DEF n, p
  <2> QED
    BY <1>4, <1>7, <2>1, NumberedFacts
<1>9. /\ a.queue \in Seq(QueuedEvent) /\ Len(a.queue) = n + 1 /\ a.queue[n + 1] = e
      /\ \A k \in 1 .. n : a.queue[k] = Numbered(l)[k]
  BY <1>1, <1>2, <1>3, <1>6, AppendProperties
<1>10. ASSUME NEW k \in 1 .. n + 1 PROVE a.queue[k] = Numbered(m)[k]
  <2>1. CASE k = n + 1
    <3>1. p + 1 + k = Len(l.log) + 1 /\ p + k = Len(l.log)
      BY <1>1, <2>1 DEF n, p
    <3> QED
      BY <1>5, <1>8, <1>9, <2>1, <3>1 DEF e
  <2>2. CASE k # n + 1
    <3>1. k \in 1 .. n
      BY <1>1, <2>2
    <3> QED
      BY <1>1, <1>5, <1>8, <1>9, <3>1
  <2> QED
    BY <2>1, <2>2
<1>11. a.queue = Numbered(m)
  BY <1>8, <1>9, <1>10, SeqEqual
<1> QED
  BY <1>3, <1>4, <1>5, <1>7, <1>11 DEF IsLog, a, m

\* prune, and what fetch_events makes of an acknowledgement
LEMMA LogPrune ==
  ASSUME NEW l \in Log, NEW q, IsQueue(q), IsLog(q, l), NEW last \in Int
  PROVE  /\ IsLog(prune(q, last), Pruned(l, last)) /\ Pruned(l, last) \in Log
         /\ IsQueue(prune(q, last))
         /\ AlreadyPruned(q, last) <=> last < l.newest_pruned_id
         /\ NotInQueue(q, last) <=> last # Pruned(l, last).newest_pruned_id
<1> DEFINE n == Len(l.log) - 1 - l.newest_pruned_id
           p == l.newest_pruned_id
           a == prune(q, last)
           m == Pruned(l, last)
           c == PrunedCount(q, last)
<1>1. /\ n \in Nat /\ p \in Int /\ p >= -1 /\ Len(l.log) \in Nat /\ l.log \in Seq(Templates)
      /\ l \in [log : Seq(Templates), newest_pruned_id : Int]
      /\ Numbered(l) \in Seq(QueuedEvent) /\ Len(Numbered(l)) = n
      /\ \A k \in 1 .. n : /\ Numbered(l)[k] = WithId(l.log[p + 1 + k], p + k)
                           /\ Numbered(l)[k].id = p + k
  BY NumberedFacts
<1>2. q.queue = Numbered(l) /\ q.newest_pruned_id = p
      /\ q.next_event_id = Len(l.log) /\ q.virtual_events = <<>>
  BY DEF IsLog
<1>3. /\ Splits(q.queue, last, c) /\ IsQueue(a) /\ a.queue \in Seq(QueuedEvent)
      /\ Len(a.queue) = Len(q.queue) - c
      /\ \A i \in 1 .. Len(a.queue) : a.queue[i] = q.queue[c + i] /\ c + i \in 1 .. Len(q.queue)
      /\ a.virtual_events = q.virtual_events /\ a.next_event_id = q.next_event_id
      /\ a.newest_pruned_id = IF c = 0 THEN q.newest_pruned_id ELSE q.queue[c].id
  BY LogShape, PruneFacts DEF QueueShape
<1>4. /\ m.log = l.log /\ m \in [log : Seq(Templates), newest_pruned_id : Int]
      /\ m.newest_pruned_id = LET x == IF last < Len(l.log) THEN last ELSE Len(l.log) - 1
                              IN  IF x > p THEN x ELSE p
  BY <1>1 DEF Pruned
<1> HIDE DEF a, m, c, n, p
<1>5. c \in 0 .. n /\ \A i \in 1 .. n : IF i <= c THEN p + i <= last ELSE p + i > last
  BY <1>1, <1>2, <1>3 DEF Splits
<1>6. m.newest_pruned_id = p + c
  <2>1. n = Len(l.log) - 1 - p
    BY DEF n, p
  <2>2. c > 0 => p + c <= last
    <3> SUFFICES ASSUME c > 0 PROVE p + c <= last
      OBVIOUS
    <3>1. c \in 1 .. n /\ c <= c
      BY <1>1, <1>5
    <3> QED
      BY <1>5, <3>1
  <2>3. c < n => p + (c + 1) > last
    <3> SUFFICES ASSUME c < n PROVE p + (c + 1) > last
      OBVIOUS
    <3>1. c + 1 \in 1 .. n /\ ~(c + 1 <= c)
      BY <1>1, <1>5
    <3> QED
      BY <1>5, <3>1
  <2>4. m.newest_pruned_id = LET x == IF last < Len(l.log) THEN last ELSE Len(l.log) - 1
                             IN  IF x > p THEN x ELSE p
    BY <1>4
  <2>5. c \in Nat /\ c <= n
    BY <1>1, <1>5
  <2>6. CASE c = 0
    BY <1>1, <2>1, <2>2, <2>3, <2>4, <2>5, <2>6
  <2>7. CASE c > 0 /\ c < n
    BY <1>1, <2>1, <2>2, <2>3, <2>4, <2>5, <2>7
  <2>8. CASE c > 0 /\ c = n
    BY <1>1, <2>1, <2>2, <2>3, <2>4, <2>5, <2>8
  <2> QED
    BY <1>1, <2>5, <2>6, <2>7, <2>8
<1>7. a.newest_pruned_id = p + c
  BY <1>1, <1>2, <1>3, <1>5
<1>8. m \in Log
  <2>1. p + c \in -1 .. Len(m.log) - 1
    BY <1>1, <1>4, <1>5 DEF n, p
  <2> QED
    BY <1>4, <1>6, <2>1 DEF Log
<1>9. /\ Numbered(m) \in Seq(QueuedEvent) /\ Len(Numbered(m)) = n - c
      /\ \A k \in 1 .. n - c : Numbered(m)[k] = WithId(l.log[(p + c) + 1 + k], (p + c) + k)
  <2>1. Len(m.log) - 1 - m.newest_pruned_id = n - c
    BY <1>1, <1>4, <1>5, <1>6 DEF n, p
  <2> QED
    BY <1>4, <1>6, <1>8, <2>1, NumberedFacts
<1>10. ASSUME NEW k \in 1 .. n - c PROVE a.queue[k] = Numbered(m)[k]
  <2>1. c + k \in 1 .. n /\ p + 1 + (c + k) = (p + c) + 1 + k /\ p + (c + k) = (p + c) + k
    BY <1>1, <1>5
  <2>2. a.queue[k] = Numbered(l)[c + k]
    BY <1>1, <1>2, <1>3
  <2> QED
    BY <1>1, <1>9, <2>1, <2>2
<1>11. a.queue = Numbered(m)
  <2>1. Len(a.queue) = n - c
    BY <1>1, <1>2, <1>3
  <2> QED
    BY <1>3, <1>9, <1>10, <2>1, SeqEqual
<1>12. IsLog(a, m)
  BY <1>2, <1>3, <1>4, <1>6, <1>7, <1>11 DEF IsLog
<1>13. (AlreadyPruned(q, last) <=> last < p) /\ (NotInQueue(q, last) <=> last # p + c)
  BY <1>2, <1>7 DEF AlreadyPruned, NotInQueue, a
<1> QED
  BY <1>3, <1>6, <1>8, <1>12, <1>13 DEF a, m, p

\* With nothing compressed, contents() is the queue.
LEMMA MergeNothing ==
  ASSUME NEW q, QueueShape(q), IdsOrdered(q), VirtualSet(q) = {}
  PROVE  Merged(q) = q.queue
<1> DEFINE n == Len(q.queue)
           T == {k \in Nat : k <= n => MergedUpTo(q, k) = SubSeq(q.queue, 1, k)}
<1>1. n \in Nat /\ q.queue \in Seq(QueuedEvent)
  BY LenProperties DEF QueueShape
<1>2. /\ MergedUpTo(q, 0) = <<>>
      /\ \A k \in 0 .. n :
           /\ MergedUpTo(q, k) \in Seq(QueuedEvent)
           /\ MergedUpTo(q, k + 1) = MergedUpTo(q, k) \o (VirtualAt(q, k + 1) \o RealAt(q, k + 1))
      /\ MergedUpTo(q, n + 1) = Merged(q)
  BY MergeUnfolded
<1>3. \A k \in 1 .. n + 1 : VirtualAt(q, k) = <<>> /\ RealAt(q, k) \in Seq(QueuedEvent)
  <2> SUFFICES ASSUME NEW k \in 1 .. n + 1
               PROVE  VirtualAt(q, k) = <<>> /\ RealAt(q, k) \in Seq(QueuedEvent)
    OBVIOUS
  <2>1. /\ VirtualAt(q, k) \in Seq(QueuedEvent) /\ RealAt(q, k) \in Seq(QueuedEvent)
        /\ \A i \in 1 .. Len(VirtualAt(q, k)) : VirtualAt(q, k)[i] \in At(q, k)
    BY PieceFacts
  <2>2. At(q, k) = {}
    BY DEF At
  <2>3. Len(VirtualAt(q, k)) = 0
    <3>1. Len(VirtualAt(q, k)) \in Nat
      BY <2>1, LenProperties
    <3> QED
      BY <2>1, <2>2, <3>1
  <2> QED
    BY <2>1, <2>3, EmptySeq
<1>4. \A k \in 0 .. n : MergedUpTo(q, k + 1) = MergedUpTo(q, k) \o RealAt(q, k + 1)
  <2> SUFFICES ASSUME NEW k \in 0 .. n
               PROVE  MergedUpTo(q, k + 1) = MergedUpTo(q, k) \o RealAt(q, k + 1)
    OBVIOUS
  <2>1. k + 1 \in 1 .. n + 1
    BY <1>1
  <2>2. <<>> \o RealAt(q, k + 1) = RealAt(q, k + 1)
    BY <1>3, <2>1, ConcatEmptySeq
  <2> QED
    BY <1>2, <1>3, <2>1, <2>2
<1> HIDE DEF n
<1>5. 0 \in T
  BY <1>2, SubSeqEmpty
<1>6. ASSUME NEW k \in T PROVE k + 1 \in T
  <2> SUFFICES ASSUME k + 1 <= n PROVE MergedUpTo(q, k + 1) = SubSeq(q.queue, 1, k + 1)
    OBVIOUS
  <2>1. k \in 0 .. n /\ k + 1 \in 1 .. n /\ 1 \in 1 .. n /\ (k + 1) - 1 = k
    BY <1>1
  <2>2. SubSeq(q.queue, 1, k + 1) = SubSeq(q.queue, 1, k) \o <<q.queue[k + 1]>>
    BY <1>1, <2>1, SubSeqRecursiveSecond DEF n
  <2>3. RealAt(q, k + 1) = <<q.queue[k + 1]>>
    BY <2>1 DEF RealAt, n
  <2>4. MergedUpTo(q, k) = SubSeq(q.queue, 1, k)
    BY <1>6, <2>1
  <2> QED
    BY <1>4, <2>1, <2>2, <2>3, <2>4
<1>7. T = Nat
  <2> HIDE DEF T
  <2> QED
    BY <1>5, <1>6, NumberInduction DEF T
<1>8. MergedUpTo(q, n) = q.queue
  <2>1. MergedUpTo(q, n) = SubSeq(q.queue, 1, n)
    BY <1>1, <1>7
  <2> QED
    BY <1>1, <2>1, SubSeqFull DEF n
<1>9. RealAt(q, n + 1) = <<>>
  BY <1>1 DEF RealAt, n
<1>10. n \in 0 .. n
  BY <1>1
<1>11. Merged(q) = q.queue \o <<>>
  BY <1>2, <1>4, <1>8, <1>9, <1>10
<1> QED
  BY <1>1, <1>11, ConcatEmptySeq

\* contents, empty
LEMMA LogContents ==
  ASSUME NEW l \in Log, NEW q, IsQueue(q), IsLog(q, l)
  PROVE  /\ IsLog(MergeVirtual(q), l) /\ IsQueue(MergeVirtual(q))
         /\ empty(q) <=> IsEmpty(l)
         /\ contents(q) = [k \in 1 .. Len(Contents(l).events) |->
              WithId(Contents(l).events[k], Contents(l).first + k - 1)]
<1> DEFINE n == Len(l.log) - 1 - l.newest_pruned_id
           p == l.newest_pruned_id
           a == MergeVirtual(q)
           events == Contents(l).events
<1>1. /\ n \in Nat /\ p \in Int /\ p >= -1 /\ Len(l.log) \in Nat /\ l.log \in Seq(Templates)
      /\ Numbered(l) \in Seq(QueuedEvent) /\ Len(Numbered(l)) = n
      /\ \A k \in 1 .. n : p + 1 + k \in 1 .. Len(l.log) /\ l.log[p + 1 + k] \in Templates
  BY NumberedFacts
<1>2. Merged(q) = q.queue
  BY LogShape, MergeNothing
<1>3. IsLog(a, l) /\ IsQueue(a) /\ a.queue = Numbered(l)
  BY <1>2 DEF MergeVirtual, IsLog, IsQueue
<1>4. empty(q) <=> IsEmpty(l)
  <2>1. empty(q) <=> Numbered(l) = <<>>
    BY DEF empty, IsLog
  <2>2. Numbered(l) = <<>> <=> n = 0
    BY <1>1, EmptySeq
  <2> QED
    BY <1>1, <2>1, <2>2 DEF IsEmpty
<1>5. Contents(l).first = p + 1 /\ events = SubSeq(l.log, p + 2, Len(l.log))
  BY DEF Contents, Answer
<1>6. Len(events) = n /\ \A k \in 1 .. n : events[k] = l.log[p + 1 + k]
  <2> DEFINE s == SubSeq(l.log, p + 2, Len(l.log))
  <2>1. \A i \in p + 2 .. Len(l.log) : l.log[i] \in Templates
    BY <1>1, ElementOfSeq
  <2>2. /\ Len(s) = IF p + 2 <= Len(l.log) THEN Len(l.log) - (p + 2) + 1 ELSE 0
        /\ \A i \in 1 .. Len(l.log) - (p + 2) + 1 : s[i] = l.log[(p + 2) + i - 1]
    <3>1. p + 2 \in Int /\ Len(l.log) \in Int
      BY <1>1
    <3> HIDE DEF p
    <3> QED
      BY <2>1, <3>1, SubSeqProperties
  <2> HIDE DEF s
  <2>3. Len(l.log) - (p + 2) + 1 = n /\ Len(s) = n
    BY <1>1, <2>2
  <2>4. \A k \in 1 .. n : (p + 2) + k - 1 = p + 1 + k
    BY <1>1
  <2> QED
    BY <1>5, <2>2, <2>3, <2>4 DEF s
<1> HIDE DEF n, events
<1>7. \A k \in 1 .. n : (p + 1) + k - 1 = p + k
  BY <1>1
<1>8. Numbered(l) = [k \in 1 .. n |-> WithId(l.log[p + 1 + k], p + k)]
  BY DEF Numbered, n
<1>9. Numbered(l) = [k \in 1 .. Len(events) |-> WithId(events[k], Contents(l).first + k - 1)]
  <2>1. \A k \in 1 .. n : WithId(events[k], Contents(l).first + k - 1) = WithId(l.log[p + 1 + k], p + k)
    BY <1>5, <1>6, <1>7
  <2> QED
    BY <1>6, <1>8, <2>1
<1> QED
  BY <1>3, <1>4, <1>9 DEF contents, events, a

\* On a queue without compressed events, push, prune, contents, empty and the two
\* checks of an acknowledgement are what EventStream has in their place.
THEOREM OperationsAreLogOperations ==
  ASSUME NEW l \in Log, NEW q, IsQueue(q), IsLog(q, l)
  PROVE  /\ \A t \in Templates : Uncompressed(t) => IsLog(push(q, t), Pushed(l, t))
         /\ \A last \in Int :
              /\ IsLog(prune(q, last), Pruned(l, last))
              /\ AlreadyPruned(q, last) <=> last < l.newest_pruned_id
              /\ NotInQueue(q, last) <=> last # Pruned(l, last).newest_pruned_id
         /\ IsLog(MergeVirtual(q), l)
         /\ contents(q) = [k \in 1 .. Len(Contents(l).events) |->
              WithId(Contents(l).events[k], Contents(l).first + k - 1)]
         /\ empty(q) <=> IsEmpty(l)
BY LogPush, LogPrune, LogContents

\* fetch_events
LEMMA LogFetched ==
  ASSUME NEW l \in Log, NEW q, IsQueue(q), IsLog(q, l), NEW last \in Int
  PROVE  \E m \in {l, Pruned(l, last)} :
           /\ m \in Log /\ m.log = l.log
           /\ IsLog(Fetched(q, last), m) /\ IsQueue(Fetched(q, last))
           /\ Accepted(q, last) => m.newest_pruned_id = last
<1> DEFINE m == Pruned(l, last)
           p == prune(q, last)
<1>1. /\ IsLog(p, m) /\ m \in Log /\ IsQueue(p)
      /\ NotInQueue(q, last) <=> last # m.newest_pruned_id
  BY LogPrune
<1>2. IsLog(MergeVirtual(p), m) /\ IsQueue(MergeVirtual(p))
  <2> HIDE DEF p, m
  <2> QED
    BY <1>1, LogContents
<1>3. m.log = l.log
  BY DEF Pruned, Log
<1>4. Fetched(q, last) = IF AlreadyPruned(q, last) THEN q
                         ELSE IF NotInQueue(q, last) THEN p ELSE MergeVirtual(p)
  BY DEF Fetched
<1> HIDE DEF m, p
<1> QED
  BY <1>1, <1>2, <1>3, <1>4 DEF Accepted, m

\* The log that the server and its client share.
CurrentLog == [log |-> log, newest_pruned_id |-> event_queue.newest_pruned_id]

\* The queue is the log of what was pushed, less what was pruned, and what the
\* client has received is that log from its beginning.
QueueIsLog ==
  /\ IsLog(event_queue, CurrentLog)
  /\ received = [k \in 1 .. last_event_id + 1 |-> WithId(log[k], k - 1)]

LEMMA CurrentFacts ==
  ASSUME SyncInv
  PROVE  /\ CurrentLog \in Log /\ CurrentLog.log = log
         /\ CurrentLog.newest_pruned_id = event_queue.newest_pruned_id
         /\ IsQueue(event_queue) /\ log \in Seq(Templates) /\ Len(log) \in Nat
         /\ last_event_id \in Int /\ last_event_id >= -1 /\ last_event_id + 1 <= Len(log)
<1>1. /\ log \in Seq(Templates) /\ event_queue.newest_pruned_id \in -1 .. Len(log) - 1
      /\ last_event_id \in -1 .. Len(log) - 1 /\ IsQueue(event_queue)
  BY DEF SyncInv, SyncTypes
<1>2. Len(log) \in Nat
  BY <1>1, LenProperties
<1> QED
  BY <1>1, <1>2 DEF CurrentLog, Log

LEMMA QueueIsLogStep ==
  ASSUME \A t \in Templates : Uncompressed(t), SyncInv, QueueIsLog, [Next]_vars
  PROVE  QueueIsLog'
<1> DEFINE l == CurrentLog
           last == last_event_id
<1>1. /\ l \in Log /\ l.log = log /\ l.newest_pruned_id = event_queue.newest_pruned_id
      /\ IsQueue(event_queue) /\ log \in Seq(Templates) /\ Len(log) \in Nat
      /\ last \in Int /\ last >= -1 /\ last + 1 <= Len(log)
  BY CurrentFacts
<1>2. IsLog(event_queue, l)
  BY DEF QueueIsLog
<1>3. ASSUME NEW m \in Log, IsLog(event_queue', m), m.log = log'
      PROVE  IsLog(event_queue, CurrentLog)'
  <2>1. CurrentLog'.log = m.log /\ CurrentLog'.newest_pruned_id = m.newest_pruned_id
    BY <1>3 DEF CurrentLog, IsLog
  <2>2. Numbered(CurrentLog)' = Numbered(m)
    BY <2>1 DEF Numbered
  <2> QED
    BY <1>3, <2>1, <2>2 DEF IsLog
<1>4. ASSUME NEW t \in Templates, PushEvent(t) PROVE QueueIsLog'
  <2>1. IsLog(push(event_queue, t), Pushed(l, t)) /\ Pushed(l, t) \in Log
    <3> HIDE DEF l
    <3> QED
      BY <1>1, <1>2, LogPush
  <2>2. event_queue' = push(event_queue, t) /\ log' = Append(log, t)
        /\ received' = received /\ last_event_id' = last_event_id
    BY <1>4 DEF PushEvent
  <2>3. Pushed(l, t).log = log'
    BY <1>1, <2>2 DEF Pushed, Log
  <2>4. IsLog(event_queue, CurrentLog)'
    BY <1>3, <2>1, <2>2, <2>3
  <2>5. \A k \in 1 .. last + 1 : log'[k] = log[k]
    BY <1>1, <2>2, AppendProperties
  <2>6. received' = [k \in 1 .. last + 1 |-> WithId(log'[k], k - 1)]
    BY <2>2, <2>5 DEF QueueIsLog
  <2> QED
    BY <2>2, <2>4, <2>6 DEF QueueIsLog
<1>5. PICK f \in {l, Pruned(l, last)} :
        /\ f \in Log /\ f.log = l.log
        /\ IsLog(Fetched(event_queue, last), f) /\ IsQueue(Fetched(event_queue, last))
        /\ Accepted(event_queue, last) => f.newest_pruned_id = last
  <2> HIDE DEF l, last
  <2> QED
    BY <1>1, <1>2, LogFetched
<1>6. CASE Poll
  <2> DEFINE r == Fetched(event_queue, last).queue
             n == Len(log) - 1 - last
  <2>1. /\ event_queue' = Fetched(event_queue, last) /\ r # <<>>
        /\ received' = received \o r /\ last_event_id' = Last(r).id /\ log' = log
        /\ f.newest_pruned_id = last
    BY <1>5, <1>6 DEF Poll
  <2>2. IsLog(event_queue, CurrentLog)'
    BY <1>1, <1>3, <1>5, <2>1
  <2>3. r = Numbered(f)
    BY <1>5 DEF IsLog
  <2> HIDE DEF r
  <2>4. /\ n \in Nat /\ r \in Seq(QueuedEvent) /\ Len(r) = n
        /\ \A k \in 1 .. n : r[k] = WithId(log[last + 1 + k], last + k) /\ r[k].id = last + k
    BY <1>1, <1>5, <2>1, <2>3, NumberedFacts
  <2>5. n # 0 /\ last_event_id' = Len(log) - 1
    <3>1. n # 0
      BY <2>1, <2>4, EmptySeq
    <3>2. n \in 1 .. n /\ Last(r) = r[n] /\ last + n = Len(log) - 1
      BY <1>1, <2>4, <3>1 DEF Last
    <3> QED
      BY <2>1, <2>4, <3>1, <3>2
  <2>6. /\ received \in Seq(QueuedEvent) /\ Len(received) = last + 1
        /\ \A k \in 1 .. last + 1 : received[k] = WithId(log[k], k - 1)
    <3>1. received \in Seq(QueuedEvent)
      BY DEF SyncInv, SyncTypes
    <3>2. DOMAIN received = 1 .. last + 1
      BY DEF QueueIsLog
    <3>3. \A k \in 1 .. last + 1 : received[k] = WithId(log[k], k - 1)
      BY DEF QueueIsLog
    <3> QED
      BY <1>1, <3>1, <3>2, <3>3, LenProperties
  <2>7. /\ received \o r \in Seq(QueuedEvent) /\ Len(received \o r) = Len(log)
        /\ \A k \in 1 .. Len(log) :
             (received \o r)[k] = IF k <= last + 1 THEN received[k] ELSE r[k - (last + 1)]
    <3>1. Len(received) + Len(r) = Len(log)
      BY <1>1, <2>4, <2>6
    <3> QED
      BY <2>4, <2>6, <3>1, ConcatProperties
  <2>8. ASSUME NEW k \in 1 .. Len(log) PROVE (received \o r)[k] = WithId(log[k], k - 1)
    <3>1. CASE k <= last + 1
      BY <1>1, <2>6, <2>7, <3>1
    <3>2. CASE ~(k <= last + 1)
      <4>1. k - (last + 1) \in 1 .. n /\ last + 1 + (k - (last + 1)) = k
            /\ last + (k - (last + 1)) = k - 1
        BY <1>1, <3>2
      <4> QED
        BY <2>4, <2>7, <3>2, <4>1
    <3> QED
      BY <3>1, <3>2
  <2>9. received' = [k \in 1 .. Len(log) |-> WithId(log[k], k - 1)]
    <3> DEFINE s == received \o r
    <3>1. received' = [k \in 1 .. Len(log) |-> s[k]]
      <4>1. s \in Seq(QueuedEvent) /\ Len(s) = Len(log) /\ received' = s
        BY <2>1, <2>7
      <4> HIDE DEF s
      <4>2. s \in [1 .. Len(s) -> QueuedEvent]
        BY <4>1, LenProperties
      <4> QED
        BY <4>1, <4>2
    <3> QED
      BY <2>8, <3>1
  <2>10. last_event_id' + 1 = Len(log)
    BY <1>1, <2>5
  <2> QED
    BY <2>1, <2>2, <2>9, <2>10 DEF QueueIsLog
<1>7. CASE PollResponseLost
  <2>1. event_queue' = Fetched(event_queue, last) /\ UNCHANGED <<last_event_id, received, log>>
    BY <1>7 DEF PollResponseLost
  <2>2. IsLog(event_queue, CurrentLog)'
    BY <1>1, <1>3, <1>5, <2>1
  <2> QED
    BY <2>1, <2>2 DEF QueueIsLog
<1>8. CASE ReadContents
  <2>1. event_queue' = MergeVirtual(event_queue) /\ UNCHANGED <<last_event_id, received, log>>
    BY <1>8 DEF ReadContents
  <2>2. IsLog(MergeVirtual(event_queue), l)
    <3> HIDE DEF l
    <3> QED
      BY <1>1, <1>2, LogContents
  <2>3. IsLog(event_queue, CurrentLog)'
    BY <1>1, <1>3, <2>1, <2>2
  <2> QED
    BY <2>1, <2>3 DEF QueueIsLog
<1>9. CASE UNCHANGED vars
  BY <1>9 DEF vars, QueueIsLog, CurrentLog, IsLog, Numbered
<1> QED
  BY <1>4, <1>6, <1>7, <1>8, <1>9 DEF Next

\* Where no event is compressed, the queue with its acknowledgements is the log
\* with newest_pruned_id that EventStream puts in its place, and the client has
\* received the log up to its last_event_id, each event once and in order,
\* whatever responses were lost (EventQueue.push, prune, contents, fetch_events).
THEOREM UncompressedQueueIsLog ==
  ASSUME \A t \in Templates : Uncompressed(t)
  PROVE  Spec => []QueueIsLog
<1>1. Init => QueueIsLog
  <2> SUFFICES ASSUME Init PROVE QueueIsLog
    OBVIOUS
  <2>1. /\ event_queue.queue = <<>> /\ event_queue.next_event_id = 0
        /\ event_queue.newest_pruned_id = -1 /\ event_queue.virtual_events = <<>>
        /\ log = <<>> /\ Len(log) = 0 /\ received = <<>> /\ last_event_id = -1
    BY EmptySeq DEF Init, EmptyQueue
  <2>2. CurrentLog.log = log /\ CurrentLog.newest_pruned_id = -1
    BY <2>1 DEF CurrentLog
  <2> QED
    BY <2>1, <2>2 DEF QueueIsLog, IsLog, Numbered
<1>2. SyncInv /\ QueueIsLog /\ [Next]_vars => QueueIsLog'
  BY QueueIsLogStep
<1> QED
  BY <1>1, <1>2, SyncInvariant, PTL DEF Spec
---------------------------------------------------------------------------
(* Expiry.  A poll that is answered at once leaves last_connection_time    *)
(* as it was; the question is how many such polls may follow one another.  *)

\* The conditions on client and server under which a queue is kept: polls
\* block, two events are at least two polling delays apart, and the timeout is
\* longer than a poll with three delays.
PollsSuffice ==
  /\ DontBlock = {FALSE}
  /\ RepollDelay < EventGap /\ 2 * RepollDelay <= EventGap
  /\ HEARTBEAT_MAX_FREQ + 3 * RepollDelay < queue_timeout

\* The last poll waited, or none but it was answered at once.
Fresh == idle <= HEARTBEAT_MAX_FREQ + answered

\* One poll was answered at once, by an event of the delay before it ...
AfterOne ==
  /\ idle <= HEARTBEAT_MAX_FREQ + RepollDelay + answered
  /\ \/ ~pending /\ quiet <= RepollDelay + answered
     \/ pending /\ quiet = 0 /\ answered = RepollDelay

\* ... two were, and the second event was as late as it could be.
AfterTwo ==
  /\ idle <= HEARTBEAT_MAX_FREQ + 2 * RepollDelay + answered
  /\ ~pending /\ quiet <= answered

\* An event that waits in the queue came after the last answer.
PendingIsRecent == pending => quiet <= answered

ExpiryInv ==
  /\ connected => idle <= HEARTBEAT_MAX_FREQ /\ answered = 0 /\ ~collected
  /\ ~connected /\ ~gone /\ ~collected =>
       answered <= RepollDelay /\ PendingIsRecent /\ (Fresh \/ AfterOne \/ AfterTwo)
  /\ ~connected /\ gone /\ ~collected =>
       idle <= HEARTBEAT_MAX_FREQ + 2 * RepollDelay + answered
---------------------------------------------------------------------------
\* Times are counted in ticks.
LEMMA Times ==
  /\ queue_timeout \in Nat /\ HEARTBEAT_MIN_FREQ \in Nat /\ HEARTBEAT_MAX_FREQ \in Nat
  /\ RepollDelay \in Nat /\ EventGap \in Nat
  BY TimesAssumption

\* An age grows by one, up to its bound.
LEMMA OlderBounds ==
  ASSUME NEW bound \in Nat, NEW age \in 0 .. bound
  PROVE  /\ Older(age, bound) \in 0 .. bound
         /\ age <= Older(age, bound)
         /\ Older(age, bound) <= age + 1
         /\ age < bound => Older(age, bound) = age + 1
  BY DEF Older

\* Every variable keeps its type; no event waits while a poll does, and no poll
\* of a queue that was collected.
THEOREM ExpiryTypeCorrect == ExpirySpec => []ExpiryTypeOK
<1> DEFINE Clocks == idle \in 0 .. queue_timeout /\ answered \in 0 .. queue_timeout
                     /\ quiet \in 0 .. EventGap
           Switches == /\ connected \in BOOLEAN /\ pending \in BOOLEAN
                    /\ gone \in BOOLEAN /\ collected \in BOOLEAN
                    /\ ~(connected /\ (pending \/ collected))
<1>1. ExpiryInit => Clocks
  BY Times DEF ExpiryInit
<1>2. ExpiryInit => Switches
  BY DEF ExpiryInit
<1>3. Clocks /\ [ExpiryNext]_clocks => Clocks'
  <2> SUFFICES ASSUME Clocks, [ExpiryNext]_clocks PROVE Clocks'
    OBVIOUS
  <2> USE Times
  <2>1. CASE Tick
    <3>1. answered' \in 0 .. queue_timeout
      BY <2>1, OlderBounds DEF Tick
    <3> QED
      BY <2>1, <3>1, OlderBounds DEF Tick
  <2>2. CASE EventArrives
    BY <2>2 DEF EventArrives, AddEvent
  <2>3. CASE Heartbeat \/ Leave \/ Collect
    BY <2>3 DEF Heartbeat, AddEvent, Leave, Collect
  <2>4. ASSUME NEW dont_block \in DontBlock, PollArrives(dont_block) PROVE Clocks'
    BY <2>4 DEF PollArrives
  <2>5. CASE UNCHANGED clocks
    BY <2>5 DEF clocks
  <2> QED
    BY <2>1, <2>2, <2>3, <2>4, <2>5 DEF ExpiryNext
<1>4. Switches /\ [ExpiryNext]_clocks => Switches'
  <2> SUFFICES ASSUME Switches, [ExpiryNext]_clocks PROVE Switches'
    OBVIOUS
  <2>1. CASE Tick
    BY <2>1 DEF Tick
  <2>2. CASE EventArrives
    BY <2>2, Zenon DEF EventArrives, AddEvent
  <2>3. CASE Heartbeat
    BY <2>3, Zenon DEF Heartbeat, AddEvent
  <2>4. CASE Leave
    BY <2>4 DEF Leave
  <2>5. CASE Collect
    BY <2>5 DEF Collect
  <2>6. ASSUME NEW dont_block \in DontBlock, PollArrives(dont_block) PROVE Switches'
    BY <2>6 DEF PollArrives
  <2>7. CASE UNCHANGED clocks
    BY <2>7 DEF clocks
  <2> QED
    BY <2>1, <2>2, <2>3, <2>4, <2>5, <2>6, <2>7 DEF ExpiryNext
<1>5. Clocks /\ Switches => ExpiryTypeOK
  BY DEF ExpiryTypeOK
<1> QED
  BY <1>1, <1>2, <1>3, <1>4, <1>5, PTL DEF ExpirySpec

\* Every step keeps the bound on how long ago a poll last waited.
LEMMA ExpiryStep ==
  ASSUME PollsSuffice, ExpiryTypeOK, ExpiryInv, [ExpiryNext]_clocks
  PROVE  ExpiryInv'
<1> USE TimesAssumption DEF ExpiryTypeOK, PollsSuffice, ExpiryInv, Fresh, AfterOne, AfterTwo, PendingIsRecent
<1>1. CASE Tick
  <2>1. /\ idle' <= idle + 1 /\ quiet' <= quiet + 1
        /\ idle' \in 0 .. queue_timeout /\ quiet' \in 0 .. EventGap
    BY <1>1, OlderBounds DEF Tick
  <2>2. CASE connected
    BY <1>1, <2>1, <2>2 DEF Tick
  <2>3. CASE ~connected /\ ~gone /\ ~collected
    <3>1. answered < RepollDelay /\ answered' = answered + 1
      BY <1>1, <2>3, OlderBounds DEF Tick
    <3> QED
      BY <1>1, <2>1, <2>3, <3>1 DEF Tick
  <2>4. CASE ~connected /\ gone /\ ~collected
    <3>1. answered' = answered + 1 \/ answered' = queue_timeout
      BY <1>1, <2>4 DEF Tick, Older
    <3> QED
      BY <1>1, <2>1, <2>4, <3>1 DEF Tick
  <2>5. CASE ~connected /\ collected
    BY <1>1, <2>5 DEF Tick
  <2> QED
    BY <2>2, <2>3, <2>4, <2>5
<1>2. CASE EventArrives
  BY <1>2 DEF EventArrives, AddEvent
<1>3. CASE Heartbeat
  BY <1>3 DEF Heartbeat, AddEvent
<1>4. CASE Leave
  BY <1>4 DEF Leave
<1>5. CASE Collect
  BY <1>5 DEF Collect, expired
<1>6. ASSUME NEW dont_block \in DontBlock, PollArrives(dont_block) PROVE ExpiryInv'
  BY <1>6 DEF PollArrives
<1>7. CASE UNCHANGED clocks
  BY <1>7 DEF clocks
<1> QED
  BY <1>1, <1>2, <1>3, <1>4, <1>5, <1>6, <1>7 DEF ExpiryNext

\* However the heartbeats, the events and the polls of a client fall, it keeps
\* its queue until it stops polling, and then for the timeout less the length
\* of its last poll and two delays (expired, connect_handler).
THEOREM QueueKept ==
  ASSUME PollsSuffice
  PROVE  ExpirySpec => [](KeptWhilePolled /\ KeptAfterwards)
<1> DEFINE Kept == ExpiryInv /\ KeptWhilePolled /\ KeptAfterwards
<1>1. ExpiryInit => Kept
  BY TimesAssumption
     DEF ExpiryInit, ExpiryInv, Fresh, PendingIsRecent, KeptWhilePolled, KeptAfterwards
<1>2. ExpiryTypeOK /\ Kept /\ [ExpiryNext]_clocks => Kept'
  <2> SUFFICES ASSUME ExpiryTypeOK, Kept, [ExpiryNext]_clocks PROVE Kept'
    OBVIOUS
  <2>1. ExpiryInv'
    BY ExpiryStep
  <2> USE TimesAssumption DEF ExpiryTypeOK, KeptWhilePolled, KeptAfterwards
  <2>2. CASE Tick
    <3>1. collected => answered <= answered' /\ answered' \in 0 .. queue_timeout
      BY <2>2, OlderBounds DEF Tick
    <3> QED
      BY <2>1, <2>2, <3>1 DEF Tick
  <2>3. CASE EventArrives \/ Heartbeat \/ Leave
    BY <2>1, <2>3 DEF EventArrives, Heartbeat, Leave, AddEvent
  <2>4. CASE Collect
    BY <2>1, <2>4 DEF Collect, expired, PollsSuffice, ExpiryInv, Fresh, AfterOne, AfterTwo
  <2>5. ASSUME NEW dont_block \in DontBlock, PollArrives(dont_block) PROVE Kept'
    BY <2>1, <2>5 DEF PollArrives
  <2>6. CASE UNCHANGED clocks
    BY <2>1, <2>6 DEF clocks
  <2> QED
    BY <2>2, <2>3, <2>4, <2>5, <2>6 DEF ExpiryNext
<1> QED
  BY <1>1, <1>2, ExpiryTypeCorrect, PTL DEF ExpirySpec

\* In particular, a client that left had the timeout it asked for, less a poll
\* and two delays, before its queue was collected.
COROLLARY QueueKeptAfterwards ==
  ASSUME PollsSuffice
  PROVE  ExpirySpec => []KeptAfterwards
<1>1. ExpirySpec => [](KeptWhilePolled /\ KeptAfterwards)
  BY QueueKept
<1> QED
  BY <1>1, PTL
===========================================================================
