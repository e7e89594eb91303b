-------------------------- MODULE UserGroupsProofs --------------------------
(***************************************************************************)
(* The locks of UserGroups keep memberships free of cycles, for any number *)
(* of groups and of requests.                                              *)
(***************************************************************************)
EXTENDS UserGroups, TLAPS

---------------------------------------------------------------------------
(* Graphs without cycles *)

\* Removing memberships makes no cycle.
LEMMA AcyclicSubset ==
  ASSUME NEW E, NEW F, E \subseteq F, Acyclic(F)
  PROVE  Acyclic(E)
BY DEF Acyclic

\* Nor does adding them from outside a set that is closed to members of it.
LEMMA AcyclicAdd ==
  ASSUME NEW E, Acyclic(E), NEW T \in SUBSET Groups, Closed(E, T),
         NEW A \in SUBSET T, NEW g \in Groups, g \notin T
  PROVE  Acyclic(E \cup ({g} \X A))
<1> SUFFICES ASSUME NEW S \in SUBSET Groups, S # {}
             PROVE  \E x \in S : \A h \in S : <<x, h>> \notin E \cup ({g} \X A)
  BY DEF Acyclic
<1>1. CASE S \cap T # {}
  <2>1. PICK x \in S \cap T : \A h \in S \cap T : <<x, h>> \notin E
    BY <1>1 DEF Acyclic
  <2>2. ASSUME NEW h \in S PROVE <<x, h>> \notin E
    <3>1. CASE h \in T
      BY <2>1, <3>1
    <3>2. CASE h \notin T
      <4>1. <<x, h>> \in E => <<x, h>>[2] \in T
        BY <2>1 DEF Closed
      <4> QED
        BY <3>2, <4>1
    <3> QED
      BY <3>1, <3>2
  <2>3. ASSUME NEW h \in S PROVE <<x, h>> \notin {g} \X A
    BY <2>1
  <2> QED
    BY <2>1, <2>2, <2>3
<1>2. CASE S \cap T = {}
  <2>1. PICK x \in S : \A h \in S : <<x, h>> \notin E
    BY DEF Acyclic
  <2>2. ASSUME NEW h \in S PROVE <<x, h>> \notin {g} \X A
    BY <1>2
  <2> QED
    BY <2>1, <2>2
<1> QED
  BY <1>1, <1>2

\* A change of the memberships of a group outside T leaves T closed.
LEMMA ClosedElsewhere ==
  ASSUME NEW E, NEW T, Closed(E, T), NEW g, g \notin T, NEW A, NEW D
  PROVE  Closed((E \cup ({g} \X A)) \ ({g} \X D), T)
BY DEF Closed
---------------------------------------------------------------------------
(* Types *)

LEMMA IdleType == Idle \in Request
BY DEF Idle, Request, Phases, Operations

LEMMA QueryType ==
  ASSUME NEW edges, NEW changed \in Request
  PROVE  /\ Query(edges, changed) \in Request
         /\ Query(edges, changed) =
              [changed EXCEPT !.phase = "locking", !.found = Query(edges, changed).found]
         /\ Query(edges, changed).found \subseteq groups
<1> DEFINE found == Descendants(edges, IF changed.add # {} THEN changed.add ELSE changed.delete)
                      \cap groups
<1>1. found \in SUBSET Groups
  BY DEF Descendants
<1> HIDE DEF found
<1> QED
  BY <1>1 DEF Query, Request, Phases, found

LEMMA RequestType ==
  ASSUME TypeOK, NEW r \in Requests
  PROVE  request[r] \in Request
BY DEF TypeOK
---------------------------------------------------------------------------
(* The inductive invariant *)

\* Rows that a request names, found or locked; its locks last as long as what
\* it has written.
RowsExist(q) ==
  /\ q.phase # "idle" => q.group \in Groups
  /\ q.found \subseteq groups /\ q.added \subseteq groups
  /\ IF q.op = "create" THEN q.group \in (Groups \cap q.locks) \ groups
                        ELSE q.locks \subseteq groups
  /\ q.locks \subseteq groups \cup {q.group}
  /\ q.phase = "done" \/ q.added # {} => q.group \in q.locks
  /\ q.add # {} => q.added = {} /\ q.deleted = {}
  /\ q.deleted # {} => q.phase = "done"
  /\ q.phase = "waiting" /\ q.add # {} => q.found \subseteq q.locks
  /\ q.added \subseteq q.locks \ deactivated /\ q.group \notin q.added

\* What lies below the subgroups to be added is locked, and the supergroup is
\* not among it, unless the query missed something.
TreeLocked(q) ==
  ~q.missed =>
    /\ q.phase = "waiting" /\ q.add # {} => Closed(subgroups, q.found)
    /\ q.added # {} =>
         \E T \in SUBSET q.locks :
           q.added \subseteq T /\ q.group \notin T /\ Closed(subgroups, T)

LocksDisjoint ==
  \A r, q \in Requests : r # q => request[r].locks \cap request[q].locks = {}

LockInv ==
  /\ TypeOK
  /\ \A r \in Requests : RowsExist(request[r]) /\ TreeLocked(request[r])
  /\ LocksDisjoint
  /\ CyclesOnlyFromMisreads

LEMMA IdleHoldsNothing == RowsExist(Idle) /\ TreeLocked(Idle) /\ Idle.locks = {}
BY DEF RowsExist, TreeLocked, Idle

LEMMA InitInv == Init => LockInv
<1> SUFFICES ASSUME Init PROVE LockInv
  OBVIOUS
<1>1. TypeOK
  BY IdleType DEF Init, TypeOK
<1>2. \A r \in Requests : request[r] = Idle
  BY DEF Init
<1>3. Acyclic(subgroups)
  BY DEF Init, Acyclic
<1> QED
  BY <1>1, <1>2, <1>3, IdleHoldsNothing
  DEF LockInv, LocksDisjoint, CyclesOnlyFromMisreads

\* A step that only changes the state of its request.
LEMMA BecomesInv ==
  ASSUME LockInv, NEW r \in Requests, NEW changed \in Request, Becomes(r, changed),
         changed.locks \cap LockedByOthers(r) = {},
         RowsExist(changed), TreeLocked(changed)
  PROVE  LockInv'
<1>1. /\ UNCHANGED <<groups, subgroups, deactivated, misread>>
      /\ request' = [request EXCEPT ![r] = changed]
  BY DEF Becomes
<1>2. TypeOK'
  BY <1>1 DEF LockInv, TypeOK
<1>3. \A q \in Requests : request'[q] = IF q = r THEN changed ELSE request[q]
  BY <1>1 DEF LockInv, TypeOK
<1>4. \A q \in Requests : RowsExist(request[q])' /\ TreeLocked(request[q])'
  <2> SUFFICES ASSUME NEW q \in Requests
               PROVE  RowsExist(request[q])' /\ TreeLocked(request[q])'
    OBVIOUS
  <2>1. RowsExist(request'[q]) /\ TreeLocked(request'[q])
    BY <1>3 DEF LockInv
  <2> QED
    BY <2>1, <1>1 DEF RowsExist, TreeLocked, Closed
<1>5. LocksDisjoint'
  BY <1>3 DEF LockInv, LocksDisjoint, LockedByOthers
<1>6. CyclesOnlyFromMisreads'
  BY <1>1 DEF LockInv, CyclesOnlyFromMisreads
<1> QED
  BY <1>2, <1>4, <1>5, <1>6 DEF LockInv

LEMMA RollBackInv ==
  ASSUME LockInv, NEW r \in Requests, RollBack(r)
  PROVE  LockInv'
<1>1. Becomes(r, Idle)
  BY DEF RollBack, Becomes
<1> QED
  BY <1>1, BecomesInv, IdleType, IdleHoldsNothing
---------------------------------------------------------------------------
(* Every step *)

LEMMA StartInv ==
  ASSUME LockInv, NEW r \in Requests, Start(r)
  PROVE  LockInv'
<1> USE DEF LockedByOthers
<1>0. In(r, "idle") /\ request[r] \in Request /\ MaxNamed \in Nat
  BY BoundsAssumption DEF Start, LockInv, TypeOK
<1>1. ASSUME NEW g \in Groups, NEW add \in SUBSET Groups, NEW delete \in SUBSET Groups,
             UpdateSubgroups(r, g, add, delete)
      PROVE  LockInv'
  <2> DEFINE first == [Idle EXCEPT !.group = g, !.add = add, !.delete = delete]
             changed == Query(subgroups, first)
  <2>1. first \in Request /\ first.locks = {}
    BY IdleType DEF Idle, Request
  <2>2. changed \in Request /\ changed.found \subseteq groups
        /\ changed = [first EXCEPT !.phase = "locking", !.found = changed.found]
    BY <2>1, QueryType
  <2>3. Becomes(r, changed)
    BY <1>1 DEF UpdateSubgroups, Begin
  <2> HIDE DEF changed
  <2>4. RowsExist(changed) /\ TreeLocked(changed) /\ changed.locks = {}
    BY <2>1, <2>2 DEF RowsExist, TreeLocked, Idle, Request
  <2> QED
    BY <2>2, <2>3, <2>4, BecomesInv
<1>2. ASSUME NEW g \in Groups, NEW add \in SUBSET Groups, CreateGroup(r, g, add)
      PROVE  LockInv'
  <2> DEFINE creating == [Idle EXCEPT !.op = "create", !.group = g, !.add = add, !.locks = {g}]
             changed == IF add = {} THEN [creating EXCEPT !.phase = "done"]
                        ELSE Query(subgroups, creating)
  <2>1. creating \in Request
    BY IdleType DEF Idle, Request, Operations
  <2>2. g \notin groups /\ Becomes(r, changed)
    BY <1>2 DEF CreateGroup, Begin
  <2>3. changed \in Request /\ changed.found \subseteq groups
        /\ changed = [creating EXCEPT !.phase = IF add = {} THEN "done" ELSE "locking",
                                      !.found = changed.found]
    <3>1. CASE add = {}
      <4>1. changed = [creating EXCEPT !.phase = "done"] /\ creating.found = {}
        BY <3>1 DEF Idle
      <4> HIDE DEF creating, changed
      <4>2. /\ changed.found = {}
            /\ changed = [creating EXCEPT !.phase = "done", !.found = creating.found]
        BY <4>1, <2>1 DEF Request
      <4>3. changed \in Request
        BY <4>1, <2>1 DEF Request, Phases
      <4> QED
        BY <3>1, <4>1, <4>2, <4>3
    <3>2. CASE add # {}
      BY <3>2, <2>1, QueryType
    <3> QED
      BY <3>1, <3>2
  <2>6. /\ changed.phase \in {"done", "locking"} /\ changed.op = "create" /\ changed.group = g
        /\ changed.added = {} /\ changed.deleted = {} /\ changed.locks = {g}
    BY <2>1, <2>3 DEF Idle, Request
  <2> HIDE DEF changed
  <2>4. RowsExist(changed) /\ TreeLocked(changed) /\ changed.locks = {g}
    BY <2>2, <2>3, <2>6 DEF RowsExist, TreeLocked
  <2>5. g \notin LockedByOthers(r)
    BY <1>2, <2>2 DEF CreateGroup, LockInv, RowsExist
  <2> QED
    BY <2>2, <2>3, <2>4, <2>5, BecomesInv
<1>3. ASSUME NEW g \in Groups, NEW op \in {"deactivate", "reactivate"},
             ChangeActivation(r, g, op)
      PROVE  LockInv'
  <2> DEFINE changed == [Idle EXCEPT !.phase = "waiting", !.op = op, !.group = g]
  <2>1. changed \in Request /\ changed.locks = {}
    BY IdleType DEF Idle, Request, Phases, Operations
  <2>2. /\ changed.phase = "waiting" /\ changed.op # "create" /\ changed.group = g
        /\ changed.add = {} /\ changed.added = {} /\ changed.deleted = {}
        /\ changed.found = {} /\ changed.locks = {}
    BY DEF Idle
  <2> HIDE DEF changed
  <2>4. RowsExist(changed) /\ TreeLocked(changed)
    BY <2>2 DEF RowsExist, TreeLocked
  <2>3. Becomes(r, changed)
    BY <1>3 DEF ChangeActivation, Begin, changed
  <2> QED
    BY <2>1, <2>3, <2>4, BecomesInv
<1> QED
  BY <1>1, <1>2, <1>3 DEF Start

LEMMA LockSubgroupsInv ==
  ASSUME LockInv, NEW r \in Requests, LockSubgroups(r)
  PROVE  LockInv'
<1> DEFINE q == request[r]
<1>1. q \in Request /\ In(r, "locking") /\ RowsExist(q) /\ TreeLocked(q)
  BY DEF LockSubgroups, LockInv, TypeOK
<1>2. CASE q.found \cap LockedByOthers(r) # {}
  BY <1>2, RollBackInv DEF LockSubgroups
<1>3. CASE q.found \cap LockedByOthers(r) = {}
  <2> DEFINE missed == q.missed \/ (q.add # {} /\ ~Closed(Visible(r), q.found))
             changed == [q EXCEPT !.phase = "waiting", !.locks = @ \cup q.found,
                                  !.missed = missed]
  <2>1. Becomes(r, changed)
    BY <1>3 DEF LockSubgroups, LockAll
  <2>2. q.add # {} => Visible(r) = subgroups
    BY <1>1 DEF RowsExist, Visible
  <2>3. missed \in BOOLEAN /\ (~missed /\ q.add # {} => Closed(subgroups, q.found))
    BY <1>1, <2>2 DEF Request
  <2> HIDE DEF missed
  <2>4. changed \in Request
    BY <1>1, <2>3 DEF Request, Phases
  <2>5. RowsExist(changed)
    BY <1>1 DEF RowsExist, In, Request
  <2>6. q.added # {} => q.add = {}
    BY <1>1 DEF RowsExist
  <2>7. TreeLocked(changed)
    <3> SUFFICES ASSUME ~missed PROVE TreeLocked(changed)
      BY <1>1 DEF TreeLocked, Request
    <3>1. ~q.missed
      BY <1>1, <2>3 DEF missed, Request
    <3>2. q.added # {} =>
            \E T \in SUBSET (q.locks \cup q.found) :
              q.added \subseteq T /\ q.group \notin T /\ Closed(subgroups, T)
      BY <1>1, <3>1 DEF TreeLocked
    <3> QED
      BY <1>1, <2>3, <3>2 DEF TreeLocked, Request
  <2>8. changed.locks \cap LockedByOthers(r) = {}
    BY <1>1, <1>3 DEF LockInv, LocksDisjoint, LockedByOthers, Request
  <2> QED
    BY <2>1, <2>4, <2>5, <2>7, <2>8, BecomesInv
<1> QED
  BY <1>2, <1>3

\* What the steps that wait for the supergroup have in common.
LEMMA LockSupergroupInv ==
  ASSUME LockInv, NEW r \in Requests, NEW allowed \in BOOLEAN, NEW changed \in Request,
         LockSupergroup(r, allowed, changed),
         changed.locks = request[r].locks,
         LET locked == [changed EXCEPT !.locks = @ \cup {request[r].group}]
         IN  In(r, "waiting") /\ Exists(r) /\ allowed => RowsExist(locked) /\ TreeLocked(locked)
  PROVE  LockInv'
<1> DEFINE locked == [changed EXCEPT !.locks = @ \cup {request[r].group}]
<1>1. request[r] \in Request /\ In(r, "waiting") /\ RowsExist(request[r])
  BY DEF LockSupergroup, LockInv, TypeOK
<1>2. CASE Exists(r) /\ allowed
  <2>1. Becomes(r, locked) /\ request[r].group \notin LockedByOthers(r)
    BY <1>2 DEF LockSupergroup
  <2>2. locked \in Request
    BY <1>1 DEF Request, RowsExist, In
  <2>3. locked.locks \cap LockedByOthers(r) = {}
    BY <2>1, <1>1 DEF LockInv, LocksDisjoint, LockedByOthers, Request
  <2>4. RowsExist(locked) /\ TreeLocked(locked)
    BY <1>1, <1>2
  <2> QED
    BY <2>1, <2>2, <2>3, <2>4, BecomesInv
<1>3. CASE ~(Exists(r) /\ allowed)
  BY <1>3, RollBackInv DEF LockSupergroup
<1> QED
  BY <1>2, <1>3

LEMMA AddInv ==
  ASSUME LockInv, NEW r \in Requests, Add(r)
  PROVE  LockInv'
<1> DEFINE q == request[r]
           added == [q EXCEPT !.add = {}, !.added = q.add]
           edges == subgroups \cup ({added.group} \X added.added)
           changed == IF q.delete = {} THEN [added EXCEPT !.phase = "done"]
                      ELSE Query(edges, added)
           allowed == SubgroupsUsable(r) /\ MayAdd(r)
           locked == [changed EXCEPT !.locks = @ \cup {q.group}]
<1>1. q \in Request /\ q.add # {} /\ RowsExist(q) /\ TreeLocked(q)
  BY DEF Add, LockInv, TypeOK
<1>2. added \in Request
  BY <1>1 DEF Request
<1>3. /\ changed \in Request
      /\ changed.phase \in {"done", "locking"} /\ changed.op = q.op /\ changed.group = q.group
      /\ changed.add = {} /\ changed.added = q.add /\ changed.deleted = q.deleted
      /\ changed.locks = q.locks /\ changed.missed = q.missed
      /\ changed.found \subseteq groups
  <2>1. CASE q.delete = {}
    BY <2>1, <1>1, <1>2 DEF Request, Phases, RowsExist
  <2>2. CASE q.delete # {}
    <3> DEFINE query == Query(edges, added)
    <3>1. /\ query \in Request /\ query.found \subseteq groups
          /\ query = [added EXCEPT !.phase = "locking", !.found = query.found]
      BY <1>2, QueryType
    <3>2. changed = query
      BY <2>2
    <3> HIDE DEF query
    <3> QED
      BY <1>1, <1>2, <3>1, <3>2 DEF Request
  <2> QED
    BY <2>1, <2>2
<1>4. LockSupergroup(r, allowed, changed)
  BY DEF Add
<1>5. allowed \in BOOLEAN
  BY DEF SubgroupsUsable, MayAdd
<1> HIDE DEF changed
<1>6. ASSUME In(r, "waiting"), Exists(r), allowed
      PROVE  RowsExist(locked) /\ TreeLocked(locked)
  <2>1. /\ locked.phase = changed.phase /\ locked.op = q.op /\ locked.group = q.group
        /\ locked.add = {} /\ locked.added = q.add /\ locked.deleted = {}
        /\ locked.locks = q.locks \cup {q.group} /\ locked.missed = q.missed
        /\ locked.found \subseteq groups
    BY <1>1, <1>3 DEF Request, RowsExist
  <2>2. q.group \in Groups /\ q.phase = "waiting" /\ (q.op # "create" => q.group \in groups)
    BY <1>1, <1>6 DEF In, Exists, RowsExist
  <2>3. /\ q.add \subseteq q.found \ deactivated /\ q.group \notin q.found
        /\ q.found \subseteq q.locks
    BY <1>1, <1>6 DEF SubgroupsUsable, MayAdd, Named, In, RowsExist
  <2> HIDE DEF q, locked
  <2>4. RowsExist(locked)
    BY <1>1, <1>3, <2>1, <2>2, <2>3 DEF RowsExist
  <2>5. TreeLocked(locked)
    BY <1>1, <1>3, <2>1, <2>2, <2>3 DEF TreeLocked
  <2> QED
    BY <2>4, <2>5
<1> QED
  BY <1>3, <1>4, <1>5, <1>6, LockSupergroupInv

LEMMA DeleteInv ==
  ASSUME LockInv, NEW r \in Requests, Delete(r)
  PROVE  LockInv'
<1> DEFINE q == request[r]
           changed == [q EXCEPT !.phase = "done", !.delete = {}, !.deleted = q.delete]
           allowed == SubgroupsUsable(r) /\ Named(r) \subseteq DirectSubgroups(r)
           locked == [changed EXCEPT !.locks = @ \cup {q.group}]
<1>1. q \in Request /\ q.add = {} /\ RowsExist(q) /\ TreeLocked(q)
  BY DEF Delete, LockInv, TypeOK
<1>2. changed \in Request /\ changed.locks = q.locks
  BY <1>1 DEF Request, Phases
<1>3. LockSupergroup(r, allowed, changed) /\ allowed \in BOOLEAN
  BY DEF Delete, SubgroupsUsable
<1>4. ASSUME In(r, "waiting"), Exists(r), allowed
      PROVE  RowsExist(locked) /\ TreeLocked(locked)
  <2>1. /\ locked.phase = "done" /\ locked.op = q.op /\ locked.group = q.group
        /\ locked.add = {} /\ locked.added = q.added
        /\ locked.locks = q.locks \cup {q.group} /\ locked.missed = q.missed
        /\ locked.found = q.found
    BY <1>1 DEF Request
  <2>2. q.group \in Groups /\ (q.op # "create" => q.group \in groups)
    BY <1>1, <1>4 DEF In, Exists, RowsExist
  <2> HIDE DEF q, locked
  <2> QED
    BY <1>1, <2>1, <2>2 DEF RowsExist, TreeLocked
<1> QED
  BY <1>2, <1>3, <1>4, LockSupergroupInv

LEMMA ActivationInv ==
  ASSUME LockInv, NEW r \in Requests, Activation(r)
  PROVE  LockInv'
<1> DEFINE q == request[r]
           changed == [q EXCEPT !.phase = "done"]
           allowed == q.op = "deactivate" => CanBeDeactivated(q.group)
           locked == [changed EXCEPT !.locks = @ \cup {q.group}]
<1>1. q \in Request /\ RowsExist(q) /\ TreeLocked(q)
  BY DEF LockInv, TypeOK
<1>2. changed \in Request /\ changed.locks = q.locks
  BY <1>1 DEF Request, Phases
<1>3. LockSupergroup(r, allowed, changed) /\ allowed \in BOOLEAN
  BY DEF Activation
<1>4. ASSUME In(r, "waiting"), Exists(r)
      PROVE  RowsExist(locked) /\ TreeLocked(locked)
  <2>1. /\ locked.phase = "done" /\ locked.op = q.op /\ locked.group = q.group
        /\ locked.add = q.add /\ locked.added = q.added /\ locked.deleted = q.deleted
        /\ locked.locks = q.locks \cup {q.group} /\ locked.missed = q.missed
        /\ locked.found = q.found
    BY <1>1 DEF Request
  <2>2. q.group \in Groups /\ (q.op # "create" => q.group \in groups)
    BY <1>1, <1>4 DEF In, Exists, RowsExist
  <2> HIDE DEF q, locked
  <2> QED
    BY <1>1, <2>1, <2>2 DEF RowsExist, TreeLocked
<1> QED
  BY <1>2, <1>3, <1>4, LockSupergroupInv

\* The one step that changes memberships; the locks keep them away from what
\* other requests have found.
LEMMA CommitInv ==
  ASSUME LockInv, NEW r \in Requests, Commit(r)
  PROVE  LockInv'
<1> DEFINE q == request[r]
<1>1. q \in Request /\ q.phase = "done" /\ RowsExist(q) /\ TreeLocked(q)
  BY DEF Commit, In, LockInv, TypeOK
<1>2. q.group \in Groups /\ q.group \in q.locks
  BY <1>1 DEF RowsExist
<1>3. /\ groups \subseteq groups' /\ groups' \subseteq groups \cup {q.group}
      /\ q.op # "create" => groups' = groups
      /\ q.group \in groups'
  BY <1>1, <1>2 DEF Commit, RowsExist
<1>4. subgroups' = (subgroups \cup ({q.group} \X q.added)) \ ({q.group} \X q.deleted)
  BY DEF Commit, Visible
<1>5. request' = [request EXCEPT ![r] = Idle] /\ misread' = (misread \/ q.missed)
  BY DEF Commit
<1>6. \A p \in Requests : request'[p] = IF p = r THEN Idle ELSE request[p]
  BY <1>5 DEF LockInv, TypeOK
<1>7. TypeOK'
  <2>1. groups' \subseteq Groups
    BY <1>2, <1>3 DEF LockInv, TypeOK
  <2>2. deactivated' \subseteq groups'
    BY <1>3 DEF Commit, LockInv, TypeOK
  <2>3. subgroups' \subseteq groups' \X groups'
    <3>1. subgroups \subseteq groups' \X groups'
      BY <1>3 DEF LockInv, TypeOK
    <3>2. q.added \subseteq groups'
      BY <1>1, <1>3 DEF RowsExist
    <3> QED
      BY <1>3, <1>4, <3>1, <3>2
  <2>4. request' \in [Requests -> Request] /\ misread' \in BOOLEAN
    BY <1>1, <1>5, IdleType DEF LockInv, TypeOK, Request
  <2> QED
    BY <2>1, <2>2, <2>3, <2>4 DEF TypeOK
<1>8. ASSUME NEW p \in Requests
      PROVE  RowsExist(request[p])' /\ TreeLocked(request[p])'
  <2>1. CASE p = r
    <3>1. request'[p] = Idle
      BY <1>6, <2>1
    <3> QED
      BY <3>1 DEF RowsExist, TreeLocked, Idle
  <2>2. CASE p # r
    <3> DEFINE other == request[p]
    <3>1. request'[p] = other /\ RowsExist(other) /\ TreeLocked(other)
      BY <1>6, <2>2 DEF LockInv
    <3>2. q.group \notin other.locks
      BY <1>2, <2>2 DEF LockInv, LocksDisjoint
    <3>3. ASSUME NEW T \in SUBSET other.locks, Closed(subgroups, T)
          PROVE  Closed(subgroups', T)
      BY <3>2, <3>3, <1>4, ClosedElsewhere
    <3> HIDE DEF other, q
    <3>4. RowsExist(request[p])'
      <4>1. other.op = "create" => other.group \notin groups'
        BY <1>3, <3>1, <3>2 DEF RowsExist
      <4>2. other.added \cap deactivated' = {}
        <5>1. deactivated' \subseteq deactivated \cup {q.group}
          BY DEF Commit, q
        <5> QED
          BY <3>1, <3>2, <5>1 DEF RowsExist
      <4> QED
        BY <1>3, <3>1, <4>1, <4>2 DEF RowsExist
    <3>5. TreeLocked(request[p])'
      <4>1. other.phase = "waiting" /\ other.add # {} => other.found \in SUBSET other.locks
        BY <3>1 DEF RowsExist
      <4> QED
        BY <3>1, <3>3, <4>1 DEF TreeLocked
    <3> QED
      BY <3>4, <3>5
  <2> QED
    BY <2>1, <2>2
<1>9. LocksDisjoint'
  BY <1>6, IdleHoldsNothing DEF LockInv, LocksDisjoint
<1>10. CyclesOnlyFromMisreads'
  <2> SUFFICES ASSUME ~misread' PROVE Acyclic(subgroups')
    BY DEF CyclesOnlyFromMisreads
  <2>1. ~q.missed /\ Acyclic(subgroups)
    BY <1>1, <1>5 DEF LockInv, CyclesOnlyFromMisreads, TypeOK, Request
  <2>2. Acyclic(subgroups \cup ({q.group} \X q.added))
    <3>1. CASE q.added = {}
      BY <3>1, <2>1
    <3>2. CASE q.added # {}
      <4>1. PICK T \in SUBSET q.locks :
              q.added \subseteq T /\ q.group \notin T /\ Closed(subgroups, T)
        BY <1>1, <2>1, <3>2 DEF TreeLocked
      <4>2. T \in SUBSET Groups /\ q.added \in SUBSET T
        BY <1>1, <4>1 DEF Request
      <4> HIDE DEF q
      <4> QED
        BY <1>2, <2>1, <4>1, <4>2, AcyclicAdd
    <3> QED
      BY <3>1, <3>2
  <2> QED
    BY <1>4, <2>2, AcyclicSubset
<1> QED
  BY <1>7, <1>8, <1>9, <1>10 DEF LockInv

LEMMA NextInv == LockInv /\ [Next]_vars => LockInv'
<1> SUFFICES ASSUME LockInv, [Next]_vars PROVE LockInv'
  OBVIOUS
<1>1. ASSUME NEW r \in Requests, Step(r) PROVE LockInv'
  BY <1>1, LockSubgroupsInv, RollBackInv, AddInv, DeleteInv, ActivationInv, CommitInv
  DEF Step, AbortDeadlocked
<1>2. ASSUME NEW r \in Requests, Interrupt(r) PROVE LockInv'
  BY <1>2, RollBackInv DEF Interrupt
<1>3. CASE UNCHANGED vars
  BY <1>3 DEF vars, LockInv, TypeOK, RowsExist, TreeLocked, LocksDisjoint, CyclesOnlyFromMisreads
<1> QED
  BY <1>1, <1>2, <1>3, StartInv DEF Next

THEOREM Locking == Spec => []LockInv
BY InitInv, NextInv, PTL DEF Spec

\* Memberships are between groups that exist, deactivated groups exist, and
\* requests are what Request says.
THEOREM TypeCorrect == Spec => []TypeOK
<1>1. LockInv => TypeOK
  BY DEF LockInv
<1> QED
  BY <1>1, Locking, PTL

\* However many requests change however many groups, a cycle comes from a query
\* that missed a membership committed while it ran, or not at all.
THEOREM NoOtherCycles == Spec => []CyclesOnlyFromMisreads
<1>1. LockInv => CyclesOnlyFromMisreads
  BY DEF LockInv
<1> QED
  BY <1>1, Locking, PTL

\* No deactivation slips in between the check of a subgroup and its addition.
THEOREM SubgroupsActive == Spec => OnlyActiveSubgroupsAdded
<1> DEFINE OnlyActive == \A e \in subgroups' \ subgroups : e[2] \notin deactivated'
<1>1. LockInv /\ [Next]_vars => [OnlyActive]_vars
  <2> SUFFICES ASSUME LockInv, [Next]_vars, NEW e \in subgroups' \ subgroups
               PROVE  e[2] \notin deactivated'
    OBVIOUS
  <2>1. PICK r \in Requests : Commit(r)
    <3>1. ASSUME NEW r \in Requests, Start(r) \/ Interrupt(r) \/ (Step(r) /\ ~Commit(r))
          PROVE  UNCHANGED subgroups
      BY <3>1 DEF Start, Step, Interrupt, UpdateSubgroups, CreateGroup, ChangeActivation, Begin,
         LockSubgroups, AbortDeadlocked, Add, Delete, Activation, LockSupergroup, Becomes, RollBack
    <3> QED
      BY <3>1 DEF Next, vars
  <2>2. RowsExist(request[r]) /\ e[2] \in request[r].added
    BY <2>1 DEF LockInv, Commit, Visible
  <2>3. deactivated' \subseteq deactivated \cup {request[r].group}
    BY <2>1 DEF Commit
  <2> QED
    BY <2>2, <2>3 DEF RowsExist
<1> QED
  BY <1>1, Locking, PTL DEF Spec, OnlyActiveSubgroupsAdded
---------------------------------------------------------------------------
(* Deadlocks *)

\* A request that waits for its supergroup holds what its query found; in its
\* second half, or while it creates the group, it holds the supergroup already.
HoldsFound(q) ==
  /\ q.phase = "idle" => q.locks = {}
  /\ q.phase = "locking" => q.locks = {} \/ q.group \in q.locks
  /\ q.phase = "waiting" => q.locks \subseteq q.found \/ q.group \in q.locks

FoundInv == \A r \in Requests : HoldsFound(request[r])

LEMMA IdleHoldsFound == HoldsFound(Idle)
BY DEF HoldsFound, Idle

LEMMA FoundStep == LockInv /\ FoundInv /\ [Next]_vars => FoundInv'
<1> SUFFICES ASSUME LockInv, FoundInv, [Next]_vars PROVE FoundInv'
  OBVIOUS
<1>1. TypeOK /\ \A r \in Requests : request[r] \in Request
  BY RequestType DEF LockInv
<1>2. ASSUME NEW r \in Requests, RollBack(r) PROVE FoundInv'
  BY <1>1, <1>2, IdleHoldsFound DEF RollBack, FoundInv, TypeOK
<1>3. ASSUME NEW r \in Requests, NEW changed, HoldsFound(changed), Becomes(r, changed)
      PROVE  FoundInv'
  BY <1>1, <1>3 DEF Becomes, FoundInv, TypeOK
<1>4. ASSUME NEW edges, NEW changed \in Request
      PROVE  /\ Query(edges, changed) \in Request /\ Query(edges, changed).phase = "locking"
             /\ Query(edges, changed).locks = changed.locks
             /\ Query(edges, changed).group = changed.group
  <2> DEFINE query == Query(edges, changed)
             found == query.found
  <2>1. query \in Request /\ query = [changed EXCEPT !.phase = "locking", !.found = found]
    BY QueryType
  <2> HIDE DEF query, found
  <2>2. query.phase = "locking" /\ query.locks = changed.locks /\ query.group = changed.group
    BY <2>1 DEF Request
  <2> QED
    BY <2>1, <2>2 DEF query
<1>5. ASSUME NEW r \in Requests, Start(r) PROVE FoundInv'
  <2>1. ASSUME NEW g \in Groups, NEW add \in SUBSET Groups, NEW delete \in SUBSET Groups,
               UpdateSubgroups(r, g, add, delete)
        PROVE  FoundInv'
    <3> DEFINE changed == [Idle EXCEPT !.group = g, !.add = add, !.delete = delete]
    <3>1. changed \in Request /\ changed.locks = {}
      BY IdleType DEF Request, Idle
    <3>2. Becomes(r, Query(subgroups, changed))
      BY <2>1 DEF UpdateSubgroups, Begin
    <3> HIDE DEF changed
    <3>3. HoldsFound(Query(subgroups, changed))
      BY <1>4, <3>1 DEF HoldsFound
    <3> QED
      BY <1>3, <3>2, <3>3
  <2>2. ASSUME NEW g \in Groups, NEW add \in SUBSET Groups, CreateGroup(r, g, add)
        PROVE  FoundInv'
    <3> DEFINE changed == [Idle EXCEPT !.op = "create", !.group = g, !.add = add, !.locks = {g}]
    <3>1. changed \in Request /\ changed.group \in changed.locks
      BY IdleType DEF Request, Idle, Operations
    <3>2. Becomes(r, IF add = {} THEN [changed EXCEPT !.phase = "done"]
                     ELSE Query(subgroups, changed))
      BY <2>2 DEF CreateGroup, Begin
    <3> HIDE DEF changed
    <3>3. HoldsFound(Query(subgroups, changed))
      BY <1>4, <3>1 DEF HoldsFound
    <3>4. HoldsFound([changed EXCEPT !.phase = "done"])
      BY <3>1 DEF HoldsFound, Request
    <3> QED
      BY <1>3, <3>2, <3>3, <3>4
  <2>3. ASSUME NEW g \in Groups, NEW op \in {"deactivate", "reactivate"}, ChangeActivation(r, g, op)
        PROVE  FoundInv'
    <3>1. HoldsFound([Idle EXCEPT !.phase = "waiting", !.op = op, !.group = g])
      BY DEF HoldsFound, Idle
    <3> QED
      BY <1>3, <2>3, <3>1 DEF ChangeActivation, Begin
  <2> QED
    BY <1>5, <2>1, <2>2, <2>3 DEF Start
<1>6. ASSUME NEW r \in Requests, LockSubgroups(r) PROVE FoundInv'
  <2> DEFINE changed == [request[r] EXCEPT !.phase = "waiting", !.locks = @ \cup LockAll(r),
                           !.missed = @ \/ /\ request[r].add # {}
                                           /\ ~Closed(Visible(r), request[r].found)]
  <2>1. HoldsFound(changed)
    BY <1>1, <1>6 DEF LockSubgroups, In, FoundInv, HoldsFound, Request, LockAll
  <2> QED
    BY <1>2, <1>3, <1>6, <2>1 DEF LockSubgroups
<1>7. ASSUME NEW r \in Requests, NEW allowed, NEW changed \in Request, changed.phase # "idle",
             changed.group = request[r].group, LockSupergroup(r, allowed, changed)
      PROVE  FoundInv'
  <2>1. HoldsFound([changed EXCEPT !.locks = @ \cup {request[r].group}])
    BY <1>7 DEF HoldsFound, Request
  <2> QED
    BY <1>2, <1>3, <1>7, <2>1 DEF LockSupergroup
<1>8. ASSUME NEW r \in Requests, Add(r) PROVE FoundInv'
  <2> DEFINE added == [request[r] EXCEPT !.add = {}, !.added = request[r].add]
             edges == subgroups \cup ({added.group} \X added.added)
             done == [added EXCEPT !.phase = "done"]
             changed == IF request[r].delete = {} THEN done ELSE Query(edges, added)
  <2>1. added \in Request /\ added.group = request[r].group
    BY <1>1 DEF Request
  <2>2. done \in Request /\ done.phase # "idle" /\ done.group = request[r].group
    BY <2>1 DEF Request, Phases
  <2>3. LockSupergroup(r, SubgroupsUsable(r) /\ MayAdd(r), changed)
    BY <1>8 DEF Add
  <2> HIDE DEF added, edges, done
  <2>4. /\ Query(edges, added) \in Request
        /\ Query(edges, added).phase # "idle" /\ Query(edges, added).group = request[r].group
    BY <1>4, <2>1
  <2>5. changed \in Request /\ changed.phase # "idle" /\ changed.group = request[r].group
    BY <2>2, <2>4
  <2> HIDE DEF changed
  <2> QED
    BY <1>7, <2>3, <2>5
<1>9. ASSUME NEW r \in Requests, Delete(r) PROVE FoundInv'
  <2> DEFINE changed == [request[r] EXCEPT !.phase = "done", !.delete = {},
                                           !.deleted = request[r].delete]
  <2>1. changed \in Request /\ changed.phase # "idle" /\ changed.group = request[r].group
    BY <1>1 DEF Request, Phases
  <2>2. LockSupergroup(r, SubgroupsUsable(r) /\ Named(r) \subseteq DirectSubgroups(r), changed)
    BY <1>9 DEF Delete
  <2> HIDE DEF changed
  <2> QED
    BY <1>7, <2>1, <2>2
<1>10. ASSUME NEW r \in Requests, Activation(r) PROVE FoundInv'
  <2> DEFINE changed == [request[r] EXCEPT !.phase = "done"]
             allowed == request[r].op = "deactivate" => CanBeDeactivated(request[r].group)
  <2>1. changed \in Request /\ changed.phase # "idle" /\ changed.group = request[r].group
    BY <1>1 DEF Request, Phases
  <2>2. LockSupergroup(r, allowed, changed)
    BY <1>10 DEF Activation
  <2> HIDE DEF changed, allowed
  <2> QED
    BY <1>7, <2>1, <2>2
<1>11. ASSUME NEW r \in Requests, Commit(r) PROVE FoundInv'
  BY <1>1, <1>11, IdleHoldsFound DEF Commit, FoundInv, TypeOK
<1>12. CASE UNCHANGED vars
  BY <1>12 DEF vars, FoundInv
<1> QED
  BY <1>2, <1>5, <1>6, <1>8, <1>9, <1>10, <1>11, <1>12 DEF Next, Step, Interrupt, AbortDeadlocked

\* Groups from each of which another one can be reached lie on a cycle: what
\* cannot reach Goals is closed, and so is what remains with the member of
\* the rest that an acyclic relation has without an edge into it.
LEMMA ReachedGoals ==
  ASSUME NEW E \in SUBSET (Groups \X Groups), Acyclic(E),
         NEW F \in SUBSET E, NEW Goals \in SUBSET Groups, Goals # {},
         \A g \in Goals :
           \E A \in SUBSET Groups :
             ({g} \X A) \subseteq E /\ Descendants(F, A) \cap Goals # {}
  PROVE  FALSE
<1> DEFINE T == {g \in Groups : Descendants(E, {g}) \cap Goals # {}}
           C == Groups \ T
<1>1. Goals \subseteq T
  BY DEF Descendants
<1>2. PICK x \in T : \A h \in T : <<x, h>> \notin E
  BY <1>1 DEF Acyclic
<1>3. Closed(E, C)
  <2> SUFFICES ASSUME NEW e \in E, e[1] \in C PROVE e[2] \in C
    BY DEF Closed
  <2>1. e[2] \in Groups /\ e[1] \in Groups /\ Descendants(E, {e[1]}) \cap Goals = {}
    OBVIOUS
  <2>2. Descendants(E, {e[2]}) \subseteq Descendants(E, {e[1]})
    BY <2>1 DEF Descendants, Closed
  <2> QED
    BY <2>1, <2>2
<1>4. Closed(E, C \cup {x})
  <2> SUFFICES ASSUME NEW e \in E, e[1] \in C \cup {x} PROVE e[2] \in C \cup {x}
    BY DEF Closed
  <2>1. CASE e[1] \in C
    BY <1>3, <2>1 DEF Closed
  <2>2. CASE e[1] = x
    <3>1. e = <<x, e[2]>> /\ e[2] \in Groups
      BY <2>2
    <3> QED
      BY <1>2, <3>1
  <2> QED
    BY <2>1, <2>2
<1>5. Descendants(E, {x}) \subseteq C \cup {x}
  BY <1>2, <1>4 DEF Descendants
<1>6. x \in Goals
  BY <1>1, <1>5
<1>7. PICK A \in SUBSET Groups : ({x} \X A) \subseteq E /\ Descendants(F, A) \cap Goals # {}
  BY <1>6
<1>8. A \subseteq C
  <2> SUFFICES ASSUME NEW a \in A PROVE a \in C
    OBVIOUS
  <2>1. <<x, a>> \in E
    BY <1>7
  <2> QED
    BY <1>2, <2>1
<1>9. Descendants(F, A) \subseteq C
  BY <1>3, <1>8 DEF Descendants, Closed
<1> QED
  BY <1>1, <1>7, <1>9

\* Requests that wait for each other, however many, would make a cycle of groups
\* together: locking subgroups with all their descendants before the supergroup
\* (lock_subgroups_with_respect_to_supergroup) costs nobody who could have gone on
\* an abort by PostgreSQL, unless memberships changed between a query and its locks.
THEOREM NoUnnecessaryDeadlocks == Spec => []DeadlocksOnlyFromConflicts
<1>1. Init => FoundInv
  BY IdleHoldsFound DEF Init, FoundInv
<1>2. LockInv /\ FoundInv => DeadlocksOnlyFromConflicts
  <2> SUFFICES ASSUME LockInv, FoundInv, NEW S \in SUBSET Requests, Deadlock(S),
                      \A r \in S : UpToDate(r), Acyclic(Together(S))
               PROVE  FALSE
    BY DEF DeadlocksOnlyFromConflicts
  <2> DEFINE Goals == {request[r].group : r \in S}
             Edges == Together(S)
  <2>1. \A r \in Requests : request[r] \in Request /\ HoldsFound(request[r])
    BY RequestType DEF LockInv, FoundInv
  <2>2. ASSUME NEW r \in S
        PROVE  /\ request[r].group \in Groups
               /\ Named(r) \in SUBSET Groups
               /\ Descendants(subgroups, Named(r)) \cap Goals # {}
    <3>1. PICK p \in S : WaitsFor(p, r)
      BY DEF Deadlock
    <3>2. PICK q \in S : WaitsFor(r, q)
      BY DEF Deadlock
    <3>3. request[r].group \in Groups /\ Named(r) \in SUBSET Groups
      BY <2>1, <3>2 DEF WaitsFor, Named, Request
    <3>4. request[r].group \notin request[r].locks
      BY <3>2 DEF WaitsFor, LockInv, LocksDisjoint
    <3>5. request[p].group \in request[r].found
      BY <2>1, <3>1, <3>2, <3>4 DEF WaitsFor, HoldsFound, In
    <3>6. request[p].group \in Descendants(subgroups, Named(r))
      BY <3>5 DEF UpToDate
    <3> QED
      BY <3>3, <3>6
  <2>3. Edges \in SUBSET (Groups \X Groups) /\ subgroups \in SUBSET Edges
    <3>1. subgroups \subseteq Groups \X Groups
      BY DEF LockInv, TypeOK
    <3>2. \A r \in S : ({request[r].group} \X Named(r)) \subseteq Groups \X Groups
      BY <2>2
    <3> QED
      BY <3>1, <3>2 DEF Together
  <2>4. Goals \in SUBSET Groups /\ Goals # {}
    BY <2>2 DEF Deadlock
  <2>5. \A r \in S : ({request[r].group} \X Named(r)) \subseteq Edges
    BY DEF Together
  <2>6. \A g \in Goals :
          \E A \in SUBSET Groups :
            ({g} \X A) \subseteq Edges /\ Descendants(subgroups, A) \cap Goals # {}
    BY <2>2, <2>5
  <2> HIDE DEF Goals, Edges
  <2>7. Acyclic(Edges)
    BY DEF Edges
  <2> QED
    BY <2>3, <2>4, <2>6, <2>7, ReachedGoals
<1> QED
  BY <1>1, <1>2, FoundStep, Locking, PTL DEF Spec
===========================================================================
