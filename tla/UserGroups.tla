---------------------------- MODULE UserGroups ----------------------------
(***************************************************************************)
(* Groups that contain groups, changed by concurrent requests, each one    *)
(* transaction of PostgreSQL at READ COMMITTED:                            *)
(* lock_subgroups_with_respect_to_supergroup, which locks the subgroups    *)
(* with all their descendants (NOWAIT) and then the supergroup (waiting),  *)
(* and the changes made under these locks.                                 *)
(*                                                                         *)
(* A statement reads the committed state and its own transaction's writes  *)
(* as of its start.  For the recursive query that locks what it finds,     *)
(* start and locking are two steps; the checks that follow the lock of the *)
(* supergroup read rows that are locked by then, and are a step with it.   *)
(* Members, names, permissions and the settings that refer to groups are   *)
(* left out.                                                               *)
(***************************************************************************)
EXTENDS Integers, FiniteSets, FiniteSetsExt

CONSTANTS
  Groups,    \* ids of NamedUserGroup
  NoGroup,   \* none of them
  Requests,  \* concurrent requests
  MaxNamed,  \* bound: subgroups that the requests name, together
  MaxDeactivated  \* bound: groups deactivated at a time

ASSUME NoGroupAssumption == NoGroup \notin Groups
ASSUME BoundsAssumption == MaxNamed \in Nat /\ MaxDeactivated \in Nat

VARIABLES
  groups,       \* existing groups
  subgroups,    \* GroupGroupMembership: <<supergroup, subgroup>>
  deactivated,  \* groups with that flag
  request,      \* what each request is doing
  misread       \* history: a request added subgroups although its recursive
                \*   query had missed a descendant

vars == <<groups, subgroups, deactivated, request, misread>>

Phases == {"idle", "locking", "waiting", "done"}

Operations == {"create", "update", "deactivate", "reactivate"}

Request ==
  [phase: Phases, op: Operations, group: Groups \cup {NoGroup},
   add: SUBSET Groups, delete: SUBSET Groups,  \* subgroup ids still to do
   added: SUBSET Groups, deleted: SUBSET Groups,  \* written, not committed
   found: SUBSET Groups,  \* recursive_subgroups
   locks: SUBSET Groups,  \* rows it has locked FOR UPDATE
   missed: BOOLEAN]       \* found lacks a descendant of what it adds

Idle ==
  [phase |-> "idle", op |-> "update", group |-> NoGroup, add |-> {}, delete |-> {},
   added |-> {}, deleted |-> {}, found |-> {}, locks |-> {}, missed |-> FALSE]

TypeOK ==
  /\ groups \subseteq Groups /\ deactivated \subseteq groups
  /\ subgroups \subseteq groups \X groups
  /\ request \in [Requests -> Request]
  /\ misread \in BOOLEAN

Init ==
  /\ groups = {} /\ subgroups = {} /\ deactivated = {}
  /\ request = [r \in Requests |-> Idle]
  /\ misread = FALSE

Closed(edges, S) == \A e \in edges : e[1] \in S => e[2] \in S

\* get_recursive_subgroups_for_groups: S with everything below it.
Descendants(edges, S) ==
  {g \in Groups : \A C \in SUBSET Groups : S \subseteq C /\ Closed(edges, C) => g \in C}

\* No group is below itself: from within any set of groups one can leave it
\* for good.
Acyclic(edges) ==
  \A S \in SUBSET Groups :
    S # {} => \E g \in S : \A h \in S : <<g, h>> \notin edges

In(r, phase) == request[r].phase = phase

\* The memberships as a statement of request r sees them.
Visible(r) ==
  (subgroups \cup ({request[r].group} \X request[r].added))
     \ ({request[r].group} \X request[r].deleted)

DirectSubgroups(r) == {g \in Groups : <<request[r].group, g>> \in Visible(r)}

\* update_subgroups_of_user_group calls the two halves one after the other.
Named(r) == IF request[r].add # {} THEN request[r].add ELSE request[r].delete

LockedByOthers(r) == UNION {request[q].locks : q \in Requests \ {r}}

RollBack(r) ==
  /\ request' = [request EXCEPT ![r] = Idle]
  /\ UNCHANGED <<groups, subgroups, deactivated, misread>>

Becomes(r, changed) ==
  /\ request' = [request EXCEPT ![r] = changed]
  /\ UNCHANGED <<groups, subgroups, deactivated, misread>>
---------------------------------------------------------------------------
\* The recursive query, up to the locks.
Query(edges, changed) ==
  [changed EXCEPT !.phase = "locking",
     !.found = Descendants(edges, IF changed.add # {} THEN changed.add ELSE changed.delete)
                 \cap groups]

Begin(r, changed) == In(r, "idle") /\ Becomes(r, changed)

UpdateSubgroups(r, g, add, delete) ==
  /\ add \cup delete # {}
  /\ Begin(r, Query(subgroups, [Idle EXCEPT !.group = g, !.add = add, !.delete = delete]))

\* The new row is seen by no other transaction before the commit.
CreateGroup(r, g, add) ==
  /\ g \notin groups /\ \A q \in Requests : request[q].op = "create" => request[q].group # g
  /\ g \notin add
  /\ LET creating == [Idle EXCEPT !.op = "create", !.group = g, !.add = add, !.locks = {g}]
     IN  Begin(r, IF add = {} THEN [creating EXCEPT !.phase = "done"]
                  ELSE Query(subgroups, creating))

\* deactivate_user_group, and edit_user_group with deactivated=false.
ChangeActivation(r, g, op) ==
  /\ g \in groups
  /\ op = "deactivate" => Cardinality(deactivated) < MaxDeactivated
  /\ Begin(r, [Idle EXCEPT !.phase = "waiting", !.op = op, !.group = g])

\* Mutant: only the named subgroups are locked.
LockNamed(r) == request[r].found \cap Named(r)

\* Mutant: the groups that contain the named ones are locked with them.
LockSupergroups(r) ==
  request[r].found \cup {g \in groups : \E s \in Named(r) : <<g, s>> \in Visible(r)}

LockAll(r) == request[r].found

\* FOR UPDATE NOWAIT: a row that somebody else holds fails the statement.
LockSubgroups(r) ==
  /\ In(r, "locking")
  /\ IF request[r].found \cap LockedByOthers(r) # {}
     THEN RollBack(r)
     ELSE Becomes(r,
            [request[r] EXCEPT !.phase = "waiting", !.locks = @ \cup LockAll(r),
               !.missed = @ \/ /\ request[r].add # {}
                               /\ ~Closed(Visible(r), request[r].found)])

WaitsFor(r, q) ==
  q # r /\ In(r, "waiting") /\ request[r].group \in request[q].locks

\* Each request of S waits for one in S and makes one wait.
Deadlock(S) ==
  S # {} /\ \A q \in S : (\E p \in S : WaitsFor(q, p)) /\ (\E p \in S : WaitsFor(p, q))

Deadlocked(r) == \E S \in SUBSET Requests : r \in S /\ Deadlock(S)

\* PostgreSQL aborts a transaction of the cycle.
AbortDeadlocked(r) == Deadlocked(r) /\ RollBack(r)

\* Mutant: a deactivated group is as good as any.
NamedExist(r) == Named(r) \subseteq request[r].found

\* Mutant: ids that no group has are not looked for.
NamedActive(r) == Named(r) \cap deactivated = {}

\* The named groups were found, and none is deactivated.
SubgroupsUsable(r) == Named(r) \subseteq request[r].found \ deactivated

\* Mutant: the groups are compared with the named ones only.
MayAddNamed(r) ==
  Named(r) \cap DirectSubgroups(r) = {} /\ request[r].group \notin Named(r)

MayAdd(r) ==
  Named(r) \cap DirectSubgroups(r) = {} /\ request[r].group \notin request[r].found

Exists(r) == request[r].op = "create" \/ request[r].group \in groups

\* The row of the supergroup, FOR UPDATE, waiting for whoever holds it.  Under
\* its lock the request is checked and carried out, or fails.
LockSupergroup(r, allowed, changed) ==
  /\ In(r, "waiting")
  /\ Exists(r) => request[r].group \notin LockedByOthers(r)
  /\ IF Exists(r) /\ allowed
     THEN Becomes(r, [changed EXCEPT !.locks = @ \cup {request[r].group}])
     ELSE RollBack(r)

Add(r) ==
  /\ request[r].add # {}
  /\ LET added == [request[r] EXCEPT !.add = {}, !.added = request[r].add]
     IN  LockSupergroup(r, SubgroupsUsable(r) /\ MayAdd(r),
           IF request[r].delete = {} THEN [added EXCEPT !.phase = "done"]
           ELSE Query(subgroups \cup ({added.group} \X added.added), added))

Delete(r) ==
  /\ request[r].add = {} /\ request[r].delete # {}
  /\ LockSupergroup(r, SubgroupsUsable(r) /\ Named(r) \subseteq DirectSubgroups(r),
       [request[r] EXCEPT !.phase = "done", !.delete = {}, !.deleted = request[r].delete])

CanBeDeactivated(g) ==
  g \notin deactivated /\ \A e \in subgroups : e[2] = g => e[1] \in deactivated

Activation(r) ==
  /\ request[r].op \in {"deactivate", "reactivate"}
  /\ LockSupergroup(r, request[r].op = "deactivate" => CanBeDeactivated(request[r].group),
       [request[r] EXCEPT !.phase = "done"])

Commit(r) ==
  /\ In(r, "done")
  /\ groups' = IF request[r].op = "create" THEN groups \cup {request[r].group} ELSE groups
  /\ subgroups' = Visible(r)
  /\ deactivated' =
       CASE request[r].op = "deactivate" -> deactivated \cup {request[r].group}
         [] request[r].op = "reactivate" -> deactivated \ {request[r].group}
         [] OTHER -> deactivated
  /\ misread' = (misread \/ request[r].missed)
  /\ request' = [request EXCEPT ![r] = Idle]

\* An exception, a permission that is lacking, a crash.
Interrupt(r) == ~In(r, "idle") /\ RollBack(r)
---------------------------------------------------------------------------
Naming(r) ==
  Cardinality(request[r].add \cup request[r].added)
    + Cardinality(request[r].delete \cup request[r].deleted)

Start(r) ==
  /\ In(r, "idle")
  /\ LET room == MaxNamed - FoldSet(LAMBDA q, n : n + Naming(q), 0, Requests)
         nameable == {S \in SUBSET Groups : Cardinality(S) <= room}
     IN  \E g \in Groups :
           \/ \E add, delete \in nameable :
                /\ Cardinality(add) + Cardinality(delete) <= room
                /\ UpdateSubgroups(r, g, add, delete)
           \/ \E add \in nameable : CreateGroup(r, g, add)
           \/ \E op \in {"deactivate", "reactivate"} : ChangeActivation(r, g, op)

Step(r) ==
  \/ LockSubgroups(r) \/ AbortDeadlocked(r)
  \/ Add(r) \/ Delete(r) \/ Activation(r) \/ Commit(r)

Next == \E r \in Requests : Start(r) \/ Step(r) \/ Interrupt(r)

Spec == Init /\ [][Next]_vars

---------------------------------------------------------------------------
\* "This avoids introducing cycles among user groups when there is a race
\* condition in which one of these subgroups become an ancestor of the parent
\* user group in another transaction": no requests, however interleaved, make
\* a cycle, but for a membership committed while the recursive query of a
\* request was between its start and its locks.
CyclesOnlyFromMisreads == ~misread => Acyclic(subgroups)

\* The same without the exception: memberships never form a cycle.
NoCycles == Acyclic(subgroups)

\* The check that a subgroup is active still holds when it becomes one, also
\* against a deactivation that is under way.
OnlyActiveSubgroupsAdded ==
  [][\A e \in subgroups' \ subgroups : e[2] \notin deactivated']_vars

\* What the recursive query of r read still holds.
UpToDate(r) == request[r].found = Descendants(subgroups, Named(r)) \cap groups

\* The memberships there would be if each request of S added what it names.
Together(S) == subgroups \cup UNION {{request[r].group} \X Named(r) : r \in S}

\* "It ensures that we lock the user groups in a consistent order topologically to
\* avoid unnecessary deadlocks on non-conflicting queries": the requests on a cycle
\* of waits would together make a cycle of groups, so that one of them has to fail
\* anyway, unless memberships changed between the query of one and its locks.
DeadlocksOnlyFromConflicts ==
  \A S \in SUBSET Requests :
    Deadlock(S) /\ (\A r \in S : UpToDate(r)) => ~Acyclic(Together(S))

\* The same without the exception.
OnlyConflictsDeadlock == \A S \in SUBSET Requests : Deadlock(S) => ~Acyclic(Together(S))
===========================================================================
