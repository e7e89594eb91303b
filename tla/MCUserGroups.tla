---------------------------- MODULE MCUserGroups ----------------------------
(* UserGroups on a small instance. *)
EXTENDS UserGroups, TLC

\* Groups and requests are interchangeable.
GroupsSymmetry == Permutations(Groups) \cup Permutations(Requests)
=============================================================================
