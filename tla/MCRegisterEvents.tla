-------------------------- MODULE MCRegisterEvents --------------------------
(* RegisterEvents on a small instance. *)
EXTENDS RegisterEvents, TLC

\* Writers are interchangeable.
WriterSymmetry == Permutations(Writers)
=============================================================================
