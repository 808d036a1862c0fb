----------------------------- MODULE MCDataParallel -----------------------------
(***************************************************************************)
(* DataParallel for TLC: callers, sessions and replicas are interchangeable *)
(* in it, so that states that differ in their names only are one.          *)
(***************************************************************************)
EXTENDS DataParallel

Names == Permutations(Callers) \cup Permutations(Keys) \cup Permutations(Replicas)
=============================================================================
