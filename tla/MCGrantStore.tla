---------------------------- MODULE MCGrantStore ----------------------------
(* The grant store alone, called by anybody in any order. *)
EXTENDS GrantStore, TLC
Symmetry == Permutations(Digest) \cup Permutations(Caller) \cup Permutations(Reason)
=============================================================================
