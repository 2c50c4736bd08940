----------------------------- MODULE MCAuditLog -----------------------------
(* Two goroutines of one broker append to its audit log. *)
EXTENDS AuditLog, TLC
Symmetry == Permutations(Thread)
=============================================================================
