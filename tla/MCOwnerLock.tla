---------------------------- MODULE MCOwnerLock -----------------------------
(* The owner lock with symmetric processes. *)
EXTENDS OwnerLock, TLC

Symmetry == Permutations(Procs)

=============================================================================
