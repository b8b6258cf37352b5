------------------------------ MODULE MCKVLock ------------------------------
(* Model checking of KVLock on small sets of processes. *)
EXTENDS KVLock, TLC

\* The processes are interchangeable.
Symmetry == Permutations(Proc)
=============================================================================
