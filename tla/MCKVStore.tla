----------------------------- MODULE MCKVStore ------------------------------
(* Model checking of KVStore: a few processes, two keys in one pod. *)
EXTENDS KVStore, TLC

Keys == {<<"a">>, <<"b">>}
OneKey == {<<"a">>}
OnePod == [k \in Key |-> 0]

\* The processes are interchangeable.
Symmetry == Permutations(Proc)
=============================================================================
