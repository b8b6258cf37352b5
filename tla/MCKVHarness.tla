---------------------------- MODULE MCKVHarness -----------------------------
(* Model checking of KVHarness. *)
EXTENDS KVHarness, TLC
=============================================================================
