--------------------------- MODULE MCSRContainer ----------------------------
(* Model checking of SRContainer: one launch with two groups. *)
EXTENDS SRContainer, TLC

Names == [l \in Launch |-> "host"]
Controls == [l \in Launch |-> <<"blkio", "cpuset">>]
=============================================================================
