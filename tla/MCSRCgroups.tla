---------------------------- MODULE MCSRCgroups -----------------------------
(* Model checking of SRCgroups: two launches with one host name, and one   *)
(* with a host name of its own.                                            *)
EXTENDS SRCgroups, TLC

CONSTANTS a, b, c

Names == [l \in Launch |-> IF l = c THEN "other" ELSE "shared"]
Controls ==
    [l \in Launch |-> IF l = a THEN <<"blkio", "cpuset">>
                      ELSE IF l = b THEN <<"blkio", "memory", "cpuset">>
                      ELSE <<"blkio", "cpuset">>]
=============================================================================
