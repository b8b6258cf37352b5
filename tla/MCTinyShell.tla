---------------------------- MODULE MCTinyShell -----------------------------
(* Model checking of TinyShell: the two halves with a terminal or a file each, *)
(* and each of the other shells alone.                                         *)
EXTENDS TinyShell, TLC

Variants ==
    [i \in Input |-> IF i \in {"vfork", "vforkScript"} THEN "vfork"
                     ELSE IF i = "cloneScript" THEN "clone" ELSE "fork"]

PipeEnds ==
    [i \in Input |-> IF i \in {"writer", "writerScript"} THEN "write"
                     ELSE IF i \in {"reader", "readerScript"} THEN "read" ELSE "none"]

Runs ==
    {{"writer", "reader"}, {"writerScript", "reader"}, {"writer", "readerScript"},
     {"vfork"}, {"vforkScript"}, {"forkScript"}, {"cloneScript"}}
=============================================================================
