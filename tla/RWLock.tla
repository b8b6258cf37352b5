------------------------------- MODULE RWLock -------------------------------
(***************************************************************************)
(* What the locking half of a2_lib.c promises its callers: a               *)
(* readers-writer lock.  Any number of processes may read together; a      *)
(* process that writes is alone.  How the lock is built (two named         *)
(* semaphores and a counter in shared memory) is not visible here; that is *)
(* module KVLock, which is shown to implement this one.                    *)
(***************************************************************************)

CONSTANT Proc     \* the processes that share the store

VARIABLES
    reading,      \* the processes inside the read section
    writing       \* the processes inside the write section

vars == <<reading, writing>>

Init ==
    /\ reading = {}
    /\ writing = {}

BeginRead(p) ==
    /\ writing = {}
    /\ reading' = reading \union {p}
    /\ UNCHANGED writing

EndRead(p) ==
    /\ p \in reading
    /\ reading' = reading \ {p}
    /\ UNCHANGED writing

BeginWrite(p) ==
    /\ reading = {}
    /\ writing = {}
    /\ writing' = {p}
    /\ UNCHANGED reading

EndWrite(p) ==
    /\ p \in writing
    /\ writing' = writing \ {p}
    /\ UNCHANGED reading

Next == \E p \in Proc : BeginRead(p) \/ EndRead(p) \/ BeginWrite(p) \/ EndWrite(p)

Spec == Init /\ [][Next]_vars

=============================================================================
