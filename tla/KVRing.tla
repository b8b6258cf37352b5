------------------------------- MODULE KVRing -------------------------------
(***************************************************************************)
(* What the store promises one client: under every key up to Capacity      *)
(* values in the order they were written, the oldest replaced first once   *)
(* they are Capacity; a read returns them in turn, over and over; a        *)
(* read_all returns them all.  Where keys live and how many fit is not     *)
(* visible here.                                                           *)
(***************************************************************************)
EXTENDS Integers, Sequences

CONSTANTS
    Key,          \* the keys
    Value,        \* the values
    Capacity,     \* values kept under one key
    Null          \* the answer to a read of a key that has no value

VARIABLES
    open,         \* whether the store exists
    ring,         \* the values under each key, by row
    oldest,       \* the row of each key that the next write past Capacity replaces
    cursor,       \* the row of each key that the next read returns
    ret           \* the last call and its answer

vars == <<open, ring, oldest, cursor, ret>>

Answer(op, key, out) == ret' = [op |-> op, key |-> key, out |-> out]

Clear ==
    /\ ring' = [k \in Key |-> <<>>]
    /\ oldest' = [k \in Key |-> 0]
    /\ cursor' = [k \in Key |-> 0]

Init ==
    /\ open = FALSE
    /\ ring = [k \in Key |-> <<>>]
    /\ oldest = [k \in Key |-> 0]
    /\ cursor = [k \in Key |-> 0]
    /\ ret = [op |-> "none", key |-> Null, out |-> Null]

Create ==
    /\ open' = TRUE
    /\ Answer("create", Null, 0)
    /\ UNCHANGED <<ring, oldest, cursor>>

Delete ==
    /\ open' = FALSE
    /\ Answer("delete", Null, 0)
    /\ Clear

Put(k, v) ==
    /\ open
    /\ ring' = [ring EXCEPT ![k] = IF Len(@) < Capacity THEN Append(@, v)
                                   ELSE [@ EXCEPT ![oldest[k] + 1] = v]]
    /\ oldest' = [oldest EXCEPT ![k] = (@ + 1) % Capacity]
    /\ Answer("write", k, 0)
    /\ UNCHANGED <<open, cursor>>

Get(k) ==
    /\ open /\ ring[k] # <<>>
    /\ Answer("read", k, ring[k][cursor[k] + 1])
    /\ cursor' = [cursor EXCEPT ![k] = (@ + 1) % Len(ring[k])]
    /\ UNCHANGED <<open, ring, oldest>>

GetAll(k) ==
    /\ open /\ ring[k] # <<>>
    /\ Answer("read_all", k, ring[k])
    /\ UNCHANGED <<open, ring, oldest, cursor>>

\* Reads that find nothing, and any call while the store does not exist.
Miss(k) ==
    /\ \/ (~ open \/ ring[k] = <<>>) /\ \E op \in {"read", "read_all"} : Answer(op, k, Null)
       \/ ~ open /\ Answer("write", k, -1)
    /\ UNCHANGED <<open, ring, oldest, cursor>>

Next ==
    \/ Create \/ Delete
    \/ \E k \in Key : Get(k) \/ GetAll(k) \/ Miss(k) \/ \E v \in Value : Put(k, v)

Spec == Init /\ [][Next]_vars
=============================================================================
