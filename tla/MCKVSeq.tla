------------------------------ MODULE MCKVSeq -------------------------------
(* Model checking of KVSeq on a small segment: keys of one or two characters *)
(* and the pods they hash to.                                                *)
EXTENDS KVSeq, TLC

\* Two and three keys, none a prefix of another.
TwoKeys == {<<"a">>, <<"b">>}
PlainKeys == {<<"a">>, <<"b">>, <<"c">>}

\* Every key in pod 0.
OnePod == [k \in Key \union {Clip(key) : key \in Key} |-> 0]

\* Keys that begin with "c" in pod 1, the others in pod 0.
TwoPods == [k \in Key \union {Clip(key) : key \in Key} |-> IF k[1] = "c" THEN 1 ELSE 0]
=============================================================================
