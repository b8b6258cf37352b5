---------------------------- MODULE MCSROptions -----------------------------
(* Model checking of SROptions: a command with an argument, with an option *)
(* of its own, and with "--".                                              *)
EXTENDS SROptions, TLC

SomeCommands == {<<"sh", "x">>, <<"sh", "-l", "x">>, <<"sh", "x", "--", "y">>}
=============================================================================
