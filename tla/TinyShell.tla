----------------------------- MODULE TinyShell ------------------------------
(***************************************************************************)
(* The shells of assignment 1.  All read a line, start a process for it    *)
(* and wait: tiny_shell.c with fork, vfork or clone, tinyShell.c with      *)
(* vfork, and the two halves tshell_input.c (its commands write to a named *)
(* pipe) and tshell_output.c (its commands read from it) with fork.        *)
(*                                                                         *)
(* An exec that fails returns.  After fork and vfork the child then goes   *)
(* back to the loop of main as a second shell on the same input; what it   *)
(* still shares with its parent, and what not, is the matter of this       *)
(* module.  A line is its number.  Other processes than shells and their   *)
(* commands do not open the pipe.                                          *)
(***************************************************************************)
EXTENDS Integers, FiniteSetsExt

CONSTANTS
    Input,        \* the inputs, each with a first shell
    Variant,      \* how the shell of an input starts a process: fork, vfork, clone
    PipeEnd,      \* the end of the pipe its commands open: "read", "write" or "none"
    Buffered,     \* the inputs that are files: the first getline reads all of it
    Together,     \* the sets of inputs whose shells may run at the same time
    Lines,        \* bound: lines of an input
    Slots,        \* bound: processes of an input at one time
    MaxFailures,  \* bound: forks, opens and execs that fail
    Capacity,     \* what the pipe holds
    Output        \* what a command writes to the pipe

ASSUME ShellAssumption ==
    /\ Variant \in [Input -> {"fork", "vfork", "clone"}]
    /\ PipeEnd \in [Input -> {"none", "read", "write"}]
    /\ Buffered \subseteq Input /\ Together \subseteq SUBSET Input
    /\ \A i \in Input : PipeEnd[i] # "none" => Variant[i] = "fork"
    /\ {Lines, MaxFailures, Capacity, Output} \subseteq Nat /\ Slots \in Nat \ {0}

VARIABLES
    proc,         \* the processes of each input, in slots; the first shell is in slot 1
    next,         \* the next line in what each process has of its input
    ends,         \* the processes that hold an end of the pipe
    pipe,         \* how much the pipe holds
    taken,        \* history: how often each line was taken as a command
    failures,     \* failures so far
    forgotten     \* history: the lines of each input whose exec has failed

vars == <<proc, next, ends, pipe, taken, failures, forgotten>>

Slot == 1 .. Slots
Line == 1 .. Lines

\* A slot in no use.
Free == [st |-> "free", up |-> 0, line |-> 0, left |-> 0, stdin |-> TRUE]

St(i, s) == proc[i][s].st
Held(side) == {e \in ends : PipeEnd[e[1]] = side}
Other(side) == IF side = "read" THEN "write" ELSE "read"

Init ==
    /\ \E together \in Together :
          proc = [i \in Input |-> [s \in Slot |->
                     IF i \in together /\ s = 1 THEN [Free EXCEPT !.st = "reading"] ELSE Free]]
    /\ next = [i \in Input |-> [s \in Slot |-> 1]]
    /\ ends = {} /\ pipe = 0
    /\ taken = [i \in Input |-> [l \in Line |-> 0]]
    /\ failures = 0
    /\ forgotten = [i \in Input |-> {}]

Become(i, s, st) == proc' = [proc EXCEPT ![i][s].st = st]

Goto(i, s, from, to) == St(i, s) = from /\ Become(i, s, to)

\* Some call fails.
Fail == failures < MaxFailures /\ failures' = failures + 1

-----------------------------------------------------------------------------
(* main and get_a_line *)

\* The processes that read on where s does: those that share the file or the memory.
Sharing(i, s) == IF i \in Buffered /\ Variant[i] = "fork" THEN {s} ELSE Slot

\* Whether getline of s gives a line: from its buffer, or from the terminal if its
\* standard input is open.
HasLine(i, s) == next[i][s] \in Line /\ (i \in Buffered \/ proc[i][s].stdin)

Advance(i, s) ==
    next' = [next EXCEPT ![i] = [t \in Slot |-> IF t \in Sharing(i, s) THEN @[s] + 1 ELSE @[t]]]

\* A command.
ReadLine(i, s) ==
    /\ St(i, s) = "reading" /\ HasLine(i, s)
    /\ proc' = [proc EXCEPT ![i][s].st = "system", ![i][s].line = next[i][s]]
    /\ Advance(i, s)
    /\ taken' = [taken EXCEPT ![i][next[i][s]] = @ + 1]
    /\ UNCHANGED <<ends, pipe, failures, forgotten>>

\* An empty line, or the end of the input: main returns.  A user may end the input at
\* any line; that of a file is the same for all who read it.
ReadNothing(i, s) ==
    /\ HasLine(i, s) => i \notin Buffered
    /\ Goto(i, s, "reading", "exited")
    /\ UNCHANGED <<next, ends, pipe, taken, failures, forgotten>>

-----------------------------------------------------------------------------
(* my_system *)

\* The first slot in no use, if there is one.
FreeSlot(i) == {t \in Slot : St(i, t) = "free" /\ \A u \in 1 .. t - 1 : St(i, u) # "free"}

\* The child of s.  In a half it closes its standard input or output first.
Child(i, s) ==
    [st |-> IF PipeEnd[i] = "none" THEN "exec" ELSE "open", up |-> s,
     line |-> proc[i][s].line, left |-> Output,
     stdin |-> proc[i][s].stdin /\ PipeEnd[i] # "read"]

\* fork, vfork or clone.  The child goes on at some line of what it has of the input.
ForkAt(i, s, st, line) ==
    /\ St(i, s) = "system"
    /\ \E t \in FreeSlot(i) :
          /\ proc' = [proc EXCEPT ![i][s].st = st, ![i][t] = Child(i, s)]
          /\ next' = [next EXCEPT ![i][t] = line]
    /\ UNCHANGED <<ends, pipe, taken, failures, forgotten>>

\* Faulty variant: the buffer of the child still has the line that is being run.
ForkBefore(i, s) == ForkAt(i, s, "waiting", proc[i][s].line)

\* Faulty variant: the parent does not wait.
ForkNoWait(i, s) == ForkAt(i, s, "reading", next[i][s])

Fork(i, s) == ForkAt(i, s, "waiting", next[i][s])

\* waitpid(-1) and wait return at once without a child; the variant with clone exits.
ForkFails(i, s) ==
    /\ Fail
    /\ Goto(i, s, "system", IF Variant[i] = "clone" THEN "exited" ELSE "reading")
    /\ UNCHANGED <<next, ends, pipe, taken, forgotten>>

\* The open of one end waits for somebody at the other, and lets those who wait there go.
Open(i, s) ==
    /\ St(i, s) = "open"
    /\ LET side == PipeEnd[i]
           waiting == {e \in Input \X Slot :
                          St(e[1], e[2]) = "opening" /\ PipeEnd[e[1]] = Other(side)}
           met == waiting # {} \/ Held(Other(side)) # {}
       IN  IF met
           THEN /\ ends' = ends \union waiting \union {<<i, s>>}
                /\ proc' = [j \in Input |-> [t \in Slot |->
                       IF <<j, t>> \in waiting \union {<<i, s>>}
                       THEN [proc[j][t] EXCEPT !.st = "exec"] ELSE proc[j][t]]]
           ELSE Become(i, s, "opening") /\ UNCHANGED ends
    /\ UNCHANGED <<next, pipe, taken, failures, forgotten>>

\* The result of open is not looked at.
OpenFails(i, s) ==
    /\ Fail
    /\ Goto(i, s, "open", "exec")
    /\ UNCHANGED <<next, ends, pipe, taken, forgotten>>

Exec(i, s) ==
    /\ Goto(i, s, "exec", "command")
    /\ UNCHANGED <<next, ends, pipe, taken, failures, forgotten>>

\* A process leaves the pipe; what nobody can read or write any more is gone.
Close(i, s) ==
    /\ ends' = ends \ {<<i, s>>}
    /\ pipe' = IF ends' = {} THEN 0 ELSE pipe

\* fn returns from clone; otherwise the child goes back to main and is a second shell.
GoBack(i, s) ==
    /\ Fail
    /\ Goto(i, s, "exec", IF Variant[i] = "clone" THEN "exited" ELSE "reading")
    /\ forgotten' = [forgotten EXCEPT ![i] = @ \union {proc[i][s].line}]
    /\ UNCHANGED <<next, taken>>

\* Faulty variant: the second shell keeps its end of the pipe.
ExecFailsAndKeeps(i, s) == GoBack(i, s) /\ UNCHANGED <<ends, pipe>>

ExecFails(i, s) == GoBack(i, s) /\ Close(i, s)

\* waitpid or wait returns.  A parent whose child of vfork came back to main has lost
\* its frame: what it does now is undefined, and not followed.
Wait(i, s) ==
    /\ St(i, s) = "waiting"
    /\ \E t \in Slot :
          /\ St(i, t) = "exited" /\ proc[i][t].up = s
          /\ proc' = [proc EXCEPT ![i][t] = Free,
                 ![i][s].st = IF Variant[i] = "vfork" /\ proc[i][s].line \in forgotten[i]
                              THEN "undefined" ELSE "reading"]
    /\ UNCHANGED <<next, ends, pipe, taken, failures, forgotten>>

-----------------------------------------------------------------------------
(* The commands *)

\* A command of the writing half.
WriteOutput(i, s) ==
    /\ St(i, s) = "command" /\ <<i, s>> \in Held("write") /\ proc[i][s].left > 0
    /\ Held("read") # {} /\ pipe < Capacity
    /\ pipe' = pipe + 1
    /\ proc' = [proc EXCEPT ![i][s].left = @ - 1]
    /\ UNCHANGED <<next, ends, taken, failures, forgotten>>

\* A command of the reading half.
ReadInput(i, s) ==
    /\ St(i, s) = "command" /\ <<i, s>> \in Held("read") /\ pipe > 0
    /\ pipe' = pipe - 1
    /\ UNCHANGED <<proc, next, ends, taken, failures, forgotten>>

\* A command ends when it has written all or nobody reads it (SIGPIPE), or when it is
\* at the end of file.
IsDone(i, s) ==
    <<i, s>> \in ends =>
        \/ PipeEnd[i] = "write" /\ (proc[i][s].left = 0 \/ Held("read") = {})
        \/ PipeEnd[i] = "read" /\ pipe = 0 /\ Held("write") = {}

CommandEnds(i, s) ==
    /\ Goto(i, s, "command", "exited") /\ IsDone(i, s)
    /\ Close(i, s)
    /\ UNCHANGED <<next, taken, failures, forgotten>>

\* A reader may have enough before.
ReaderLeaves(i, s) ==
    /\ Goto(i, s, "command", "exited") /\ <<i, s>> \in Held("read") /\ ~ IsDone(i, s)
    /\ Close(i, s)
    /\ UNCHANGED <<next, taken, failures, forgotten>>

\* What needs no user.
SystemStep(i, s) ==
    \/ Fork(i, s) \/ ForkFails(i, s) \/ Open(i, s) \/ OpenFails(i, s)
    \/ Exec(i, s) \/ ExecFails(i, s) \/ Wait(i, s)
    \/ WriteOutput(i, s) \/ ReadInput(i, s) \/ CommandEnds(i, s)

Read(i, s) == ReadLine(i, s) \/ ReadNothing(i, s)

Next == \E i \in Input, s \in Slot : SystemStep(i, s) \/ Read(i, s) \/ ReaderLeaves(i, s)

Spec == Init /\ [][Next]_vars

\* The system runs the processes; nobody need read another line.  The processes of an
\* input take turns (OneIsActive), so fairness to one is fairness to all.
FairSpec ==
    /\ Spec
    /\ \A i \in Input : WF_vars(\E s \in Slot : SystemStep(i, s))

-----------------------------------------------------------------------------
(* Properties *)

\* A process that has an end of the pipe runs a command, or is about to.
ShellTypeOK ==
    /\ proc \in [Input -> [Slot ->
          [st : {"free", "reading", "system", "waiting", "open", "opening", "exec", "command",
                 "exited", "undefined"},
           up : 0 .. Slots, line : 0 .. Lines, left : 0 .. Output, stdin : BOOLEAN]]]
    /\ next \in [Input -> [Slot -> 1 .. Lines + 1]]
    /\ ends \subseteq {e \in Input \X Slot : St(e[1], e[2]) \in {"exec", "command"}}
    /\ pipe \in 0 .. Capacity
    /\ taken \in [Input -> [Line -> Nat]]
    /\ failures \in 0 .. MaxFailures
    /\ forgotten \in [Input -> SUBSET (0 .. Lines)]

\* One process of an input is active at a time, second shells included: every other
\* one waits for it.  So two shells never compete for the next line.
OneIsActive ==
    \A i \in Input :
        Cardinality({s \in Slot : St(i, s) \notin {"free", "waiting", "exited", "undefined"}}) <= 1

\* A line is taken twice only from a file, by a shell with fork, after the exec of an
\* earlier line has failed: parent and child then both have the rest of the file in their
\* buffers.  On a terminal, or in the memory of its parent, a second shell takes no line
\* that anybody else takes, and never the line it was started for.
LinesAreTakenOnce ==
    \A i \in Input, l \in Line :
        taken[i][l] > 1 => /\ i \in Buffered /\ Variant[i] = "fork"
                           /\ \E k \in forgotten[i] : k < l

\* Every command that has an end of the pipe ends, although users need not type another
\* line: neither a shell nor a second shell holds an end open that it does not use.
PipeCommandsEnd ==
    \A i \in {j \in Input : PipeEnd[j] # "none"} : \A s \in Slot :
        (St(i, s) = "command" /\ <<i, s>> \in ends) ~> (St(i, s) # "command")

-----------------------------------------------------------------------------
(* The inductive invariant *)

\* A process that is not waiting; when it has exited it is still there for its parent.
\* So a parent that is woken takes the place of the child it has waited for.
Awake(i, s) == St(i, s) \notin {"free", "waiting"}
OneIsAwake == \A i \in Input, s, t \in Slot : Awake(i, s) /\ Awake(i, t) => s = t

\* The first shell never becomes a command, and is not reaped.
FirstStays ==
    \A i \in Input :
        /\ proc[i][1].up = 0 /\ St(i, 1) \notin {"open", "opening", "exec", "command"}
        /\ St(i, 1) = "free" => \A s \in Slot : St(i, s) = "free"

\* Who has a line is past it.  A second shell is past a line whose exec has failed.
PastItsLine ==
    \A i \in Input, s \in Slot :
        /\ St(i, s) \in {"system", "waiting", "open", "opening", "exec", "command"} =>
              proc[i][s].line < next[i][s]
        /\ (s # 1 /\ St(i, s) \in {"reading", "system", "waiting"}) =>
              \E k \in forgotten[i] : k < next[i][s]

\* Where all processes of an input read on from one place, the lines before it are taken
\* once.  Where each has its own, the first shell takes its lines once, and a second
\* shell takes those after a line whose exec has failed.
LinesAgree ==
    \A i \in Input :
        LET readOn == i \notin Buffered \/ Variant[i] # "fork"
        IN  /\ readOn => \A s \in Slot : next[i][s] = next[i][1]
            /\ \A l \in Line : (readOn \/ \A k \in forgotten[i] : k >= l) =>
                   taken[i][l] <= IF l < next[i][1] THEN 1 ELSE 0

ShellInv == ShellTypeOK /\ OneIsAwake /\ FirstStays /\ PastItsLine /\ LinesAgree
=============================================================================
