----------------------------- MODULE SROptions ------------------------------
(***************************************************************************)
(* The command line of sr_container.c: what main makes of its options      *)
(* before it sets up the control groups.  It fills config and the array    *)
(* cgroups that SRCgroups takes as ControlsOf and Settings.                *)
(*                                                                         *)
(* A step is one option that getopt returns.  Where the options of one     *)
(* command line come in another order, it is another behaviour.            *)
(*                                                                         *)
(* An option is <<flag, n>>, the n-th use of the flag, which stands for    *)
(* the value given there.  Each limit is stored as pointers to compound    *)
(* literals of the block of its case, which is left at the break: from     *)
(* then on what they hold is undefined.  With gcc 12 and the flags of the  *)
(* Makefile the cases share one place of the stack frame, so that any two  *)
(* limits destroy each other; another build may keep them apart.  intact   *)
(* says whether the literals of all options still hold what they were      *)
(* given.                                                                  *)
(*                                                                         *)
(* The stores have no check of their arrays.  A control past the sixth     *)
(* place, and a write through a lost pointer, may do anything: from there  *)
(* on main is "undefined", and nothing is said of it.                      *)
(***************************************************************************)
EXTENDS Integers, Sequences, FiniteSets

CONSTANTS
    Commands,     \* the commands that may follow -c, non-empty sequences of words
    MaxOptions,   \* bound: options before -c
    MaxUses,      \* bound: uses of one limit flag (the others are used once)
    MaxStrays,    \* bound: words before -c that are no options
    Padding       \* pointers that fit between the five settings of the first entry and
                  \* what the build has put behind them: three, as gcc aligns arrays

ASSUME OptionsAssumption ==
    /\ Commands \subseteq Seq(STRING) \ {<<>>}
    /\ MaxOptions \in Nat /\ MaxUses \in Nat \ {0} /\ MaxStrays \in Nat
    /\ Padding \in Nat \ {0}

\* Flags that add a control to cgroups, flags that add a setting to its first entry,
\* and those that set a field of config.
ControlFlags == {"C", "s", "p", "M"}
RateFlags == {"r", "w"}
LimitFlags == ControlFlags \union RateFlags
FieldFlags == {"m", "u", "H"}
Flags == LimitFlags \union FieldFlags

VARIABLES
    pc,                       \* where main stands
    uses,                     \* how often each flag was given
    optind,                   \* getopt: the next word of argv
    strays,                   \* words that getopt has skipped; it moves them behind
    last_optind,              \* optind after the last option, 0 before the first
    command,                  \* the command given with -c
    config_argv,              \* config.argv, of length config.argc
    cgroups,                  \* the array of pointers to controls
    counter_cgroups,          \* its next free place
    settings,                 \* the settings of its first entry, and what was written behind them
    counter_blkio_settings,   \* the next free place of those
    lost,                     \* what those have overwritten of the first entry: its name,
                              \* its pointer to the settings
    intact,                   \* no literal has been overwritten
    sockets                   \* the pair main shares with its child

parsed == <<optind, strays, last_optind>>
arrays == <<cgroups, counter_cgroups, settings, counter_blkio_settings, lost, intact>>
vars == <<pc, uses, parsed, command, config_argv, arrays, sockets>>

\* A setting is its name and its value.
NULL == <<"NULL", 0>>
weight == <<"weight", 64>>
mems == <<"mems", 0>>
self_to_task == <<"tasks", 0>>

\* The first entry of cgroups.
Default == <<"blkio", 0>>

Controller(f) == [C |-> "cpu", s |-> "cpuset", p |-> "pids", M |-> "memory"][f]

\* Faulty variant: cpuset.mems is stored over cpuset.cpus.
SettingsOverCpus(o) ==
    IF o[1] = "s" THEN <<mems, self_to_task, NULL, NULL, NULL>>
    ELSE <<o, self_to_task, NULL, NULL, NULL>>

\* The settings of a control as its case fills them in.
SettingsOf(o) ==
    IF o[1] = "s" THEN <<o, mems, self_to_task, NULL, NULL>>
    ELSE <<o, self_to_task, NULL, NULL, NULL>>

Init ==
    /\ pc = "getopt"
    /\ uses = [f \in Flags |-> 0]
    /\ optind = 1 /\ strays = 0 /\ last_optind = 0
    /\ command = <<>> /\ config_argv = <<>>
    /\ cgroups = [i \in 0 .. 5 |-> IF i = 0 THEN Default ELSE NULL]
    /\ counter_cgroups = 1
    /\ settings = <<weight, self_to_task, NULL, NULL, NULL>>
    /\ counter_blkio_settings = 1
    /\ lost = {}
    /\ intact = TRUE
    /\ sockets = "none"

-----------------------------------------------------------------------------
(* The loop of getopt *)

\* The bounds on the options of a command line.
MayUse(f) ==
    /\ uses[f] < IF f \in LimitFlags THEN MaxUses ELSE 1
    /\ optind - strays <= 2 * MaxOptions

\* getopt returns option f, in two words after skip words that are no options.
Take(f, skip) ==
    /\ pc = "getopt"
    /\ MayUse(f) /\ strays + skip <= MaxStrays
    /\ uses' = [uses EXCEPT ![f] = @ + 1]
    /\ optind' = optind + skip + 2
    /\ strays' = strays + skip
    /\ last_optind' = optind'
    /\ UNCHANGED <<pc, command, config_argv, sockets>>

\* m, u with a number, H: a field of config.
TakeField(f, skip) == Take(f, skip) /\ UNCHANGED arrays

\* The limits given so far.
Given == {<<f, uses[f]>> : f \in {g \in LimitFlags : uses[g] > 0}}

\* The literals of the case are written; whether over older ones is up to the build.
NewLiterals == intact' \in IF Given = {} THEN {intact} ELSE {intact, FALSE}

\* C, s, p and M, as long as the array has a place.
TakeControlAt(f, skip, i) ==
    /\ i \in DOMAIN cgroups
    /\ Take(f, skip)
    /\ cgroups' = [cgroups EXCEPT ![i] = <<f, uses'[f]>>]
    /\ counter_cgroups' = counter_cgroups + 1
    /\ NewLiterals
    /\ UNCHANGED <<settings, counter_blkio_settings, lost>>

\* Faulty variant: the counter moves on before the control is stored.
TakeControlLate(f, skip) == TakeControlAt(f, skip, counter_cgroups + 1)

TakeControl(f, skip) == TakeControlAt(f, skip, counter_cgroups)

\* A rate stores five pointers.  Those past the array and its padding hit what is behind.
PastPadding(n) == n > 5 + Padding

\* r and w.  As many pointers are written as the counter moves on, the setting first; of
\* five, the first time the last one is past the end of the array, the second time all.
TakeRateThen(f, skip, behind) ==
    /\ "settings" \notin lost
    /\ Take(f, skip)
    /\ settings' = SubSeq(settings, 1, counter_blkio_settings) \o <<<<f, uses'[f]>>>> \o behind
    /\ counter_blkio_settings' = counter_blkio_settings + 1 + Len(behind)
    /\ \E hit \in SUBSET {"name", "settings"} :
          /\ hit # {} => PastPadding(counter_blkio_settings')
          /\ lost' = lost \union hit
    /\ NewLiterals
    /\ UNCHANGED <<cgroups, counter_cgroups>>

\* Faulty variant: the setting is added without self_to_task behind it.
TakeRateNoTask(f, skip) == TakeRateThen(f, skip, <<NULL, NULL, NULL>>)

TakeRate(f, skip) == TakeRateThen(f, skip, <<self_to_task, NULL, NULL, NULL>>)

\* A control is stored past the array; or a rate through the pointer to the settings when
\* that is lost, be it by the writes of this very option before its last.
Overrun(f) ==
    /\ pc = "getopt" /\ MayUse(f)
    /\ \/ f \in ControlFlags /\ counter_cgroups \notin DOMAIN cgroups
       \/ f \in RateFlags /\ PastPadding(counter_blkio_settings + 5)
    /\ pc' = "undefined"
    /\ uses' = [uses EXCEPT ![f] = @ + 1]
    /\ UNCHANGED <<parsed, command, config_argv, arrays, sockets>>

\* How getopt has permuted the words after -c and its argument by the time the loop
\* is left, one call later: what it has skipped goes behind them, and a "--" that only
\* such words precede goes before those.
Permuted(skipped, words) ==
    LET ends == {i \in DOMAIN words : words[i] = "--" /\ \A j \in 1 .. i - 1 : words[j] # "-l"}
        at == IF ends = {} THEN 0 ELSE CHOOSE i \in ends : \A j \in ends : i <= j
    IN  IF at = 0 THEN skipped \o words
        ELSE <<"--">> \o skipped \o SubSeq(words, 1, at - 1) \o SubSeq(words, at + 1, Len(words))

\* -c: what follows it is counted from the option before.  Its argument may be in the
\* same word.  The next option that getopt returns is not looked at.
TakeCommand(cmd, skip, sameWord) ==
    /\ pc = "getopt" /\ strays + skip <= MaxStrays
    /\ LET opt == IF sameWord THEN <<"-c" \o cmd[1]>> ELSE <<"-c", cmd[1]>>
           argv == opt \o Permuted([i \in 1 .. strays + skip |-> "stray"], Tail(cmd))
           argc == optind + skip + Len(opt) + Len(cmd) - 1
       IN  config_argv' = SubSeq(argv, Len(argv) - (argc - last_optind - 1) + 1, Len(argv))
    /\ command' = IF sameWord THEN <<>> ELSE cmd
    /\ strays' = strays + skip
    /\ pc' = "arguments"
    /\ UNCHANGED <<uses, optind, last_optind, arrays, sockets>>

\* getopt is at the end without -c, or returns '?'; or -u has no number.
Reject ==
    /\ pc = "getopt"
    /\ pc' = "usage"
    /\ UNCHANGED <<uses, parsed, command, config_argv, arrays, sockets>>

-----------------------------------------------------------------------------
(* main from the loop to setup_cgroup_controls *)

\* Faulty variant: the command alone is enough.
CheckCommandOnly ==
    /\ pc = "arguments"
    /\ pc' = IF config_argv = <<>> THEN "usage" ELSE "host"
    /\ UNCHANGED <<uses, parsed, command, config_argv, arrays, sockets>>

CheckArguments ==
    /\ pc = "arguments"
    /\ pc' = IF config_argv = <<>> \/ uses["m"] = 0 THEN "usage" ELSE "host"
    /\ UNCHANGED <<uses, parsed, command, config_argv, arrays, sockets>>

\* uname, the version of the kernel and the architecture; then the pair of sockets.
CheckHost ==
    /\ pc = "host"
    /\ \/ pc' = "exited" /\ UNCHANGED sockets
       \/ pc' = "fcntl" /\ sockets' = "open"
    /\ UNCHANGED <<uses, parsed, command, config_argv, arrays>>

\* A failed fcntl closes both.
SetCloexec ==
    /\ pc = "fcntl"
    /\ \/ pc' = "exited" /\ sockets' = "closed"
       \/ pc' = "setup" /\ UNCHANGED sockets
    /\ UNCHANGED <<uses, parsed, command, config_argv, arrays>>

Next ==
    \/ \E skip \in 0 .. MaxStrays :
          \/ \E f \in FieldFlags : TakeField(f, skip)
          \/ \E f \in ControlFlags : TakeControl(f, skip)
          \/ \E f \in RateFlags : TakeRate(f, skip)
          \/ \E cmd \in Commands, sameWord \in BOOLEAN : TakeCommand(cmd, skip, sameWord)
    \/ \E f \in LimitFlags : Overrun(f)
    \/ Reject \/ CheckArguments \/ CheckHost \/ SetCloexec

Spec == Init /\ [][Next]_vars

-----------------------------------------------------------------------------
(* What setup_cgroup_controls finds *)

\* The places of an array up to its first NULL.
Walk(s) ==
    LET nulls == {i \in DOMAIN s : s[i] = NULL}
    IN  {i \in DOMAIN s : \A j \in nulls : i < j}

\* The entries it walks, and whether it stops inside the array.
Entries == {cgroups[i] : i \in Walk(cgroups)}
Terminated == \E i \in DOMAIN cgroups : cgroups[i] = NULL

\* The settings of an entry; nothing is known of those of the first without its pointer.
Walked(o) == LET s == IF o = Default THEN settings ELSE SettingsOf(o)
             IN  IF o = Default /\ "settings" \in lost THEN {} ELSE {s[i] : i \in Walk(s)}

\* The options whose values are written to some file, if their literals are intact.
Applied == {o \in UNION {Walked(e) : e \in Entries} : o[1] \in LimitFlags}

-----------------------------------------------------------------------------
(* Properties *)

\* Besides the types: the array cgroups ends behind the last control, and inside its six
\* places as long as there are no more than four, one of each flag.
OptionsTypeOK ==
    /\ pc \in {"getopt", "arguments", "usage", "host", "fcntl", "setup", "exited", "undefined"}
    /\ uses \in [Flags -> 0 .. MaxUses]
    /\ strays \in 0 .. MaxStrays
    /\ last_optind \in {0, optind}
    /\ counter_cgroups \in 1 .. 6 /\ Walk(cgroups) = 0 .. counter_cgroups - 1
    /\ DOMAIN cgroups = 0 .. 5 /\ (Terminated <=> counter_cgroups <= 5)
    /\ counter_blkio_settings \in 1 .. 1 + 10 * MaxUses
    /\ lost \subseteq {"name", "settings"}
    /\ intact \in BOOLEAN
    /\ sockets \in {"none", "open", "closed"}

ControlsGiven == uses["C"] + uses["s"] + uses["p"] + uses["M"]

\* The array cgroups holds its default, then every control that was given, each use of a
\* flag once, and NULL from the counter on.
ControlsAgree ==
    /\ cgroups[0] = Default
    /\ counter_cgroups = 1 + ControlsGiven
    /\ \A i \in counter_cgroups .. 5 : cgroups[i] = NULL
    /\ \A i \in 1 .. counter_cgroups - 1 :
          \E f \in ControlFlags : \E n \in 1 .. uses[f] : cgroups[i] = <<f, n>>
    /\ \A f \in ControlFlags : \A n \in 1 .. uses[f] :
          \E i \in 1 .. counter_cgroups - 1 : cgroups[i] = <<f, n>>
    /\ \A i, j \in 1 .. counter_cgroups - 1 : cgroups[i] = cgroups[j] => i = j

\* The settings of the first entry are those it starts with, or end behind the first rate
\* that was given, whatever the later ones have left past the end of the array.
RatesAgree ==
    /\ settings \in Seq({weight, self_to_task, NULL} \union RateFlags \X (1 .. MaxUses))
    /\ counter_blkio_settings = 1 + 5 * (uses["r"] + uses["w"])
    /\ counter_blkio_settings = 1 => settings = <<weight, self_to_task, NULL, NULL, NULL>>
    /\ counter_blkio_settings > 1 =>
          /\ Len(settings) = counter_blkio_settings
          /\ settings[1] = weight /\ settings[3] = self_to_task /\ settings[4] = NULL
          /\ \E f \in RateFlags : \E n \in 1 .. uses[f] : settings[2] = <<f, n>>
    /\ counter_blkio_settings <= 6 => lost = {}

\* Only without any option can last_optind still be 0, and then -m is missing; with it, the
\* words that were taken for the command are the command.
ArgumentsAgree ==
    /\ optind \in Nat \ {0}
    /\ last_optind = 0 => uses["m"] = 0
    /\ pc \in {"host", "fcntl", "setup"} => uses["m"] > 0
    /\ pc \in {"arguments", "host", "fcntl", "setup"} /\ uses["m"] > 0
       /\ strays = 0 /\ command # <<>> /\ (\A i \in DOMAIN command : command[i] # "--") =>
          config_argv = command

\* It takes a sixth control, or a second rate, to come to a store that may do anything.
OverrunsNeedMore == pc = "undefined" => ControlsGiven > 5 \/ uses["r"] + uses["w"] > 1

\* The invariant of the option loop: what the arrays, their counters and the numbers of the
\* words of argv say of each other after every option, until a store is out of bounds.
OptionsInv ==
    /\ OptionsTypeOK /\ OverrunsNeedMore
    /\ pc # "undefined" => ControlsAgree /\ RatesAgree /\ ArgumentsAgree

\* With at most one of -r and -w, wherever it comes on the command line, the first group is
\* intact and gets its weight, the rate and, as the last setting, main itself; and with
\* more of them it gets the weight, one rate and main still, as long as what the writes
\* past its settings have hit is neither its name nor its pointer to them.
BlkioIsJoined ==
    LET rates == uses["r"] + uses["w"]
        last == CHOOSE i \in Walk(settings) : \A j \in Walk(settings) : j <= i
    IN  pc # "undefined" =>
            /\ rates <= 1 => lost = {}
            /\ lost = {} =>
                  /\ settings[1] = weight /\ settings[last] = self_to_task
                  /\ last = IF rates = 0 THEN 2 ELSE 3

\* Where the build keeps the literals apart, a command line with no limit twice and one
\* rate at most reaches the set-up with every limit it gives, each controller
\* once (so that no mkdir meets its own directory), and under the names they have.
LimitsReachTheGroups ==
    pc = "setup" /\ (\A f \in LimitFlags : uses[f] <= 1) /\ uses["r"] + uses["w"] <= 1
    /\ intact =>
        /\ Given = Applied /\ lost = {}
        /\ \A i, j \in Walk(cgroups) \ {0} :
              Controller(cgroups[i][1]) = Controller(cgroups[j][1]) => i = j

\* The container runs the words after -c, all of them, whatever options come before;
\* last_optind starts at 0 and not at 1, which only the test of -m makes up for.
\* (Not so with a word that is no option before -c, "--" behind it, or its argument
\* in the same word: then getopt's order of argv is not that of the user.)
PayloadIsCommand ==
    pc \in {"host", "fcntl", "setup"} /\ strays = 0 /\ command # <<>>
    /\ (\A i \in DOMAIN command : command[i] # "--") => config_argv = command

\* sr_container.c: the flags C, s, p, M, r and w are to be supported; each limit of the
\* command line is in the array when the groups are set up, at the least in a build
\* that keeps the literals apart.
FlagsAreApplied == pc = "setup" /\ intact => Given \subseteq Applied
=============================================================================
