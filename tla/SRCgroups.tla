----------------------------- MODULE SRCgroups ------------------------------
(***************************************************************************)
(* The control groups of sr_container.c: how main makes them, joins them   *)
(* and fills in their settings before it clones the container, and how it  *)
(* takes them away afterwards.                                             *)
(*                                                                         *)
(* Several launches of the program run at once on one cgroup file system.  *)
(* The directory of a group is named after the controller and the host     *)
(* name of the container, so that launches with one host name (or with     *)
(* none: "(null)") meet in one directory.  A step is one entry of the      *)
(* loops of setup_cgroup_controls and free_cgroup_controls: a mkdir, the   *)
(* open and write of one setting, the move back to the root group, a rmdir.*)
(***************************************************************************)
EXTENDS Integers, Sequences

CONSTANTS
    Launch,       \* the launches of the program
    Name,         \* host names
    NameOf,       \* config.hostname of each launch
    Control,      \* the controllers: blkio, cpu, cpuset, pids, memory
    ControlsOf,   \* the array cgroups of each launch, before its NULL
    Faulty,       \* the launches whose system calls may fail
    Crashing      \* the launches whose main process may be killed

ASSUME LaunchAssumption ==
    /\ NameOf \in [Launch -> Name]
    /\ ControlsOf \in [Launch -> Seq(Control)]
    /\ Faulty \subseteq Launch /\ Crashing \subseteq Launch

VARIABLES
    pc,           \* where main stands
    at,           \* the entry of cgroups that its loop has come to
    todo,         \* the settings of that entry it has still to write
    groups,       \* the directories that exist
    tasks,        \* the processes in each directory
    limit         \* the launch whose values each directory holds

cgroupVars == <<pc, at, todo, groups, tasks, limit>>

\* A directory, the two processes of a launch, and nobody.
Dir == Control \X Name
Task == Launch \X {"main", "child"}
Nobody == "nobody"

\* Faulty variant: cpuset.mems takes the place of the entry for the tasks.
SettingsNoTask(c) == IF c = "cpuset" THEN <<"cpus", "mems">> ELSE <<"value", "tasks">>

\* The settings of an entry: its values, and last "tasks", to which main writes 0.
Settings(c) == IF c = "cpuset" THEN <<"cpus", "mems", "tasks">> ELSE <<"value", "tasks">>

DirAt(l) == <<ControlsOf[l][at[l]], NameOf[l]>>
DirsOf(l) == {<<ControlsOf[l][i], NameOf[l]>> : i \in DOMAIN ControlsOf[l]}

Init ==
    /\ pc = [l \in Launch |-> "mkdir"]
    /\ at = [l \in Launch |-> 1]
    /\ todo = [l \in Launch |-> <<>>]
    /\ groups = {}
    /\ tasks = [d \in Dir |-> {}]
    /\ limit = [d \in Dir |-> Nobody]

Goto(l, from, to) ==
    /\ pc[l] = from
    /\ pc' = [pc EXCEPT ![l] = to]

\* clean_child_structures: free_cgroup_controls starts at the first entry.
CleanUp(l, from) ==
    /\ Goto(l, from, "leave")
    /\ at' = [at EXCEPT ![l] = 1]
    /\ todo' = [todo EXCEPT ![l] = <<>>]

-----------------------------------------------------------------------------
(* setup_cgroup_controls *)

\* Faulty variant: a directory that is there already is taken for one's own.
MkdirOrTake(l) ==
    /\ at[l] <= Len(ControlsOf[l])
    /\ Goto(l, "mkdir", "settings")
    /\ groups' = groups \union {DirAt(l)}
    /\ todo' = [todo EXCEPT ![l] = Settings(ControlsOf[l][at[l]])]
    /\ UNCHANGED <<at, tasks, limit>>

Mkdir(l) ==
    /\ at[l] <= Len(ControlsOf[l])
    /\ DirAt(l) \notin groups
    /\ Goto(l, "mkdir", "settings")
    /\ groups' = groups \union {DirAt(l)}
    /\ todo' = [todo EXCEPT ![l] = Settings(ControlsOf[l][at[l]])]
    /\ UNCHANGED <<at, tasks, limit>>

\* The directory is there already, or mkdir fails for another reason.
MkdirFails(l) ==
    /\ at[l] <= Len(ControlsOf[l])
    /\ DirAt(l) \in groups \/ l \in Faulty
    /\ CleanUp(l, "mkdir")
    /\ UNCHANGED <<groups, tasks, limit>>

\* Faulty variant: what open returns is not looked at.
WriteSettingUnchecked(l) ==
    /\ Goto(l, "settings", IF Len(todo[l]) = 1 THEN "mkdir" ELSE "settings")
    /\ at' = IF Len(todo[l]) = 1 THEN [at EXCEPT ![l] = @ + 1] ELSE at
    /\ todo' = [todo EXCEPT ![l] = Tail(@)]
    /\ tasks' = [tasks EXCEPT ![DirAt(l)] = @ \union {<<l, "main">>}]
    /\ UNCHANGED <<groups, limit>>

\* One setting is written; after the last of them comes the next entry.
WriteSetting(l) ==
    /\ pc[l] = "settings" /\ DirAt(l) \in groups
    /\ Goto(l, "settings", IF Len(todo[l]) = 1 THEN "mkdir" ELSE "settings")
    /\ at' = IF Len(todo[l]) = 1 THEN [at EXCEPT ![l] = @ + 1] ELSE at
    /\ todo' = [todo EXCEPT ![l] = Tail(@)]
    /\ IF Head(todo[l]) = "tasks"
       THEN /\ tasks' = [d \in Dir |->
                   IF d = DirAt(l) THEN tasks[d] \union {<<l, "main">>}
                   ELSE IF d[1] = DirAt(l)[1] THEN tasks[d] \ {<<l, "main">>} ELSE tasks[d]]
            /\ UNCHANGED limit
       ELSE /\ limit' = [limit EXCEPT ![DirAt(l)] = l]
            /\ UNCHANGED tasks
    /\ UNCHANGED groups

\* The directory was taken away, or the open or the write fails for another reason.
WriteSettingFails(l) ==
    /\ pc[l] = "settings"
    /\ DirAt(l) \notin groups \/ l \in Faulty
    /\ CleanUp(l, "settings")
    /\ UNCHANGED <<groups, tasks, limit>>

\* After the last entry: setrlimit.
SetRlimit(l) ==
    /\ at[l] > Len(ControlsOf[l])
    /\ \/ Goto(l, "mkdir", "clone") /\ UNCHANGED <<at, todo>>
       \/ l \in Faulty /\ CleanUp(l, "mkdir")
    /\ UNCHANGED <<groups, tasks, limit>>

-----------------------------------------------------------------------------
(* main between the set-up and the clean-up *)

\* The child starts in the groups of main.
Clone(l) ==
    /\ Goto(l, "clone", "parent")
    /\ tasks' = [d \in Dir |-> IF <<l, "main">> \in tasks[d] THEN tasks[d] \union {<<l, "child">>}
                               ELSE tasks[d]]
    /\ UNCHANGED <<at, todo, groups, limit>>

CloneFails(l) ==
    /\ l \in Faulty
    /\ CleanUp(l, "clone")
    /\ UNCHANGED <<groups, tasks, limit>>

\* malloc of the stack fails: exit with nothing cleaned up.
ExitAtOnce(l) ==
    /\ l \in Faulty
    /\ Goto(l, "clone", "exited")
    /\ tasks' = [d \in Dir |-> tasks[d] \ {<<l, "main">>}]
    /\ UNCHANGED <<at, todo, groups, limit>>

Alive(t) == \E d \in Dir : t \in tasks[d]

\* The child ends, and leaves its groups.
ChildEnds(l) ==
    /\ Alive(<<l, "child">>)
    /\ tasks' = [d \in Dir |-> tasks[d] \ {<<l, "child">>}]
    /\ UNCHANGED <<pc, at, todo, groups, limit>>

\* waitpid returns.
Waited(l) ==
    /\ ~ Alive(<<l, "child">>)
    /\ CleanUp(l, "parent")
    /\ UNCHANGED <<groups, tasks, limit>>

-----------------------------------------------------------------------------
(* free_cgroup_controls *)

\* Faulty variant: main stays in the group it is about to take away.
StayInGroup(l) ==
    /\ at[l] <= Len(ControlsOf[l])
    /\ Goto(l, "leave", "rmdir")
    /\ UNCHANGED <<at, todo, groups, tasks, limit>>

\* main writes 0 to the tasks of the root group of the controller.
LeaveGroup(l) ==
    /\ at[l] <= Len(ControlsOf[l])
    /\ Goto(l, "leave", "rmdir")
    /\ tasks' = [d \in Dir |-> IF d[1] = DirAt(l)[1] THEN tasks[d] \ {<<l, "main">>} ELSE tasks[d]]
    /\ UNCHANGED <<at, todo, groups, limit>>

Rmdir(l) ==
    /\ pc[l] = "rmdir"
    /\ DirAt(l) \in groups /\ tasks[DirAt(l)] = {}
    /\ Goto(l, "rmdir", "leave")
    /\ at' = [at EXCEPT ![l] = @ + 1]
    /\ groups' = groups \ {DirAt(l)}
    /\ limit' = [limit EXCEPT ![DirAt(l)] = Nobody]
    /\ UNCHANGED <<todo, tasks>>

\* main returns: the loop is over, or a rmdir fails, of a directory that is not there
\* or that has tasks in it.
Return(l) ==
    /\ \/ at[l] > Len(ControlsOf[l]) /\ Goto(l, "leave", "returned")
       \/ /\ pc[l] = "rmdir"
          /\ DirAt(l) \notin groups \/ tasks[DirAt(l)] # {}
          /\ Goto(l, "rmdir", "returned")
    /\ tasks' = [d \in Dir |-> tasks[d] \ {<<l, "main">>}]
    /\ UNCHANGED <<at, todo, groups, limit>>

\* free_cgroup_controls breaks off: the tasks file of the root group cannot be opened or
\* written, or the rmdir fails for another reason.  This group and those after it stay.
FreeFails(l) ==
    /\ l \in Faulty /\ at[l] <= Len(ControlsOf[l])
    /\ Goto(l, "leave", "gaveup") \/ Goto(l, "rmdir", "gaveup")
    /\ tasks' = [d \in Dir |-> tasks[d] \ {<<l, "main">>}]
    /\ UNCHANGED <<at, todo, groups, limit>>

Ended == {"returned", "gaveup", "exited", "killed"}

\* main is killed; its child, if there is one, lives on.
Crash(l) ==
    /\ l \in Crashing /\ pc[l] \notin Ended
    /\ pc' = [pc EXCEPT ![l] = "killed"]
    /\ tasks' = [d \in Dir |-> tasks[d] \ {<<l, "main">>}]
    /\ UNCHANGED <<at, todo, groups, limit>>

SetUp(l) == Mkdir(l) \/ MkdirFails(l) \/ WriteSetting(l) \/ WriteSettingFails(l) \/ SetRlimit(l)

Start(l) == Clone(l) \/ CloneFails(l) \/ ExitAtOnce(l)

Free(l) == LeaveGroup(l) \/ Rmdir(l) \/ Return(l) \/ FreeFails(l)

Next ==
    \E l \in Launch : SetUp(l) \/ Start(l) \/ ChildEnds(l) \/ Waited(l) \/ Free(l) \/ Crash(l)

Spec == Init /\ [][Next]_cgroupVars

-----------------------------------------------------------------------------
(* Properties *)

SettingUp == {"mkdir", "settings", "clone", "parent"}
Unwritten == {<<"cpus", "mems", "tasks">>, <<"mems", "tasks">>, <<"value", "tasks">>, <<"tasks">>}

CgroupTypeOK ==
    /\ pc \in [Launch -> SettingUp \union {"leave", "rmdir"} \union Ended]
    /\ at \in [Launch -> Nat]
    /\ todo \in [Launch -> {<<>>} \union Unwritten]
    /\ \A l \in Launch :
          /\ at[l] \in 1 .. Len(ControlsOf[l]) + 1
          /\ pc[l] \in {"settings", "rmdir"} => at[l] <= Len(ControlsOf[l])
          /\ pc[l] \in {"clone", "parent"} => at[l] = Len(ControlsOf[l]) + 1
          /\ pc[l] = "settings" => todo[l] \in Unwritten
    /\ groups \subseteq Dir
    /\ tasks \in [Dir -> SUBSET Task]
    /\ limit \in [Dir -> Launch \union {Nobody}]
    /\ \A d \in Dir \ groups : tasks[d] = {} /\ limit[d] = Nobody

\* A container is held in every group its command line asks for as long as it lives,
\* whatever other launches do to directories of the same name and whether or not
\* its own main has been killed.
ContainersAreHeld ==
    \A l \in Launch : Alive(<<l, "child">>) =>
        \A d \in DirsOf(l) : d \in groups /\ <<l, "child">> \in tasks[d]

\* Launches that share the host name of l.
Alone(l) == \A m \in Launch \ {l} : NameOf[m] # NameOf[l]

\* Whatever failed before its clean-up, a launch whose clean-up comes to its end leaves
\* none of its directories behind; and one whose clean-up breaks off at an open, a write
\* or a rmdir leaves none of those before.  Provided no other launch uses its host name.
NothingIsLeft ==
    \A l \in Launch : Alone(l) =>
        /\ pc[l] = "returned" => DirsOf(l) \intersect groups = {}
        /\ pc[l] = "gaveup" =>
              \A i \in 1 .. at[l] - 1 : <<ControlsOf[l][i], NameOf[l]>> \notin groups

\* All others that share the host name of l are one launch, or none.
Pair(l, m) == \A k \in Launch \ {l, m} : NameOf[k] # NameOf[l]
AtMostOneShares(l) == \E m \in Launch : Pair(l, m)

\* The groups of a living container hold its own values, never those of the other launch
\* of its host name: although each of the two takes away, in its clean-up, directories
\* that the other has just made and not yet joined.
ContainersHaveOwnLimits ==
    \A l \in Launch : Alive(<<l, "child">>) /\ AtMostOneShares(l) =>
        \A d \in DirsOf(l) : limit[d] = l

-----------------------------------------------------------------------------
(* The inductive invariant from which the properties follow *)

Entries(l, i, j) == {<<ControlsOf[l][x], NameOf[l]>> : x \in i .. j}

\* Until it cleans up, main is in the groups of the entries it is done with; and it is
\* not in the one it is about to take away.
MainIsIn(l) ==
    /\ pc[l] \in SettingUp => \A d \in Entries(l, 1, at[l] - 1) : <<l, "main">> \in tasks[d]
    /\ pc[l] = "rmdir" => <<l, "main">> \notin tasks[DirAt(l)]

\* There is a child only while main waits for it, or when main has been killed; it is
\* in every group.
ChildIsIn(l) ==
    Alive(<<l, "child">>) =>
        /\ pc[l] \in {"parent", "killed"}
        /\ \A d \in DirsOf(l) : <<l, "child">> \in tasks[d]

\* The values of l are in the groups of the entries it is done with, in the group it
\* is about to join if that is still there, and in those of its child.
OwnLimits(l) ==
    /\ pc[l] \in SettingUp => \A d \in Entries(l, 1, at[l] - 1) : limit[d] = l
    /\ pc[l] = "settings" /\ todo[l] = <<"tasks">> /\ DirAt(l) \in groups => limit[DirAt(l)] = l
    /\ Alive(<<l, "child">>) => \A d \in DirsOf(l) : limit[d] = l

\* The directories of l that exist are those of its entries i to k, and no controller
\* comes twice among the first k.
Standing(l, i, k) ==
    /\ DirsOf(l) \intersect groups = Entries(l, i, k)
    /\ \A x, y \in 1 .. k : ControlsOf[l][x] = ControlsOf[l][y] => x = y

\* They are those its loop has made and has not yet taken away.
Accounted(l) ==
    /\ pc[l] \in {"mkdir", "clone", "parent"} => Standing(l, 1, at[l] - 1)
    /\ pc[l] = "settings" => Standing(l, 1, at[l])
    /\ pc[l] \in {"leave", "rmdir", "gaveup"} =>
          \E k \in 0 .. Len(ControlsOf[l]) : Standing(l, at[l], k)
    /\ pc[l] = "returned" => DirsOf(l) \intersect groups = {}

LaunchInv(l) ==
    /\ MainIsIn(l)
    /\ ChildIsIn(l)
    /\ AtMostOneShares(l) => OwnLimits(l)
    /\ Alone(l) => Accounted(l)

\* Of two launches of one host name and no third: while neither cleans up, the directory
\* that l has made is there; and the one that m is about to write to is none of those
\* of l, nor of its child.
Apart(l, m) ==
    /\ pc[l] = "settings" /\ pc[m] \in SettingUp => DirAt(l) \in groups
    /\ pc[m] = "settings" =>
          /\ pc[l] \in SettingUp => DirAt(m) \notin Entries(l, 1, at[l] - 1)
          /\ pc[l] = "settings" => DirAt(l) # DirAt(m)
          /\ Alive(<<l, "child">>) => DirAt(m) \notin DirsOf(l)

PairsApart == \A l, m \in Launch : l # m /\ NameOf[l] = NameOf[m] /\ Pair(l, m) => Apart(l, m)

\* Only launches of its host name have tasks in a directory.
TasksKeepToNames == \A d \in Dir : \A t \in tasks[d] : NameOf[t[1]] = d[2]

CgroupInv ==
    /\ CgroupTypeOK
    /\ TasksKeepToNames
    /\ \A l \in Launch : LaunchInv(l)
    /\ PairsApart
=============================================================================
