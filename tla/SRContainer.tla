---------------------------- MODULE SRContainer -----------------------------
(***************************************************************************)
(* One run of sr_container.c from the cgroups to the end: main, its child  *)
(* in new namespaces, and the socket pair over which they agree on the     *)
(* user namespace.  SRCgroups has the part of main before the clone and    *)
(* after waitpid; this module puts in between what SRCgroups leaves open.  *)
(*                                                                         *)
(* The child inherits both ends of the pair (FD_CLOEXEC closes sockets[0]  *)
(* only at the exec), so it never sees the end of file, even when main is  *)
(* gone; main closes sockets[1] and does see it when the child is gone.    *)
(***************************************************************************)
EXTENDS SRCgroups

VARIABLES
    main,         \* where main stands while pc is "parent"
    child,        \* where the child stands
    end1,         \* the mains that have sockets[1] open
    up,           \* messages from the child to main
    down,         \* messages from main to the child
    jail          \* what the child has put between itself and the host

childVars == <<main, child, end1, up, down, jail>>
vars == <<cgroupVars, childVars>>

\* root: the child's root directory; old: the host's root is still mounted below it;
\* userns: it is in a new user namespace, maps: the id maps main has written for it;
\* ids, caps, filter: whether those steps are done.
Free0 == [root |-> "host", old |-> TRUE, userns |-> FALSE, maps |-> {},
          ids |-> FALSE, caps |-> FALSE, filter |-> FALSE]

ContainerInit ==
    /\ Init
    /\ main = [l \in Launch |-> "none"]
    /\ child = [l \in Launch |-> "none"]
    /\ end1 = Launch
    /\ up = [l \in Launch |-> <<>>]
    /\ down = [l \in Launch |-> <<>>]
    /\ jail = [l \in Launch |-> Free0]

-----------------------------------------------------------------------------
(* main *)

MainGoes(l, from, to) ==
    /\ pc[l] = "parent" /\ main[l] = from
    /\ main' = [main EXCEPT ![l] = to]
    /\ UNCHANGED cgroupVars

StartChild(l) ==
    /\ Clone(l)
    /\ main' = [main EXCEPT ![l] = "close"]
    /\ child' = [child EXCEPT ![l] = "hostname"]
    /\ UNCHANGED <<end1, up, down, jail>>

\* Faulty variant: main keeps sockets[1] open.
KeepSocket(l) ==
    /\ MainGoes(l, "close", "read")
    /\ UNCHANGED <<child, end1, up, down, jail>>

CloseSocket(l) ==
    /\ MainGoes(l, "close", "read")
    /\ end1' = end1 \ {l}
    /\ UNCHANGED <<child, up, down, jail>>

\* Faulty variant: main does not look at what the child tells it.
ReadFlagUnchecked(l) ==
    /\ up[l] # <<>>
    /\ MainGoes(l, "read", "uid_map")
    /\ up' = [up EXCEPT ![l] = Tail(@)]
    /\ UNCHANGED <<child, end1, down, jail>>

\* setup_child_uid_map: the answer of the child to "has it a user namespace" ...
ReadFlag(l) ==
    /\ up[l] # <<>>
    /\ MainGoes(l, "read", IF Head(up[l]) THEN "uid_map" ELSE "ack")
    /\ up' = [up EXCEPT ![l] = Tail(@)]
    /\ UNCHANGED <<child, end1, down, jail>>

\* ... or the end of file, once no process holds the other end.
ReadEnds(l) ==
    /\ up[l] = <<>> /\ child[l] = "dead" /\ l \notin end1
    /\ MainGoes(l, "read", "kill")
    /\ UNCHANGED <<child, end1, up, down, jail>>

WriteMap(l, map, next) ==
    /\ MainGoes(l, map, next)
    /\ jail' = [jail EXCEPT ![l].maps = @ \union {map}]
    /\ UNCHANGED <<child, end1, up, down>>

WriteMaps(l) == WriteMap(l, "uid_map", "gid_map") \/ WriteMap(l, "gid_map", "ack")

WriteAck(l) ==
    /\ child[l] # "dead"
    /\ MainGoes(l, "ack", "wait")
    /\ down' = [down EXCEPT ![l] = Append(@, 0)]
    /\ UNCHANGED <<child, end1, up, jail>>

\* A map or the answer fails: main kills the child.
MapFails(l) ==
    /\ \/ l \in Faulty /\ \E s \in {"uid_map", "gid_map", "ack"} : MainGoes(l, s, "kill")
       \/ child[l] = "dead" /\ \E s \in {"uid_map", "gid_map", "ack"} : MainGoes(l, s, "kill")
    /\ UNCHANGED <<child, end1, up, down, jail>>

\* The child is gone, with its descriptors and its places in the groups.
Dies(l) ==
    /\ child[l] \notin {"none", "dead"}
    /\ child' = [child EXCEPT ![l] = "dead"]
    /\ ChildEnds(l)

KillChild(l) ==
    /\ pc[l] = "parent" /\ main[l] = "kill"
    /\ main' = [main EXCEPT ![l] = "wait"]
    /\ IF child[l] = "dead" THEN UNCHANGED <<child, cgroupVars>> ELSE Dies(l)
    /\ UNCHANGED <<end1, up, down, jail>>

WaitChild(l) ==
    /\ main[l] = "wait" /\ child[l] = "dead"
    /\ Waited(l)
    /\ UNCHANGED childVars

-----------------------------------------------------------------------------
(* child_function *)

ChildGoes(l, from, to) ==
    /\ child[l] = from
    /\ child' = [child EXCEPT ![l] = to]
    /\ UNCHANGED <<cgroupVars, main, end1>>

\* A step that puts one more thing between the child and the host.
Confine(l, from, to, field, val) ==
    /\ ChildGoes(l, from, to)
    /\ jail' = [jail EXCEPT ![l][field] = val]
    /\ UNCHANGED <<up, down>>

Quietly(l, from, to) == ChildGoes(l, from, to) /\ UNCHANGED <<up, down, jail>>

\* sethostname, then setup_child_mounts up to its second mkdtemp.
SetHostname(l) == Quietly(l, "hostname", "remount")
Remount(l) == Quietly(l, "remount", "pivot")

\* switch_child_root does not look at what pivot_root returns.
PivotRoot(l) ==
    \/ Confine(l, "pivot", "umount", "root", "container")
    \/ l \in Faulty /\ Quietly(l, "pivot", "umount")

\* Faulty variant: what umount2 returns is not looked at either.
UnmountUnchecked(l) == Confine(l, "umount", "proc", "old", jail[l].root = "host")

\* The directory of the old root is there only if the root was changed.
UnmountOld(l) ==
    /\ jail[l].root = "container"
    /\ Confine(l, "umount", "proc", "old", FALSE)

UnmountFails(l) ==
    /\ child[l] = "umount" /\ jail[l].root = "host"
    /\ Dies(l)
    /\ UNCHANGED <<main, end1, up, down, jail>>

MountProc(l) == Quietly(l, "proc", "unshare")

\* setup_child_userns: a kernel without user namespaces is no error.
Unshare(l) ==
    \/ Confine(l, "unshare", "tell", "userns", TRUE)
    \/ l \in Faulty /\ Quietly(l, "unshare", "tell")

TellMain(l) ==
    /\ ChildGoes(l, "tell", "hear")
    /\ up' = [up EXCEPT ![l] = Append(@, jail[l].userns)]
    /\ UNCHANGED <<down, jail>>

\* Faulty variant: the child does not wait for main.
GoOnAtOnce(l) == Quietly(l, "hear", "ids")

HearMain(l) ==
    /\ down[l] # <<>>
    /\ ChildGoes(l, "hear", "ids")
    /\ down' = [down EXCEPT ![l] = Tail(@)]
    /\ UNCHANGED <<up, jail>>

SwitchIds(l) == Confine(l, "ids", "caps", "ids", TRUE)
DropCapabilities(l) == Confine(l, "caps", "filter", "caps", TRUE)
LoadFilter(l) == Confine(l, "filter", "exec", "filter", TRUE)

\* close(config->fd) and execve: from here on the payload runs.
Exec(l) == Quietly(l, "exec", "payload")

\* Any other step of the child fails and child_function returns -1.
ChildFails(l) ==
    /\ l \in Faulty
    /\ child[l] \in {"hostname", "remount", "umount", "proc", "tell",
                     "ids", "caps", "filter", "exec"}
    /\ Dies(l)
    /\ UNCHANGED <<main, end1, up, down, jail>>

\* The payload ends, or the child is killed (by the memory group, say).
ChildExits(l) ==
    /\ child[l] = "payload" \/ l \in Crashing
    /\ Dies(l)
    /\ UNCHANGED <<main, end1, up, down, jail>>

-----------------------------------------------------------------------------
\* The steps of SRCgroups that know nothing of the child.
Groups(l) ==
    /\ SetUp(l) \/ CloneFails(l) \/ ExitAtOnce(l) \/ Free(l)
    /\ UNCHANGED childVars

\* main is killed, and its end of the pair is closed with it.
CrashMain(l) ==
    /\ Crash(l)
    /\ end1' = end1 \ {l}
    /\ UNCHANGED <<main, child, up, down, jail>>

MainStep(l) ==
    \/ Groups(l) \/ StartChild(l) \/ CloseSocket(l) \/ ReadFlag(l) \/ ReadEnds(l)
    \/ WriteMaps(l) \/ WriteAck(l) \/ MapFails(l) \/ KillChild(l) \/ WaitChild(l)

ChildStep(l) ==
    \/ SetHostname(l) \/ Remount(l) \/ PivotRoot(l) \/ UnmountOld(l) \/ UnmountFails(l)
    \/ MountProc(l) \/ Unshare(l) \/ TellMain(l) \/ HearMain(l) \/ SwitchIds(l)
    \/ DropCapabilities(l) \/ LoadFilter(l) \/ Exec(l) \/ ChildFails(l)

ContainerNext == \E l \in Launch : MainStep(l) \/ ChildStep(l) \/ ChildExits(l) \/ CrashMain(l)

ContainerSpec == ContainerInit /\ [][ContainerNext]_vars

\* Each of the two processes is scheduled.  No call that blocks fails by itself, so
\* that a process that waits for ever is not let out by an error.  The payload need
\* not end, and nobody need be killed.
FairContainerSpec ==
    /\ ContainerSpec
    /\ \A l \in Launch : WF_vars(MainStep(l)) /\ WF_vars(ChildStep(l))

-----------------------------------------------------------------------------
(* Properties *)

\* The payload runs only behind everything child_function sets up: its own root with
\* the host's root gone, mapped ids if it has a user namespace, the capabilities
\* dropped, the filter loaded, and inside the groups; whatever failed on the way, and
\* although switch_child_root reports no failure.
PayloadIsConfined ==
    \A l \in Launch : child[l] = "payload" =>
        /\ jail[l].root = "container" /\ ~ jail[l].old
        /\ jail[l].userns => jail[l].maps = {"uid_map", "gid_map"}
        /\ jail[l].ids /\ jail[l].caps /\ jail[l].filter
        /\ \A d \in DirsOf(l) : <<l, "child">> \in tasks[d]

\* The ids are switched only after main has written both maps of a new namespace.
IdsAfterMaps ==
    [][\A l \in Launch : ~ jail[l].ids /\ jail'[l].ids /\ jail[l].userns =>
          jail[l].maps = {"uid_map", "gid_map"}]_vars

\* As long as main is not killed it comes to an end, unless it waits for a payload
\* that does not end: no error on either side leaves one waiting for the other.
EveryLaunchEnds ==
    \A l \in Launch : [](pc[l] # "killed") => <>(pc[l] \in Ended \/ child[l] = "payload")

\* main writes an id map only for a child that is in a new user namespace, whether the
\* kernel has them or not: its decision, taken in another process and after a message,
\* agrees with what unshare returned to the child.
MapsOnlyInNamespace == \A l \in Launch : jail[l].maps # {} => jail[l].userns

-----------------------------------------------------------------------------
(* The inductive invariant from which PayloadIsConfined follows *)

\* The places of the child before it asks for a user namespace, after that and before
\* it tells main, while it waits for main, and after it has heard of main.
Outside == {"none", "hostname", "remount", "pivot", "umount"}
Rooted == {"proc", "unshare"}
Hearing == {"hear"}
Answered == {"ids", "caps", "filter", "exec", "payload"}

BothMaps == {"uid_map", "gid_map"}

Jail == [root : {"host", "container"}, old : BOOLEAN, userns : BOOLEAN, maps : SUBSET BothMaps,
         ids : BOOLEAN, caps : BOOLEAN, filter : BOOLEAN]

ContainerTypeOK ==
    /\ main \in [Launch -> {"none", "close", "read", "ack", "wait", "kill"} \union BothMaps]
    /\ child \in [Launch -> Outside \union Rooted \union {"tell", "dead"} \union Hearing \union Answered]
    /\ end1 \subseteq Launch
    /\ up \in [Launch -> Seq(BOOLEAN)]
    /\ down \in [Launch -> Seq({0})]
    /\ jail \in [Launch -> Jail]

\* Nothing of the child is there before it is cloned.
NotYetCloned(l) ==
    pc[l] \in {"mkdir", "settings", "clone"} => child[l] = "none" /\ main[l] = "none"

\* What the child has behind it at each of its places.
BehindIt(l) ==
    /\ child[l] \in Rooted \union {"tell"} \union Hearing \union Answered =>
          jail[l].root = "container" /\ ~ jail[l].old
    /\ child[l] \in {"caps", "filter", "exec", "payload"} => jail[l].ids
    /\ child[l] \in {"filter", "exec", "payload"} => jail[l].caps
    /\ child[l] \in {"exec", "payload"} => jail[l].filter
    /\ child[l] \notin {"none", "dead"} => \A d \in DirsOf(l) : <<l, "child">> \in tasks[d]

\* What passes over the socket pair: nothing before the child tells main, then what it
\* told; and no answer, nor a child that has had one, before the maps are written.
Mapped(l) == jail[l].userns => jail[l].maps = BothMaps

Agreement(l) ==
    /\ child[l] \in Outside \union Rooted \union {"tell"} =>
          up[l] = <<>> /\ down[l] = <<>> /\ main[l] \in {"none", "close", "read"}
    /\ up[l] # <<>> => up[l] = <<jail[l].userns>>
    /\ main[l] = "gid_map" => "uid_map" \in jail[l].maps
    /\ main[l] \in BothMaps \/ jail[l].maps # {} => jail[l].userns
    /\ main[l] = "ack" \/ down[l] # <<>> \/ child[l] \in Answered => Mapped(l)

ContainerInv ==
    /\ ContainerTypeOK
    /\ \A l \in Launch : NotYetCloned(l) /\ BehindIt(l) /\ Agreement(l)
=============================================================================
