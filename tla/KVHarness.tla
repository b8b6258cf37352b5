----------------------------- MODULE KVHarness ------------------------------
(***************************************************************************)
(* comp310_a2_test2.c: a parent that forks the writers of each round,      *)
(* lets them go with a semaphore as a barrier, waits for them, counts the  *)
(* values they wrote and takes the store away; and the handler that ends   *)
(* all of it on a signal.  The program may be launched again when it has   *)
(* ended.                                                                  *)
(*                                                                         *)
(* Process 0 is the parent, process c the c-th child of the round.  The    *)
(* store is reduced to the names it leaves in the system (shared memory    *)
(* and two semaphores) and to the number of values under the key of the    *)
(* round, which is a new random string each time.  Names are unlinked only *)
(* when nobody else uses them (ParentAlone), and the program is launched   *)
(* again only when no process of the launch before is alive (bound), so a  *)
(* name and its object are one.                                            *)
(*                                                                         *)
(* A signal reaches one process, or, from the terminal, all of them; it is *)
(* pending until the handler runs.  Where it finds no handler yet the      *)
(* program has just started, and it is as if it had not.                   *)
(***************************************************************************)
EXTENDS Integers, FiniteSets

CONSTANTS
    FORK_NUM,          \* children of a round (4)
    RUN_ITERATIONS,    \* rounds (2000)
    Writes,            \* values each child writes
    MaxLaunches,       \* bound: launches of the program
    MaxForkFailures,   \* bound: forks that fail in one launch
    MaxSignals         \* bound: signals sent

ASSUME HarnessAssumption ==
    /\ FORK_NUM \in Nat \ {0} /\ RUN_ITERATIONS \in Nat \ {0} /\ Writes \in Nat \ {0}
    /\ MaxLaunches \in Nat /\ MaxForkFailures \in Nat /\ MaxSignals \in Nat

VARIABLES
    pc,           \* where each process stands
    n,            \* its loop counter
    pids,         \* its copy of the array pids
    unreaped,     \* the children that the parent has not waited for
    barrier,      \* open_sem_lock
    names,        \* the names in the system: shm, and the values of the semaphores
    stored,       \* values under the key of the round
    round, errors, launch,
    failedForks,  \* forks of this launch that have failed
    pending,      \* the processes with a signal to handle
    from,         \* history: where the handler has interrupted each process
    signals,      \* signals sent so far
    abandoned,    \* history: a process was killed while the names of the store existed
    outsiders     \* history: this launch has killed the processes of others

process == <<pc, n, pids>>
store == <<names, stored>>
loop == <<round, errors>>
fault == <<launch, failedForks>>
signal == <<pending, from, signals, abandoned, outsiders>>
vars == <<process, unreaped, barrier, store, loop, fault, signal>>

Child == 1 .. FORK_NUM
Process == 0 .. FORK_NUM

\* The value of a semaphore whose name does not exist; sem_open then makes it with 1.
Absent == -1
NoNames == [shm |-> FALSE, writers |-> Absent, readers |-> Absent]

Ended == {"none", "exited", "killed"}
Alive(p) == pc[p] \notin Ended
Over == \A p \in Process : ~ Alive(p)

Init ==
    /\ pc = [p \in Process |-> "none"]
    /\ n = [p \in Process |-> 1]
    /\ pids = [p \in Process |-> [c \in Child |-> 0]]
    /\ unreaped = {} /\ barrier = 0
    /\ names = NoNames /\ stored = 0
    /\ round = 0 /\ errors = 0 /\ launch = 0 /\ failedForks = 0
    /\ pending = {} /\ from = [p \in Process |-> "none"]
    /\ signals = 0 /\ abandoned = FALSE /\ outsiders = FALSE

Goto(p, here, there) == pc[p] = here /\ pc' = [pc EXCEPT ![p] = there]

-----------------------------------------------------------------------------
(* The parent *)

\* kill_shared_mem and the new barrier.  The semaphores of the store stay.
\* Bound: nobody starts the program while a process of the launch before is alive.
Start ==
    /\ Over /\ launch < MaxLaunches
    /\ launch' = launch + 1
    /\ pc' = [p \in Process |-> IF p = 0 THEN "round" ELSE "none"]
    /\ pids' = [p \in Process |-> [c \in Child |-> 0]]
    /\ barrier' = 0 /\ unreaped' = {}
    /\ names' = [names EXCEPT !.shm = FALSE]
    /\ round' = 1 /\ errors' = 0 /\ failedForks' = 0
    /\ pending' = {} /\ from' = [p \in Process |-> "none"]
    /\ outsiders' = FALSE
    /\ UNCHANGED <<n, stored, signals, abandoned>>

\* The array is set to -1, and there is a new key.
StartRound ==
    /\ Goto(0, "round", "fork")
    /\ pids' = [pids EXCEPT ![0] = [c \in Child |-> -1]]
    /\ n' = [n EXCEPT ![0] = 1]
    /\ stored' = 0
    /\ UNCHANGED <<unreaped, barrier, names, loop, fault, signal>>

\* fork returns in both; neither has stored its result yet.
Fork ==
    /\ pc[0] = "fork"
    /\ LET c == n[0]
       IN  /\ pc' = [pc EXCEPT ![0] = "forked", ![c] = "born"]
           /\ pids' = [pids EXCEPT ![c] = pids[0]]
           /\ n' = [n EXCEPT ![c] = 1]
           /\ unreaped' = unreaped \union {c}
           /\ pending' = pending \ {c}
           /\ from' = [from EXCEPT ![c] = "none"]
    /\ UNCHANGED <<barrier, store, loop, fault, signals, abandoned, outsiders>>

ForkFails ==
    /\ failedForks < MaxForkFailures
    /\ Goto(0, "fork", "forked")
    /\ failedForks' = failedForks + 1
    /\ UNCHANGED <<n, pids, unreaped, barrier, store, loop, launch, signal>>

\* The result is stored; after the last one the parent decides whether it is the parent.
\* If not, it takes the branch of the children and waits at the barrier for a post.
StorePid ==
    /\ pc[0] = "forked"
    /\ LET c == n[0]
           result == IF c \in unreaped THEN c ELSE -1
           isLast == c = FORK_NUM
       IN  /\ pids' = [pids EXCEPT ![0][c] = result]
           /\ n' = [n EXCEPT ![0] = IF isLast THEN 1 ELSE c + 1]
           /\ pc' = [pc EXCEPT ![0] = IF ~ isLast THEN "fork"
                                      ELSE IF result > 0 THEN "post" ELSE "barrier"]
    /\ UNCHANGED <<unreaped, barrier, store, loop, fault, signal>>

PostTimes(k) ==
    /\ Goto(0, "post", "wait")
    /\ names' = [names EXCEPT !.shm = TRUE]
    /\ barrier' = barrier + k
    /\ UNCHANGED <<n, pids, unreaped, stored, loop, fault, signal>>

\* Faulty variant: one post too few.
PostFewer == PostTimes(FORK_NUM - 1)

\* kv_store_create, and a post for each child (also for one that was not forked).
Post == PostTimes(FORK_NUM)

\* The children a waitpid(pid) may reap.
Waitable(pid) == IF pid = -1 THEN unreaped ELSE unreaped \intersect {pid}

\* waitpid(pids[i]), up to a last i: one child, any child for -1, at once if there is none.
WaitUpTo(last) ==
    /\ pc[0] = "wait"
    /\ LET able == Waitable(pids[0][n[0]])
       IN  \/ \E c \in able : ~ Alive(c) /\ unreaped' = unreaped \ {c}
           \/ able = {} /\ UNCHANGED unreaped
    /\ n' = [n EXCEPT ![0] = IF @ >= last THEN 1 ELSE @ + 1]
    /\ pc' = [pc EXCEPT ![0] = IF n[0] >= last THEN "read" ELSE @]
    /\ UNCHANGED <<pids, barrier, store, loop, fault, signal>>

\* Faulty variant: the last child is not waited for.
WaitFewer == WaitUpTo(FORK_NUM - 1)

Wait == WaitUpTo(FORK_NUM)

\* A semaphore of the store goes down or up; down makes the name if there is none.
Down(s) == names[s] # 0 /\ names' = [names EXCEPT ![s] = 0]
Up(s) == names' = [names EXCEPT ![s] = 1]

\* The semaphore calls of kv_store_read_all by its only reader: the semaphore of the
\* readers down, that of the writers down, the first one up; the values are
\* copied; the first one down, the second one up, the first one up.
ReadAll ==
    /\ \/ Goto(0, "read", "r_waitw") /\ Down("readers")
       \/ Goto(0, "r_waitw", "r_unlock") /\ Down("writers")
       \/ Goto(0, "r_unlock", "r_cs") /\ Up("readers")
       \/ Goto(0, "r_cs", "d_postw") /\ Down("readers")
       \/ Goto(0, "d_postw", "d_unlock") /\ Up("writers")
       \/ Goto(0, "d_unlock", "count") /\ Up("readers")
    /\ UNCHANGED <<n, pids, unreaped, barrier, stored, loop, fault, signal>>

\* No value: continue, without kv_delete_db.  Otherwise the values are counted.
CountValues ==
    /\ pc[0] = "count"
    /\ errors' = IF stored = FORK_NUM * Writes THEN errors ELSE errors + 1
    /\ pc' = [pc EXCEPT ![0] = IF stored > 0 THEN "delete"
                               ELSE IF round < RUN_ITERATIONS THEN "round" ELSE "end"]
    /\ round' = IF stored = 0 /\ round < RUN_ITERATIONS THEN round + 1 ELSE round
    /\ UNCHANGED <<n, pids, unreaped, barrier, store, fault, signal>>

\* kv_delete_db, the last call of a round.
DeleteDb ==
    /\ Goto(0, "delete", IF round < RUN_ITERATIONS THEN "round" ELSE "end")
    /\ names' = NoNames /\ abandoned' = FALSE
    /\ round' = IF round < RUN_ITERATIONS THEN round + 1 ELSE round
    /\ UNCHANGED <<n, pids, unreaped, barrier, stored, errors, fault,
                   pending, from, signals, outsiders>>

\* The name of the barrier goes, and main returns.
Finish ==
    /\ Goto(0, "end", "exited")
    /\ UNCHANGED <<n, pids, unreaped, barrier, store, loop, fault, signal>>

-----------------------------------------------------------------------------
(* The branch of the children *)

GoOn(p) ==
    /\ barrier > 0
    /\ Goto(p, "barrier", "create")
    /\ UNCHANGED <<n, pids, unreaped, store, loop, fault, signal>>

\* Faulty variant: the barrier stays up.
PassNoWait(p) == GoOn(p) /\ UNCHANGED barrier

Pass(p) == GoOn(p) /\ barrier' = barrier - 1

CreateStore(p) ==
    /\ Goto(p, "create", "write")
    /\ names' = [names EXCEPT !.shm = TRUE]
    /\ UNCHANGED <<n, pids, unreaped, barrier, stored, loop, fault, signal>>

\* kv_store_write, Writes times at most.
EnterWrite(p) ==
    /\ Goto(p, "write", "writing") /\ Down("writers")
    /\ UNCHANGED <<n, pids, unreaped, barrier, stored, loop, fault, signal>>

LeaveWrite(p) ==
    /\ Goto(p, "writing", IF n[p] = Writes THEN "exited" ELSE "write") /\ Up("writers")
    /\ stored' = stored + 1
    /\ n' = [n EXCEPT ![p] = @ + 1]
    /\ UNCHANGED <<pids, unreaped, barrier, loop, fault, signal>>

\* The parent takes the branch when it could not fork the last child.  Its index is past
\* the array write_table: it writes any number of values.  Bound: at most Writes.
ParentAsChild ==
    \/ Pass(0) \/ CreateStore(0) \/ EnterWrite(0) \/ LeaveWrite(0)
    \/ Goto(0, "write", "exited")
       /\ UNCHANGED <<n, pids, unreaped, barrier, store, loop, fault, signal>>

-----------------------------------------------------------------------------
(* The children *)

StoreResult(c, result) ==
    /\ Goto(c, "born", "barrier")
    /\ pids' = [pids EXCEPT ![c][c] = result]
    /\ UNCHANGED <<n, unreaped, barrier, store, loop, fault, signal>>

\* Faulty variant: the loop is left before the result of fork is stored.
StoreNoPid(c) == StoreResult(c, pids[c][c])

\* fork has given 0, and the loop is left: later entries stay -1.
StoreZero(c) == StoreResult(c, 0)

ChildStep(c) == StoreZero(c) \/ Pass(c) \/ CreateStore(c) \/ EnterWrite(c) \/ LeaveWrite(c)

-----------------------------------------------------------------------------
(* Signals *)

\* kill(pid) to one process, or a key of the terminal to all.
Signal ==
    /\ signals < MaxSignals /\ signals' = signals + 1
    /\ \/ \E p \in Process : Alive(p) /\ pending' = pending \union {p}
       \/ ~ Over /\ pending' = {p \in Process : Alive(p)}
    /\ UNCHANGED <<process, unreaped, barrier, store, loop, fault, from, abandoned, outsiders>>

\* The handler starts, wherever the process is, and never goes back there.  Another of
\* the three signals may interrupt it in turn: it starts again.
Interrupt(p) ==
    /\ p \in pending /\ Alive(p)
    /\ pending' = pending \ {p}
    /\ from' = [from EXCEPT ![p] = IF pc[p] \in {"kill", "unlink"} THEN @ ELSE pc[p]]
    /\ pc' = [pc EXCEPT ![p] = "kill"]
    /\ n' = [n EXCEPT ![p] = 1]
    /\ UNCHANGED <<pids, unreaped, barrier, store, loop, fault, signals, abandoned, outsiders>>

\* Whom kill(pid, SIGKILL) of process p reaches: a child, the group, or everybody but p.
\* The pid of a child that was waited for is taken not to be given to another process.
Victims(p, pid) ==
    {q \in Process : /\ Alive(q)
                     /\ IF pid = 0 THEN TRUE ELSE IF pid = -1 THEN q # p ELSE q = pid}

\* One turn of the loop of intHandler, for entries from a first one on.
KillFrom(p, first) ==
    /\ pc[p] = "kill"
    /\ LET pid == pids[p][n[p]]
           victims == IF n[p] < first THEN {} ELSE Victims(p, pid)
       IN  /\ pc' = [q \in Process |-> IF q \in victims THEN "killed"
                                       ELSE IF q = p /\ n[p] = FORK_NUM THEN "unlink" ELSE pc[q]]
           /\ abandoned' = (abandoned \/ p \in victims)
           /\ outsiders' = (outsiders \/ pid = -1)
    /\ n' = [n EXCEPT ![p] = @ + 1]
    /\ UNCHANGED <<pids, unreaped, barrier, store, loop, fault, pending, from, signals>>

\* Faulty variant: the first child is forgotten.
KillAfterFirst(p) == KillFrom(p, 2)

KillOne(p) == KillFrom(p, 1)

\* The end of intHandler: names go, and the process exits.
UnlinkTo(p, left) ==
    /\ Goto(p, "unlink", "exited")
    /\ names' = left /\ abandoned' = FALSE
    /\ UNCHANGED <<n, pids, unreaped, barrier, stored, loop, fault,
                   pending, from, signals, outsiders>>

\* Faulty variant: the semaphores of the store are left to the next start.
UnlinkShmOnly(p) == UnlinkTo(p, [names EXCEPT !.shm = FALSE])

Unlink(p) == UnlinkTo(p, NoNames)

Handler(p) == Interrupt(p) \/ KillOne(p) \/ Unlink(p)

Parent ==
    \/ StartRound \/ Fork \/ ForkFails \/ StorePid \/ Post \/ Wait
    \/ ReadAll \/ CountValues \/ DeleteDb \/ Finish \/ ParentAsChild

Next ==
    \/ Start \/ Parent \/ Signal
    \/ \E c \in Child : ChildStep(c)
    \/ \E p \in Process : Handler(p)

Spec == Init /\ [][Next]_vars

\* The system runs every process, and a signal that is pending is handled.
FairSpec ==
    /\ Spec /\ WF_vars(Parent)
    /\ \A c \in Child : WF_vars(ChildStep(c))
    /\ \A p \in Process : WF_vars(Handler(p))

-----------------------------------------------------------------------------
(* Properties *)

Place == Ended \union
    {"round", "fork", "forked", "post", "wait", "read", "r_waitw", "r_unlock",
     "r_cs", "d_postw", "d_unlock", "count", "delete", "end",
     "born", "barrier", "create", "write", "writing", "kill", "unlink"}

HarnessTypeOK ==
    /\ pc \in [Process -> Place] /\ from \in [Process -> Place]
    /\ n \in [Process -> 1 .. FORK_NUM + Writes]
    /\ pids \in [Process -> [Child -> {-1, 0} \union Child]]
    /\ unreaped \subseteq Child /\ pending \subseteq Process
    /\ barrier \in Nat
    /\ names \in [shm : BOOLEAN, writers : {Absent, 0, 1}, readers : {Absent, 0, 1}]
    /\ stored \in Nat
    /\ round \in 0 .. RUN_ITERATIONS /\ errors \in 0 .. RUN_ITERATIONS
    /\ launch \in 0 .. MaxLaunches /\ failedForks \in 0 .. MaxForkFailures
    /\ abandoned \in BOOLEAN /\ outsiders \in BOOLEAN

\* Whenever the parent reads all values, or any process takes the names away, no other
\* process of the test is alive: a waitpid(-1) for a child that was not forked
\* still waits for somebody, and a handler has killed all others by then.
ParentAlone ==
    \A p \in Process :
        pc[p] \in {"read", "r_waitw", "r_unlock", "r_cs", "d_postw", "d_unlock", "count",
                   "delete", "end", "unlink"} => \A q \in Process \ {p} : ~ Alive(q)

\* The parent has passed the barrier as if it were a child, and exited: the last fork of
\* a round has failed, and an earlier failed fork had left a post over.
LeftAsChild ==
    pc[0] = "exited" /\ from[0] = "none" /\ pids[0][FORK_NUM] = -1 /\ failedForks > 1

\* No child outlives its parent but to finish a handler, unless the parent has left
\* as a child: then nobody posts for the children that are at the barrier.
NoOrphans ==
    pc[0] \in {"exited", "killed"} /\ ~ LeftAsChild =>
        \A c \in Child : Alive(c) => pc[c] \in {"kill", "unlink"}

\* The count of a round differs from what was written only after a failed fork.
CountsAgree == errors > 0 => failedForks # 0

\* The handler of a child never comes to the entries -1 of its copy of pids, because
\* its own entry 0 is before them and kill(0) ends it; so the processes of others are
\* killed only by a handler that ran before a result of fork was stored, or after
\* one fork had failed.
OutsidersAreSafe ==
    outsiders => \/ failedForks # 0 \/ from[0] \in {"fork", "forked"}
                 \/ \E c \in Child : from[c] = "born"

\* A launch that is over leaves no name behind, unless a handler killed its own
\* group before it came to the names (it ran in a child, or before the first round),
\* or the parent has left as a child, past the code that takes them away.
NamesAreGone == Over => names = NoNames \/ abandoned \/ LeftAsChild

\* A launch that finds the semaphores of the store up, or none, ends by itself, whatever
\* signals arrive and whichever forks fail, or the last child of a round could not be
\* forked and the parent stands at the barrier of the children.
LaunchEnds ==
    (pc[0] = "round" /\ round = 1 /\ names.writers # 0 /\ names.readers # 0)
        ~> (Over \/ pc[0] = "barrier")

-----------------------------------------------------------------------------
(* The inductive invariant *)

Handling == {"kill", "unlink"}
AtWork == {"born", "barrier", "create", "write", "writing"}

\* Where the values are read, and where no child of the round is left to wait for.
Reading == {"read", "r_waitw", "r_unlock", "r_cs", "d_postw", "d_unlock", "count"}
Reaped == {"round", "delete", "end"} \union Reading

AloneIs(p) == \A q \in Process \ {p} : ~ Alive(q)

\* The parent is in main, and no child has handled a signal or was killed.
InMain == pc[0] \notin Ended \union Handling
Calm == InMain /\ \A c \in Child : pc[c] \notin Handling \union {"killed"}

\* The children that the parent has still to fork in this round.
Unforked == {c \in Child : IF pc[0] = "fork" THEN c >= n[0] ELSE pc[0] = "forked" /\ c > n[0]}

\* A child whose fork is over.
Settled(c) == pc[0] \notin {"fork", "forked"} \/ c < n[0]

PlacesAgree ==
    /\ pc[0] \in Ended \union Handling \union Reaped \union
                 {"fork", "forked", "post", "wait"} \union (AtWork \ {"born"})
    /\ \A c \in Child : pc[c] \in Ended \union Handling \union AtWork
    /\ \A p \in Process, c \in Child : pids[p][c] \in {0, -1, c}
    /\ pc[0] \in {"fork", "forked", "wait", "kill"} => n[0] \in Child
    /\ pc[0] = "post" => n[0] = 1
    /\ pc[0] \in AtWork => n[0] \in 1 .. Writes

\* What the parent knows of the children it has forked and not waited for: an alive child
\* is one of them, and its entry is its own number, or -1 until that is stored.
ParentAgrees ==
    /\ \A c \in Child : Alive(c) => c \in unreaped /\ pids[0][c] # 0
    /\ \A c \in Unforked : pids[0][c] = -1 /\ c \notin unreaped /\ pc[c] \in {"none", "exited"}
    /\ pc[0] = "forked" => pids[0][n[0]] = -1 /\ (n[0] \in unreaped \/ failedForks # 0)
    /\ pc[0] \in {"fork", "forked", "post", "wait"} =>
          \A c \in unreaped : Settled(c) => pids[0][c] = c
    /\ InMain => \A c \in Child : (Settled(c) /\ pids[0][c] = -1) => failedForks # 0
    /\ pc[0] = "wait" => \A c \in unreaped : c >= n[0]
    /\ pc[0] \in Reaped => unreaped = {} /\ \A c \in Child : pc[c] \in {"none", "exited"}

\* The last child is forked before the posts, and has written when it has been waited for.
LastWrites ==
    /\ InMain => \A c \in unreaped : pc[c] \in {"none", "exited"} => stored > 0
    /\ pc[0] = "post" => FORK_NUM \in unreaped
    /\ pc[0] = "wait" => \/ FORK_NUM \in unreaped \/ stored > 0
                         \/ \E c \in Child : pc[c] = "killed"
    /\ pc[0] \in Reading => stored > 0
    /\ pc[0] = "end" => names = NoNames

\* The entry of a child in its own array is 0 but before it is stored, and an entry of
\* an older child is -1 only if that could not be forked.  Its handler leaves nobody
\* alive when it has come past its own entry.
ChildAgrees ==
    \A c \in Child :
        /\ Alive(c) => /\ pids[c][c] = IF "born" \in {pc[c], from[c]} THEN -1 ELSE 0
                       /\ \A b \in Child : (b < c /\ pids[c][b] = -1) => failedForks # 0
        /\ pc[c] = "kill" => n[c] \in Child /\ (n[c] > c => from[c] = "born" /\ AloneIs(c))
        /\ pc[c] \in AtWork => n[c] \in 1 .. Writes /\ from[c] = "none"

\* The handler of the parent has killed the children before the entry it is at, and
\* whoever comes to the names is alone.  The parent goes on only while the handler
\* of a child that kills others goes on too.
HandlersAgree ==
    /\ pc[0] = "kill" => \A c \in Child : Alive(c) => c >= n[0]
    /\ \A p \in Process : pc[p] = "unlink" => AloneIs(p)
    /\ pc[0] \in Handling => \A c \in Child : pids[0][c] = -1 =>
                                 (failedForks # 0 \/ from[0] \in {"fork", "forked"})
    /\ (InMain /\ \E c \in Child : pc[c] = "killed") => \E c \in Child : pc[c] = "kill"
    /\ pc[0] \in Ended /\ ~ LeftAsChild => \A c \in Child : Alive(c) => pc[c] \in Handling
    /\ outsiders => ~ InMain

\* The values that are still to be written in this round, each with its writer.
ToCome == {x \in Child \X (1 .. Writes) :
              x[1] \in Unforked \/ (pc[x[1]] \in AtWork /\ x[2] >= n[x[1]])}

\* The parent is in a round whose values it will count.
Counting == InMain /\ pc[0] \notin {"round"} \union AtWork

ValuesAgree ==
    Counting =>
        /\ stored + Cardinality(ToCome) <= FORK_NUM * Writes
        /\ Calm /\ failedForks = 0 => stored + Cardinality(ToCome) = FORK_NUM * Writes

\* The children that have yet to pass the barrier; each failed fork may leave a post over.
ToPass == {c \in Child : c \in Unforked \/ pc[c] \in {"born", "barrier"}}

PostsAgree ==
    /\ Calm /\ pc[0] \in {"fork", "forked", "post"} =>
          barrier + FORK_NUM <= Cardinality(ToPass) + failedForks
    /\ Calm /\ pc[0] \in {"wait"} \union Reaped => barrier <= Cardinality(ToPass) + failedForks
    /\ pc[0] \in {"round", "fork", "forked", "post"} => barrier <= failedForks

\* The parent comes to the barrier only with a failed fork that has left no post, and
\* it passes only if another one has.
BranchAgrees ==
    /\ pc[0] = "barrier" => pids[0][FORK_NUM] = -1 /\ barrier < failedForks
    /\ pc[0] \in {"create", "write", "writing"} => pids[0][FORK_NUM] = -1 /\ failedForks > 1
    /\ pc[0] = "forked" /\ n[0] \notin unreaped => barrier < failedForks
    /\ InMain => from[0] = "none"

RoundsAgree ==
    /\ errors <= round
    /\ InMain /\ pc[0] \notin {"delete", "end"} => errors < round

HarnessInv ==
    /\ HarnessTypeOK
    /\ PlacesAgree /\ ParentAgrees /\ LastWrites /\ ChildAgrees /\ HandlersAgree
    /\ ValuesAgree /\ PostsAgree /\ BranchAgrees /\ RoundsAgree
    /\ CountsAgree /\ OutsidersAreSafe /\ NamesAreGone
=============================================================================
