------------------------------- MODULE KVLock -------------------------------
(***************************************************************************)
(* The locking protocol of a2_lib.c: the named semaphores                  *)
(* my_sem_write and my_sem_read (both opened with initial value 1) and the *)
(* counter readCount kept in the shared memory segment.                    *)
(*                                                                         *)
(* A process is an operating-system process that calls the library again   *)
(* and again.  Each step below is one system call on a semaphore, or one   *)
(* load or one store of readCount: an increment in C is a load and a       *)
(* store, so it is two steps.  What a caller does to the data while it is  *)
(* inside a section is left to module KVStore.                             *)
(*                                                                         *)
(* A process may be killed between any two steps.  POSIX semaphores are    *)
(* not released by the death of a process and readCount lives in shared    *)
(* memory, so Kill changes nothing but the set of dead processes: whatever *)
(* the process held stays held.                                            *)
(***************************************************************************)
EXTENDS Integers, FiniteSets

CONSTANTS
    Proc,         \* the processes that share the store
    Mortal        \* those of them that may be killed

ASSUME ProcAssumption == IsFiniteSet(Proc) /\ Mortal \subseteq Proc

VARIABLES
    pc,           \* where each process stands in the protocol
    semRead,      \* value of my_sem_read, guards readCount
    semWrite,     \* value of my_sem_write, held by the writer or the readers
    readCount,    \* this_kv_info->readCount
    tmp,          \* the value of readCount a process has loaded
    dead          \* the processes that were killed

lockVars == <<pc, semRead, semWrite, readCount, tmp, dead>>

\* Labels of kv_store_write.
WriterLabels == {"w_wait", "w_cs"}

\* Labels of kv_store_read and kv_store_read_all, which lock in the same way:
\* r_* on the way in, d_* on the way out.
ReaderLabels == {"r_lock", "r_load", "r_store", "r_waitw", "r_unlock", "r_cs",
                 "d_load", "d_store", "d_postw", "d_unlock"}

Labels == {"idle"} \union WriterLabels \union ReaderLabels

Init ==
    /\ pc = [p \in Proc |-> "idle"]
    /\ semRead = 1
    /\ semWrite = 1
    /\ readCount = 0
    /\ tmp = [p \in Proc |-> 0]
    /\ dead = {}

-----------------------------------------------------------------------------
\* A live process moves from one label to another.
Goto(p, from, to) ==
    /\ p \notin dead
    /\ pc[p] = from
    /\ pc' = [pc EXCEPT ![p] = to]
    /\ UNCHANGED dead

\* sem_wait and sem_post on the semaphore of the readers ...
WaitRead == semRead > 0 /\ semRead' = semRead - 1
PostRead == semRead' = semRead + 1

\* ... and on the semaphore of the writers.
WaitWrite == semWrite > 0 /\ semWrite' = semWrite - 1
PostWrite == semWrite' = semWrite + 1

-----------------------------------------------------------------------------
(* kv_store_write *)

StartWrite(p) ==
    /\ Goto(p, "idle", "w_wait")
    /\ UNCHANGED <<semRead, semWrite, readCount, tmp>>

\* Faulty variant: the write section is entered without waiting.
EnterWithoutWait(p) ==
    /\ Goto(p, "w_wait", "w_cs")
    /\ UNCHANGED <<semRead, semWrite, readCount, tmp>>

WriterEnter(p) ==
    /\ Goto(p, "w_wait", "w_cs")
    /\ WaitWrite
    /\ UNCHANGED <<semRead, readCount, tmp>>

WriterExit(p) ==
    /\ Goto(p, "w_cs", "idle")
    /\ PostWrite
    /\ UNCHANGED <<semRead, readCount, tmp>>

-----------------------------------------------------------------------------
(* kv_store_read and kv_store_read_all *)

StartRead(p) ==
    /\ Goto(p, "idle", "r_lock")
    /\ UNCHANGED <<semRead, semWrite, readCount, tmp>>

\* Faulty variant: readCount is incremented without my_sem_read.
EntryWithoutLock(p) ==
    /\ Goto(p, "r_lock", "r_load")
    /\ UNCHANGED <<semRead, semWrite, readCount, tmp>>

EntryLock(p) ==
    /\ Goto(p, "r_lock", "r_load")
    /\ WaitRead
    /\ UNCHANGED <<semWrite, readCount, tmp>>

EntryLoad(p) ==
    /\ Goto(p, "r_load", "r_store")
    /\ tmp' = [tmp EXCEPT ![p] = readCount]
    /\ UNCHANGED <<semRead, semWrite, readCount>>

\* The store of the increment and the test that follows it.
EntryStore(p) ==
    /\ readCount' = tmp[p] + 1
    /\ Goto(p, "r_store", IF readCount' = 1 THEN "r_waitw" ELSE "r_unlock")
    /\ UNCHANGED <<semRead, semWrite, tmp>>

\* The first reader waits for the writers while it holds my_sem_read.
FirstReaderWait(p) ==
    /\ Goto(p, "r_waitw", "r_unlock")
    /\ WaitWrite
    /\ UNCHANGED <<semRead, readCount, tmp>>

EntryUnlock(p) ==
    /\ Goto(p, "r_unlock", "r_cs")
    /\ PostRead
    /\ UNCHANGED <<semWrite, readCount, tmp>>

\* The read section ends at the second sem_wait(my_sem_read).
ExitLock(p) ==
    /\ Goto(p, "r_cs", "d_load")
    /\ WaitRead
    /\ UNCHANGED <<semWrite, readCount, tmp>>

ExitLoad(p) ==
    /\ Goto(p, "d_load", "d_store")
    /\ tmp' = [tmp EXCEPT ![p] = readCount]
    /\ UNCHANGED <<semRead, semWrite, readCount>>

\* Faulty variant: every leaving reader lets the writers in.
EveryReaderPosts(p) ==
    /\ readCount' = tmp[p] - 1
    /\ Goto(p, "d_store", "d_postw")
    /\ UNCHANGED <<semRead, semWrite, tmp>>

ExitStore(p) ==
    /\ readCount' = tmp[p] - 1
    /\ Goto(p, "d_store", IF readCount' = 0 THEN "d_postw" ELSE "d_unlock")
    /\ UNCHANGED <<semRead, semWrite, tmp>>

\* Faulty variant: the last reader leaves without letting the writers in.
LastReaderKeeps(p) ==
    /\ Goto(p, "d_postw", "d_unlock")
    /\ UNCHANGED <<semRead, semWrite, readCount, tmp>>

LastReaderPost(p) ==
    /\ Goto(p, "d_postw", "d_unlock")
    /\ PostWrite
    /\ UNCHANGED <<semRead, readCount, tmp>>

ExitUnlock(p) ==
    /\ Goto(p, "d_unlock", "idle")
    /\ PostRead
    /\ UNCHANGED <<semWrite, readCount, tmp>>

-----------------------------------------------------------------------------
\* Faulty variant: a lock that the system releases when its holder dies.
KillReleases(p) ==
    /\ p \in Mortal \ dead
    /\ dead' = dead \union {p}
    /\ semWrite' = IF pc[p] = "w_cs" THEN semWrite + 1 ELSE semWrite
    /\ UNCHANGED <<pc, semRead, readCount, tmp>>

Kill(p) ==
    /\ p \in Mortal \ dead
    /\ dead' = dead \union {p}
    /\ UNCHANGED <<pc, semRead, semWrite, readCount, tmp>>

WriterStep(p) == StartWrite(p) \/ WriterEnter(p) \/ WriterExit(p)

ReaderEntry(p) ==
    \/ StartRead(p) \/ EntryLock(p) \/ EntryLoad(p) \/ EntryStore(p)
    \/ FirstReaderWait(p) \/ EntryUnlock(p)

ReaderExit(p) ==
    ExitLock(p) \/ ExitLoad(p) \/ ExitStore(p) \/ LastReaderPost(p) \/ ExitUnlock(p)

LockNext ==
    \E p \in Proc : WriterStep(p) \/ ReaderEntry(p) \/ ReaderExit(p) \/ Kill(p)

LockSpec == Init /\ [][LockNext]_lockVars

-----------------------------------------------------------------------------
(* Properties *)

LockTypeOK ==
    /\ pc \in [Proc -> Labels]
    /\ semRead \in {0, 1}
    /\ semWrite \in {0, 1}
    /\ readCount \in 0 .. Cardinality(Proc)
    /\ tmp \in [Proc -> 0 .. Cardinality(Proc)]
    /\ dead \subseteq Mortal

\* The processes inside the read section and inside the write section.
InReadSection == {p \in Proc : pc[p] = "r_cs"}
InWriteSection == {p \in Proc : pc[p] = "w_cs"}

\* A process in the write section of kv_store_write is alone: no other process
\* writes, and none is between the first sem_post(my_sem_read) and the second
\* sem_wait(my_sem_read) of a read.
MutualExclusion ==
    \A p \in InWriteSection : InWriteSection = {p} /\ InReadSection = {}

\* The processes whose increment of readCount is stored and whose decrement is not.
Registered == {p \in Proc : pc[p] \in {"r_waitw", "r_unlock", "r_cs", "d_load", "d_store"}}

\* readCount is exactly the number of registered readers at every step, the killed
\* ones included: no increment and no decrement is lost between load and store.
ReadCountExact == readCount = Cardinality(Registered)

\* The processes that hold my_sem_read.
ReadHolders ==
    {p \in Proc : pc[p] \in {"r_load", "r_store", "r_waitw", "r_unlock",
                             "d_load", "d_store", "d_postw", "d_unlock"}}

\* The processes by which my_sem_write is held: the writer, or the readers as a group.
WriteHolders ==
    {p \in Proc : pc[p] \in {"w_cs", "r_unlock", "r_cs", "d_load", "d_store", "d_postw"}}

\* my_sem_read is down exactly while one process holds it, and never two.
SemReadExact ==
    /\ semRead = 1 <=> ReadHolders = {}
    /\ \A p, q \in ReadHolders : p = q

\* my_sem_write is down exactly while a writer or the group of readers holds it,
\* and a writer never shares it.
SemWriteExact ==
    /\ semWrite = 1 <=> WriteHolders = {}
    /\ \A p \in InWriteSection : WriteHolders = {p}

\* What a process knows of readCount between its load and the end of its turn.
LocalCopyExact ==
    \A p \in Proc :
        /\ pc[p] \in {"r_store", "d_store"} => tmp[p] = readCount
        /\ pc[p] = "r_waitw" => readCount = 1
        /\ pc[p] = "d_postw" => readCount = 0

\* The inductive invariant: the two semaphores and readCount agree with the places
\* the processes have reached, the killed ones included.
LockInv ==
    /\ LockTypeOK
    /\ SemReadExact
    /\ SemWriteExact
    /\ ReadCountExact
    /\ LocalCopyExact

\* A process whose death leaves no semaphore down and readCount as it should be.
Harmless(p) == pc[p] \in {"idle", "w_wait", "r_lock"}

\* A live process whose next step waits for no semaphore, or for one that is up.
CanGo(p) ==
    /\ p \notin dead
    /\ pc[p] \in {"w_wait", "r_waitw"} => semWrite = 1
    /\ pc[p] \in {"r_lock", "r_cs"} => semRead = 1

\* Never does everybody wait for everybody: the first reader waits for my_sem_write
\* while it holds my_sem_read, which a leaving reader needs, and still some live
\* process can go on, as long as no process was killed inside the protocol.
NoStandstill ==
    Proc # dead /\ (\A p \in dead : Harmless(p)) => \E p \in Proc : CanGo(p)

\* The killed processes by which my_sem_write is still held.
DeadHolders == dead \intersect WriteHolders

\* A process killed while the write lock is held on its behalf is never replaced: it
\* stays a holder and no writer enters after it, because no code path posts a
\* semaphore for a dead process and readCount cannot come back to zero.
DeadHolderIsNeverReplaced ==
    [][DeadHolders # {} =>
         /\ DeadHolders \subseteq DeadHolders'
         /\ ~ \E p \in Proc : pc[p] = "w_wait" /\ pc'[p] = "w_cs"]_lockVars

\* The protocol implements the readers-writer lock: a read section begins only while
\* nobody writes and a write section only while nobody reads or writes.
Lock == INSTANCE RWLock WITH reading <- InReadSection, writing <- InWriteSection

ImplementsRWLock == Lock!Spec
=============================================================================
