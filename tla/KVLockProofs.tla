---------------------------- MODULE KVLockProofs ----------------------------
(***************************************************************************)
(* Proofs about KVLock, for any finite set of processes of which any may   *)
(* be killed at any step.                                                  *)
(***************************************************************************)
EXTENDS KVLock, FiniteSetTheorems, TLAPS

\* Goto moves one process and leaves the others where they are.
LEMMA GotoMoves ==
    ASSUME pc \in [Proc -> Labels], NEW p \in Proc,
           NEW from, NEW to \in Labels, Goto(p, from, to)
    PROVE  /\ pc' \in [Proc -> Labels]
           /\ pc[p] = from
           /\ pc'[p] = to
           /\ \A q \in Proc : q # p => pc'[q] = pc[q]
           /\ dead' = dead
BY DEF Goto

\* Any set of processes is finite, so its size is a natural number.
LEMMA ProcSetFinite ==
    ASSUME NEW S \in SUBSET Proc
    PROVE  /\ IsFiniteSet(S)
           /\ Cardinality(S) \in Nat
           /\ Cardinality(S) <= Cardinality(Proc)
           /\ Cardinality(S) = 0 <=> S = {}
BY ProcAssumption, FS_Subset, FS_CardinalityType, FS_EmptySet

\* readCount is in range because it counts processes.
LEMMA CountInRange ==
    ASSUME ReadCountExact
    PROVE  readCount \in 0 .. Cardinality(Proc)
<1>1. Registered \in SUBSET Proc
  BY DEF Registered
<1>2. Cardinality(Proc) \in Nat
  BY ProcAssumption, FS_CardinalityType
<1>. QED
  BY <1>1, <1>2, ProcSetFinite DEF ReadCountExact

LEMMA InitLockInv == Init => LockInv
<1>. SUFFICES ASSUME Init PROVE LockInv
  OBVIOUS
<1>1. Cardinality(Proc) \in Nat
  BY ProcAssumption, FS_CardinalityType
<1>2. Registered = {} /\ ReadHolders = {} /\ WriteHolders = {} /\ InWriteSection = {}
  BY DEF Init, Registered, ReadHolders, WriteHolders, InWriteSection
<1>3. LockTypeOK
  BY <1>1 DEF Init, LockTypeOK, Labels
<1>4. ReadCountExact
  BY <1>2, FS_EmptySet DEF Init, ReadCountExact
<1>5. SemReadExact /\ SemWriteExact /\ LocalCopyExact
  BY <1>2 DEF Init, SemReadExact, SemWriteExact, LocalCopyExact
<1>. QED
  BY <1>3, <1>4, <1>5 DEF LockInv

-----------------------------------------------------------------------------
(***************************************************************************)
(* One lemma per action: the action preserves the inductive invariant.     *)
(* Each first says how the sets of holders change, then takes the parts of *)
(* the invariant in turn.                                                  *)
(***************************************************************************)

\* The actions that touch neither a semaphore nor readCount and leave the sets alone.
LEMMA StartPreserves ==
    ASSUME LockInv, NEW p \in Proc, StartWrite(p) \/ StartRead(p)
    PROVE  LockInv'
<1>. USE DEF LockInv
<1>1. PICK to \in {"w_wait", "r_lock"} : Goto(p, "idle", to)
  BY DEF StartWrite, StartRead
<1>2. /\ pc' \in [Proc -> Labels]
      /\ pc[p] = "idle" /\ pc'[p] = to
      /\ \A q \in Proc : q # p => pc'[q] = pc[q]
      /\ dead' = dead
  BY <1>1, GotoMoves DEF LockTypeOK, Labels, WriterLabels, ReaderLabels
<1>3. UNCHANGED <<semRead, semWrite, readCount, tmp>>
  BY DEF StartWrite, StartRead
<1>4. /\ Registered' = Registered
      /\ ReadHolders' = ReadHolders
      /\ WriteHolders' = WriteHolders
      /\ InWriteSection' = InWriteSection
  BY <1>2 DEF Registered, ReadHolders, WriteHolders, InWriteSection
<1>5. LockTypeOK'
  BY <1>2, <1>3 DEF LockTypeOK
<1>6. SemReadExact' /\ SemWriteExact' /\ ReadCountExact'
  BY <1>3, <1>4 DEF SemReadExact, SemWriteExact, ReadCountExact
<1>7. LocalCopyExact'
  BY <1>2, <1>3 DEF LocalCopyExact
<1>. QED
  BY <1>5, <1>6, <1>7

LEMMA WriterEnterPreserves ==
    ASSUME LockInv, NEW p \in Proc, WriterEnter(p)
    PROVE  LockInv'
<1>. USE DEF LockInv
<1>1. /\ pc' \in [Proc -> Labels]
      /\ pc[p] = "w_wait" /\ pc'[p] = "w_cs"
      /\ \A q \in Proc : q # p => pc'[q] = pc[q]
      /\ dead' = dead
  BY GotoMoves DEF WriterEnter, LockTypeOK, Labels, WriterLabels
<1>2. semWrite = 1 /\ semWrite' = 0 /\ UNCHANGED <<semRead, readCount, tmp>>
  BY DEF WriterEnter, WaitWrite, LockTypeOK
<1>3. /\ Registered' = Registered
      /\ ReadHolders' = ReadHolders
      /\ WriteHolders' = WriteHolders \union {p}
      /\ InWriteSection' = InWriteSection \union {p}
  BY <1>1 DEF Registered, ReadHolders, WriteHolders, InWriteSection
<1>4. WriteHolders = {} /\ InWriteSection = {}
  BY <1>2 DEF SemWriteExact, WriteHolders, InWriteSection
<1>5. LockTypeOK'
  BY <1>1, <1>2 DEF LockTypeOK
<1>6. SemReadExact' /\ ReadCountExact'
  BY <1>2, <1>3 DEF SemReadExact, ReadCountExact
<1>7. SemWriteExact'
  BY <1>2, <1>3, <1>4 DEF SemWriteExact
<1>8. LocalCopyExact'
  BY <1>1, <1>2 DEF LocalCopyExact
<1>. QED
  BY <1>5, <1>6, <1>7, <1>8

LEMMA WriterExitPreserves ==
    ASSUME LockInv, NEW p \in Proc, WriterExit(p)
    PROVE  LockInv'
<1>. USE DEF LockInv
<1>1. /\ pc' \in [Proc -> Labels]
      /\ pc[p] = "w_cs" /\ pc'[p] = "idle"
      /\ \A q \in Proc : q # p => pc'[q] = pc[q]
      /\ dead' = dead
  BY GotoMoves DEF WriterExit, LockTypeOK, Labels
<1>2. p \in InWriteSection /\ WriteHolders = {p}
  BY <1>1 DEF InWriteSection, SemWriteExact
<1>3. semWrite' = 1 /\ UNCHANGED <<semRead, readCount, tmp>>
  BY <1>2 DEF WriterExit, PostWrite, LockTypeOK, SemWriteExact
<1>4. /\ Registered' = Registered
      /\ ReadHolders' = ReadHolders
      /\ WriteHolders' = WriteHolders \ {p}
      /\ InWriteSection' = InWriteSection \ {p}
  BY <1>1 DEF Registered, ReadHolders, WriteHolders, InWriteSection
<1>5. LockTypeOK'
  BY <1>1, <1>3 DEF LockTypeOK
<1>6. SemReadExact' /\ ReadCountExact'
  BY <1>3, <1>4 DEF SemReadExact, ReadCountExact
<1>7. SemWriteExact'
  BY <1>2, <1>3, <1>4 DEF SemWriteExact
<1>8. LocalCopyExact'
  BY <1>1, <1>3 DEF LocalCopyExact
<1>. QED
  BY <1>5, <1>6, <1>7, <1>8

\* Both ends of a read take my_sem_read in the same way.
LEMMA TakeReadPreserves ==
    ASSUME LockInv, NEW p \in Proc, EntryLock(p) \/ ExitLock(p)
    PROVE  LockInv'
<1>. USE DEF LockInv
<1>1. PICK from \in {"r_lock", "r_cs"}, to \in {"r_load", "d_load"} :
        /\ Goto(p, from, to)
        /\ from = "r_lock" <=> to = "r_load"
  BY DEF EntryLock, ExitLock
<1>2. /\ pc' \in [Proc -> Labels]
      /\ pc[p] = from /\ pc'[p] = to
      /\ \A q \in Proc : q # p => pc'[q] = pc[q]
      /\ dead' = dead
  BY <1>1, GotoMoves DEF LockTypeOK, Labels, ReaderLabels
<1>3. semRead = 1 /\ semRead' = 0 /\ UNCHANGED <<semWrite, readCount, tmp>>
  BY DEF EntryLock, ExitLock, WaitRead, LockTypeOK
<1>4. /\ Registered' = Registered
      /\ ReadHolders' = ReadHolders \union {p}
      /\ WriteHolders' = WriteHolders
      /\ InWriteSection' = InWriteSection
  BY <1>1, <1>2 DEF Registered, ReadHolders, WriteHolders, InWriteSection
<1>5. ReadHolders = {}
  BY <1>3 DEF SemReadExact
<1>6. LockTypeOK'
  BY <1>2, <1>3 DEF LockTypeOK
<1>7. SemWriteExact' /\ ReadCountExact'
  BY <1>3, <1>4 DEF SemWriteExact, ReadCountExact
<1>8. SemReadExact'
  BY <1>3, <1>4, <1>5 DEF SemReadExact
<1>9. LocalCopyExact'
  BY <1>2, <1>3 DEF LocalCopyExact
<1>. QED
  BY <1>6, <1>7, <1>8, <1>9

\* Both loads of readCount.
LEMMA LoadPreserves ==
    ASSUME LockInv, NEW p \in Proc, EntryLoad(p) \/ ExitLoad(p)
    PROVE  LockInv'
<1>. USE DEF LockInv
<1>1. PICK from \in {"r_load", "d_load"}, to \in {"r_store", "d_store"} :
        /\ Goto(p, from, to)
        /\ from = "r_load" <=> to = "r_store"
  BY DEF EntryLoad, ExitLoad
<1>2. /\ pc' \in [Proc -> Labels]
      /\ pc[p] = from /\ pc'[p] = to
      /\ \A q \in Proc : q # p => pc'[q] = pc[q]
      /\ dead' = dead
  BY <1>1, GotoMoves DEF LockTypeOK, Labels, ReaderLabels
<1>3. /\ tmp' = [tmp EXCEPT ![p] = readCount]
      /\ UNCHANGED <<semRead, semWrite, readCount>>
  BY DEF EntryLoad, ExitLoad
<1>4. /\ Registered' = Registered
      /\ ReadHolders' = ReadHolders
      /\ WriteHolders' = WriteHolders
      /\ InWriteSection' = InWriteSection
  BY <1>1, <1>2 DEF Registered, ReadHolders, WriteHolders, InWriteSection
<1>5. LockTypeOK'
  BY <1>2, <1>3 DEF LockTypeOK
<1>6. SemReadExact' /\ SemWriteExact' /\ ReadCountExact'
  BY <1>3, <1>4 DEF SemReadExact, SemWriteExact, ReadCountExact
<1>7. LocalCopyExact'
  BY <1>2, <1>3 DEF LocalCopyExact, LockTypeOK
<1>. QED
  BY <1>5, <1>6, <1>7

\* The registering store: the reader holds my_sem_read, so the value it loaded is
\* still readCount.  If others are registered they are all in the read section and
\* hold my_sem_write; if none is, the reader goes on to wait for it.
LEMMA EntryStorePreserves ==
    ASSUME LockInv, NEW p \in Proc, EntryStore(p)
    PROVE  LockInv'
<1>. USE DEF LockInv
<1>. DEFINE to == IF readCount' = 1 THEN "r_waitw" ELSE "r_unlock"
<1>1. /\ pc' \in [Proc -> Labels]
      /\ pc[p] = "r_store" /\ pc'[p] = to
      /\ \A q \in Proc : q # p => pc'[q] = pc[q]
      /\ dead' = dead
  <2>1. to \in Labels /\ Goto(p, "r_store", to)
    BY DEF EntryStore, Labels, ReaderLabels
  <2>. QED
    BY <2>1, GotoMoves DEF LockTypeOK
<1>2. tmp[p] = readCount /\ ReadHolders = {p}
  BY <1>1 DEF LocalCopyExact, SemReadExact, ReadHolders
<1>3. readCount' = readCount + 1 /\ UNCHANGED <<semRead, semWrite, tmp>>
  BY <1>2 DEF EntryStore
<1>4. /\ p \notin Registered
      /\ Registered' = Registered \union {p}
      /\ ReadHolders' = ReadHolders
      /\ InWriteSection' = InWriteSection
  BY <1>1 DEF Registered, ReadHolders, InWriteSection
<1>5. ReadCountExact'
  <2>1. IsFiniteSet(Registered) /\ readCount = Cardinality(Registered)
    BY ProcSetFinite DEF Registered, ReadCountExact
  <2>2. Cardinality(Registered \union {p}) = Cardinality(Registered) + 1
    BY <2>1, <1>4, FS_AddElement
  <2>. QED
    BY <2>1, <2>2, <1>3, <1>4 DEF ReadCountExact
<1>6. LockTypeOK'
  <2>1. readCount' \in 0 .. Cardinality(Proc)
    <3>1. Registered' \in SUBSET Proc
      BY DEF Registered
    <3>. QED
      BY <3>1, <1>5, ProcSetFinite, ProcAssumption, FS_CardinalityType DEF ReadCountExact
  <2>. QED
    BY <2>1, <1>1, <1>3 DEF LockTypeOK
<1>7. SemReadExact'
  BY <1>3, <1>4 DEF SemReadExact
<1>8. LocalCopyExact'
  BY <1>1, <1>2, <1>3 DEF LocalCopyExact, ReadHolders, LockTypeOK
<1>9. SemWriteExact'
  <2>1. CASE readCount' = 1
    <3>1. WriteHolders' = WriteHolders
      BY <1>1, <2>1 DEF WriteHolders
    <3>. QED
      BY <3>1, <1>3, <1>4 DEF SemWriteExact
  <2>2. CASE readCount' # 1
    <3>1. WriteHolders' = WriteHolders \union {p}
      BY <1>1, <2>2 DEF WriteHolders
    <3>2. PICK q \in Registered : q \in WriteHolders /\ q \notin InWriteSection
      <4>1. Registered # {}
        <5>1. readCount \in Nat /\ readCount # 0
          BY <2>2, <1>3, CountInRange, ProcAssumption, FS_CardinalityType
        <5>. QED
          BY <5>1, FS_EmptySet DEF ReadCountExact
      <4>2. \A q \in Registered : q # p /\ pc[q] = "r_cs"
        BY <1>2, <1>4 DEF Registered, ReadHolders
      <4>. QED
        BY <4>1, <4>2 DEF Registered, WriteHolders, InWriteSection
    <3>3. semWrite = 0 /\ InWriteSection = {}
      <4>1. InWriteSection \subseteq WriteHolders
        BY DEF InWriteSection, WriteHolders
      <4>. QED
        BY <3>2, <4>1 DEF SemWriteExact, LockTypeOK
    <3>. QED
      BY <3>1, <3>3, <1>3, <1>4 DEF SemWriteExact
  <2>. QED
    BY <2>1, <2>2
<1>. QED
  BY <1>5, <1>6, <1>7, <1>8, <1>9

LEMMA FirstReaderWaitPreserves ==
    ASSUME LockInv, NEW p \in Proc, FirstReaderWait(p)
    PROVE  LockInv'
<1>. USE DEF LockInv
<1>1. /\ pc' \in [Proc -> Labels]
      /\ pc[p] = "r_waitw" /\ pc'[p] = "r_unlock"
      /\ \A q \in Proc : q # p => pc'[q] = pc[q]
      /\ dead' = dead
  BY GotoMoves DEF FirstReaderWait, LockTypeOK, Labels, ReaderLabels
<1>2. semWrite = 1 /\ semWrite' = 0 /\ UNCHANGED <<semRead, readCount, tmp>>
  BY DEF FirstReaderWait, WaitWrite, LockTypeOK
<1>3. /\ Registered' = Registered
      /\ ReadHolders' = ReadHolders
      /\ WriteHolders' = WriteHolders \union {p}
      /\ InWriteSection' = InWriteSection
  BY <1>1 DEF Registered, ReadHolders, WriteHolders, InWriteSection
<1>4. WriteHolders = {} /\ InWriteSection = {}
  BY <1>2 DEF SemWriteExact, WriteHolders, InWriteSection
<1>5. LockTypeOK'
  BY <1>1, <1>2 DEF LockTypeOK
<1>6. SemReadExact' /\ ReadCountExact'
  BY <1>2, <1>3 DEF SemReadExact, ReadCountExact
<1>7. SemWriteExact'
  BY <1>2, <1>3, <1>4 DEF SemWriteExact
<1>8. LocalCopyExact'
  BY <1>1, <1>2 DEF LocalCopyExact
<1>. QED
  BY <1>5, <1>6, <1>7, <1>8

\* Both ends of a read post my_sem_read in the same way.
LEMMA PostReadPreserves ==
    ASSUME LockInv, NEW p \in Proc, EntryUnlock(p) \/ ExitUnlock(p)
    PROVE  LockInv'
<1>. USE DEF LockInv
<1>1. PICK from \in {"r_unlock", "d_unlock"}, to \in {"r_cs", "idle"} :
        /\ Goto(p, from, to)
        /\ from = "r_unlock" <=> to = "r_cs"
  BY DEF EntryUnlock, ExitUnlock
<1>2. /\ pc' \in [Proc -> Labels]
      /\ pc[p] = from /\ pc'[p] = to
      /\ \A q \in Proc : q # p => pc'[q] = pc[q]
      /\ dead' = dead
  BY <1>1, GotoMoves DEF LockTypeOK, Labels, ReaderLabels
<1>3. ReadHolders = {p} /\ semRead = 0
  BY <1>2 DEF SemReadExact, ReadHolders, LockTypeOK
<1>4. semRead' = 1 /\ UNCHANGED <<semWrite, readCount, tmp>>
  BY <1>3 DEF EntryUnlock, ExitUnlock, PostRead
<1>5. /\ Registered' = Registered
      /\ ReadHolders' = {}
      /\ WriteHolders' = WriteHolders
      /\ InWriteSection' = InWriteSection
  BY <1>1, <1>2, <1>3 DEF Registered, ReadHolders, WriteHolders, InWriteSection
<1>6. LockTypeOK'
  BY <1>2, <1>4 DEF LockTypeOK
<1>7. SemWriteExact' /\ ReadCountExact'
  BY <1>4, <1>5 DEF SemWriteExact, ReadCountExact
<1>8. SemReadExact'
  BY <1>4, <1>5 DEF SemReadExact
<1>9. LocalCopyExact'
  BY <1>2, <1>4 DEF LocalCopyExact
<1>. QED
  BY <1>6, <1>7, <1>8, <1>9

\* The deregistering store: readers that remain keep my_sem_write; if none remains
\* the leaving one still holds it, and goes on to post it.
LEMMA ExitStorePreserves ==
    ASSUME LockInv, NEW p \in Proc, ExitStore(p)
    PROVE  LockInv'
<1>. USE DEF LockInv
<1>. DEFINE to == IF readCount' = 0 THEN "d_postw" ELSE "d_unlock"
<1>1. /\ pc' \in [Proc -> Labels]
      /\ pc[p] = "d_store" /\ pc'[p] = to
      /\ \A q \in Proc : q # p => pc'[q] = pc[q]
      /\ dead' = dead
  <2>1. to \in Labels /\ Goto(p, "d_store", to)
    BY DEF ExitStore, Labels, ReaderLabels
  <2>. QED
    BY <2>1, GotoMoves DEF LockTypeOK
<1>2. tmp[p] = readCount /\ ReadHolders = {p}
  BY <1>1 DEF LocalCopyExact, SemReadExact, ReadHolders
<1>3. readCount' = readCount - 1 /\ UNCHANGED <<semRead, semWrite, tmp>>
  BY <1>2 DEF ExitStore
<1>4. /\ p \in Registered
      /\ Registered' = Registered \ {p}
      /\ ReadHolders' = ReadHolders
      /\ InWriteSection' = InWriteSection
  BY <1>1 DEF Registered, ReadHolders, InWriteSection
<1>5. ReadCountExact'
  <2>1. IsFiniteSet(Registered) /\ readCount = Cardinality(Registered)
    BY ProcSetFinite DEF Registered, ReadCountExact
  <2>2. Cardinality(Registered \ {p}) = Cardinality(Registered) - 1
    BY <2>1, <1>4, FS_RemoveElement
  <2>. QED
    BY <2>1, <2>2, <1>3, <1>4 DEF ReadCountExact
<1>6. LockTypeOK'
  <2>1. readCount' \in 0 .. Cardinality(Proc)
    <3>1. Registered' \in SUBSET Proc
      BY DEF Registered
    <3>. QED
      BY <3>1, <1>5, ProcSetFinite, ProcAssumption, FS_CardinalityType DEF ReadCountExact
  <2>. QED
    BY <2>1, <1>1, <1>3 DEF LockTypeOK
<1>7. SemReadExact'
  BY <1>3, <1>4 DEF SemReadExact
<1>8. LocalCopyExact'
  BY <1>1, <1>2, <1>3 DEF LocalCopyExact, ReadHolders, LockTypeOK
<1>9. SemWriteExact'
  <2>1. p \in WriteHolders /\ semWrite = 0 /\ InWriteSection = {}
    <3>1. p \in WriteHolders /\ p \notin InWriteSection
      BY <1>1 DEF WriteHolders, InWriteSection
    <3>. QED
      BY <3>1 DEF SemWriteExact, LockTypeOK
  <2>2. WriteHolders' # {}
    <3>1. CASE readCount' = 0
      BY <1>1, <3>1 DEF WriteHolders
    <3>2. CASE readCount' # 0
      <4>1. Registered' # {}
        BY <1>5, <3>2, FS_EmptySet DEF ReadCountExact
      <4>2. \A q \in Registered' : pc'[q] = "r_cs"
        BY <1>1, <1>2, <1>4 DEF Registered, ReadHolders
      <4>. QED
        BY <4>1, <4>2 DEF Registered, WriteHolders
    <3>. QED
      BY <3>1, <3>2
  <2>. QED
    BY <2>1, <2>2, <1>3, <1>4 DEF SemWriteExact
<1>. QED
  BY <1>5, <1>6, <1>7, <1>8, <1>9

LEMMA LastReaderPostPreserves ==
    ASSUME LockInv, NEW p \in Proc, LastReaderPost(p)
    PROVE  LockInv'
<1>. USE DEF LockInv
<1>1. /\ pc' \in [Proc -> Labels]
      /\ pc[p] = "d_postw" /\ pc'[p] = "d_unlock"
      /\ \A q \in Proc : q # p => pc'[q] = pc[q]
      /\ dead' = dead
  BY GotoMoves DEF LastReaderPost, LockTypeOK, Labels, ReaderLabels
<1>2. WriteHolders = {p}
  <2>1. Registered = {}
    <3>1. readCount = 0 /\ Registered \in SUBSET Proc
      BY <1>1 DEF LocalCopyExact, Registered
    <3>. QED
      BY <3>1, ProcSetFinite DEF ReadCountExact
  <2>2. p \in WriteHolders /\ p \notin InWriteSection
    BY <1>1 DEF WriteHolders, InWriteSection
  <2>3. InWriteSection = {}
    BY <2>2 DEF SemWriteExact
  <2>4. ASSUME NEW q \in WriteHolders PROVE q = p
    <3>1. pc[q] = "d_postw" /\ q \in Proc
      BY <2>1, <2>3 DEF WriteHolders, Registered, InWriteSection
    <3>. QED
      BY <3>1, <1>1 DEF SemReadExact, ReadHolders
  <2>. QED
    BY <2>2, <2>4
<1>3. semWrite' = 1 /\ UNCHANGED <<semRead, readCount, tmp>>
  BY <1>2 DEF LastReaderPost, PostWrite, LockTypeOK, SemWriteExact
<1>4. /\ Registered' = Registered
      /\ ReadHolders' = ReadHolders
      /\ WriteHolders' = {}
      /\ InWriteSection' = InWriteSection
      /\ InWriteSection' \subseteq WriteHolders'
  BY <1>1, <1>2 DEF Registered, ReadHolders, WriteHolders, InWriteSection
<1>5. LockTypeOK'
  BY <1>1, <1>3 DEF LockTypeOK
<1>6. SemReadExact' /\ ReadCountExact'
  BY <1>3, <1>4 DEF SemReadExact, ReadCountExact
<1>7. SemWriteExact'
  BY <1>3, <1>4 DEF SemWriteExact
<1>8. LocalCopyExact'
  BY <1>1, <1>3 DEF LocalCopyExact
<1>. QED
  BY <1>5, <1>6, <1>7, <1>8

\* A death moves no process and posts no semaphore.
LEMMA KillPreserves ==
    ASSUME LockInv, NEW p \in Proc, Kill(p)
    PROVE  LockInv'
<1>. USE DEF LockInv
<1>1. LockTypeOK'
  BY DEF Kill, LockTypeOK
<1>2. SemReadExact' /\ SemWriteExact' /\ ReadCountExact' /\ LocalCopyExact'
  BY DEF Kill, SemReadExact, SemWriteExact, ReadCountExact, LocalCopyExact,
         ReadHolders, WriteHolders, InWriteSection, Registered
<1>. QED
  BY <1>1, <1>2

LEMMA StutterPreserves ==
    ASSUME LockInv, UNCHANGED lockVars
    PROVE  LockInv'
BY DEF LockInv, lockVars, LockTypeOK, SemReadExact, SemWriteExact, ReadCountExact,
       LocalCopyExact, ReadHolders, WriteHolders, InWriteSection, Registered

LEMMA NextLockInv == LockInv /\ [LockNext]_lockVars => LockInv'
<1>. SUFFICES ASSUME LockInv, [LockNext]_lockVars PROVE LockInv'
  OBVIOUS
<1>1. CASE UNCHANGED lockVars
  BY <1>1, StutterPreserves
<1>2. ASSUME NEW p \in Proc, WriterStep(p) PROVE LockInv'
  BY <1>2, StartPreserves, WriterEnterPreserves, WriterExitPreserves DEF WriterStep
<1>3. ASSUME NEW p \in Proc, ReaderEntry(p) PROVE LockInv'
  BY <1>3, StartPreserves, TakeReadPreserves, LoadPreserves, EntryStorePreserves,
     FirstReaderWaitPreserves, PostReadPreserves DEF ReaderEntry
<1>4. ASSUME NEW p \in Proc, ReaderExit(p) PROVE LockInv'
  BY <1>4, TakeReadPreserves, LoadPreserves, ExitStorePreserves,
     LastReaderPostPreserves, PostReadPreserves DEF ReaderExit
<1>5. ASSUME NEW p \in Proc, Kill(p) PROVE LockInv'
  BY <1>5, KillPreserves
<1>. QED
  BY <1>1, <1>2, <1>3, <1>4, <1>5 DEF LockNext

\* The semaphores and readCount agree with the places of the processes at every step.
THEOREM LockInvariant == LockSpec => []LockInv
<1>. QED
  BY InitLockInv, NextLockInv, PTL DEF LockSpec

-----------------------------------------------------------------------------
(* What follows from the invariant. *)

\* Type correctness: a semaphore is never posted above 1 and readCount never
\* leaves 0 .. Cardinality(Proc).
THEOREM LockTypeCorrect == LockSpec => []LockTypeOK
<1>1. LockInv => LockTypeOK
  BY DEF LockInv
<1>. QED
  BY <1>1, LockInvariant, PTL

\* kv_store_write is alone in its critical section.
THEOREM WritersExclude == LockSpec => []MutualExclusion
<1>1. LockInv => MutualExclusion
  <2>. SUFFICES ASSUME LockInv, NEW p \in InWriteSection
                PROVE  InWriteSection = {p} /\ InReadSection = {}
    BY DEF MutualExclusion
  <2>1. WriteHolders = {p}
    BY DEF LockInv, SemWriteExact
  <2>2. InWriteSection \subseteq WriteHolders /\ InReadSection \subseteq WriteHolders \ InWriteSection
    BY DEF InWriteSection, InReadSection, WriteHolders
  <2>. QED
    BY <2>1, <2>2
<1>. QED
  BY <1>1, LockInvariant, PTL

\* No increment and no decrement of readCount is lost.
THEOREM ReadersCounted == LockSpec => []ReadCountExact
<1>1. LockInv => ReadCountExact
  BY DEF LockInv
<1>. QED
  BY <1>1, LockInvariant, PTL

\* A writer cannot enter once a holder of my_sem_write has been killed.
THEOREM DeadHolderBlocks == LockSpec => DeadHolderIsNeverReplaced
<1>. DEFINE Blocked ==
       DeadHolders # {} =>
         /\ DeadHolders \subseteq DeadHolders'
         /\ ~ \E p \in Proc : pc[p] = "w_wait" /\ pc'[p] = "w_cs"
<1>1. LockInv /\ [LockNext]_lockVars => [Blocked]_lockVars
  <2>. SUFFICES ASSUME LockInv, LockNext, DeadHolders # {}
                PROVE  /\ DeadHolders \subseteq DeadHolders'
                       /\ \A p \in Proc : pc[p] = "w_wait" => pc'[p] # "w_cs"
    OBVIOUS
  <2>1. semWrite # 1
    BY DEF DeadHolders, LockInv, SemWriteExact
  <2>2. PICK q \in Proc : WriterStep(q) \/ ReaderEntry(q) \/ ReaderExit(q) \/ Kill(q)
    BY DEF LockNext
  <2>3. CASE Kill(q)
    BY <2>3 DEF Kill, DeadHolders, WriteHolders
  <2>4. CASE ~ Kill(q)
    <3>1. PICK from \in Labels, to \in Labels :
            /\ Goto(q, from, to)
            /\ to = "w_cs" => semWrite > 0
      <4>. USE DEF Labels, WriterLabels, ReaderLabels
      <4>1. CASE WriterStep(q)
        BY <4>1 DEF WriterStep, StartWrite, WriterEnter, WriterExit, WaitWrite
      <4>2. CASE ReaderEntry(q)
        BY <4>2 DEF ReaderEntry, StartRead, EntryLock, EntryLoad, EntryStore,
                    FirstReaderWait, EntryUnlock
      <4>3. CASE ReaderExit(q)
        BY <4>3 DEF ReaderExit, ExitLock, ExitLoad, ExitStore, LastReaderPost, ExitUnlock
      <4>. QED
        BY <2>2, <2>4, <4>1, <4>2, <4>3
    <3>2. /\ pc'[q] = to /\ q \notin dead /\ dead' = dead
          /\ \A p \in Proc : p # q => pc'[p] = pc[p]
      BY <3>1, GotoMoves DEF LockInv, LockTypeOK, Goto
    <3>3. to # "w_cs"
      BY <2>1, <3>1 DEF LockInv, LockTypeOK
    <3>4. DeadHolders \subseteq DeadHolders'
      BY <3>2 DEF DeadHolders, WriteHolders
    <3>. QED
      BY <3>2, <3>3, <3>4
  <2>. QED
    BY <2>3, <2>4
<1>. QED
  BY <1>1, LockInvariant, PTL DEF LockSpec, DeadHolderIsNeverReplaced

\* The lock never brings all its users to a stop.  Were every live process blocked,
\* one on my_sem_read would mean that a first reader holds it and waits for
\* my_sem_write; whoever holds that is a writer, which waits for nothing, or a second
\* registered reader, which readCount = 1 excludes.
THEOREM SomebodyCanGo == LockSpec => []NoStandstill
<1>1. LockInv => NoStandstill
  <2>. SUFFICES ASSUME LockInv, Proc # dead, \A p \in dead : Harmless(p),
                       \A p \in Proc : ~ CanGo(p)
                PROVE  FALSE
    BY DEF NoStandstill
  <2>. USE DEF LockInv
  <2>1. PICK r \in Proc : r \notin dead
    BY ProcAssumption DEF LockTypeOK
  <2>2. \A p \in Proc \ dead :
          \/ pc[p] \in {"w_wait", "r_waitw"} /\ semWrite = 0
          \/ pc[p] \in {"r_lock", "r_cs"} /\ semRead = 0
    BY DEF CanGo, LockTypeOK
  <2>3. \A p \in ReadHolders \union WriteHolders : p \in Proc \ dead
    BY DEF Harmless, ReadHolders, WriteHolders
  <2>4. \A p \in ReadHolders : pc[p] = "r_waitw"
    BY <2>2, <2>3 DEF ReadHolders
  <2>5. \A p \in WriteHolders : pc[p] = "r_cs"
    BY <2>2, <2>3 DEF WriteHolders
  <2>6. WriteHolders # {} => ReadHolders # {}
    BY <2>2, <2>3, <2>5 DEF SemReadExact
  <2>7. ReadHolders # {} => WriteHolders # {}
    BY <2>2, <2>3, <2>4 DEF SemWriteExact
  <2>8. PICK h \in ReadHolders, w \in WriteHolders : pc[h] = "r_waitw" /\ pc[w] = "r_cs"
    BY <2>1, <2>2, <2>4, <2>5, <2>6, <2>7 DEF SemReadExact, SemWriteExact
  <2>9. h \in Registered /\ w \in Registered /\ h # w
    BY <2>8 DEF Registered, ReadHolders, WriteHolders
  <2>10. Cardinality(Registered) = 1
    BY <2>8 DEF LocalCopyExact, ReadCountExact, ReadHolders
  <2>11. IsFiniteSet(Registered) /\ IsFiniteSet(Registered \ {h})
    BY ProcSetFinite DEF Registered
  <2>12. Cardinality(Registered \ {h}) = 0
    BY <2>9, <2>10, <2>11, FS_RemoveElement
  <2>. QED
    BY <2>9, <2>11, <2>12, FS_EmptySet
<1>. QED
  BY <1>1, LockInvariant, PTL

-----------------------------------------------------------------------------
(***************************************************************************)
(* KVLock implements RWLock: WriterEnter and WriterExit are BeginWrite and *)
(* EndWrite, EntryUnlock and ExitLock are BeginRead and EndRead, and every *)
(* other step is a stutter.                                                *)
(***************************************************************************)

\* A step that neither enters nor leaves a section is a stutter of RWLock.
LEMMA OutsideSectionsStutter ==
    ASSUME LockTypeOK, NEW p \in Proc, NEW from, NEW to \in Labels, Goto(p, from, to),
           {from, to} \intersect {"r_cs", "w_cs"} = {}
    PROVE  InReadSection' = InReadSection /\ InWriteSection' = InWriteSection
<1>1. /\ pc[p] = from /\ pc'[p] = to
      /\ \A q \in Proc : q # p => pc'[q] = pc[q]
  BY GotoMoves DEF LockTypeOK
<1>. QED
  BY <1>1 DEF InReadSection, InWriteSection

\* The lock of a2_lib.c is a readers-writer lock.
THEOREM LockImplementsRWLock == LockSpec => ImplementsRWLock
<1>1. Init => Lock!Init
  BY DEF Init, Lock!Init, InReadSection, InWriteSection
<1>2. LockInv /\ [LockNext]_lockVars => [Lock!Next]_Lock!vars
  <2>. SUFFICES ASSUME LockInv, [LockNext]_lockVars PROVE [Lock!Next]_Lock!vars
    OBVIOUS
  <2>. USE DEF LockInv, Lock!vars
  <2>1. CASE UNCHANGED lockVars
    BY <2>1 DEF lockVars, InReadSection, InWriteSection
  <2>2. ASSUME NEW p \in Proc, WriterEnter(p) PROVE Lock!BeginWrite(p)
    <3>1. /\ pc[p] = "w_wait" /\ pc'[p] = "w_cs"
          /\ \A q \in Proc : q # p => pc'[q] = pc[q]
      BY <2>2, GotoMoves DEF WriterEnter, LockTypeOK, Labels, WriterLabels
    <3>2. WriteHolders = {}
      BY <2>2 DEF WriterEnter, WaitWrite, LockTypeOK, SemWriteExact
    <3>. QED
      BY <3>1, <3>2 DEF Lock!BeginWrite, InReadSection, InWriteSection, WriteHolders
  <2>3. ASSUME NEW p \in Proc, WriterExit(p) PROVE Lock!EndWrite(p)
    <3>1. /\ pc[p] = "w_cs" /\ pc'[p] = "idle"
          /\ \A q \in Proc : q # p => pc'[q] = pc[q]
      BY <2>3, GotoMoves DEF WriterExit, LockTypeOK, Labels
    <3>. QED
      BY <3>1 DEF Lock!EndWrite, InReadSection, InWriteSection
  <2>4. ASSUME NEW p \in Proc, EntryUnlock(p) PROVE Lock!BeginRead(p)
    <3>1. /\ pc[p] = "r_unlock" /\ pc'[p] = "r_cs"
          /\ \A q \in Proc : q # p => pc'[q] = pc[q]
      BY <2>4, GotoMoves DEF EntryUnlock, LockTypeOK, Labels, ReaderLabels
    <3>2. p \in WriteHolders /\ p \notin InWriteSection
      BY <3>1 DEF WriteHolders, InWriteSection
    <3>3. InWriteSection = {}
      BY <3>2 DEF SemWriteExact
    <3>. QED
      BY <3>1, <3>3 DEF Lock!BeginRead, InReadSection, InWriteSection
  <2>5. ASSUME NEW p \in Proc, ExitLock(p) PROVE Lock!EndRead(p)
    <3>1. /\ pc[p] = "r_cs" /\ pc'[p] = "d_load"
          /\ \A q \in Proc : q # p => pc'[q] = pc[q]
      BY <2>5, GotoMoves DEF ExitLock, LockTypeOK, Labels, ReaderLabels
    <3>. QED
      BY <3>1 DEF Lock!EndRead, InReadSection, InWriteSection
  <2>6. ASSUME NEW p \in Proc,
               \/ StartWrite(p) \/ StartRead(p) \/ EntryLock(p) \/ EntryLoad(p)
               \/ EntryStore(p) \/ FirstReaderWait(p) \/ ExitLoad(p) \/ ExitStore(p)
               \/ LastReaderPost(p) \/ ExitUnlock(p)
        PROVE  UNCHANGED Lock!vars
    <3>1. PICK from \in Labels \ {"r_cs", "w_cs"}, to \in Labels \ {"r_cs", "w_cs"} :
            Goto(p, from, to)
      BY <2>6 DEF StartWrite, StartRead, EntryLock, EntryLoad, EntryStore, FirstReaderWait,
                  ExitLoad, ExitStore, LastReaderPost, ExitUnlock,
                  Labels, WriterLabels, ReaderLabels
    <3>. QED
      BY <3>1, OutsideSectionsStutter
  <2>7. ASSUME NEW p \in Proc, Kill(p) PROVE UNCHANGED Lock!vars
    BY <2>7 DEF Kill, InReadSection, InWriteSection
  <2>. QED
    BY <2>1, <2>2, <2>3, <2>4, <2>5, <2>6, <2>7
    DEF LockNext, WriterStep, ReaderEntry, ReaderExit, Lock!Next
<1>. QED
  BY <1>1, <1>2, LockInvariant, PTL DEF LockSpec, ImplementsRWLock, Lock!Spec

=============================================================================
