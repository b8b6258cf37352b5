--------------------------- MODULE KVStoreProofs ----------------------------
(***************************************************************************)
(* Proofs about KVStore, for any number of processes, calls, pods, pairs,  *)
(* rows, keys and values, with kills at any step.                          *)
(***************************************************************************)
EXTENDS KVStore, KVLockProofs, KVPodProofs

-----------------------------------------------------------------------------
(* The calls keep to the locking protocol *)

\* Every step of the store is a step of the protocol or leaves its variables alone.
LEMMA StepsKeepToLock == [StoreNext]_vars => [LockNext]_lockVars
<1>. SUFFICES ASSUME [StoreNext]_vars PROVE [LockNext]_lockVars
  OBVIOUS
<1>1. CASE UNCHANGED vars
  BY <1>1 DEF vars
<1>2. ASSUME NEW p \in Proc, Enter(p) PROVE [LockNext]_lockVars
  BY <1>2 DEF Enter, CallCreate, CallUnopened, CallRead, CallWrite, LockNext, WriterStep, ReaderEntry
<1>3. ASSUME NEW p \in Proc, Step(p) PROVE [LockNext]_lockVars
  <2>1. CASE EnterSection(p)
    BY <2>1 DEF EnterSection, LockNext, WriterStep, ReaderEntry
  <2>2. CASE LockStep(p)
    BY <2>2 DEF LockStep, LockNext, ReaderEntry, ReaderExit
  <2>3. CASE WriteCount(p) \/ WriteStrings(p) \/ WritePublish(p)
    BY <2>3 DEF WriteCount, WriteStrings, WritePublish, Proceed
  <2>4. CASE ReadLoad(p) \/ ReadStore(p) \/ ReadAllCopy(p)
    BY <2>4 DEF ReadLoad, ReadStore, ReadAllCopy, Proceed
  <2>5. CASE WriteReturn(p)
    BY <2>5 DEF WriteReturn, LockNext, WriterStep
  <2>6. CASE ReadDone(p) \/ ReadReturn(p)
    BY <2>6 DEF ReadDone, ReadReturn, LockNext, ReaderExit
  <2>. QED
    BY <1>3, <2>1, <2>2, <2>3, <2>4, <2>5, <2>6 DEF Step
<1>4. ASSUME NEW p \in Proc, KillProcess(p) PROVE [LockNext]_lockVars
  BY <1>4 DEF KillProcess, LockNext
<1>. QED
  BY <1>1, <1>2, <1>3, <1>4 DEF StoreNext

\* Whatever the calls do to the segment, the store is an instance of the protocol.
THEOREM StoreKeepsLock == StoreSpec => LockSpec
<1>1. StoreInit => Init
  BY DEF StoreInit
<1>. QED
  BY <1>1, StepsKeepToLock, PTL DEF StoreSpec, LockSpec

\* So what is proved of the protocol holds of the store: the lock invariant, mutual
\* exclusion of writers, the exact count of readers, ...
THEOREM StoreIsLocked == StoreSpec => [](LockInv /\ MutualExclusion /\ ReadCountExact /\ NoStandstill)
BY StoreKeepsLock, LockInvariant, WritersExclude, ReadersCounted, SomebodyCanGo, PTL

\* ... the readers-writer lock itself, and that a holder that is killed is never replaced.
THEOREM StoreImplementsRWLock == StoreSpec => ImplementsRWLock /\ DeadHolderIsNeverReplaced
BY StoreKeepsLock, LockImplementsRWLock, DeadHolderBlocks, PTL

-----------------------------------------------------------------------------
(* What a step does to the frames *)

\* Only the process that moves changes its place and its frame.
OthersKeep(p) ==
    /\ DOMAIN frame' = Proc
    /\ \A q \in Proc : q # p => frame'[q] = frame[q] /\ pc'[q] = pc[q]

\* A frame keeps its call and its arguments.
SameCall(p) ==
    /\ DOMAIN frame'[p] = DOMAIN frame[p]
    /\ frame'[p].op = frame[p].op
    /\ frame'[p].key = frame[p].key
    /\ frame'[p].val = frame[p].val

LEMMA AtEffect ==
    ASSUME DOMAIN frame = Proc, NEW p \in Proc, DOMAIN frame[p] = DOMAIN NoFrame,
           NEW to, frame' = At(p, to)
    PROVE  /\ DOMAIN frame' = Proc
           /\ \A q \in Proc : q # p => frame'[q] = frame[q]
           /\ SameCall(p)
           /\ frame'[p].at = to
           /\ frame'[p].loc = frame[p].loc
           /\ frame'[p].out = frame[p].out
BY DEF At, SameCall, NoFrame

LEMMA ReturnedEffect ==
    ASSUME DOMAIN frame = Proc, NEW p \in Proc, DOMAIN frame[p] = DOMAIN NoFrame,
           frame' = Returned(p)
    PROVE  /\ DOMAIN frame' = Proc
           /\ \A q \in Proc : q # p => frame'[q] = frame[q]
           /\ SameCall(p)
           /\ frame'[p].at = "returned"
           /\ frame'[p].out = frame[p].out
BY DEF Returned, SameCall, NoFrame

\* A step of the protocol moves one process.
LEMMA ProtocolMoves ==
    ASSUME LockInv, NEW p \in Proc, NEW from, NEW to, Goto(p, from, to)
    PROVE  /\ pc[p] = from /\ pc'[p] = to
           /\ \A q \in Proc : q # p => pc'[q] = pc[q]
BY DEF Goto, LockInv, LockTypeOK

LEMMA CallEffect ==
    ASSUME StoreInv, NEW p \in Proc, NEW op, NEW k, NEW v, Call(p, op, k, v)
    PROVE  /\ DOMAIN frame' = Proc
           /\ \A q \in Proc : q # p => frame'[q] = frame[q]
           /\ DOMAIN frame'[p] = DOMAIN NoFrame
           /\ frame'[p].op = op /\ frame'[p].key = k /\ frame'[p].val = v
           /\ frame'[p].at = "none"
           /\ left' \in 0 .. MaxCalls
           /\ pc[p] = "idle" /\ UNCHANGED <<pods, hist, seen>>
<1>1. DOMAIN frame = Proc /\ left \in 0 .. MaxCalls
  BY DEF StoreInv, StoreTypeOK
<1>2. left' \in 0 .. MaxCalls
  BY <1>1, CallsAssumption DEF Call
<1>. QED
  BY <1>1, <1>2 DEF Call, NoFrame

-----------------------------------------------------------------------------
(* Steps that leave the segment alone *)

\* What another process has found in the segment is not touched by a step that leaves
\* the segment, its frame and its place as they are.
LEMMA FoundStays ==
    ASSUME UNCHANGED pods, NEW q \in Proc, frame'[q] = frame[q], pc'[q] = pc[q]
    PROVE  /\ PlaceAgrees(q) => PlaceAgrees(q)'
           /\ LocationHolds(q) => LocationHolds(q)'
           /\ RowsLoaded(q) => RowsLoaded(q)'
           /\ SeesStablePair(q) => SeesStablePair(q)'
           /\ FrameTypeOK(q) => FrameTypeOK(q)'
<1>1. \A k : Found(k)' = Found(k) /\ PairOf(k)' = PairOf(k)
  BY DEF Found, PairOf
<1>2. PlaceAgrees(q) => PlaceAgrees(q)'
  BY DEF PlaceAgrees
<1>3. LocationHolds(q) => LocationHolds(q)'
  BY DEF LocationHolds
<1>4. RowsLoaded(q) => RowsLoaded(q)'
  BY DEF RowsLoaded, Found
<1>5. SeesStablePair(q) => SeesStablePair(q)'
  BY DEF SeesStablePair, Found, PairOf
<1>6. FrameTypeOK(q) => FrameTypeOK(q)'
  BY DEF FrameTypeOK
<1>. QED
  BY <1>2, <1>3, <1>4, <1>5, <1>6

\* A process that moves to a place where it has found nothing in the segment, or has
\* forgotten what it has found, keeps the invariant.
LEMMA QuietStep ==
    ASSUME StoreInv, NEW p \in Proc, LockInv', OthersKeep(p), UNCHANGED <<pods, hist, seen>>,
           open' \in BOOLEAN, left' \in 0 .. MaxCalls,
           FrameTypeOK(p)', PlaceAgrees(p)',
           ~ (pc'[p] = "w_cs" /\ frame'[p].at \in {"counted", "stored"}),
           ~ (pc'[p] = "r_cs" /\ frame'[p].at = "loaded")
    PROVE  StoreInv'
<1>1. ASSUME NEW q \in Proc
      PROVE  /\ FrameTypeOK(q)'
             /\ PlaceAgrees(q)'
             /\ pc'[q] = "w_cs" /\ frame'[q].at \in {"counted", "stored"} => LocationHolds(q)'
             /\ pc'[q] = "r_cs" /\ frame'[q].at = "loaded" => RowsLoaded(q)' /\ SeesStablePair(q)'
  <2>1. CASE q = p
    BY <2>1
  <2>2. CASE q # p
    <3>1. frame'[q] = frame[q] /\ pc'[q] = pc[q]
      BY <2>2 DEF OthersKeep
    <3>2. /\ FrameTypeOK(q) /\ PlaceAgrees(q)
          /\ pc[q] = "w_cs" /\ frame[q].at \in {"counted", "stored"} => LocationHolds(q)
          /\ pc[q] = "r_cs" /\ frame[q].at = "loaded" => RowsLoaded(q) /\ SeesStablePair(q)
      BY DEF StoreInv, StoreTypeOK, ReadSeesStablePair
    <3>. QED
      BY <3>1, <3>2, FoundStays
  <2>. QED
    BY <2>1, <2>2
<1>2. StoreTypeOK'
  BY <1>1 DEF StoreInv, StoreTypeOK, LockInv, OthersKeep
<1>3. CountsAgree'
  BY DEF StoreInv, CountsAgree
<1>. QED
  BY <1>1, <1>2, <1>3 DEF StoreInv, ReadSeesStablePair

LEMMA EnterPreserves ==
    ASSUME StoreInv, LockInv', NEW p \in Proc, Enter(p)
    PROVE  StoreInv'
<1>0. LockInv /\ open \in BOOLEAN
  BY DEF StoreInv, StoreTypeOK
<1>1. ASSUME NEW op \in {"create", "failed"}, Call(p, op, Null, Null), UNCHANGED lockVars, open' \in BOOLEAN
      PROVE  StoreInv'
  <2>1. /\ OthersKeep(p) /\ DOMAIN frame'[p] = DOMAIN NoFrame
        /\ frame'[p].op = op /\ frame'[p].key = Null /\ frame'[p].val = Null /\ frame'[p].at = "none"
        /\ left' \in 0 .. MaxCalls /\ pc'[p] = "idle" /\ UNCHANGED <<pods, hist, seen>>
    BY <1>1, CallEffect DEF OthersKeep, lockVars
  <2>2. FrameTypeOK(p)' /\ PlaceAgrees(p)'
    BY <2>1 DEF FrameTypeOK, PlaceAgrees, WriterLabels, ReaderLabels, Places
  <2>. QED
    BY <1>1, <2>1, <2>2, QuietStep
<1>2. ASSUME NEW k \in Key, CallRead(p, k)
      PROVE  StoreInv'
  <2>1. PICK op \in {"read", "read_all"} : Call(p, op, k, Null)
    BY <1>2 DEF CallRead
  <2>2. pc'[p] = "r_lock" /\ \A q \in Proc : q # p => pc'[q] = pc[q]
    BY <1>0, <1>2, ProtocolMoves DEF CallRead, StartRead
  <2>3. /\ OthersKeep(p) /\ DOMAIN frame'[p] = DOMAIN NoFrame
        /\ frame'[p].op = op /\ frame'[p].key = k /\ frame'[p].val = Null /\ frame'[p].at = "none"
        /\ left' \in 0 .. MaxCalls /\ UNCHANGED <<pods, hist, seen>>
    BY <2>1, <2>2, CallEffect DEF OthersKeep
  <2>4. FrameTypeOK(p)' /\ PlaceAgrees(p)'
    BY <2>2, <2>3 DEF FrameTypeOK, PlaceAgrees, WriterLabels, ReaderLabels, Places
  <2>. QED
    BY <1>0, <1>2, <2>2, <2>3, <2>4, QuietStep DEF CallRead
<1>3. ASSUME NEW k \in Key, NEW v \in Value, CallWrite(p, k, v)
      PROVE  StoreInv'
  <2>1. pc'[p] = "w_wait" /\ \A q \in Proc : q # p => pc'[q] = pc[q]
    BY <1>0, <1>3, ProtocolMoves DEF CallWrite, StartWrite
  <2>2. Call(p, "write", k, v)
    BY <1>3 DEF CallWrite
  <2>3. /\ OthersKeep(p) /\ DOMAIN frame'[p] = DOMAIN NoFrame
        /\ frame'[p].op = "write" /\ frame'[p].key = k /\ frame'[p].val = v /\ frame'[p].at = "none"
        /\ left' \in 0 .. MaxCalls /\ UNCHANGED <<pods, hist, seen>>
    BY <2>1, <2>2, CallEffect DEF OthersKeep
  <2>4. FrameTypeOK(p)' /\ PlaceAgrees(p)'
    BY <2>1, <2>3 DEF FrameTypeOK, PlaceAgrees, WriterLabels, ReaderLabels, Places
  <2>. QED
    BY <1>0, <1>3, <2>1, <2>3, <2>4, QuietStep DEF CallWrite
<1>4. CASE CallCreate(p) \/ CallUnopened(p)
  BY <1>0, <1>1, <1>4 DEF CallCreate, CallUnopened
<1>. QED
  BY <1>2, <1>3, <1>4 DEF Enter

\* A kill, and no step at all, leave everything found as it was.
LEMMA KillStorePreserves ==
    ASSUME StoreInv, LockInv', UNCHANGED <<pc, dataVars>>
    PROVE  StoreInv'
<1>1. ASSUME NEW q \in Proc
      PROVE  /\ FrameTypeOK(q)'
             /\ PlaceAgrees(q)'
             /\ pc'[q] = "w_cs" /\ frame'[q].at \in {"counted", "stored"} => LocationHolds(q)'
             /\ pc'[q] = "r_cs" /\ frame'[q].at = "loaded" => RowsLoaded(q)' /\ SeesStablePair(q)'
  <2>1. UNCHANGED pods /\ frame'[q] = frame[q] /\ pc'[q] = pc[q]
    BY DEF dataVars
  <2>2. /\ FrameTypeOK(q) /\ PlaceAgrees(q)
        /\ pc[q] = "w_cs" /\ frame[q].at \in {"counted", "stored"} => LocationHolds(q)
        /\ pc[q] = "r_cs" /\ frame[q].at = "loaded" => RowsLoaded(q) /\ SeesStablePair(q)
    BY DEF StoreInv, StoreTypeOK, ReadSeesStablePair
  <2>. QED
    BY <2>1, <2>2, FoundStays
<1>2. StoreTypeOK'
  BY <1>1 DEF StoreInv, StoreTypeOK, LockInv, dataVars
<1>3. CountsAgree'
  BY DEF StoreInv, CountsAgree, dataVars
<1>. QED
  BY <1>1, <1>2, <1>3 DEF StoreInv, ReadSeesStablePair

\* What is known of the process that moves.
LEMMA MoverFacts ==
    ASSUME StoreInv, NEW p \in Proc
    PROVE  /\ LockInv /\ DOMAIN frame = Proc /\ DOMAIN frame[p] = DOMAIN NoFrame
           /\ FrameTypeOK(p) /\ PlaceAgrees(p) /\ pc[p] \in Labels
           /\ open \in BOOLEAN /\ left \in 0 .. MaxCalls
BY DEF StoreInv, StoreTypeOK, FrameTypeOK, LockTypeOK

LEMMA EnterSectionPreserves ==
    ASSUME StoreInv, LockInv', NEW p \in Proc, EnterSection(p)
    PROVE  StoreInv'
<1>1. /\ \/ pc[p] = "w_wait" /\ pc'[p] = "w_cs"
         \/ pc[p] = "r_unlock" /\ pc'[p] = "r_cs"
      /\ \A q \in Proc : q # p => pc'[q] = pc[q]
  BY MoverFacts, ProtocolMoves DEF EnterSection, WriterEnter, EntryUnlock
<1>2. OthersKeep(p) /\ SameCall(p) /\ frame'[p].at = "in"
  BY <1>1, MoverFacts, AtEffect DEF EnterSection, OthersKeep
<1>3. FrameTypeOK(p)' /\ PlaceAgrees(p)'
  BY <1>1, <1>2, MoverFacts DEF SameCall, FrameTypeOK, PlaceAgrees, WriterLabels, ReaderLabels, Places
<1>. QED
  BY <1>1, <1>2, <1>3, MoverFacts, QuietStep DEF EnterSection

LEMMA LockStepPreserves ==
    ASSUME StoreInv, LockInv', NEW p \in Proc, LockStep(p)
    PROVE  StoreInv'
<1>1. /\ \/ /\ pc[p] \in {"r_lock", "r_load", "r_store", "r_waitw"}
            /\ pc'[p] \in {"r_load", "r_store", "r_waitw", "r_unlock"}
         \/ /\ pc[p] \in {"d_load", "d_store", "d_postw"}
            /\ pc'[p] \in {"d_store", "d_postw", "d_unlock"}
      /\ \A q \in Proc : q # p => pc'[q] = pc[q]
  BY MoverFacts, ProtocolMoves
     DEF LockStep, EntryLock, EntryLoad, EntryStore, FirstReaderWait, ExitLoad, ExitStore, LastReaderPost
<1>2. UNCHANGED dataVars
  BY DEF LockStep
<1>3. OthersKeep(p) /\ frame'[p] = frame[p]
  BY <1>1, <1>2, MoverFacts DEF dataVars, OthersKeep
<1>4. FrameTypeOK(p)' /\ PlaceAgrees(p)'
  BY <1>1, <1>3, MoverFacts DEF FrameTypeOK, PlaceAgrees, WriterLabels, ReaderLabels
<1>. QED
  BY <1>1, <1>2, <1>3, <1>4, MoverFacts, QuietStep DEF dataVars

LEMMA ReturnPreserves ==
    ASSUME StoreInv, LockInv', NEW p \in Proc, WriteReturn(p) \/ ReadReturn(p)
    PROVE  StoreInv'
<1>1. /\ pc[p] # "idle" /\ pc'[p] = "idle"
      /\ \A q \in Proc : q # p => pc'[q] = pc[q]
  BY MoverFacts, ProtocolMoves DEF WriteReturn, WriterExit, ReadReturn, ExitUnlock
<1>2. OthersKeep(p) /\ SameCall(p) /\ frame'[p].at = "returned"
  BY <1>1, MoverFacts, ReturnedEffect DEF WriteReturn, ReadReturn, OthersKeep
<1>3. FrameTypeOK(p)' /\ PlaceAgrees(p)'
  BY <1>1, <1>2, MoverFacts DEF SameCall, FrameTypeOK, PlaceAgrees, WriterLabels, ReaderLabels, Places
<1>. QED
  BY <1>1, <1>2, <1>3, MoverFacts, QuietStep DEF WriteReturn, ReadReturn

LEMMA ReadDonePreserves ==
    ASSUME StoreInv, LockInv', NEW p \in Proc, ReadDone(p)
    PROVE  StoreInv'
<1>1. /\ pc[p] = "r_cs" /\ pc'[p] = "d_load"
      /\ \A q \in Proc : q # p => pc'[q] = pc[q]
  BY MoverFacts, ProtocolMoves DEF ReadDone, ExitLock
<1>2. OthersKeep(p) /\ frame'[p] = frame[p] /\ frame[p].at = "done"
  BY <1>1, MoverFacts DEF ReadDone, dataVars, OthersKeep
<1>3. FrameTypeOK(p)' /\ PlaceAgrees(p)'
  BY <1>1, <1>2, MoverFacts DEF FrameTypeOK, PlaceAgrees, WriterLabels, ReaderLabels
<1>. QED
  BY <1>1, <1>2, <1>3, MoverFacts, QuietStep DEF ReadDone, dataVars

LEMMA ReadAllPreserves ==
    ASSUME StoreInv, LockInv', NEW p \in Proc, ReadAllCopy(p)
    PROVE  StoreInv'
<1>1. pc[p] = "r_cs" /\ pc' = pc /\ UNCHANGED <<open, left, pods, hist, seen>>
  BY DEF ReadAllCopy, Proceed, lockVars
<1>2. OthersKeep(p) /\ SameCall(p) /\ frame'[p].at = "done"
  BY <1>1, MoverFacts DEF ReadAllCopy, At, OthersKeep, SameCall, NoFrame
<1>3. FrameTypeOK(p)' /\ PlaceAgrees(p)'
  BY <1>1, <1>2, MoverFacts DEF SameCall, FrameTypeOK, PlaceAgrees, WriterLabels, ReaderLabels, Places
<1>. QED
  BY <1>1, <1>2, <1>3, MoverFacts, QuietStep

-----------------------------------------------------------------------------
(* The stores of a write *)

\* While a process is in the write section, no other is in either section.
LEMMA WriterIsAlone ==
    ASSUME LockInv, NEW p \in Proc, pc[p] = "w_cs", NEW q \in Proc, q # p
    PROVE  pc[q] \notin {"w_cs", "r_cs"}
BY DEF LockInv, SemWriteExact, InWriteSection, WriteHolders

\* Nobody else has found anything in the segment, so a writer keeps the invariant if
\* what it has found itself still holds.
LEMMA WriterKeeps ==
    ASSUME StoreInv, NEW p \in Proc, pc[p] = "w_cs", UNCHANGED <<lockVars, open, left, seen>>,
           OthersKeep(p), pods' \in Pods, hist' \in [Key -> Seq(Value)],
           FrameTypeOK(p)', PlaceAgrees(p)', CountsAgree',
           frame'[p].at \in {"counted", "stored"} => LocationHolds(p)'
    PROVE  StoreInv'
<1>0. LockInv' /\ LockTypeOK' /\ pc' = pc
  <2>1. LockInv /\ [LockNext]_lockVars
    BY DEF StoreInv
  <2>2. LockInv'
    BY <2>1, NextLockInv
  <2>. QED
    BY <2>2 DEF LockInv, lockVars
<1>1. ASSUME NEW q \in Proc
      PROVE  /\ FrameTypeOK(q)'
             /\ PlaceAgrees(q)'
             /\ pc'[q] = "w_cs" /\ frame'[q].at \in {"counted", "stored"} => LocationHolds(q)'
             /\ ~ (pc'[q] = "r_cs" /\ frame'[q].at = "loaded")
  <2>1. CASE q = p
    BY <1>0, <2>1
  <2>2. CASE q # p
    <3>1. frame'[q] = frame[q] /\ pc'[q] = pc[q]
      BY <2>2 DEF OthersKeep
    <3>2. pc[q] \notin {"w_cs", "r_cs"}
      BY <2>2, WriterIsAlone DEF StoreInv
    <3>3. FrameTypeOK(q)' /\ PlaceAgrees(q)'
      BY <3>1, MoverFacts DEF FrameTypeOK, PlaceAgrees
    <3>. QED
      BY <3>1, <3>2, <3>3
  <2>. QED
    BY <2>1, <2>2
<1>2. StoreTypeOK'
  BY <1>0, <1>1 DEF StoreInv, StoreTypeOK, OthersKeep
<1>. QED
  BY <1>0, <1>1, <1>2 DEF StoreInv, ReadSeesStablePair

\* The writer's key, cut, and the pod it hashes to.
LEMMA WriterKey ==
    ASSUME StoreInv, NEW p \in Proc, pc[p] = "w_cs"
    PROVE  /\ frame[p].key \in Key /\ frame[p].val \in Value
           /\ Clip(frame[p].key) \in Seq(Char)
           /\ PodOf[Clip(frame[p].key)] \in PodId
<1>1. frame[p].key \in Key /\ frame[p].val \in Value
  BY MoverFacts DEF PlaceAgrees, WriterLabels
<1>. QED
  BY <1>1, ClipIsKey, HashAssumption

LEMMA WriteCountPreserves ==
    ASSUME StoreInv, NEW p \in Proc, WriteCount(p)
    PROVE  StoreInv'
<1>. DEFINE key == Clip(frame[p].key)
<1>1. PICK l : l = Locate(pods, key)
  OBVIOUS
<1>2. /\ pc[p] = "w_cs" /\ UNCHANGED <<lockVars, open, left, hist, seen>>
      /\ frame' = [At(p, "counted") EXCEPT ![p].loc = l]
      /\ pods' = CountValue(pods, l)
  BY <1>1 DEF WriteCount, Proceed
<1>3. pods \in Pods /\ CountsAgree /\ hist \in [Key -> Seq(Value)] /\ PodOf[key] \in PodId
  BY <1>2, WriterKey DEF StoreInv, StoreTypeOK
<1>4. /\ OthersKeep(p) /\ SameCall(p) /\ frame'[p].at = "counted" /\ frame'[p].loc = l
  BY <1>2, MoverFacts DEF At, OthersKeep, SameCall, NoFrame, lockVars
<1>. HIDE DEF key
<1>5. /\ l.pod = PodOf[key] /\ l.slot \in Slot /\ l.keyExists \in BOOLEAN
      /\ l.keyExists => l.slot < pods[PodOf[key]].index
      /\ ~ l.keyExists => l.slot = pods[PodOf[key]].index
      /\ l.index = pods[PodOf[key]].index
      /\ l.at = pods[PodOf[key]].kv_pairs[l.slot].writeIndex /\ l.at \in Row
  BY <1>1, <1>3, LocateFields
<1>6. PICK b \in PodId, i \in Slot : b = l.pod /\ i = l.slot
  BY <1>3, <1>5
<1>7. /\ OnlyPair(pods, pods', b, i)
      /\ pods'[b].kv_pairs[i].numberValues =
            IF pods[b].kv_pairs[i].numberValues <= MAXNUMBERVALUES
            THEN pods[b].kv_pairs[i].numberValues + 1
            ELSE pods[b].kv_pairs[i].numberValues
      /\ pods'[b].kv_pairs[i].readIndex = pods[b].kv_pairs[i].readIndex
      /\ pods'[b].kv_pairs[i].writeIndex = pods[b].kv_pairs[i].writeIndex
  <2>1. Counted(pods, pods', b, i)
    BY <1>2, <1>3, <1>6, CountEffect
  <2>. QED
    BY <2>1 DEF Counted
<1>8. /\ pods[b].kv_pairs[i].numberValues \in 0 .. MAXNUMBERVALUES + 1
      /\ pods[b].kv_pairs[i].readIndex \in 0 .. MAXNUMBERVALUES
      /\ pods[b].index \in Slot
  BY <1>3, FieldTypes
<1>9. /\ pods'[b].kv_pairs[i].numberValues > 0
      /\ pods'[b].kv_pairs[i].numberValues >= pods[b].kv_pairs[i].numberValues
      /\ pods'[b].kv_pairs[i].numberValues \in Nat
  BY <1>7, <1>8, PodAssumption
<1>10. CountsAgree'
  <2>. SUFFICES ASSUME NEW c \in PodId, NEW j \in Slot
                PROVE  /\ j < pods'[c].index => pods'[c].kv_pairs[j].numberValues > 0
                       /\ \/ pods'[c].kv_pairs[j].readIndex = 0
                          \/ pods'[c].kv_pairs[j].readIndex < pods'[c].kv_pairs[j].numberValues
    BY DEF CountsAgree
  <2>1. CASE c = b /\ j = i
    BY <1>3, <1>7, <1>8, <1>9, <2>1 DEF CountsAgree
  <2>2. CASE c # b \/ j # i
    BY <1>3, <1>7, <2>2 DEF CountsAgree, OnlyPair
  <2>. QED
    BY <2>1, <2>2
<1>11. LocationHolds(p)'
  <2>1. l.index \in Slot /\ pods'[b].index = pods[b].index /\ pods' \in Pods
    BY <1>5, <1>6, <1>7, <1>8 DEF OnlyPair
  <2>2. l \in Location
    <3>1. DOMAIN l = {"pod", "slot", "keyExists", "index", "at"} /\ l = [pod |-> l.pod, slot |-> l.slot, keyExists |-> l.keyExists, index |-> l.index, at |-> l.at]
      BY <1>1 DEF Locate
    <3>. QED
      BY <1>3, <1>5, <2>1, <3>1 DEF Location
  <2>3. frame'[p].loc = l /\ frame'[p].key = frame[p].key
    BY <1>4 DEF SameCall
  <2>. QED
    BY <1>5, <1>6, <1>7, <1>9, <2>1, <2>2, <2>3 DEF LocationHolds, key
<1>12. FrameTypeOK(p)' /\ PlaceAgrees(p)'
  BY <1>2, <1>4, MoverFacts DEF SameCall, FrameTypeOK, PlaceAgrees, WriterLabels, ReaderLabels, Places, lockVars
<1>. QED
  BY <1>2, <1>3, <1>4, <1>7, <1>10, <1>11, <1>12, WriterKeeps DEF OnlyPair

LEMMA WriteStringsPreserves ==
    ASSUME StoreInv, NEW p \in Proc, WriteStrings(p)
    PROVE  StoreInv'
<1>. DEFINE f == frame[p]
<1>1. PICK l, key, val : l = f.loc /\ key = Clip(f.key) /\ val = f.val
  OBVIOUS
<1>2. /\ pc[p] = "w_cs" /\ f.at = "counted" /\ UNCHANGED <<lockVars, open, left, hist, seen>>
      /\ frame' = At(p, "stored")
      /\ pods' = StoreStrings(pods, l, key, val)
  BY <1>1 DEF WriteStrings, Proceed
<1>3. pods \in Pods /\ CountsAgree /\ hist \in [Key -> Seq(Value)] /\ LocationHolds(p)
  BY <1>2 DEF StoreInv, StoreTypeOK
<1>4. OthersKeep(p) /\ SameCall(p) /\ frame'[p].at = "stored" /\ frame'[p].loc = l
  BY <1>1, <1>2, MoverFacts, AtEffect DEF OthersKeep, lockVars
<1>5. key \in Seq(Char) /\ val \in Value
  BY <1>1, <1>2, WriterKey
<1>. HIDE DEF f
<1>6. PICK b \in PodId, i \in Slot, at \in Row : l.pod = b /\ l.slot = i /\ l.at = at
  BY <1>1, <1>3 DEF LocationHolds, Location, f
<1>7. Spilled(pods, pods', b)
  BY <1>2, <1>3, <1>5, <1>6, StoreEffect
<1>8. CountsAgree'
  <2>. SUFFICES ASSUME NEW c \in PodId, NEW j \in Slot
                PROVE  /\ j < pods'[c].index => pods'[c].kv_pairs[j].numberValues > 0
                       /\ \/ pods'[c].kv_pairs[j].readIndex = 0
                          \/ pods'[c].kv_pairs[j].readIndex < pods'[c].kv_pairs[j].numberValues
    BY DEF CountsAgree
  <2>1. ~ (j < 0)
    BY DEF Slot
  <2>. QED
    BY <1>3, <1>7, <2>1 DEF CountsAgree, Spilled
<1>9. LocationHolds(p)'
  <2>1. frame'[p].loc = l /\ frame'[p].key = frame[p].key
    BY <1>4 DEF SameCall
  <2>2. /\ pods'[b].index = pods[b].index
        /\ pods'[b].kv_pairs[i].writeIndex = pods[b].kv_pairs[i].writeIndex
        /\ pods'[b].kv_pairs[i].numberValues = pods[b].kv_pairs[i].numberValues
    BY <1>7 DEF Spilled
  <2>. QED
    BY <1>1, <1>3, <1>6, <2>1, <2>2 DEF LocationHolds, f
<1>10. FrameTypeOK(p)' /\ PlaceAgrees(p)'
  BY <1>2, <1>4, MoverFacts DEF SameCall, FrameTypeOK, PlaceAgrees, WriterLabels, ReaderLabels, Places, lockVars
<1>. QED
  BY <1>2, <1>3, <1>4, <1>7, <1>8, <1>9, <1>10, WriterKeeps DEF Spilled

LEMMA WritePublishPreserves ==
    ASSUME StoreInv, NEW p \in Proc, WritePublish(p)
    PROVE  StoreInv'
<1>. DEFINE f == frame[p]
<1>1. PICK l : l = f.loc
  OBVIOUS
<1>2. /\ pc[p] = "w_cs" /\ f.at = "stored" /\ UNCHANGED <<lockVars, open, left, seen>>
      /\ frame' = At(p, "done")
      /\ pods' = Publish(pods, l)
      /\ hist' = [hist EXCEPT ![f.key] = Append(@, f.val)]
  BY <1>1 DEF WritePublish, Proceed
<1>3. pods \in Pods /\ CountsAgree /\ hist \in [Key -> Seq(Value)] /\ LocationHolds(p)
  BY <1>2 DEF StoreInv, StoreTypeOK
<1>4. OthersKeep(p) /\ SameCall(p) /\ frame'[p].at = "done"
  BY <1>1, <1>2, MoverFacts, AtEffect DEF OthersKeep, lockVars
<1>5. hist' \in [Key -> Seq(Value)]
  <2>1. f.key \in Key /\ f.val \in Value
    BY <1>2, WriterKey
  <2>2. hist[f.key] \in Seq(Value)
    BY <1>3, <2>1
  <2>3. Append(hist[f.key], f.val) \in Seq(Value)
    BY <2>1, <2>2
  <2>. QED
    BY <1>2, <1>3, <2>3
<1>. HIDE DEF f
<1>6. PICK b \in PodId, i \in Slot : l.pod = b /\ l.slot = i
  BY <1>1, <1>3 DEF LocationHolds, Location, f
<1>7. /\ l.at \in Row /\ l.index \in Slot /\ l.keyExists \in BOOLEAN
      /\ l.index = pods[b].index
      /\ ~ l.keyExists => i = l.index
      /\ pods[b].kv_pairs[i].numberValues > 0
  BY <1>1, <1>3, <1>6 DEF LocationHolds, Location, f
<1>8. /\ pods' \in Pods
      /\ pods'[b].index = IF l.keyExists THEN l.index ELSE (l.index + 1) % NUMBERKVPAIR
      /\ \A c \in PodId : c # b => pods'[c].index = pods[c].index
      /\ \A c \in PodId, j \in Slot :
            /\ pods'[c].kv_pairs[j].readIndex = pods[c].kv_pairs[j].readIndex
            /\ pods'[c].kv_pairs[j].numberValues = pods[c].kv_pairs[j].numberValues
  <2>1. Published(pods, pods', l, b, i)
    BY <1>2, <1>3, <1>6, <1>7, PublishEffect
  <2>. QED
    BY <2>1 DEF Published
<1>9. CountsAgree'
  <2>. SUFFICES ASSUME NEW c \in PodId, NEW j \in Slot
                PROVE  /\ j < pods'[c].index => pods'[c].kv_pairs[j].numberValues > 0
                       /\ \/ pods'[c].kv_pairs[j].readIndex = 0
                          \/ pods'[c].kv_pairs[j].readIndex < pods'[c].kv_pairs[j].numberValues
    BY DEF CountsAgree
  <2>1. j < pods'[c].index => j < pods[c].index \/ (c = b /\ j = i)
    <3>1. CASE c = b /\ ~ l.keyExists
      <4>1. (l.index + 1) % NUMBERKVPAIR \in {0, l.index + 1}
        BY <1>7, PodAssumption DEF Slot
      <4>. QED
        BY <1>7, <1>8, <3>1, <4>1, PodAssumption DEF Slot
    <3>2. CASE c # b \/ l.keyExists
      BY <1>7, <1>8, <3>2
    <3>. QED
      BY <3>1, <3>2
  <2>. QED
    BY <1>3, <1>7, <1>8, <2>1 DEF CountsAgree
<1>10. FrameTypeOK(p)' /\ PlaceAgrees(p)'
  BY <1>2, <1>4, MoverFacts DEF SameCall, FrameTypeOK, PlaceAgrees, WriterLabels, ReaderLabels, Places, lockVars
<1>. QED
  BY <1>2, <1>4, <1>5, <1>8, <1>9, <1>10, WriterKeeps

-----------------------------------------------------------------------------
(* The two steps of a read *)

\* The key a process in the read section asks for.
LEMMA ReaderKey ==
    ASSUME StoreInv, NEW p \in Proc, pc[p] = "r_cs"
    PROVE  frame[p].key \in Key /\ PodOf[frame[p].key] \in PodId
<1>1. frame[p].key \in Key
  BY MoverFacts DEF PlaceAgrees, ReaderLabels
<1>. QED
  BY <1>1, HashAssumption

\* What the scan of a read finds: visible pairs, with values and a cursor.
LEMMA FoundPairs ==
    ASSUME pods \in Pods, CountsAgree, NEW k \in Key
    PROVE  /\ Found(k) \subseteq Slot
           /\ Found(k) # {} => Max(Found(k)) \in Found(k)
           /\ \A i \in Found(k) :
                 /\ pods[PodOf[k]].kv_pairs[i].numberValues > 0
                 /\ pods[PodOf[k]].kv_pairs[i].readIndex \in 0 .. MAXNUMBERVALUES
<1>. DEFINE b == PodOf[k]
<1>1. b \in PodId
  BY HashAssumption
<1>. HIDE DEF b
<1>2. /\ Hits(pods[b], k) \subseteq 0 .. pods[b].index - 1
      /\ Hits(pods[b], k) \subseteq Slot
      /\ Hits(pods[b], k) # {} => Max(Hits(pods[b], k)) \in Hits(pods[b], k)
  BY <1>1, HitsAreSlots
<1>3. ASSUME NEW i \in Hits(pods[b], k)
      PROVE  /\ pods[b].kv_pairs[i].numberValues > 0
             /\ pods[b].kv_pairs[i].readIndex \in 0 .. MAXNUMBERVALUES
  <2>1. i \in Slot /\ i < pods[b].index /\ pods[b].index \in Slot
    BY <1>1, <1>2, FieldTypes DEF Slot
  <2>. QED
    BY <1>1, <2>1, FieldTypes DEF CountsAgree
<1>. QED
  BY <1>2, <1>3 DEF Found, b

LEMMA ReadLoadPreserves ==
    ASSUME StoreInv, LockInv', NEW p \in Proc, ReadLoad(p)
    PROVE  StoreInv'
<1>1. PICK k, rows, out : k = frame[p].key /\ rows = LoadCursors(pods, k) /\ out = ReadValue(pods, k, Null)
  OBVIOUS
<1>2. /\ pc[p] = "r_cs" /\ frame[p].op = "read" /\ UNCHANGED <<lockVars, open, left, pods, hist>>
      /\ frame' = [At(p, "loaded") EXCEPT ![p].loc = rows, ![p].out = out]
      /\ seen' = [seen EXCEPT ![k] = @ \union Range(rows)]
  BY <1>1 DEF ReadLoad, Proceed
<1>3. pods \in Pods /\ CountsAgree /\ seen \in [Key -> SUBSET (0 .. MAXNUMBERVALUES)] /\ k \in Key
  BY <1>1, <1>2, ReaderKey DEF StoreInv, StoreTypeOK
<1>4. /\ OthersKeep(p) /\ SameCall(p)
      /\ frame'[p].at = "loaded" /\ frame'[p].loc = rows /\ frame'[p].out = out
  BY <1>2, MoverFacts DEF At, OthersKeep, SameCall, NoFrame, lockVars
<1>5. /\ rows \in [Found(k) -> 0 .. MAXNUMBERVALUES]
      /\ \A i \in Found(k) : rows[i] = pods[PodOf[k]].kv_pairs[i].readIndex
  BY <1>1, <1>3, FoundPairs DEF LoadCursors, Found
<1>6. seen' \in [Key -> SUBSET (0 .. MAXNUMBERVALUES)]
  <2>1. Range(rows) \subseteq 0 .. MAXNUMBERVALUES
    BY <1>5 DEF Range
  <2>. QED
    BY <1>2, <1>3, <2>1
<1>7. UNCHANGED pods /\ pc' = pc
  BY <1>2 DEF lockVars
<1>8. Found(k)' = Found(k) /\ PairOf(k)' = PairOf(k)
  BY <1>7 DEF Found, PairOf
<1>9. RowsLoaded(p)'
  <2>1. frame'[p].op = "read" /\ frame'[p].key = k
    BY <1>1, <1>2, <1>4 DEF SameCall
  <2>2. Found(frame[p].key)' = Found(k)
    BY <1>7, <2>1 DEF Found
  <2>. QED
    BY <1>4, <1>5, <2>1, <2>2 DEF RowsLoaded
<1>10. SeesStablePair(p)'
  <2>1. frame'[p].key = k
    BY <1>1, <1>4 DEF SameCall
  <2>2. Found(frame[p].key)' = Found(k) /\ PairOf(frame[p].key)' = PairOf(k)
    BY <1>7, <2>1 DEF Found, PairOf
  <2>. DEFINE i == Max(Found(k))
  <2>3. ASSUME Found(k) # {}, rows[i] # MAXNUMBERVALUES, PairOf(k).value[rows[i]] \notin LongValue
        PROVE  out = PairOf(k).value[rows[i]]
    <3>1. i \in Found(k) /\ rows[i] = pods[PodOf[k]].kv_pairs[i].readIndex
      BY <1>3, <1>5, <2>3, FoundPairs
    <3>2. out = StringAt(pods, PodOf[k], i, rows[i])
      BY <1>1, <2>3, <3>1 DEF ReadValue, Found
    <3>. QED
      BY <2>3, <3>2 DEF StringAt, RunsOn, PairOf
  <2>. QED
    BY <1>4, <1>5, <2>1, <2>2, <2>3 DEF SeesStablePair
<1>11. FrameTypeOK(p)' /\ PlaceAgrees(p)'
  BY <1>2, <1>4, <1>7, MoverFacts DEF SameCall, FrameTypeOK, PlaceAgrees, WriterLabels, ReaderLabels, Places
<1>12. ASSUME NEW q \in Proc
      PROVE  /\ FrameTypeOK(q)'
             /\ PlaceAgrees(q)'
             /\ pc'[q] = "w_cs" /\ frame'[q].at \in {"counted", "stored"} => LocationHolds(q)'
             /\ pc'[q] = "r_cs" /\ frame'[q].at = "loaded" => RowsLoaded(q)' /\ SeesStablePair(q)'
  <2>1. CASE q = p
    BY <1>2, <1>7, <1>9, <1>10, <1>11, <2>1
  <2>2. CASE q # p
    <3>1. frame'[q] = frame[q] /\ pc'[q] = pc[q]
      BY <1>4, <2>2 DEF OthersKeep
    <3>2. /\ FrameTypeOK(q) /\ PlaceAgrees(q)
          /\ pc[q] = "w_cs" /\ frame[q].at \in {"counted", "stored"} => LocationHolds(q)
          /\ pc[q] = "r_cs" /\ frame[q].at = "loaded" => RowsLoaded(q) /\ SeesStablePair(q)
      BY DEF StoreInv, StoreTypeOK, ReadSeesStablePair
    <3>. QED
      BY <1>7, <3>1, <3>2, FoundStays
  <2>. QED
    BY <2>1, <2>2
<1>13. StoreTypeOK'
  BY <1>2, <1>4, <1>6, <1>12 DEF StoreInv, StoreTypeOK, LockInv, OthersKeep
<1>14. CountsAgree'
  BY <1>3, <1>7 DEF CountsAgree
<1>. QED
  BY <1>12, <1>13, <1>14 DEF StoreInv, ReadSeesStablePair

LEMMA ReadStoreEffect ==
    ASSUME StoreInv, NEW p \in Proc, ReadStore(p), NEW b, b = PodOf[frame[p].key], NEW rows, rows = frame[p].loc
    PROVE  /\ pc[p] = "r_cs" /\ frame[p].at = "loaded" /\ frame[p].key \in Key /\ b \in PodId
           /\ UNCHANGED <<lockVars, open, left, hist, seen>>
           /\ OthersKeep(p) /\ SameCall(p) /\ frame'[p].at = "done" /\ pc' = pc
           /\ frame'[p].out = frame[p].out
           /\ rows \in [Found(frame[p].key) -> 0 .. MAXNUMBERVALUES]
           /\ \A i \in Slot \intersect DOMAIN rows :
                 rows[i] \in 0 .. MAXNUMBERVALUES /\ pods[b].kv_pairs[i].numberValues > 0
           /\ CursorsStored(pods, pods', b, rows)
<1>2. /\ pc[p] = "r_cs" /\ frame[p].at = "loaded"
      /\ UNCHANGED <<lockVars, open, left, hist, seen>>
      /\ frame' = At(p, "done")
      /\ pods' = MoveCursors(pods, b, rows)
  BY DEF ReadStore, Proceed
<1>3. pods \in Pods /\ CountsAgree /\ b \in PodId /\ RowsLoaded(p) /\ frame[p].key \in Key
  BY <1>2, ReaderKey DEF StoreInv, StoreTypeOK
<1>4. /\ OthersKeep(p) /\ SameCall(p) /\ frame'[p].at = "done" /\ pc' = pc
      /\ frame'[p].out = frame[p].out
  BY <1>2, MoverFacts, AtEffect DEF OthersKeep, lockVars
<1>5. /\ rows \in [Found(frame[p].key) -> 0 .. MAXNUMBERVALUES]
      /\ \A i \in Slot \intersect DOMAIN rows :
            rows[i] \in 0 .. MAXNUMBERVALUES /\ pods[b].kv_pairs[i].numberValues > 0
  BY <1>3, FoundPairs DEF RowsLoaded
<1>6. CursorsStored(pods, pods', b, rows)
  BY <1>2, <1>3, <1>5, CursorsEffect
<1>. QED
  BY <1>2, <1>3, <1>4, <1>5, <1>6

\* So a scan for any key finds what it found before, and the same values in it.
LEMMA CursorsLeaveFound ==
    ASSUME pods \in Pods, NEW b \in PodId, NEW rows, CursorsStored(pods, pods', b, rows), NEW k \in Key
    PROVE  /\ Found(k)' = Found(k)
           /\ \A i \in Slot : pods'[PodOf[k]].kv_pairs[i].value = pods[PodOf[k]].kv_pairs[i].value
<1>1. PICK c \in PodId : c = PodOf[k]
  BY HashAssumption
<1>2. \A i \in Slot : /\ pods'[c].kv_pairs[i].key = pods[c].kv_pairs[i].key
                      /\ pods'[c].kv_pairs[i].value = pods[c].kv_pairs[i].value
  BY DEF CursorsStored
<1>3. pods' \in Pods /\ pods'[c].index = pods[c].index
  BY DEF CursorsStored
<1>4. Hits(pods'[c], k) = Hits(pods[c], k)
  BY <1>2, <1>3, HitsOfKeys
<1>. QED
  BY <1>1, <1>2, <1>4 DEF Found

LEMMA ReadStorePreserves ==
    ASSUME StoreInv, LockInv', NEW p \in Proc, ReadStore(p)
    PROVE  StoreInv'
<1>1. PICK b, rows : b = PodOf[frame[p].key] /\ rows = frame[p].loc
  OBVIOUS
<1>2. /\ pc[p] = "r_cs" /\ frame[p].at = "loaded"
      /\ UNCHANGED <<lockVars, open, left, hist, seen>>
      /\ OthersKeep(p) /\ SameCall(p) /\ frame'[p].at = "done" /\ pc' = pc
      /\ CursorsStored(pods, pods', b, rows)
      /\ \A i \in Slot \intersect DOMAIN rows :
            rows[i] \in 0 .. MAXNUMBERVALUES /\ pods[b].kv_pairs[i].numberValues > 0
  BY <1>1, ReadStoreEffect
<1>3. pods \in Pods /\ CountsAgree /\ b \in PodId
  BY <1>1, <1>2, ReaderKey DEF StoreInv, StoreTypeOK
<1>7. ASSUME NEW k \in Key
      PROVE  Found(k)' = Found(k) /\ (Found(k) # {} => PairOf(k)'.value = PairOf(k).value)
  <2>1. /\ Found(k)' = Found(k)
        /\ \A i \in Slot : pods'[PodOf[k]].kv_pairs[i].value = pods[PodOf[k]].kv_pairs[i].value
    BY <1>2, <1>3, CursorsLeaveFound
  <2>2. Found(k) # {} => Max(Found(k)) \in Slot
    BY <1>3, FoundPairs
  <2>. QED
    BY <2>1, <2>2 DEF PairOf
<1>8. CountsAgree'
  <2>. SUFFICES ASSUME NEW c \in PodId, NEW j \in Slot
                PROVE  /\ j < pods'[c].index => pods'[c].kv_pairs[j].numberValues > 0
                       /\ \/ pods'[c].kv_pairs[j].readIndex = 0
                          \/ pods'[c].kv_pairs[j].readIndex < pods'[c].kv_pairs[j].numberValues
    BY DEF CountsAgree
  <2>1. CASE c # b
    BY <1>2, <1>3, <2>1 DEF CountsAgree, CursorsStored
  <2>2. CASE c = b /\ j \notin DOMAIN rows
    BY <1>2, <1>3, <2>2 DEF CountsAgree, CursorsStored
  <2>3. CASE c = b /\ j \in DOMAIN rows
    <3>1. pods[b].kv_pairs[j].numberValues \in Nat \ {0} /\ rows[j] \in Nat
      BY <1>2, <1>3, <2>3, FieldTypes
    <3>2. \A m \in Nat \ {0}, r \in Nat : (r + 1) % m < m
      OBVIOUS
    <3>. QED
      BY <1>2, <2>3, <3>1, <3>2 DEF CursorsStored
  <2>. QED
    BY <2>1, <2>2, <2>3
<1>9. FrameTypeOK(p)' /\ PlaceAgrees(p)'
  BY <1>2, MoverFacts DEF SameCall, FrameTypeOK, PlaceAgrees, WriterLabels, ReaderLabels, Places
<1>10. ASSUME NEW q \in Proc
       PROVE  /\ FrameTypeOK(q)'
              /\ PlaceAgrees(q)'
              /\ pc'[q] # "w_cs"
              /\ pc'[q] = "r_cs" /\ frame'[q].at = "loaded" => RowsLoaded(q)' /\ SeesStablePair(q)'
  <2>1. CASE q = p
    BY <1>2, <1>9, <2>1
  <2>2. CASE q # p
    <3>1. frame'[q] = frame[q] /\ pc'[q] = pc[q]
      BY <1>2, <2>2 DEF OthersKeep
    <3>2. FrameTypeOK(q)' /\ PlaceAgrees(q)'
      BY <3>1, MoverFacts DEF FrameTypeOK, PlaceAgrees
    <3>3. pc[q] # "w_cs"
      BY <1>2, <2>2, WriterIsAlone DEF StoreInv
    <3>4. ASSUME pc[q] = "r_cs", frame[q].at = "loaded"
          PROVE  RowsLoaded(q)' /\ SeesStablePair(q)'
      <4>1. PICK k \in Key : k = frame[q].key
        BY <3>4, ReaderKey
      <4>2. RowsLoaded(q) /\ SeesStablePair(q)
        BY <3>4 DEF StoreInv, ReadSeesStablePair
      <4>3. Found(k)' = Found(k) /\ (Found(k) # {} => PairOf(k)'.value = PairOf(k).value)
        BY <1>7
      <4>4. Found(frame[q].key)' = Found(k)' /\ PairOf(frame[q].key)' = PairOf(k)'
        BY <3>1, <4>1 DEF Found, PairOf
      <4>5. RowsLoaded(q)'
        BY <3>1, <4>1, <4>2, <4>3, <4>4 DEF RowsLoaded
      <4>6. SeesStablePair(q)'
        BY <3>1, <4>1, <4>2, <4>3, <4>4 DEF SeesStablePair
      <4>. QED
        BY <4>5, <4>6
    <3>. QED
      BY <3>1, <3>2, <3>3, <3>4
  <2>. QED
    BY <2>1, <2>2
<1>11. StoreTypeOK'
  BY <1>2, <1>10 DEF StoreInv, StoreTypeOK, LockInv, OthersKeep, CursorsStored
<1>. QED
  BY <1>8, <1>10, <1>11 DEF StoreInv, ReadSeesStablePair

-----------------------------------------------------------------------------
(* The invariant *)

LEMMA InitStoreInv == StoreInit => StoreInv
<1>. SUFFICES ASSUME StoreInit PROVE StoreInv
  OBVIOUS
<1>1. LockInv /\ LockTypeOK /\ \A p \in Proc : pc[p] = "idle"
  BY InitLockInv DEF StoreInit, Init, LockInv
<1>2. pods \in Pods
  <2>1. [j \in Row |-> Empty] \in [Row -> Value \union {Empty}] /\ <<>> \in Seq(Char) /\ 0 \in Row
        /\ 0 \in 0 .. MAXNUMBERVALUES /\ 0 \in 0 .. MAXNUMBERVALUES + 1
    BY PodAssumption, EmptySeq DEF Row
  <2>2. EmptyPair \in Pair
    BY <2>1 DEF EmptyPair, Pair
  <2>3. 0 \in Slot
    BY PodAssumption DEF Slot
  <2>4. [i \in Slot |-> EmptyPair] \in [Slot -> Pair]
    BY <2>2
  <2>5. EmptyPod \in Pod
    BY <2>3, <2>4 DEF EmptyPod, Pod
  <2>. QED
    BY <2>5 DEF StoreInit, EmptyPods, Pods
<1>3. CountsAgree
  <2>1. \A b \in PodId, i \in Slot : pods[b].index = 0 /\ pods[b].kv_pairs[i].readIndex = 0
    BY DEF StoreInit, EmptyPods, EmptyPod, EmptyPair
  <2>2. \A i \in Slot : ~ (i < 0)
    BY DEF Slot
  <2>. QED
    BY <2>1, <2>2 DEF CountsAgree
<1>4. \A p \in Proc : frame[p] = NoFrame
  BY DEF StoreInit
<1>5. \A p \in Proc : FrameTypeOK(p) /\ PlaceAgrees(p) /\ frame[p].at = "none"
  BY <1>1, <1>4 DEF NoFrame, FrameTypeOK, PlaceAgrees, WriterLabels, ReaderLabels, Places
<1>6. StoreTypeOK
  <2>1. /\ left \in 0 .. MaxCalls /\ open \in BOOLEAN /\ DOMAIN frame = Proc
        /\ hist \in [Key -> Seq(Value)] /\ seen \in [Key -> SUBSET (0 .. MAXNUMBERVALUES)]
    BY CallsAssumption, EmptySeq DEF StoreInit
  <2>. QED
    BY <1>1, <1>2, <1>5, <2>1 DEF StoreTypeOK
<1>. QED
  BY <1>1, <1>3, <1>5, <1>6 DEF StoreInv, ReadSeesStablePair

LEMMA NextStoreInv == StoreInv /\ [StoreNext]_vars => StoreInv'
<1>. SUFFICES ASSUME StoreInv, [StoreNext]_vars PROVE StoreInv'
  OBVIOUS
<1>1. LockInv'
  BY StepsKeepToLock, NextLockInv DEF StoreInv
<1>2. CASE UNCHANGED vars
  BY <1>1, <1>2, KillStorePreserves DEF vars, lockVars
<1>3. ASSUME NEW p \in Proc, Enter(p) PROVE StoreInv'
  BY <1>1, <1>3, EnterPreserves
<1>4. ASSUME NEW p \in Proc, Step(p) PROVE StoreInv'
  BY <1>1, <1>4, EnterSectionPreserves, LockStepPreserves, WriteCountPreserves, WriteStringsPreserves,
     WritePublishPreserves, ReturnPreserves, ReadLoadPreserves, ReadStorePreserves,
     ReadAllPreserves, ReadDonePreserves DEF Step
<1>5. ASSUME NEW p \in Proc, KillProcess(p) PROVE StoreInv'
  BY <1>1, <1>5, KillStorePreserves DEF KillProcess, Kill
<1>. QED
  BY <1>2, <1>3, <1>4, <1>5 DEF StoreNext

\* The store keeps its inductive invariant whatever wraps around or spills over.
THEOREM StoreInvariant == StoreSpec => []StoreInv
BY InitStoreInv, NextStoreInv, PTL DEF StoreSpec

\* Every field stays in its range: the counters of all pairs, the cursors, the indices.
THEOREM StoreTypeCorrect == StoreSpec => []StoreTypeOK
<1>1. StoreInv => StoreTypeOK
  BY DEF StoreInv
<1>. QED
  BY <1>1, StoreInvariant, PTL

\* A read between its load and its store still sees the pair it has loaded.
THEOREM ReadsAreStable == StoreSpec => []ReadSeesStablePair
<1>1. StoreInv => ReadSeesStablePair
  BY DEF StoreInv
<1>. QED
  BY <1>1, StoreInvariant, PTL

-----------------------------------------------------------------------------
(* The layout, where there is room *)

LEMMA RoomKey ==
    ASSUME Room, NEW k \in Key
    PROVE  k \in Seq(Char) /\ k # <<>> /\ Clip(k) = k /\ Len(k) < KEYSIZE /\ PodOf[k] \in PodId
<1>1. k \in Seq(Char) /\ k # <<>> /\ Len(k) \in Nat /\ Len(k) < KEYSIZE
  BY KeyAssumption, LenProperties DEF Room
<1>. QED
  BY <1>1, ClipIsKey, HashAssumption, PodAssumption

\* A scan finds exactly the visible slots with the key.
LEMMA ScanFinds ==
    ASSUME Room, NEW P \in Pods, NEW k \in Key
    PROVE  /\ Hits(P[PodOf[k]], k) \subseteq Slot
           /\ \A i \in Slot : i \in Hits(P[PodOf[k]], k) <=>
                 i < P[PodOf[k]].index /\ P[PodOf[k]].kv_pairs[i].key = k
<1>1. PICK b \in PodId : b = PodOf[k]
  BY RoomKey
<1>2. Hits(P[b], k) \subseteq Slot
  BY HitsAreSlots
<1>3. ASSUME NEW i \in Slot
      PROVE  i \in Hits(P[b], k) <=> i < P[b].index /\ P[b].kv_pairs[i].key = k
  <2>1. P[b].index \in Slot
    BY FieldTypes
  <2>2. i \in 0 .. P[b].index - 1 <=> i < P[b].index
    BY <2>1 DEF Slot
  <2>. QED
    BY <2>2, RoomKey DEF Hits, SameKey
<1>. QED
  BY <1>1, <1>2, <1>3

LEMMA FoundIs ==
    ASSUME Room, pods \in Pods, NEW k \in Key
    PROVE  /\ Found(k) \subseteq Slot
           /\ \A i \in Slot : i \in Found(k) <=>
                 i < pods[PodOf[k]].index /\ pods[PodOf[k]].kv_pairs[i].key = k
BY ScanFinds DEF Found

\* And there is at most one.
LEMMA OneFound ==
    ASSUME Room, pods \in Pods, SlotsAgree, NEW k \in Key, NEW i \in Found(k)
    PROVE  Found(k) = {i} /\ Max(Found(k)) = i /\ Min(Found(k)) = i
<1>1. PodOf[k] \in PodId /\ i \in Slot
  BY RoomKey, FoundIs
<1>2. \A j \in Found(k) : j = i
  BY <1>1, FoundIs DEF SlotsAgree
<1>3. Found(k) = {i}
  BY <1>2
<1>4. \A x, y \in Found(k) : x >= y /\ x <= y
  BY <1>1, <1>3 DEF Slot
<1>5. Max(Found(k)) \in Found(k)
  BY <1>4 DEF Max
<1>6. Min(Found(k)) \in Found(k)
  BY <1>4 DEF Min
<1>. QED
  BY <1>3, <1>5, <1>6

\* At most one process is halfway, and none while somebody reads.
LEMMA HalfwayAlone ==
    ASSUME LockInv, NEW p \in Proc
    PROVE  /\ pc[p] = "w_cs" => Halfway \subseteq {p}
           /\ pc[p] = "r_cs" => Halfway = {}
<1>1. \A q \in Proc : pc[q] = "w_cs" /\ q # p => pc[p] \notin {"w_cs", "r_cs"}
  BY WriterIsAlone
<1>. QED
  BY <1>1 DEF Halfway

\* The layout depends on the segment, on the values written, and on who is halfway.
LEMMA LayoutStays ==
    ASSUME LayoutInv, UNCHANGED <<pods, hist>>, Halfway' = Halfway,
           \A p \in Halfway : frame'[p] = frame[p]
    PROVE  LayoutInv'
<1>1. \A k : Found(k)' = Found(k)
  BY DEF Found
<1>2. \A b, i : Touched(b, i)' <=> Touched(b, i)
  BY DEF Touched
<1>3. SlotsAgree'
  BY <1>2 DEF LayoutInv, SlotsAgree
<1>4. RingsAgree'
  BY <1>1, <1>2 DEF LayoutInv, RingsAgree
<1>5. ASSUME NEW p \in Halfway PROVE HalfwayAgrees(p)'
  <2>1. frame'[p] = frame[p] /\ HalfwayAgrees(p)
    BY <1>5 DEF LayoutInv
  <2>. QED
    BY <2>1, <1>1 DEF HalfwayAgrees, Found
<1>. QED
  BY <1>3, <1>4, <1>5 DEF LayoutInv

\* A change to the pair that is being written, which leaves its key if it is visible,
\* changes nothing for the others.
LEMMA OthersAgree ==
    ASSUME Room, pods \in Pods, SlotsAgree, RingsAgree, hist' = hist,
           NEW b \in PodId, NEW i \in Slot, OnlyPair(pods, pods', b, i),
           i < pods[b].index => pods'[b].kv_pairs[i].key = pods[b].kv_pairs[i].key,
           \A c \in PodId, j \in Slot : c # b \/ j # i => ~ Touched(c, j),
           Touched(b, i)'
    PROVE  SlotsAgree' /\ RingsAgree' /\ \A k \in Key : Found(k)' = Found(k)
<1>1. /\ pods' \in Pods
      /\ \A c \in PodId : pods'[c].index = pods[c].index
      /\ \A c \in PodId, j \in Slot : c # b \/ j # i => pods'[c].kv_pairs[j] = pods[c].kv_pairs[j]
      /\ \A c \in PodId, j \in Slot :
            j < pods[c].index => pods'[c].kv_pairs[j].key = pods[c].kv_pairs[j].key
  BY DEF OnlyPair
<1>2. ASSUME NEW k \in Key PROVE Found(k)' = Found(k)
  <2>1. PICK c \in PodId : c = PodOf[k]
    BY RoomKey
  <2>2. /\ Found(k) \subseteq Slot
        /\ \A j \in Slot : j \in Found(k) <=> j < pods[c].index /\ pods[c].kv_pairs[j].key = k
    BY <2>1, FoundIs
  <2>3. Found(k)' = Hits(pods'[c], k)
    BY <2>1 DEF Found
  <2>4. Hits(pods'[c], k) \subseteq Slot
    BY <1>1, HitsAreSlots
  <2>5. \A j \in Slot : j \in Hits(pods'[c], k) <=> j < pods'[c].index /\ pods'[c].kv_pairs[j].key = k
    <3>1. pods'[c].index \in Slot
      BY <1>1, FieldTypes
    <3>. QED
      BY <3>1, RoomKey DEF Hits, SameKey, Slot
  <2>6. \A j \in Slot : j \in Hits(pods'[c], k) <=> j \in Found(k)
    <3>. SUFFICES ASSUME NEW j \in Slot PROVE j \in Hits(pods'[c], k) <=> j \in Found(k)
      OBVIOUS
    <3>1. pods'[c].index = pods[c].index
      BY <1>1
    <3>2. j < pods[c].index => pods'[c].kv_pairs[j].key = pods[c].kv_pairs[j].key
      BY <1>1
    <3>. QED
      BY <2>2, <2>5, <3>1, <3>2
  <2>7. Hits(pods'[c], k) = Found(k)
    BY <2>2, <2>4, <2>6
  <2>. QED
    BY <2>3, <2>7
<1>3. SlotsAgree'
  <2>. SUFFICES ASSUME NEW c \in PodId, NEW j \in Slot
                PROVE  LET pair == pods'[c].kv_pairs[j]
                       IN  /\ j < pods'[c].index =>
                                /\ pair.key \in KeysOf(c)
                                /\ \A m \in Slot : m < pods'[c].index /\ pods'[c].kv_pairs[m].key = pair.key => m = j
                           /\ j >= pods'[c].index /\ ~ Touched(c, j)' =>
                                /\ pair.key = <<>>
                                /\ pair.numberValues = 0 /\ pair.writeIndex = 0 /\ pair.readIndex = 0
    BY DEF SlotsAgree
  <2>1. CASE j < pods'[c].index
    <3>1. pods[c].index \in Slot
      BY FieldTypes
    <3>. QED
      BY <1>1, <2>1, <3>1 DEF SlotsAgree, Slot
  <2>2. ASSUME j >= pods'[c].index, ~ Touched(c, j)'
        PROVE  /\ pods'[c].kv_pairs[j].key = <<>> /\ pods'[c].kv_pairs[j].numberValues = 0
               /\ pods'[c].kv_pairs[j].writeIndex = 0 /\ pods'[c].kv_pairs[j].readIndex = 0
    <3>1. c # b \/ j # i
      BY <2>2
    <3>2. j >= pods[c].index /\ ~ Touched(c, j) /\ pods'[c].kv_pairs[j] = pods[c].kv_pairs[j]
      BY <1>1, <2>2, <3>1
    <3>. QED
      BY <3>2 DEF SlotsAgree
  <2>3. ~ (j < pods'[c].index /\ j >= pods'[c].index)
    <3>1. pods'[c].index \in Slot
      BY <1>1, FieldTypes
    <3>. QED
      BY <3>1 DEF Slot
  <2>. QED
    BY <2>1, <2>2, <2>3
<1>4. RingsAgree'
  <2>. SUFFICES ASSUME NEW k \in Key
                PROVE  /\ hist'[k] = <<>> <=> Found(k)' = {}
                       /\ \A j \in Found(k)' : ~ Touched(PodOf[k], j)' =>
                             LET pair == pods'[PodOf[k]].kv_pairs[j]
                             IN  /\ pair.writeIndex = Len(hist'[k]) % MAXNUMBERVALUES
                                 /\ pair.numberValues = Kept(Len(hist'[k]))
                                 /\ RowsHold(pair, hist'[k], -1)
    BY DEF RingsAgree
  <2>1. hist'[k] = <<>> <=> Found(k)' = {}
    BY <1>2 DEF RingsAgree
  <2>2. ASSUME NEW j \in Found(k)', ~ Touched(PodOf[k], j)'
        PROVE  /\ pods'[PodOf[k]].kv_pairs[j] = pods[PodOf[k]].kv_pairs[j]
               /\ j \in Found(k) /\ ~ Touched(PodOf[k], j)
    BY <1>1, <1>2, <2>2, RoomKey, FoundIs
  <2>. QED
    BY <2>1, <2>2 DEF RingsAgree
<1>. QED
  BY <1>2, <1>3, <1>4

\* A pod that a key is not yet in has a free slot after the one the key will get.
LEMMA RoomForOne ==
    ASSUME Room, pods \in Pods, SlotsAgree, NEW k \in Key, Found(k) = {}
    PROVE  pods[PodOf[k]].index + 1 < NUMBERKVPAIR
<1>1. PICK b \in PodId : b = PodOf[k]
  BY RoomKey
<1>2. PICK n \in Slot : n = pods[b].index
  BY FieldTypes
<1>3. n \in Nat /\ \A j \in 0 .. n - 1 : j \in Slot
  BY PodAssumption DEF Slot
<1>. DEFINE f == [j \in 0 .. n |-> IF j < n THEN pods[b].kv_pairs[j].key ELSE k]
<1>4. \A j \in 0 .. n - 1 : pods[b].kv_pairs[j].key \in KeysOf(b) /\ pods[b].kv_pairs[j].key # k
  BY <1>1, <1>2, <1>3, FoundIs DEF SlotsAgree
<1>5. k \in KeysOf(b)
  BY <1>1 DEF KeysOf
<1>6. f \in [0 .. n -> KeysOf(b)]
  BY <1>3, <1>4, <1>5
<1>7. \A x, y \in 0 .. n : f[x] = f[y] => x = y
  <2>. SUFFICES ASSUME NEW x \in 0 .. n, NEW y \in 0 .. n, f[x] = f[y] PROVE x = y
    OBVIOUS
  <2>1. CASE x < n /\ y < n
    <3>1. x \in Slot /\ y \in Slot /\ pods[b].kv_pairs[y].key = pods[b].kv_pairs[x].key
      BY <1>3, <2>1
    <3>. QED
      BY <1>2, <2>1, <3>1 DEF SlotsAgree
  <2>2. CASE x = n /\ y = n
    BY <2>2
  <2>3. CASE x < n /\ y = n
    BY <1>3, <1>4, <2>3
  <2>4. CASE x = n /\ y < n
    BY <1>3, <1>4, <2>4
  <2>. QED
    BY <1>3, <2>1, <2>2, <2>3, <2>4
<1>8. IsFiniteSet(0 .. n) /\ Cardinality(0 .. n) = n + 1
  BY <1>3, FS_Interval
<1>9. IsFiniteSet(KeysOf(b)) /\ Cardinality(KeysOf(b)) < NUMBERKVPAIR /\ Cardinality(KeysOf(b)) \in Nat
  BY FS_CardinalityType DEF Room
<1>. HIDE DEF f
<1>10. ~ (Cardinality(KeysOf(b)) < n + 1)
  <2>1. PICK S, T, g : S = 0 .. n /\ T = KeysOf(b) /\ g = f
    OBVIOUS
  <2>2. g \in [S -> T] /\ IsFiniteSet(S) /\ IsFiniteSet(T)
    BY <1>6, <1>8, <1>9, <2>1
  <2>3. ~ \E x, y \in S : x # y /\ g[x] = g[y]
    BY <1>7, <2>1
  <2>4. ~ (Cardinality(T) < Cardinality(S))
    BY <2>2, <2>3, FS_PigeonHole
  <2>. QED
    BY <1>8, <2>1, <2>4
<1>. QED
  BY <1>1, <1>2, <1>3, <1>9, <1>10, PodAssumption

-----------------------------------------------------------------------------
(* The steps of a write keep the layout *)

\* Who is halfway before and after a step of a process in the write section.
LEMMA HalfwayMoves ==
    ASSUME LockInv, NEW p \in Proc, pc[p] = "w_cs", pc' = pc, OthersKeep(p)
    PROVE  /\ Halfway = IF frame[p].at \in {"counted", "stored"} THEN {p} ELSE {}
           /\ Halfway' = IF frame'[p].at \in {"counted", "stored"} THEN {p} ELSE {}
<1>1. \A q \in Proc : pc[q] = "w_cs" => q = p
  BY WriterIsAlone
<1>. QED
  BY <1>1 DEF Halfway

LEMMA WriteCountKeepsLayout ==
    ASSUME StoreInv, Room, LayoutInv, NEW p \in Proc, WriteCount(p)
    PROVE  /\ LayoutInv'
           /\ \A k \in Key : Found(k)' = Found(k)
           /\ \A b \in PodId, i \in Slot :
                 pods'[b].kv_pairs[i].readIndex = pods[b].kv_pairs[i].readIndex
<1>1. PICK k, l : k = frame[p].key /\ l = Locate(pods, Clip(k))
  OBVIOUS
<1>2. /\ pc[p] = "w_cs" /\ frame[p].at = "in" /\ UNCHANGED <<lockVars, hist>>
      /\ frame' = [At(p, "counted") EXCEPT ![p].loc = l]
      /\ pods' = CountValue(pods, l)
  BY <1>1 DEF WriteCount, Proceed
<1>3. pods \in Pods /\ hist \in [Key -> Seq(Value)] /\ LockInv
  BY DEF StoreInv, StoreTypeOK
<1>4. k \in Key /\ Clip(k) = k /\ PodOf[k] \in PodId
  BY <1>1, <1>2, WriterKey, RoomKey
<1>5. /\ OthersKeep(p) /\ SameCall(p) /\ frame'[p].at = "counted" /\ frame'[p].loc = l /\ pc' = pc
  BY <1>2, MoverFacts DEF At, OthersKeep, SameCall, NoFrame, lockVars
<1>6. Halfway = {} /\ Halfway' = {p}
  BY <1>2, <1>3, <1>5, HalfwayMoves
<1>7. /\ l.pod = PodOf[k] /\ l.slot \in Slot /\ l.keyExists \in BOOLEAN
      /\ l.keyExists <=> Found(k) # {}
      /\ l.keyExists => l.slot \in Found(k) /\ l.slot < pods[PodOf[k]].index
      /\ ~ l.keyExists => l.slot = pods[PodOf[k]].index
      /\ l.at = pods[PodOf[k]].kv_pairs[l.slot].writeIndex
  <2>1. l = Locate(pods, k)
    BY <1>1, <1>4
  <2>2. /\ l.pod = PodOf[k] /\ l.slot \in Slot /\ l.keyExists \in BOOLEAN
        /\ l.keyExists => l.slot < pods[PodOf[k]].index
        /\ ~ l.keyExists => l.slot = pods[PodOf[k]].index
        /\ l.at = pods[PodOf[k]].kv_pairs[l.slot].writeIndex
    BY <1>3, <1>4, <2>1, LocateFields
  <2>3. l.keyExists <=> Hits(pods[PodOf[k]], k) # {}
    BY <1>3, <1>4, <2>1, LocateFields
  <2>4. l.keyExists => l.slot \in Hits(pods[PodOf[k]], k)
    BY <1>3, <1>4, <2>1, LocateFields
  <2>. QED
    BY <2>2, <2>3, <2>4 DEF Found
<1>8. PICK b \in PodId, i \in Slot : b = l.pod /\ i = l.slot
  BY <1>4, <1>7
<1>9. /\ OnlyPair(pods, pods', b, i)
      /\ pods'[b].kv_pairs[i].numberValues =
            IF pods[b].kv_pairs[i].numberValues <= MAXNUMBERVALUES
            THEN pods[b].kv_pairs[i].numberValues + 1
            ELSE pods[b].kv_pairs[i].numberValues
      /\ pods'[b].kv_pairs[i].readIndex = pods[b].kv_pairs[i].readIndex
      /\ pods'[b].kv_pairs[i].key = pods[b].kv_pairs[i].key
      /\ pods'[b].kv_pairs[i].value = pods[b].kv_pairs[i].value
  <2>1. Counted(pods, pods', b, i)
    BY <1>2, <1>3, <1>8, CountEffect
  <2>. QED
    BY <2>1 DEF Counted
<1>10. \A c, j : ~ Touched(c, j)
  BY <1>6 DEF Touched
<1>11. Touched(b, i)'
  BY <1>5, <1>6, <1>8 DEF Touched
<1>12. SlotsAgree /\ RingsAgree
  BY DEF LayoutInv
<1>13. SlotsAgree' /\ RingsAgree' /\ \A c \in Key : Found(c)' = Found(c)
  BY <1>2, <1>3, <1>9, <1>10, <1>11, <1>12, OthersAgree
<1>14. HalfwayAgrees(p)'
  <2>1. PICK h \in Seq(Value) : h = hist[k]
    BY <1>3, <1>4
  <2>2. PICK old, new : old = pods[b].kv_pairs[i] /\ new = pods'[b].kv_pairs[i]
    OBVIOUS
  <2>3. Len(h) \in Nat
    BY LenProperties
  <2>4. /\ old.numberValues = Kept(Len(h)) /\ l.at = Len(h) % MAXNUMBERVALUES
        /\ RowsHold(old, h, -1)
    <3>1. CASE l.keyExists
      BY <1>7, <1>8, <1>10, <1>12, <1>4, <2>1, <2>2, <3>1 DEF RingsAgree
    <3>2. CASE ~ l.keyExists
      <4>1. h = <<>>
        BY <1>4, <1>7, <1>12, <2>1, <3>2 DEF RingsAgree
      <4>2. i >= pods[b].index
        BY <1>7, <1>8, <3>2 DEF Slot
      <4>3. old.numberValues = 0 /\ l.at = 0
        BY <1>7, <1>8, <1>10, <1>12, <2>2, <4>2 DEF SlotsAgree
      <4>4. Len(h) = 0
        BY <4>1
      <4>. QED
        BY <4>3, <4>4, PodAssumption DEF Kept, RowsHold, Row
    <3>. QED
      BY <3>1, <3>2, <1>7
  <2>5. new.numberValues = Kept(Len(h) + 1)
    BY <1>9, <2>2, <2>3, <2>4, KeptNext
  <2>6. RowsHold(new, h, l.at)
    <3>1. l.at \in Row
      BY <1>3, <1>4, <1>7, FieldTypes
    <3>. QED
      BY <1>9, <2>2, <2>4, <3>1, RowsWithGap
  <2>7. ~ l.keyExists => new.readIndex = 0 /\ new.key = <<>>
    <3>1. ~ l.keyExists => i >= pods[b].index
      BY <1>7, <1>8 DEF Slot
    <3>. QED
      BY <1>9, <1>10, <1>12, <2>2, <3>1 DEF SlotsAgree
  <2>8. frame'[p].key = k /\ Found(k)' = Found(k) /\ hist'[k] = h
    BY <1>1, <1>2, <1>4, <1>5, <1>13, <2>1 DEF SameCall
  <2>9. Found(frame[p].key)' = Found(k)
    BY <2>8 DEF Found
  <2>10. frame'[p].at = "counted" /\ frame'[p].loc = l /\ l.pod = b /\ l.slot = i
    BY <1>5, <1>8
  <2>. QED
    BY <1>7, <2>2, <2>4, <2>5, <2>6, <2>7, <2>8, <2>9, <2>10 DEF HalfwayAgrees
<1>15. LayoutInv'
  BY <1>6, <1>13, <1>14 DEF LayoutInv
<1>16. \A c \in PodId, j \in Slot : pods'[c].kv_pairs[j].readIndex = pods[c].kv_pairs[j].readIndex
  BY <1>9 DEF OnlyPair
<1>. QED
  BY <1>13, <1>15, <1>16

LEMMA WriteStringsKeepsLayout ==
    ASSUME StoreInv, Room, LayoutInv, NEW p \in Proc, WriteStrings(p)
    PROVE  /\ LayoutInv'
           /\ \A k \in Key : Found(k)' = Found(k)
           /\ \A b \in PodId, i \in Slot :
                 pods'[b].kv_pairs[i].readIndex = pods[b].kv_pairs[i].readIndex
<1>1. PICK k, l, val : k = frame[p].key /\ l = frame[p].loc /\ val = frame[p].val
  OBVIOUS
<1>2. /\ pc[p] = "w_cs" /\ frame[p].at = "counted" /\ UNCHANGED <<lockVars, hist>>
      /\ frame' = At(p, "stored")
      /\ pods' = StoreStrings(pods, l, Clip(k), val)
  BY <1>1 DEF WriteStrings, Proceed
<1>3. pods \in Pods /\ hist \in [Key -> Seq(Value)] /\ LockInv /\ LocationHolds(p)
  BY <1>2 DEF StoreInv, StoreTypeOK
<1>4. k \in Key /\ k \in Seq(Char) /\ Clip(k) = k /\ PodOf[k] \in PodId /\ val \in Value
  BY <1>1, <1>2, WriterKey, RoomKey
<1>5. /\ OthersKeep(p) /\ SameCall(p) /\ frame'[p].at = "stored" /\ frame'[p].loc = l /\ pc' = pc
  BY <1>1, <1>2, MoverFacts, AtEffect DEF OthersKeep, lockVars
<1>6. Halfway = {p} /\ Halfway' = {p}
  BY <1>2, <1>3, <1>5, HalfwayMoves
<1>7. /\ l.pod = PodOf[k] /\ l.slot \in Slot /\ l.keyExists \in BOOLEAN /\ l.at \in Row
      /\ ~ l.keyExists => ~ (l.slot < pods[PodOf[k]].index)
  BY <1>1, <1>3, <1>4 DEF LocationHolds, Location, Slot
<1>8. PICK b \in PodId, i \in Slot, at \in Row : b = l.pod /\ i = l.slot /\ at = l.at
  BY <1>4, <1>7
<1>9. PICK h \in Seq(Value) : h = hist[k]
  BY <1>3, <1>4
<1>10. PICK old, new : old = pods[b].kv_pairs[i] /\ new = pods'[b].kv_pairs[i]
  OBVIOUS
<1>11. /\ l.keyExists <=> Found(k) # {}
       /\ l.keyExists => i \in Found(k)
       /\ old.numberValues = Kept(Len(h) + 1)
       /\ at = Len(h) % MAXNUMBERVALUES
       /\ RowsHold(old, h, at)
       /\ ~ l.keyExists => old.readIndex = 0 /\ old.key = <<>>
  <2>1. HalfwayAgrees(p)
    BY <1>6 DEF LayoutInv
  <2>. QED
    BY <1>1, <1>2, <1>8, <1>9, <1>10, <2>1 DEF HalfwayAgrees
<1>12. old.key = <<>> \/ old.key = k
  BY <1>3, <1>4, <1>7, <1>8, <1>10, <1>11, FoundIs
<1>13. pods' = CopyStrings(pods, l, k, val)
  <2>1. val \notin LongValue
    BY DEF Room
  <2>. QED
    BY <1>2, <1>3, <1>4, <1>8, <2>1, StoreEffect
<1>14. /\ OnlyPair(pods, pods', b, i)
       /\ new.key = Overlay(old.key, k)
       /\ new.value[at] = val
       /\ \A j \in Row \ {at} : new.value[j] = old.value[j]
       /\ new.numberValues = old.numberValues
       /\ new.readIndex = old.readIndex
  <2>1. Copied(pods, pods', b, i, at, k, val)
    BY <1>3, <1>4, <1>8, <1>13, StringsEffect
  <2>. QED
    BY <1>10, <2>1 DEF Copied
<1>15. new.key = k
  BY <1>4, <1>12, <1>14, OverlayOwn
<1>16. Touched(b, i)' /\ \A c, j : Touched(c, j) <=> c = b /\ j = i
  BY <1>1, <1>5, <1>6, <1>8 DEF Touched
<1>17. SlotsAgree /\ RingsAgree
  BY DEF LayoutInv
<1>18. i < pods[b].index => new.key = old.key
  BY <1>3, <1>4, <1>7, <1>8, <1>10, <1>11, <1>15, FoundIs
<1>19. SlotsAgree' /\ RingsAgree' /\ \A c \in Key : Found(c)' = Found(c)
  BY <1>2, <1>3, <1>10, <1>14, <1>16, <1>17, <1>18, OthersAgree
<1>20. HalfwayAgrees(p)'
  <2>1. RowsHold(new, h, at)
    <3>1. ASSUME NEW n \in 1 .. Len(h), Len(h) - n < MAXNUMBERVALUES, (n - 1) % MAXNUMBERVALUES # at
          PROVE  new.value[(n - 1) % MAXNUMBERVALUES] = h[n]
      <4>1. PICK j \in Row : j = (n - 1) % MAXNUMBERVALUES
        BY PodAssumption DEF Row
      <4>2. old.value[j] = h[n]
        BY <1>11, <3>1, <4>1 DEF RowsHold
      <4>. QED
        BY <1>14, <3>1, <4>1, <4>2
    <3>2. ASSUME NEW j \in Row, j < Len(h), j # at
          PROVE  \E n \in 1 .. Len(h) : new.value[j] = h[n]
      <4>1. new.value[j] = old.value[j]
        BY <1>14, <3>2
      <4>. QED
        BY <1>11, <3>2, <4>1 DEF RowsHold
    <3>. QED
      BY <3>1, <3>2 DEF RowsHold
  <2>2. frame'[p].key = k /\ frame'[p].val = val /\ Found(k)' = Found(k) /\ hist'[k] = h
    BY <1>1, <1>2, <1>4, <1>5, <1>9, <1>19 DEF SameCall
  <2>3. Found(frame[p].key)' = Found(k)
    BY <2>2 DEF Found
  <2>4. frame'[p].at = "stored" /\ frame'[p].loc = l /\ l.pod = b /\ l.slot = i /\ l.at = at
    BY <1>5, <1>8
  <2>. QED
    BY <1>10, <1>11, <1>14, <1>15, <2>1, <2>2, <2>3, <2>4 DEF HalfwayAgrees
<1>21. LayoutInv'
  BY <1>6, <1>19, <1>20 DEF LayoutInv
<1>22. \A c \in PodId, j \in Slot : pods'[c].kv_pairs[j].readIndex = pods[c].kv_pairs[j].readIndex
  BY <1>10, <1>14 DEF OnlyPair
<1>. QED
  BY <1>19, <1>21, <1>22

\* Values are only added to those of a key.
HistGrows ==
    \A k \in Key : Len(hist[k]) <= Len(hist'[k]) /\ \A n \in 1 .. Len(hist[k]) : hist'[k][n] = hist[k][n]

\* The last stores: the pair becomes visible with its new value, or stays so.
LEMMA WritePublishKeepsLayout ==
    ASSUME StoreInv, Room, LayoutInv, NEW p \in Proc, WritePublish(p)
    PROVE  /\ LayoutInv'
           /\ \A k \in Key : \A j \in Found(k)' :
                 \/ j \in Found(k) /\ pods'[PodOf[k]].kv_pairs[j].readIndex = pods[PodOf[k]].kv_pairs[j].readIndex
                 \/ pods'[PodOf[k]].kv_pairs[j].readIndex = 0
           /\ HistGrows
<1>1. PICK k, l, v : k = frame[p].key /\ l = frame[p].loc /\ v = frame[p].val
  OBVIOUS
<1>2. /\ pc[p] = "w_cs" /\ frame[p].at = "stored" /\ UNCHANGED lockVars
      /\ frame' = At(p, "done")
      /\ pods' = Publish(pods, l)
      /\ hist' = [hist EXCEPT ![k] = Append(@, v)]
  BY <1>1 DEF WritePublish, Proceed
<1>3. pods \in Pods /\ hist \in [Key -> Seq(Value)] /\ LockInv /\ LocationHolds(p)
  BY <1>2 DEF StoreInv, StoreTypeOK
<1>4. k \in Key /\ Clip(k) = k /\ k # <<>> /\ PodOf[k] \in PodId /\ v \in Value
  BY <1>1, <1>2, WriterKey, RoomKey
<1>5. OthersKeep(p) /\ frame'[p].at = "done" /\ pc' = pc
  BY <1>1, <1>2, MoverFacts, AtEffect DEF OthersKeep, lockVars
<1>6. Halfway = {p} /\ Halfway' = {}
  BY <1>2, <1>3, <1>5, HalfwayMoves
<1>7. /\ l.pod = PodOf[k] /\ l.slot \in Slot /\ l.keyExists \in BOOLEAN /\ l.at \in Row
      /\ l.index \in Slot /\ l.index = pods[PodOf[k]].index
      /\ ~ l.keyExists => l.slot = l.index
      /\ l.keyExists => l.slot < l.index
  BY <1>1, <1>3, <1>4 DEF LocationHolds, Location, Slot
<1>8. PICK b \in PodId, i \in Slot : b = PodOf[k] /\ b = l.pod /\ i = l.slot
  BY <1>4, <1>7
<1>9. PICK h \in Seq(Value) : h = hist[k]
  BY <1>3, <1>4
<1>10. PICK old, new : old = pods[b].kv_pairs[i] /\ new = pods'[b].kv_pairs[i]
  OBVIOUS
<1>11. /\ l.keyExists <=> Found(k) # {}
       /\ l.keyExists => i \in Found(k)
       /\ old.numberValues = Kept(Len(h) + 1)
       /\ l.at = Len(h) % MAXNUMBERVALUES
       /\ RowsHold(old, h, l.at)
       /\ ~ l.keyExists => old.readIndex = 0
       /\ old.key = k /\ old.value[l.at] = v
  <2>1. HalfwayAgrees(p)
    BY <1>6 DEF LayoutInv
  <2>. QED
    BY <1>1, <1>2, <1>8, <1>9, <1>10, <2>1 DEF HalfwayAgrees
<1>12. /\ pods' \in Pods
       /\ pods'[b].index = IF l.keyExists THEN l.index ELSE (l.index + 1) % NUMBERKVPAIR
       /\ \A c \in PodId : c # b => pods'[c].index = pods[c].index
       /\ \A c \in PodId, j \in Slot : c # b \/ j # i => pods'[c].kv_pairs[j] = pods[c].kv_pairs[j]
       /\ new.writeIndex = (l.at + 1) % MAXNUMBERVALUES
       /\ new.readIndex = old.readIndex
       /\ new.numberValues = old.numberValues
       /\ new.key = old.key
       /\ new.value = old.value
  <2>1. Published(pods, pods', l, b, i)
    BY <1>2, <1>3, <1>7, <1>8, PublishEffect
  <2>. QED
    BY <1>10, <2>1 DEF Published
<1>13. SlotsAgree /\ RingsAgree
  BY DEF LayoutInv
<1>14. \A c, j : ~ Touched(c, j)'
  BY <1>6 DEF Touched
<1>15. \A c, j : Touched(c, j) => c = b /\ j = i
  BY <1>1, <1>6, <1>8 DEF Touched
\* index does not wrap around: the slot written is the last visible one, or was visible.
<1>16. \A j \in Slot : j < pods'[b].index <=> j < pods[b].index \/ j = i
  <2>1. CASE l.keyExists
    BY <1>7, <1>8, <1>12, <2>1
  <2>2. CASE ~ l.keyExists
    <3>1. l.index + 1 < NUMBERKVPAIR /\ l.index \in Nat
      BY <1>3, <1>4, <1>7, <1>11, <1>13, <2>2, RoomForOne DEF Slot
    <3>2. (l.index + 1) % NUMBERKVPAIR = l.index + 1
      BY <3>1, PodAssumption
    <3>. QED
      BY <1>7, <1>8, <1>12, <2>2, <3>1, <3>2 DEF Slot
  <2>. QED
    BY <1>7, <2>1, <2>2
<1>17. \A j \in Slot : pods'[b].kv_pairs[j].key = IF j = i THEN k ELSE pods[b].kv_pairs[j].key
  BY <1>10, <1>11, <1>12
\* No other visible slot has the key.
<1>18. \A j \in Slot : j < pods[b].index /\ pods[b].kv_pairs[j].key = k => j = i
  <2>. SUFFICES ASSUME NEW j \in Slot, j < pods[b].index, pods[b].kv_pairs[j].key = k PROVE j = i
    OBVIOUS
  <2>1. j \in Found(k)
    BY <1>3, <1>4, <1>8, FoundIs
  <2>2. i \in Found(k)
    BY <1>7, <1>11, <2>1
  <2>. QED
    BY <1>3, <1>4, <1>13, <2>1, <2>2, OneFound
<1>19. SlotsAgree'
  <2>. SUFFICES ASSUME NEW c \in PodId, NEW j \in Slot
                PROVE  LET pair == pods'[c].kv_pairs[j]
                       IN  /\ j < pods'[c].index =>
                                /\ pair.key \in KeysOf(c)
                                /\ \A m \in Slot : m < pods'[c].index /\ pods'[c].kv_pairs[m].key = pair.key => m = j
                           /\ j >= pods'[c].index /\ ~ Touched(c, j)' =>
                                /\ pair.key = <<>>
                                /\ pair.numberValues = 0 /\ pair.writeIndex = 0 /\ pair.readIndex = 0
    BY DEF SlotsAgree
  <2>1. CASE c # b
    <3>1. pods'[c].index = pods[c].index /\ \A m \in Slot : pods'[c].kv_pairs[m] = pods[c].kv_pairs[m]
      BY <1>12, <2>1
    <3>2. ~ Touched(c, j)
      BY <1>15, <2>1
    <3>. QED
      BY <1>13, <3>1, <3>2 DEF SlotsAgree
  <2>2. CASE c = b
    <3>1. ASSUME j < pods'[b].index
          PROVE  /\ pods'[b].kv_pairs[j].key \in KeysOf(b)
                 /\ \A m \in Slot : m < pods'[b].index /\ pods'[b].kv_pairs[m].key = pods'[b].kv_pairs[j].key => m = j
      <4>1. j < pods[b].index \/ j = i
        BY <1>16, <3>1
      <4>2. k \in KeysOf(b)
        BY <1>4, <1>8 DEF KeysOf
      <4>3. pods'[b].kv_pairs[j].key \in KeysOf(b)
        BY <1>13, <1>17, <4>1, <4>2 DEF SlotsAgree
      <4>4. ASSUME NEW m \in Slot, m < pods'[b].index, pods'[b].kv_pairs[m].key = pods'[b].kv_pairs[j].key
            PROVE  m = j
        <5>1. m < pods[b].index \/ m = i
          BY <1>16, <4>4
        <5>2. CASE m = i \/ j = i
          BY <1>17, <1>18, <4>1, <4>4, <5>1, <5>2
        <5>3. CASE m # i /\ j # i
          BY <1>13, <1>17, <4>1, <4>4, <5>1, <5>3 DEF SlotsAgree
        <5>. QED
          BY <5>2, <5>3
      <4>. QED
        BY <4>3, <4>4
    <3>2. ASSUME j >= pods'[b].index
          PROVE  /\ pods'[b].kv_pairs[j].key = <<>> /\ pods'[b].kv_pairs[j].numberValues = 0
                 /\ pods'[b].kv_pairs[j].writeIndex = 0 /\ pods'[b].kv_pairs[j].readIndex = 0
      <4>1. pods'[b].index \in Slot /\ pods[b].index \in Slot
        BY <1>3, <1>12, FieldTypes
      <4>2. j # i /\ j >= pods[b].index
        BY <1>16, <3>2, <4>1 DEF Slot
      <4>3. ~ Touched(b, j) /\ pods'[b].kv_pairs[j] = pods[b].kv_pairs[j]
        BY <1>12, <1>15, <4>2
      <4>. QED
        BY <1>13, <4>2, <4>3 DEF SlotsAgree
    <3>. QED
      BY <2>2, <3>1, <3>2
  <2>. QED
    BY <2>1, <2>2
<1>20. ASSUME NEW q \in Key, NEW j \in Found(q)'
       PROVE  \/ q = k /\ j = i
              \/ /\ q # k /\ j \in Found(q)
                 /\ pods'[PodOf[q]].kv_pairs[j] = pods[PodOf[q]].kv_pairs[j]
                 /\ ~ Touched(PodOf[q], j)
  <2>1. PICK c \in PodId : c = PodOf[q]
    BY RoomKey
  <2>2. j \in Slot /\ j < pods'[c].index /\ pods'[c].kv_pairs[j].key = q
    BY <1>12, <2>1, ScanFinds DEF Found
  <2>3. CASE c = b /\ j = i
    BY <1>17, <2>2, <2>3
  <2>4. CASE q = k
    BY <1>8, <1>16, <1>17, <1>18, <2>1, <2>2, <2>4
  <2>5. CASE q # k /\ ~ (c = b /\ j = i)
    <3>1. j < pods[c].index /\ pods'[c].kv_pairs[j] = pods[c].kv_pairs[j]
      BY <1>12, <1>16, <2>2, <2>5
    <3>2. j \in Found(q)
      BY <1>3, <2>1, <2>2, <3>1, FoundIs
    <3>. QED
      BY <1>15, <2>1, <2>5, <3>1, <3>2
  <2>. QED
    BY <2>3, <2>4, <2>5
<1>21. ASSUME NEW q \in Key PROVE Found(q)' = {} <=> Found(q) = {} /\ q # k
  <2>1. PICK c \in PodId : c = PodOf[q]
    BY RoomKey
  <2>2. \A j \in Slot : j \in Found(q)' <=> j < pods'[c].index /\ pods'[c].kv_pairs[j].key = q
    BY <1>12, <2>1, ScanFinds DEF Found
  <2>3. i \in Found(k)'
    <3>1. i < pods'[PodOf[k]].index /\ pods'[PodOf[k]].kv_pairs[i].key = k
      BY <1>8, <1>16, <1>17
    <3>2. i \in Hits(pods'[PodOf[k]], k)
      BY <1>4, <1>12, <3>1, ScanFinds
    <3>. QED
      BY <3>2 DEF Found
  <2>4. ASSUME NEW j \in Found(q), q # k PROVE j \in Found(q)'
    <3>1. j \in Slot /\ j < pods[c].index /\ pods[c].kv_pairs[j].key = q
      BY <1>3, <2>1, FoundIs
    <3>2. ~ (c = b /\ j = i)
      BY <1>10, <1>11, <2>4, <3>1
    <3>3. j < pods'[c].index /\ pods'[c].kv_pairs[j].key = q
      BY <1>12, <1>16, <3>1, <3>2
    <3>. QED
      BY <2>2, <3>1, <3>3
  <2>. QED
    BY <1>20, <2>3, <2>4
<1>22. /\ hist'[k] = Append(h, v) /\ Len(h) \in Nat
       /\ \A q \in Key : q # k => hist'[q] = hist[q]
  BY <1>2, <1>3, <1>4, <1>9, LenProperties
<1>23. Append(h, v) # <<>> /\ Len(Append(h, v)) = Len(h) + 1 /\ \A n \in 1 .. Len(h) : Append(h, v)[n] = h[n]
  BY <1>4, <1>9, AppendProperties
<1>24. RowsHold(new, Append(h, v), -1)
  <2>1. RowsHold(old, Append(h, v), -1)
    BY <1>4, <1>9, <1>11, RowsFilled
  <2>. QED
    BY <1>12, <2>1 DEF RowsHold
<1>25. new.writeIndex = (Len(h) + 1) % MAXNUMBERVALUES /\ new.numberValues = Kept(Len(h) + 1)
  <2>1. ((Len(h) % MAXNUMBERVALUES) + 1) % MAXNUMBERVALUES = (Len(h) + 1) % MAXNUMBERVALUES
    BY <1>22, NextTurn, PodAssumption
  <2>. QED
    BY <1>11, <1>12, <2>1
<1>26. RingsAgree'
  <2>. SUFFICES ASSUME NEW q \in Key
                PROVE  /\ hist'[q] = <<>> <=> Found(q)' = {}
                       /\ \A j \in Found(q)' :
                             LET pair == pods'[PodOf[q]].kv_pairs[j]
                             IN  /\ pair.writeIndex = Len(hist'[q]) % MAXNUMBERVALUES
                                 /\ pair.numberValues = Kept(Len(hist'[q]))
                                 /\ RowsHold(pair, hist'[q], -1)
    BY DEF RingsAgree
  <2>1. hist'[q] = <<>> <=> Found(q)' = {}
    BY <1>13, <1>21, <1>22, <1>23 DEF RingsAgree
  <2>2. ASSUME NEW j \in Found(q)', q = k
        PROVE  LET pair == pods'[PodOf[q]].kv_pairs[j]
               IN  /\ pair.writeIndex = Len(hist'[q]) % MAXNUMBERVALUES
                   /\ pair.numberValues = Kept(Len(hist'[q]))
                   /\ RowsHold(pair, hist'[q], -1)
    <3>1. pods'[PodOf[q]].kv_pairs[j] = new
      BY <1>8, <1>10, <1>20, <2>2
    <3>. QED
      BY <1>22, <1>23, <1>24, <1>25, <2>2, <3>1
  <2>3. ASSUME NEW j \in Found(q)', q # k
        PROVE  LET pair == pods'[PodOf[q]].kv_pairs[j]
               IN  /\ pair.writeIndex = Len(hist'[q]) % MAXNUMBERVALUES
                   /\ pair.numberValues = Kept(Len(hist'[q]))
                   /\ RowsHold(pair, hist'[q], -1)
    BY <1>13, <1>20, <1>22, <2>3 DEF RingsAgree
  <2>. QED
    BY <2>1, <2>2, <2>3
<1>27. LayoutInv'
  BY <1>6, <1>19, <1>26 DEF LayoutInv
<1>28. ASSUME NEW q \in Key, NEW j \in Found(q)'
       PROVE  \/ j \in Found(q) /\ pods'[PodOf[q]].kv_pairs[j].readIndex = pods[PodOf[q]].kv_pairs[j].readIndex
              \/ pods'[PodOf[q]].kv_pairs[j].readIndex = 0
  <2>1. CASE q = k
    <3>1. j = i /\ pods'[PodOf[q]].kv_pairs[j].readIndex = old.readIndex
      BY <1>8, <1>10, <1>12, <1>20, <2>1
    <3>. QED
      BY <1>8, <1>10, <1>7, <1>11, <2>1, <3>1
  <2>2. CASE q # k
    BY <1>20, <2>2
  <2>. QED
    BY <2>1, <2>2
<1>29. HistGrows
  <2>. SUFFICES ASSUME NEW q \in Key
                PROVE  Len(hist[q]) <= Len(hist'[q]) /\ \A n \in 1 .. Len(hist[q]) : hist'[q][n] = hist[q][n]
    BY DEF HistGrows
  <2>1. Len(hist[q]) \in Nat
    BY <1>3, LenProperties
  <2>. QED
    BY <1>9, <1>22, <1>23, <2>1
<1>. QED
  BY <1>27, <1>28, <1>29

-----------------------------------------------------------------------------
(* The other steps keep the layout *)

\* A step of a process that is not halfway and has loaded nothing when it is over; it
\* leaves the segment alone.
Quiet(p) ==
    /\ OthersKeep(p) /\ UNCHANGED <<pods, hist, seen>>
    /\ ~ (pc[p] = "w_cs" /\ frame[p].at \in {"counted", "stored"})
    /\ ~ (pc'[p] = "w_cs" /\ frame'[p].at \in {"counted", "stored"})
    /\ ~ (pc'[p] = "r_cs" /\ frame'[p].at = "loaded")

KeepsAnswer(p) == frame'[p].out = Null \/ (SameCall(p) /\ frame'[p].out = frame[p].out)

LEMMA QuietSteps ==
    ASSUME StoreInv, NEW p \in Proc,
           \/ Enter(p) \/ EnterSection(p) \/ LockStep(p)
           \/ WriteReturn(p) \/ ReadDone(p) \/ ReadReturn(p)
    PROVE  Quiet(p) /\ KeepsAnswer(p)
<1>0. LockInv /\ DOMAIN frame = Proc /\ DOMAIN frame[p] = DOMAIN NoFrame
  BY MoverFacts
<1>1. ASSUME NEW op, NEW k, NEW v, Call(p, op, k, v),
             pc'[p] \in {"idle", "r_lock", "w_wait"}, \A q \in Proc : q # p => pc'[q] = pc[q]
      PROVE  Quiet(p) /\ KeepsAnswer(p)
  <2>1. frame'[p].out = Null
    BY <1>0, <1>1 DEF Call, NoFrame
  <2>2. OthersKeep(p) /\ UNCHANGED <<pods, hist, seen>> /\ pc[p] = "idle"
    BY <1>1, CallEffect DEF OthersKeep
  <2>3. pc'[p] \notin {"w_cs", "r_cs"}
    BY <1>1
  <2>4. Quiet(p)
    BY <2>2, <2>3 DEF Quiet
  <2>5. KeepsAnswer(p)
    BY <2>1 DEF KeepsAnswer
  <2>. QED
    BY <2>4, <2>5
<1>2. CASE Enter(p)
  <2>1. CASE CallCreate(p)
    BY <1>1, <2>1 DEF CallCreate, lockVars, Call
  <2>2. CASE CallUnopened(p)
    BY <1>1, <2>2 DEF CallUnopened, lockVars, Call
  <2>3. ASSUME NEW k \in Key, CallRead(p, k) PROVE Quiet(p) /\ KeepsAnswer(p)
    <3>1. pc'[p] = "r_lock" /\ \A q \in Proc : q # p => pc'[q] = pc[q]
      BY <1>0, <2>3, ProtocolMoves DEF CallRead, StartRead
    <3>2. PICK op \in {"read", "read_all"} : Call(p, op, k, Null)
      BY <2>3 DEF CallRead
    <3>. QED
      BY <1>1, <3>1, <3>2
  <2>4. ASSUME NEW k \in Key, NEW v \in Value, CallWrite(p, k, v) PROVE Quiet(p) /\ KeepsAnswer(p)
    <3>1. pc'[p] = "w_wait" /\ \A q \in Proc : q # p => pc'[q] = pc[q]
      BY <1>0, <2>4, ProtocolMoves DEF CallWrite, StartWrite
    <3>2. Call(p, "write", k, v)
      BY <2>4 DEF CallWrite
    <3>. QED
      BY <1>1, <3>1, <3>2
  <2>. QED
    BY <1>2, <2>1, <2>2, <2>3, <2>4 DEF Enter
<1>3. CASE EnterSection(p)
  <2>1. pc[p] # "w_cs" /\ \A q \in Proc : q # p => pc'[q] = pc[q]
    BY <1>0, <1>3, ProtocolMoves DEF EnterSection, WriterEnter, EntryUnlock
  <2>2. frame' = At(p, "in") /\ UNCHANGED <<pods, hist, seen>>
    BY <1>3 DEF EnterSection
  <2>3. OthersKeep(p) /\ SameCall(p) /\ frame'[p].at = "in" /\ frame'[p].out = frame[p].out
    BY <1>0, <2>1, <2>2, AtEffect DEF OthersKeep
  <2>. QED
    BY <2>1, <2>2, <2>3 DEF Quiet, KeepsAnswer
<1>4. CASE LockStep(p) \/ ReadDone(p)
  <2>1. /\ pc[p] # "w_cs" /\ pc'[p] \notin {"w_cs", "r_cs"}
        /\ \A q \in Proc : q # p => pc'[q] = pc[q]
    BY <1>0, <1>4, ProtocolMoves
       DEF LockStep, EntryLock, EntryLoad, EntryStore, FirstReaderWait, ExitLoad, ExitStore, LastReaderPost,
           ReadDone, ExitLock
  <2>2. UNCHANGED dataVars
    BY <1>4 DEF LockStep, ReadDone
  <2>. QED
    BY <1>0, <2>1, <2>2 DEF dataVars, Quiet, KeepsAnswer, OthersKeep, SameCall
<1>5. CASE WriteReturn(p) \/ ReadReturn(p)
  <2>1. /\ pc'[p] = "idle" /\ \A q \in Proc : q # p => pc'[q] = pc[q]
        /\ pc[p] = "w_cs" => frame[p].at = "done"
    BY <1>0, <1>5, ProtocolMoves DEF WriteReturn, WriterExit, ReadReturn, ExitUnlock
  <2>2. frame' = Returned(p) /\ UNCHANGED <<pods, hist, seen>>
    BY <1>5 DEF WriteReturn, ReadReturn
  <2>3. OthersKeep(p) /\ SameCall(p) /\ frame'[p].out = frame[p].out
    BY <1>0, <2>1, <2>2, ReturnedEffect DEF OthersKeep
  <2>. QED
    BY <2>1, <2>2, <2>3 DEF Quiet, KeepsAnswer
<1>. QED
  BY <1>2, <1>3, <1>4, <1>5

\* So is the copy of a read_all, but for its answer.
LEMMA ReadAllIsQuiet ==
    ASSUME StoreInv, NEW p \in Proc, ReadAllCopy(p)
    PROVE  /\ Quiet(p)
           /\ pc[p] = "r_cs" /\ SameCall(p) /\ frame[p].op = "read_all"
           /\ frame'[p].out = ReadAllValues(pods, frame[p].key, Null)
<1>1. /\ pc[p] = "r_cs" /\ pc' = pc /\ UNCHANGED <<pods, hist, seen>> /\ frame[p].op = "read_all"
      /\ frame' = [At(p, "done") EXCEPT ![p].out = ReadAllValues(pods, frame[p].key, Null)]
  BY DEF ReadAllCopy, Proceed, lockVars
<1>2. PICK out : out = ReadAllValues(pods, frame[p].key, Null)
  OBVIOUS
<1>3. /\ OthersKeep(p) /\ SameCall(p) /\ frame'[p].at = "done" /\ frame'[p].out = out
  BY <1>1, <1>2, MoverFacts DEF At, OthersKeep, SameCall, NoFrame
<1>. QED
  BY <1>1, <1>2, <1>3 DEF Quiet

LEMMA QuietKeepsLayout ==
    ASSUME LayoutInv, NEW p \in Proc, Quiet(p)
    PROVE  LayoutInv'
<1>1. \A q \in Proc : q # p => frame'[q] = frame[q] /\ pc'[q] = pc[q]
  BY DEF Quiet, OthersKeep
<1>2. Halfway' = Halfway /\ p \notin Halfway
  BY <1>1 DEF Halfway, Quiet
<1>3. \A q \in Halfway : frame'[q] = frame[q]
  BY <1>1, <1>2 DEF Halfway
<1>. QED
  BY <1>2, <1>3, LayoutStays DEF Quiet

\* What a read has loaded, and what is loaded in the step.
LEMMA LoadEffect ==
    ASSUME StoreInv, NEW p \in Proc, ReadLoad(p)
    PROVE  /\ pc[p] = "r_cs" /\ pc' = pc /\ UNCHANGED <<pods, hist>>
           /\ OthersKeep(p) /\ SameCall(p) /\ frame'[p].at = "loaded" /\ frame[p].op = "read"
           /\ frame'[p].loc = LoadCursors(pods, frame[p].key)
           /\ frame'[p].out = ReadValue(pods, frame[p].key, Null)
           /\ seen' = [seen EXCEPT ![frame[p].key] = @ \union Range(LoadCursors(pods, frame[p].key))]
<1>1. PICK k, rows, out : k = frame[p].key /\ rows = LoadCursors(pods, k) /\ out = ReadValue(pods, k, Null)
  OBVIOUS
<1>2. /\ pc[p] = "r_cs" /\ frame[p].op = "read" /\ UNCHANGED <<lockVars, pods, hist>>
      /\ frame' = [At(p, "loaded") EXCEPT ![p].loc = rows, ![p].out = out]
      /\ seen' = [seen EXCEPT ![k] = @ \union Range(rows)]
  BY <1>1 DEF ReadLoad, Proceed
<1>3. /\ OthersKeep(p) /\ SameCall(p)
      /\ frame'[p].at = "loaded" /\ frame'[p].loc = rows /\ frame'[p].out = out
  BY <1>2, MoverFacts DEF At, OthersKeep, SameCall, NoFrame, lockVars
<1>. QED
  BY <1>1, <1>2, <1>3 DEF lockVars

LEMMA LoadKeepsLayout ==
    ASSUME StoreInv, LayoutInv, NEW p \in Proc, ReadLoad(p)
    PROVE  LayoutInv'
<1>1. /\ pc[p] = "r_cs" /\ pc' = pc /\ UNCHANGED <<pods, hist>> /\ OthersKeep(p)
  BY LoadEffect
<1>2. Halfway = {} /\ Halfway' = {}
  <2>1. Halfway = {} /\ \A q \in Proc : pc[q] # "w_cs"
    BY <1>1, HalfwayAlone, WriterIsAlone DEF StoreInv
  <2>. QED
    BY <1>1, <2>1 DEF Halfway
<1>. QED
  BY <1>1, <1>2, LayoutStays

LEMMA ReadStoreKeepsLayout ==
    ASSUME StoreInv, Room, LayoutInv, NEW p \in Proc, ReadStore(p)
    PROVE  LayoutInv'
<1>1. PICK b, k, rows : k = frame[p].key /\ b = PodOf[k] /\ rows = frame[p].loc
  OBVIOUS
<1>2. /\ pc[p] = "r_cs" /\ k \in Key /\ b \in PodId /\ pc' = pc /\ UNCHANGED hist
      /\ rows \in [Found(k) -> 0 .. MAXNUMBERVALUES]
      /\ CursorsStored(pods, pods', b, rows)
  BY <1>1, ReadStoreEffect
<1>3. pods \in Pods /\ SlotsAgree /\ RingsAgree
  BY DEF StoreInv, StoreTypeOK, LayoutInv
<1>4. Halfway = {} /\ Halfway' = {}
  <2>1. Halfway = {} /\ \A q \in Proc : pc[q] # "w_cs"
    BY <1>2, HalfwayAlone, WriterIsAlone DEF StoreInv
  <2>. QED
    BY <1>2, <2>1 DEF Halfway
<1>5. \A c, j : ~ Touched(c, j) /\ ~ Touched(c, j)'
  BY <1>4 DEF Touched
<1>6. \A c \in PodId, j \in Slot :
         /\ pods'[c].index = pods[c].index
         /\ pods'[c].kv_pairs[j].key = pods[c].kv_pairs[j].key
         /\ pods'[c].kv_pairs[j].value = pods[c].kv_pairs[j].value
         /\ pods'[c].kv_pairs[j].numberValues = pods[c].kv_pairs[j].numberValues
         /\ pods'[c].kv_pairs[j].writeIndex = pods[c].kv_pairs[j].writeIndex
         /\ j >= pods[c].index => pods'[c].kv_pairs[j].readIndex = pods[c].kv_pairs[j].readIndex
  <2>. SUFFICES ASSUME NEW c \in PodId, NEW j \in Slot
                PROVE  /\ pods'[c].index = pods[c].index
                       /\ pods'[c].kv_pairs[j].key = pods[c].kv_pairs[j].key
                       /\ pods'[c].kv_pairs[j].value = pods[c].kv_pairs[j].value
                       /\ pods'[c].kv_pairs[j].numberValues = pods[c].kv_pairs[j].numberValues
                       /\ pods'[c].kv_pairs[j].writeIndex = pods[c].kv_pairs[j].writeIndex
                       /\ j >= pods[c].index => pods'[c].kv_pairs[j].readIndex = pods[c].kv_pairs[j].readIndex
    OBVIOUS
  <2>1. CASE c # b
    BY <1>2, <2>1 DEF CursorsStored
  <2>2. CASE c = b
    <3>1. j >= pods[b].index => j \notin DOMAIN rows
      <4>1. pods[b].index \in Slot
        BY <1>2, <1>3, FieldTypes
      <4>. QED
        BY <1>1, <1>2, <1>3, <4>1, FoundIs DEF Slot
    <3>. QED
      BY <1>2, <2>2, <3>1 DEF CursorsStored
  <2>. QED
    BY <2>1, <2>2
<1>7. SlotsAgree'
  BY <1>3, <1>5, <1>6 DEF SlotsAgree
<1>8. RingsAgree'
  <2>. SUFFICES ASSUME NEW q \in Key
                PROVE  /\ hist'[q] = <<>> <=> Found(q)' = {}
                       /\ \A j \in Found(q)' :
                             LET pair == pods'[PodOf[q]].kv_pairs[j]
                             IN  /\ pair.writeIndex = Len(hist'[q]) % MAXNUMBERVALUES
                                 /\ pair.numberValues = Kept(Len(hist'[q]))
                                 /\ RowsHold(pair, hist'[q], -1)
    BY DEF RingsAgree
  <2>1. Found(q)' = Found(q)
    BY <1>2, <1>3, CursorsLeaveFound
  <2>2. hist'[q] = <<>> <=> Found(q)' = {}
    BY <1>2, <1>3, <2>1 DEF RingsAgree
  <2>3. ASSUME NEW j \in Found(q)
        PROVE  /\ pods'[PodOf[q]].kv_pairs[j].writeIndex = Len(hist[q]) % MAXNUMBERVALUES
               /\ pods'[PodOf[q]].kv_pairs[j].numberValues = Kept(Len(hist[q]))
               /\ RowsHold(pods'[PodOf[q]].kv_pairs[j], hist[q], -1)
    <3>1. j \in Slot /\ PodOf[q] \in PodId
      BY <1>3, FoundIs, HashAssumption
    <3>2. /\ pods[PodOf[q]].kv_pairs[j].writeIndex = Len(hist[q]) % MAXNUMBERVALUES
          /\ pods[PodOf[q]].kv_pairs[j].numberValues = Kept(Len(hist[q]))
          /\ RowsHold(pods[PodOf[q]].kv_pairs[j], hist[q], -1)
      BY <1>3, <1>5 DEF RingsAgree
    <3>3. pods'[PodOf[q]].kv_pairs[j].value = pods[PodOf[q]].kv_pairs[j].value
      BY <1>6, <3>1
    <3>4. RowsHold(pods'[PodOf[q]].kv_pairs[j], hist[q], -1)
      BY <3>2, <3>3 DEF RowsHold
    <3>. QED
      BY <1>6, <3>1, <3>2, <3>4
  <2>. QED
    BY <1>2, <2>1, <2>2, <2>3
<1>. QED
  BY <1>4, <1>7, <1>8 DEF LayoutInv

\* What a step of the store is, as far as the layout is concerned.
LEMMA StepShape ==
    ASSUME StoreInv, [StoreNext]_vars
    PROVE  \/ UNCHANGED <<pc, dataVars>>
           \/ \E p \in Proc :
                 \/ Quiet(p) /\ KeepsAnswer(p)
                 \/ WriteCount(p) \/ WriteStrings(p) \/ WritePublish(p)
                 \/ ReadLoad(p) \/ ReadStore(p) \/ ReadAllCopy(p)
<1>1. CASE UNCHANGED vars
  BY <1>1 DEF vars, lockVars
<1>2. ASSUME NEW p \in Proc, Enter(p) PROVE Quiet(p) /\ KeepsAnswer(p)
  BY <1>2, QuietSteps
<1>3. ASSUME NEW p \in Proc, Step(p)
      PROVE  \/ Quiet(p) /\ KeepsAnswer(p)
             \/ WriteCount(p) \/ WriteStrings(p) \/ WritePublish(p)
             \/ ReadLoad(p) \/ ReadStore(p) \/ ReadAllCopy(p)
  BY <1>3, QuietSteps DEF Step
<1>4. ASSUME NEW p \in Proc, KillProcess(p) PROVE UNCHANGED <<pc, dataVars>>
  BY <1>4 DEF KillProcess, Kill
<1>. QED
  BY <1>1, <1>2, <1>3, <1>4 DEF StoreNext

LEMMA NextLayoutInv ==
    ASSUME StoreInv, Room, LayoutInv, [StoreNext]_vars
    PROVE  LayoutInv'
<1>1. CASE UNCHANGED <<pc, dataVars>>
  <2>1. UNCHANGED <<pods, hist, frame>> /\ Halfway' = Halfway
    BY <1>1 DEF dataVars, Halfway
  <2>. QED
    BY <2>1, LayoutStays
<1>2. ASSUME NEW p \in Proc,
             \/ Quiet(p)
             \/ WriteCount(p) \/ WriteStrings(p) \/ WritePublish(p)
             \/ ReadLoad(p) \/ ReadStore(p) \/ ReadAllCopy(p)
      PROVE  LayoutInv'
  BY <1>2, QuietKeepsLayout, WriteCountKeepsLayout, WriteStringsKeepsLayout, WritePublishKeepsLayout,
     LoadKeepsLayout, ReadStoreKeepsLayout, ReadAllIsQuiet
<1>. QED
  BY <1>1, <1>2, StepShape

-----------------------------------------------------------------------------
(* No row is skipped *)

\* The two parts of CursorsAgree: the cursors in the segment, and those that p has loaded.
VisibleAgree ==
    \A k \in Key : \A i \in Found(k) : 0 .. pods[PodOf[k]].kv_pairs[i].readIndex - 1 \subseteq seen[k]

LoadedAgree(p) ==
    pc[p] = "r_cs" /\ frame[p].at = "loaded" =>
        \A i \in DOMAIN frame[p].loc : 0 .. frame[p].loc[i] \subseteq seen[frame[p].key]

LEMMA CursorsParts == CursorsAgree <=> VisibleAgree /\ \A p \in Proc : LoadedAgree(p)
BY DEF CursorsAgree, VisibleAgree, LoadedAgree

\* A step of p leaves what the others have loaded.
LEMMA LoadedStays ==
    ASSUME StoreInv, NEW p \in Proc, OthersKeep(p), \A k \in Key : seen[k] \subseteq seen'[k],
           \A q \in Proc : LoadedAgree(q), LoadedAgree(p)'
    PROVE  \A q \in Proc : LoadedAgree(q)'
<1>. SUFFICES ASSUME NEW q \in Proc, q # p PROVE LoadedAgree(q)'
  OBVIOUS
<1>1. frame'[q] = frame[q] /\ pc'[q] = pc[q]
  BY DEF OthersKeep
<1>2. pc[q] = "r_cs" => seen[frame[q].key] \subseteq seen'[frame[q].key]
  BY ReaderKey
<1>. QED
  BY <1>1, <1>2 DEF LoadedAgree

LEMMA NextCursorsAgree ==
    ASSUME StoreInv, Room, LayoutInv, CursorsAgree, [StoreNext]_vars
    PROVE  CursorsAgree'
<1>0. VisibleAgree /\ \A p \in Proc : LoadedAgree(p)
  BY CursorsParts
<1>1. pods \in Pods /\ hist \in [Key -> Seq(Value)] /\ seen \in [Key -> SUBSET (0 .. MAXNUMBERVALUES)]
      /\ CountsAgree /\ LockInv
  BY DEF StoreInv, StoreTypeOK
<1>2. CASE UNCHANGED <<pc, dataVars>>
  <2>1. \A k : Found(k)' = Found(k)
    BY <1>2 DEF dataVars, Found
  <2>. QED
    BY <1>2, <2>1 DEF dataVars, CursorsAgree
<1>3. ASSUME NEW p \in Proc, Quiet(p) PROVE CursorsAgree'
  <2>1. OthersKeep(p) /\ UNCHANGED <<pods, seen>> /\ LoadedAgree(p)'
    BY <1>3 DEF Quiet, LoadedAgree
  <2>2. \A k : Found(k)' = Found(k)
    BY <2>1 DEF Found
  <2>3. VisibleAgree'
    BY <1>0, <2>1, <2>2 DEF VisibleAgree
  <2>4. \A q \in Proc : LoadedAgree(q)'
    BY <1>0, <2>1, LoadedStays
  <2>. QED
    BY <2>3, <2>4 DEF CursorsAgree, VisibleAgree, LoadedAgree
<1>4. ASSUME NEW p \in Proc, WriteCount(p) \/ WriteStrings(p) \/ WritePublish(p) PROVE CursorsAgree'
  <2>1. OthersKeep(p) /\ UNCHANGED seen /\ pc[p] = "w_cs" /\ pc' = pc
    <3>1. /\ pc[p] = "w_cs" /\ UNCHANGED <<lockVars, seen>>
          /\ \E l : frame' = [At(p, "counted") EXCEPT ![p].loc = l] \/ frame' = At(p, "stored") \/ frame' = At(p, "done")
      BY <1>4 DEF WriteCount, WriteStrings, WritePublish, Proceed
    <3>. QED
      BY <3>1, MoverFacts DEF At, OthersKeep, NoFrame, lockVars
  <2>2. LoadedAgree(p)'
    BY <2>1 DEF LoadedAgree
  <2>3. \A q \in Proc : LoadedAgree(q)'
    BY <1>0, <2>1, <2>2, LoadedStays
  <2>4. VisibleAgree'
    <3>. SUFFICES ASSUME NEW k \in Key, NEW i \in Found(k)'
                  PROVE  0 .. pods'[PodOf[k]].kv_pairs[i].readIndex - 1 \subseteq seen'[k]
      BY DEF VisibleAgree
    <3>1. \/ i \in Found(k) /\ pods'[PodOf[k]].kv_pairs[i].readIndex = pods[PodOf[k]].kv_pairs[i].readIndex
          \/ pods'[PodOf[k]].kv_pairs[i].readIndex = 0
      <4>1. CASE WriteCount(p) \/ WriteStrings(p)
        <5>1. /\ i \in Found(k)
              /\ \A b \in PodId, j \in Slot : pods'[b].kv_pairs[j].readIndex = pods[b].kv_pairs[j].readIndex
          BY <4>1, WriteCountKeepsLayout, WriteStringsKeepsLayout
        <5>2. i \in Slot /\ PodOf[k] \in PodId
          BY <1>1, <5>1, FoundPairs, HashAssumption
        <5>. QED
          BY <5>1, <5>2
      <4>2. CASE WritePublish(p)
        BY <4>2, WritePublishKeepsLayout
      <4>. QED
        BY <1>4, <4>1, <4>2
    <3>. QED
      BY <1>0, <2>1, <3>1 DEF VisibleAgree
  <2>. QED
    BY <2>3, <2>4 DEF CursorsAgree, VisibleAgree, LoadedAgree
<1>5. ASSUME NEW p \in Proc, ReadLoad(p) PROVE CursorsAgree'
  <2>1. PICK k, rows : k = frame[p].key /\ rows = LoadCursors(pods, k)
    OBVIOUS
  <2>2. /\ pc[p] = "r_cs" /\ UNCHANGED pods /\ OthersKeep(p) /\ SameCall(p)
        /\ frame'[p].loc = rows /\ k \in Key /\ frame'[p].key = k
        /\ seen' = [seen EXCEPT ![k] = @ \union Range(rows)]
    BY <1>5, <2>1, LoadEffect, ReaderKey DEF SameCall
  <2>3. /\ DOMAIN rows = Found(k)
        /\ \A i \in Found(k) : rows[i] = pods[PodOf[k]].kv_pairs[i].readIndex
    BY <2>1 DEF LoadCursors, Found
  <2>4. /\ \A q \in Key : seen[q] \subseteq seen'[q]
        /\ \A i \in Found(k) : rows[i] \in seen'[k]
    BY <1>1, <2>2, <2>3 DEF Range
  <2>5. \A q : Found(q)' = Found(q)
    BY <2>2 DEF Found
  <2>6. VisibleAgree'
    <3>. SUFFICES ASSUME NEW q \in Key, NEW i \in Found(q)
                  PROVE  0 .. pods[PodOf[q]].kv_pairs[i].readIndex - 1 \subseteq seen'[q]
      BY <2>2, <2>5 DEF VisibleAgree
    <3>. QED
      BY <1>0, <2>4 DEF VisibleAgree
  <2>7. LoadedAgree(p)'
    <3>. SUFFICES ASSUME NEW i \in Found(k) PROVE 0 .. rows[i] \subseteq seen'[k]
      BY <2>2, <2>3 DEF LoadedAgree
    <3>1. rows[i] \in 0 .. MAXNUMBERVALUES
      BY <1>1, <2>2, <2>3, FoundPairs
    <3>2. 0 .. rows[i] - 1 \subseteq seen[k]
      BY <1>0, <2>2, <2>3 DEF VisibleAgree
    <3>3. \A j \in 0 .. rows[i] : j \in 0 .. rows[i] - 1 \/ j = rows[i]
      BY <3>1
    <3>. QED
      BY <2>2, <2>4, <3>2, <3>3
  <2>8. \A q \in Proc : LoadedAgree(q)'
    BY <1>0, <2>2, <2>4, <2>7, LoadedStays
  <2>. QED
    BY <2>6, <2>8 DEF CursorsAgree, VisibleAgree, LoadedAgree
<1>6. ASSUME NEW p \in Proc, ReadStore(p) PROVE CursorsAgree'
  <2>1. PICK b, k, rows : k = frame[p].key /\ b = PodOf[k] /\ rows = frame[p].loc
    OBVIOUS
  <2>2. /\ pc[p] = "r_cs" /\ frame[p].at = "loaded" /\ k \in Key /\ b \in PodId /\ UNCHANGED seen
        /\ OthersKeep(p) /\ frame'[p].at = "done"
        /\ rows \in [Found(k) -> 0 .. MAXNUMBERVALUES]
        /\ \A i \in Slot \intersect DOMAIN rows :
              rows[i] \in 0 .. MAXNUMBERVALUES /\ pods[b].kv_pairs[i].numberValues > 0
        /\ CursorsStored(pods, pods', b, rows)
    BY <1>6, <2>1, ReadStoreEffect
  <2>3. \A i \in Found(k) : 0 .. rows[i] \subseteq seen[k]
    BY <1>0, <2>1, <2>2 DEF LoadedAgree
  <2>4. VisibleAgree'
    <3>. SUFFICES ASSUME NEW q \in Key, NEW i \in Found(q)
                  PROVE  0 .. pods'[PodOf[q]].kv_pairs[i].readIndex - 1 \subseteq seen[q]
      <4>1. \A q \in Key : Found(q)' = Found(q)
        BY <1>1, <2>2, CursorsLeaveFound
      <4>. QED
        BY <2>2, <4>1 DEF VisibleAgree
    <3>1. i \in Slot /\ PodOf[q] \in PodId /\ i < pods[PodOf[q]].index /\ pods[PodOf[q]].kv_pairs[i].key = q
      BY <1>1, FoundIs, HashAssumption
    <3>2. CASE PodOf[q] = b /\ i \in DOMAIN rows
      <4>1. q = k
        BY <1>1, <2>1, <2>2, <3>1, <3>2, FoundIs
      <4>2. PICK r, n : r = rows[i] /\ n = pods[b].kv_pairs[i].numberValues
        OBVIOUS
      <4>3. r \in Nat /\ n \in Nat \ {0}
        BY <1>1, <2>2, <3>1, <3>2, <4>2, FieldTypes
      <4>4. pods'[b].kv_pairs[i].readIndex = (r + 1) % n
        BY <2>2, <3>1, <3>2, <4>2 DEF CursorsStored
      <4>5. (r + 1) % n <= r + 1 /\ (r + 1) % n \in Nat
        BY <4>3, RemainderIsLess
      <4>6. 0 .. pods'[b].kv_pairs[i].readIndex - 1 \subseteq 0 .. rows[i]
        BY <4>2, <4>3, <4>4, <4>5
      <4>. QED
        BY <2>2, <2>3, <3>2, <4>1, <4>6
    <3>3. CASE ~ (PodOf[q] = b /\ i \in DOMAIN rows)
      <4>1. pods'[PodOf[q]].kv_pairs[i].readIndex = pods[PodOf[q]].kv_pairs[i].readIndex
        BY <2>2, <3>1, <3>3 DEF CursorsStored
      <4>. QED
        BY <1>0, <4>1 DEF VisibleAgree
    <3>. QED
      BY <3>2, <3>3
  <2>5. \A q \in Proc : LoadedAgree(q)'
    <3>1. LoadedAgree(p)'
      BY <2>2 DEF LoadedAgree
    <3>. QED
      BY <1>0, <2>2, <3>1, LoadedStays
  <2>. QED
    BY <2>4, <2>5 DEF CursorsAgree, VisibleAgree, LoadedAgree
<1>7. ASSUME NEW p \in Proc, ReadAllCopy(p) PROVE CursorsAgree'
  BY <1>3, <1>7, ReadAllIsQuiet
<1>. QED
  BY <1>2, <1>3, <1>4, <1>5, <1>6, <1>7, StepShape

-----------------------------------------------------------------------------
(* No answer is torn *)

\* A string that was written, or that can only come from behind the rows.
Whole(h, v) == (\E n \in DOMAIN h : h[n] = v) \/ (v = Stray /\ Len(h) > MAXNUMBERVALUES)

AnswerWhole(p) ==
    /\ frame[p].op = "read" /\ frame[p].out # Null => Whole(hist[frame[p].key], frame[p].out)
    /\ frame[p].op = "read_all" /\ frame[p].out # Null =>
          \A j \in DOMAIN frame[p].out : Whole(hist[frame[p].key], frame[p].out[j])

LEMMA AnswersAreWhole == NoTornValue <=> \A p \in Proc : AnswerWhole(p)
BY DEF NoTornValue, AnswerWhole, Whole

\* What was whole stays so as values are added.
LEMMA WholeStays ==
    ASSUME StoreInv, StoreInv', HistGrows, NEW k \in Key, NEW v, Whole(hist[k], v)
    PROVE  Whole(hist'[k], v)
<1>1. hist[k] \in Seq(Value) /\ hist'[k] \in Seq(Value)
  BY DEF StoreInv, StoreTypeOK
<1>2. /\ Len(hist[k]) \in Nat /\ DOMAIN hist[k] = 1 .. Len(hist[k])
      /\ Len(hist'[k]) \in Nat /\ DOMAIN hist'[k] = 1 .. Len(hist'[k])
  BY <1>1, LenProperties
<1>3. /\ Len(hist[k]) <= Len(hist'[k])
      /\ \A n \in 1 .. Len(hist[k]) : hist'[k][n] = hist[k][n]
  BY DEF HistGrows
<1>. QED
  BY <1>2, <1>3, PodAssumption DEF Whole

\* A row below the number of values of a pair holds one of them, and the row past the
\* array is only read when there were more values than rows.
LEMMA RowsAreWhole ==
    ASSUME StoreInv, Room, LayoutInv, Halfway = {}, NEW k \in Key, NEW i \in Found(k),
           NEW r \in Nat, r < pods[PodOf[k]].kv_pairs[i].numberValues
    PROVE  Whole(hist[k], StringAt(pods, PodOf[k], i, r))
<1>0. PICK h \in Seq(Value) : h = hist[k]
  BY DEF StoreInv, StoreTypeOK
<1>1. PICK pair : h = hist[k] /\ pair = pods[PodOf[k]].kv_pairs[i]
  BY <1>0
<1>2. Len(h) \in Nat /\ DOMAIN h = 1 .. Len(h)
  BY LenProperties
<1>3. ~ Touched(PodOf[k], i)
  BY DEF Touched
<1>4. pair.numberValues = Kept(Len(h)) /\ RowsHold(pair, h, -1)
  BY <1>1, <1>3 DEF LayoutInv, RingsAgree
<1>5. Kept(Len(h)) <= Len(h) /\ Kept(Len(h)) \in 0 .. MAXNUMBERVALUES + 1
      /\ (Kept(Len(h)) > MAXNUMBERVALUES => Len(h) > MAXNUMBERVALUES)
  BY <1>2, KeptNext
<1>6. CASE r = MAXNUMBERVALUES
  <2>1. StringAt(pods, PodOf[k], i, r) = Stray
    BY <1>6 DEF StringAt
  <2>2. Len(h) > MAXNUMBERVALUES
    BY <1>1, <1>4, <1>5, <1>6, PodAssumption
  <2>. QED
    BY <1>1, <2>1, <2>2 DEF Whole
<1>7. CASE r # MAXNUMBERVALUES
  <2>1. r \in Row /\ r < Len(h) /\ r # -1
    BY <1>1, <1>2, <1>4, <1>5, <1>7, PodAssumption DEF Row
  <2>2. StringAt(pods, PodOf[k], i, r) = pair.value[r]
    BY <1>1, <1>7 DEF StringAt, RunsOn, Room
  <2>3. \E n \in 1 .. Len(h) : pair.value[r] = h[n]
    BY <1>4, <2>1 DEF RowsHold
  <2>. QED
    BY <1>1, <1>2, <2>2, <2>3 DEF Whole
<1>. QED
  BY <1>6, <1>7

\* The answer of a read, and each string of the answer of a read_all.
LEMMA CopiesAreWhole ==
    ASSUME StoreInv, Room, LayoutInv, Halfway = {}, NEW k \in Key
    PROVE  /\ ReadValue(pods, k, Null) # Null => Whole(hist[k], ReadValue(pods, k, Null))
           /\ ReadAllValues(pods, k, Null) # Null =>
                 \A j \in DOMAIN ReadAllValues(pods, k, Null) : Whole(hist[k], ReadAllValues(pods, k, Null)[j])
<1>1. pods \in Pods /\ CountsAgree /\ SlotsAgree /\ PodOf[k] \in PodId
  BY HashAssumption DEF StoreInv, StoreTypeOK, LayoutInv
<1>2. CASE Found(k) = {}
  BY <1>2 DEF Found, ReadValue, ReadAllValues
<1>3. ASSUME NEW i \in Found(k)
      PROVE  /\ Whole(hist[k], ReadValue(pods, k, Null))
             /\ \A j \in DOMAIN ReadAllValues(pods, k, Null) : Whole(hist[k], ReadAllValues(pods, k, Null)[j])
  <2>1. Max(Found(k)) = i /\ Min(Found(k)) = i /\ i \in Slot
    BY <1>1, OneFound, FoundPairs
  <2>2. PICK r, n : r = pods[PodOf[k]].kv_pairs[i].readIndex /\ n = pods[PodOf[k]].kv_pairs[i].numberValues
    OBVIOUS
  <2>3. r \in Nat /\ n \in Nat /\ r < n
    BY <1>1, <2>1, <2>2, FieldTypes, FoundPairs DEF CountsAgree
  <2>4. ReadValue(pods, k, Null) = StringAt(pods, PodOf[k], i, r)
    BY <2>1, <2>2 DEF ReadValue, Found
  <2>5. ReadAllValues(pods, k, Null) = [j \in 1 .. n |-> StringAt(pods, PodOf[k], i, j - 1)]
    BY <2>1, <2>2 DEF ReadAllValues, Found
  <2>6. ASSUME NEW j \in 1 .. n PROVE Whole(hist[k], StringAt(pods, PodOf[k], i, j - 1))
    <3>1. j - 1 \in Nat /\ j - 1 < n
      BY <2>3
    <3>. QED
      BY <2>2, <3>1, RowsAreWhole
  <2>7. Whole(hist[k], StringAt(pods, PodOf[k], i, r))
    BY <2>2, <2>3, RowsAreWhole
  <2>. QED
    BY <2>4, <2>5, <2>6, <2>7
<1>. QED
  BY <1>2, <1>3

LEMMA NextNoTornValue ==
    ASSUME StoreInv, StoreInv', Room, LayoutInv, NoTornValue, [StoreNext]_vars
    PROVE  NoTornValue'
<1>0. \A p \in Proc : AnswerWhole(p)
  BY AnswersAreWhole
<1>1. ASSUME NEW q \in Proc, HistGrows, frame'[q].op = frame[q].op, frame'[q].key = frame[q].key,
             frame'[q].out = frame[q].out
      PROVE  AnswerWhole(q)'
  <2>1. frame[q].op \in {"read", "read_all"} => frame[q].key \in Key
    BY MoverFacts DEF PlaceAgrees
  <2>2. AnswerWhole(q)
    BY <1>0
  <2>. QED
    BY <1>1, <2>1, <2>2, WholeStays DEF AnswerWhole
<1>2. UNCHANGED hist => HistGrows
  <2>1. \A k \in Key : Len(hist[k]) \in Nat
    BY LenProperties DEF StoreInv, StoreTypeOK
  <2>. QED
    BY <2>1 DEF HistGrows
<1>3. ASSUME NEW p \in Proc, OthersKeep(p), HistGrows, AnswerWhole(p)' PROVE NoTornValue'
  <2>1. ASSUME NEW q \in Proc PROVE AnswerWhole(q)'
    <3>1. CASE q = p
      BY <1>3, <3>1
    <3>2. CASE q # p
      BY <1>1, <1>3, <3>2 DEF OthersKeep
    <3>. QED
      BY <3>1, <3>2
  <2>. QED
    BY <2>1 DEF NoTornValue, AnswerWhole, Whole
<1>4. CASE UNCHANGED <<pc, dataVars>>
  BY <1>0, <1>4 DEF dataVars, NoTornValue, AnswerWhole, Whole
<1>5. ASSUME NEW p \in Proc, Quiet(p), KeepsAnswer(p) PROVE NoTornValue'
  <2>1. OthersKeep(p) /\ HistGrows
    BY <1>2, <1>5 DEF Quiet
  <2>2. CASE frame'[p].out = Null
    BY <1>3, <2>1, <2>2 DEF AnswerWhole
  <2>3. CASE SameCall(p) /\ frame'[p].out = frame[p].out
    BY <1>1, <1>3, <2>1, <2>3 DEF SameCall
  <2>. QED
    BY <1>5, <2>2, <2>3 DEF KeepsAnswer
<1>6. ASSUME NEW p \in Proc, WriteCount(p) \/ WriteStrings(p) \/ WritePublish(p) PROVE NoTornValue'
  <2>1. /\ pc[p] = "w_cs" /\ UNCHANGED lockVars
        /\ \E l : frame' = [At(p, "counted") EXCEPT ![p].loc = l] \/ frame' = At(p, "stored") \/ frame' = At(p, "done")
    BY <1>6 DEF WriteCount, WriteStrings, WritePublish, Proceed
  <2>2. OthersKeep(p) /\ SameCall(p)
    BY <2>1, MoverFacts DEF At, OthersKeep, SameCall, NoFrame, lockVars
  <2>3. frame'[p].op = "write"
    BY <2>1, <2>2, MoverFacts DEF SameCall, PlaceAgrees, WriterLabels
  <2>4. AnswerWhole(p)'
    BY <2>3 DEF AnswerWhole
  <2>5. HistGrows
    <3>1. CASE WriteCount(p) \/ WriteStrings(p)
      BY <1>2, <3>1 DEF WriteCount, WriteStrings
    <3>2. CASE WritePublish(p)
      BY <3>2, WritePublishKeepsLayout
    <3>. QED
      BY <1>6, <3>1, <3>2
  <2>. QED
    BY <1>3, <2>2, <2>4, <2>5
<1>7. ASSUME NEW p \in Proc, ReadLoad(p) PROVE NoTornValue'
  <2>1. /\ pc[p] = "r_cs" /\ UNCHANGED hist /\ OthersKeep(p) /\ SameCall(p) /\ frame[p].op = "read"
        /\ frame'[p].out = ReadValue(pods, frame[p].key, Null)
    BY <1>7, LoadEffect
  <2>2. frame[p].key \in Key /\ Halfway = {}
    BY <2>1, ReaderKey, HalfwayAlone DEF StoreInv
  <2>3. AnswerWhole(p)'
    BY <2>1, <2>2, CopiesAreWhole DEF AnswerWhole, SameCall
  <2>. QED
    BY <1>2, <1>3, <2>1, <2>3
<1>8. ASSUME NEW p \in Proc, ReadAllCopy(p) PROVE NoTornValue'
  <2>1. /\ Quiet(p) /\ pc[p] = "r_cs" /\ SameCall(p) /\ frame[p].op = "read_all"
        /\ frame'[p].out = ReadAllValues(pods, frame[p].key, Null)
    BY <1>8, ReadAllIsQuiet
  <2>2. OthersKeep(p) /\ UNCHANGED hist
    BY <2>1 DEF Quiet
  <2>3. frame[p].key \in Key /\ Halfway = {}
    BY <2>1, ReaderKey, HalfwayAlone DEF StoreInv
  <2>4. AnswerWhole(p)'
    BY <2>1, <2>2, <2>3, CopiesAreWhole DEF AnswerWhole, SameCall
  <2>. QED
    BY <1>2, <1>3, <2>2, <2>4
<1>9. ASSUME NEW p \in Proc, ReadStore(p) PROVE NoTornValue'
  <2>1. UNCHANGED hist /\ OthersKeep(p) /\ SameCall(p) /\ frame'[p].out = frame[p].out
    BY <1>9, ReadStoreEffect
  <2>2. AnswerWhole(p)'
    BY <1>1, <1>2, <2>1 DEF SameCall
  <2>. QED
    BY <1>2, <1>3, <2>1, <2>2
<1>. QED
  BY <1>4, <1>5, <1>6, <1>7, <1>8, <1>9, StepShape

-----------------------------------------------------------------------------
(* The invariant where there is room *)

LEMMA InitRoomInv == StoreInit => RoomInv
<1>. SUFFICES ASSUME StoreInit, Room PROVE LayoutInv /\ CursorsAgree /\ NoTornValue
  BY DEF RoomInv
<1>1. StoreInv /\ pods \in Pods
  BY InitStoreInv DEF StoreInv, StoreTypeOK
<1>2. \A p \in Proc : frame[p] = NoFrame /\ pc[p] = "idle"
  BY DEF StoreInit, Init
<1>3. Halfway = {}
  BY <1>2 DEF Halfway
<1>4. \A b \in PodId, i \in Slot :
         /\ pods[b].index = 0 /\ ~ (i < 0)
         /\ pods[b].kv_pairs[i].key = <<>> /\ pods[b].kv_pairs[i].numberValues = 0
         /\ pods[b].kv_pairs[i].writeIndex = 0 /\ pods[b].kv_pairs[i].readIndex = 0
  <2>1. /\ EmptyPair.key = <<>> /\ EmptyPair.numberValues = 0
        /\ EmptyPair.writeIndex = 0 /\ EmptyPair.readIndex = 0
    BY DEF EmptyPair
  <2>2. \A b \in PodId, i \in Slot : pods[b].index = 0 /\ pods[b].kv_pairs[i] = EmptyPair
    BY DEF StoreInit, EmptyPods, EmptyPod
  <2>3. \A i \in Slot : ~ (i < 0)
    BY DEF Slot
  <2>. QED
    BY <2>1, <2>2, <2>3
<1>5. ASSUME NEW k \in Key PROVE Found(k) = {} /\ hist[k] = <<>>
  <2>1. PodOf[k] \in PodId
    BY HashAssumption
  <2>2. Found(k) = {}
    BY <1>1, <1>4, <2>1, FoundIs
  <2>. QED
    BY <2>2 DEF StoreInit
<1>6. SlotsAgree
  BY <1>4 DEF SlotsAgree
<1>7. RingsAgree
  BY <1>5 DEF RingsAgree
<1>8. CursorsAgree
  BY <1>2, <1>5 DEF CursorsAgree
<1>9. NoTornValue
  BY <1>2 DEF NoTornValue, NoFrame
<1>. QED
  BY <1>3, <1>6, <1>7, <1>8, <1>9 DEF LayoutInv

LEMMA NextRoomInv == StoreInv /\ RoomInv /\ [StoreNext]_vars => RoomInv'
<1>. SUFFICES ASSUME StoreInv, RoomInv, [StoreNext]_vars, Room
              PROVE  LayoutInv' /\ CursorsAgree' /\ NoTornValue'
  BY DEF RoomInv, Room
<1>1. StoreInv'
  BY NextStoreInv
<1>. QED
  BY <1>1, NextLayoutInv, NextCursorsAgree, NextNoTornValue DEF RoomInv

\* Where there is room the layout, the rings and the cursors agree with what was written
\* and read, however the processes interleave and wherever one is killed.
THEOREM RoomInvariant == StoreSpec => []RoomInv
BY StoreInvariant, InitRoomInv, NextRoomInv, PTL DEF StoreSpec

\* There no write is lost: once no process is in the write section, every key has the
\* number of its writes and its latest values are in place.
THEOREM WritesAreKept == StoreSpec => [](Room => NoWriteIsLost)
<1>1. StoreInv /\ RoomInv => (Room => NoWriteIsLost)
  <2>. SUFFICES ASSUME StoreInv, LayoutInv, Room, InWriteSection = {}, NEW k \in Key
                PROVE  LET count == Len(hist[k])
                       IN  IF count = 0 THEN Found(k) = {}
                           ELSE /\ Found(k) # {}
                                /\ PairOf(k).numberValues = Kept(count)
                                /\ \A n \in 1 .. count : count - n < MAXNUMBERVALUES =>
                                      PairOf(k).value[(n - 1) % MAXNUMBERVALUES] = hist[k][n]
    BY DEF NoWriteIsLost, RoomInv
  <2>1. pods \in Pods /\ CountsAgree /\ RingsAgree /\ hist[k] \in Seq(Value)
    BY DEF StoreInv, StoreTypeOK, LayoutInv
  <2>2. \A b, i : ~ Touched(b, i)
    BY DEF Touched, Halfway, InWriteSection
  <2>3. Len(hist[k]) = 0 <=> hist[k] = <<>>
    BY <2>1, EmptySeq
  <2>4. hist[k] = <<>> <=> Found(k) = {}
    BY <2>1 DEF RingsAgree
  <2>5. ASSUME Found(k) # {}
        PROVE  /\ PairOf(k).numberValues = Kept(Len(hist[k]))
               /\ RowsHold(PairOf(k), hist[k], -1)
    <3>1. Max(Found(k)) \in Found(k)
      BY <2>1, <2>5, FoundPairs
    <3>. QED
      BY <2>1, <2>2, <3>1 DEF RingsAgree, PairOf
  <2>6. \A n \in 1 .. Len(hist[k]) : (n - 1) % MAXNUMBERVALUES # -1
    BY PodAssumption
  <2>. QED
    BY <2>3, <2>4, <2>5, <2>6 DEF RowsHold
<1>. QED
  BY <1>1, StoreInvariant, RoomInvariant, PTL

\* There no answer is torn: what a read or a read_all returns was written under its key.
THEOREM AnswersAreNotTorn == StoreSpec => [](Room => NoTornValue)
<1>1. RoomInv => (Room => NoTornValue)
  BY DEF RoomInv
<1>. QED
  BY <1>1, RoomInvariant, PTL

\* There readers that share the section skip no row of a key.
THEOREM RowsAreReadInTurn == StoreSpec => [](Room => NoRowIsSkipped)
<1>1. StoreInv /\ RoomInv => (Room => NoRowIsSkipped)
  <2>. SUFFICES ASSUME StoreInv, CursorsAgree, NEW k \in Key, Found(k) # {}
                PROVE  0 .. PairOf(k).readIndex - 1 \subseteq seen[k]
    BY DEF NoRowIsSkipped, RoomInv
  <2>1. Max(Found(k)) \in Found(k)
    BY FoundPairs DEF StoreInv, StoreTypeOK
  <2>. QED
    BY <2>1 DEF CursorsAgree, PairOf
<1>. QED
  BY <1>1, StoreInvariant, RoomInvariant, PTL
=============================================================================
