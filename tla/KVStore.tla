------------------------------ MODULE KVStore -------------------------------
(***************************************************************************)
(* The store under several processes: the calls of a2_lib.c on the segment *)
(* of KVPod, taken apart into the steps that can interleave, under the     *)
(* locks of KVLock.                                                        *)
(*                                                                         *)
(* A write makes its stores in three steps inside the write section; a     *)
(* read loads the cursor and copies the value in one step and stores the   *)
(* cursor in another, and other readers may come between.  A process may   *)
(* be killed between any two steps and leaves behind what it has stored.   *)
(***************************************************************************)
EXTENDS KVLock, KVPod, Functions

CONSTANTS
    MaxCalls,     \* bound: calls that the processes make in all
    Null          \* no call, no answer

ASSUME CallsAssumption == MaxCalls \in Nat

VARIABLES
    open,         \* whether the segment exists
    pods,         \* this_kv_info->pods
    frame,        \* the call each process is in, with its local variables
    left,         \* calls that may still be made
    hist,         \* the values whose write under each key has reached its end
    seen          \* the rows of each key that some read has copied

dataVars == <<open, pods, frame, left, hist, seen>>
vars == <<lockVars, dataVars>>

\* A frame: the call and its arguments, how far it is in its section (none, in,
\* counted or stored, loaded, done), what it found there, and its answer.
NoFrame == [op |-> "none", key |-> Null, val |-> Null, at |-> "none", loc |-> Null, out |-> Null]

\* The segment may be there from an earlier kv_store_create.
StoreInit ==
    /\ Init
    /\ open \in BOOLEAN
    /\ pods = EmptyPods
    /\ frame = [p \in Proc |-> NoFrame]
    /\ left = MaxCalls
    /\ hist = [k \in Key |-> <<>>]
    /\ seen = [k \in Key |-> {}]

-----------------------------------------------------------------------------
\* A live process calls op.
Call(p, op, key, val) ==
    /\ pc[p] = "idle" /\ p \notin dead
    /\ left > 0
    /\ left' = left - 1
    /\ frame' = [frame EXCEPT ![p] = [NoFrame EXCEPT !.op = op, !.key = key, !.val = val]]
    /\ UNCHANGED <<pods, hist, seen>>

\* The call of p is in its section and has come to the place from.
Proceed(p, section, op, from) ==
    /\ pc[p] = section /\ p \notin dead
    /\ frame[p].op = op /\ frame[p].at = from
    /\ UNCHANGED <<lockVars, open, left>>

At(p, to) == [frame EXCEPT ![p].at = to]

\* The call returns: its local variables are gone, but not its answer.
Returned(p) == [frame EXCEPT ![p].at = "returned", ![p].loc = Null]

CallCreate(p) ==
    /\ Call(p, "create", Null, Null)
    /\ open' = TRUE
    /\ UNCHANGED lockVars

\* shm_open without O_CREAT fails and the call returns.
CallUnopened(p) ==
    /\ ~ open
    /\ Call(p, "failed", Null, Null)
    /\ UNCHANGED <<lockVars, open>>

CallWrite(p, k, v) ==
    /\ open /\ UNCHANGED open
    /\ Call(p, "write", k, v)
    /\ StartWrite(p)

CallRead(p, k) ==
    /\ open /\ UNCHANGED open
    /\ \E op \in {"read", "read_all"} : Call(p, op, k, Null)
    /\ StartRead(p)

\* A step of the locking protocol that touches nothing else.
EnterSection(p) ==
    /\ WriterEnter(p) \/ EntryUnlock(p)
    /\ frame' = At(p, "in")
    /\ UNCHANGED <<open, pods, left, hist, seen>>

LockStep(p) ==
    /\ \/ EntryLock(p) \/ EntryLoad(p) \/ EntryStore(p) \/ FirstReaderWait(p)
       \/ ExitLoad(p) \/ ExitStore(p) \/ LastReaderPost(p)
    /\ UNCHANGED dataVars

-----------------------------------------------------------------------------
(* kv_store_write between sem_wait and sem_post *)

\* The search, and the store of numberValues.
WriteCount(p) ==
    /\ Proceed(p, "w_cs", "write", "in")
    /\ LET l == Locate(pods, Clip(frame[p].key))
       IN  /\ frame' = [At(p, "counted") EXCEPT ![p].loc = l]
           /\ pods' = CountValue(pods, l)
    /\ UNCHANGED <<hist, seen>>

\* The two memcpy.
WriteStrings(p) ==
    /\ Proceed(p, "w_cs", "write", "counted")
    /\ frame' = At(p, "stored")
    /\ pods' = StoreStrings(pods, frame[p].loc, Clip(frame[p].key), frame[p].val)
    /\ UNCHANGED <<hist, seen>>

\* The stores of writeIndex and of index.
WritePublish(p) ==
    /\ Proceed(p, "w_cs", "write", "stored")
    /\ frame' = At(p, "done")
    /\ pods' = Publish(pods, frame[p].loc)
    /\ hist' = [hist EXCEPT ![frame[p].key] = Append(@, frame[p].val)]
    /\ UNCHANGED seen

WriteReturn(p) ==
    /\ frame[p].at = "done"
    /\ WriterExit(p)
    /\ frame' = Returned(p)
    /\ UNCHANGED <<open, pods, left, hist, seen>>

-----------------------------------------------------------------------------
(* kv_store_read and kv_store_read_all inside the read section *)

\* The scan of a read: the cursor of every match is loaded, and the value copied.
ReadLoad(p) ==
    /\ Proceed(p, "r_cs", "read", "in")
    /\ LET k == frame[p].key
           rows == LoadCursors(pods, k)
       IN  /\ frame' = [At(p, "loaded") EXCEPT ![p].loc = rows,
                                               ![p].out = ReadValue(pods, k, Null)]
           /\ seen' = [seen EXCEPT ![k] = @ \union Range(rows)]
    /\ UNCHANGED <<pods, hist>>

\* The store of the cursors, one more than they were when they were loaded.
ReadStore(p) ==
    /\ Proceed(p, "r_cs", "read", "loaded")
    /\ frame' = At(p, "done")
    /\ pods' = MoveCursors(pods, PodOf[frame[p].key], frame[p].loc)
    /\ UNCHANGED <<hist, seen>>

ReadAllCopy(p) ==
    /\ Proceed(p, "r_cs", "read_all", "in")
    /\ frame' = [At(p, "done") EXCEPT ![p].out = ReadAllValues(pods, frame[p].key, Null)]
    /\ UNCHANGED <<pods, hist, seen>>

ReadDone(p) ==
    /\ frame[p].at = "done"
    /\ ExitLock(p)
    /\ UNCHANGED dataVars

ReadReturn(p) ==
    /\ ExitUnlock(p)
    /\ frame' = Returned(p)
    /\ UNCHANGED <<open, pods, left, hist, seen>>

-----------------------------------------------------------------------------
KillProcess(p) == Kill(p) /\ UNCHANGED dataVars

Enter(p) ==
    \/ CallCreate(p) \/ CallUnopened(p)
    \/ \E k \in Key : CallRead(p, k) \/ \E v \in Value : CallWrite(p, k, v)

\* The steps of a process inside a call.
Step(p) ==
    \/ EnterSection(p) \/ LockStep(p)
    \/ WriteCount(p) \/ WriteStrings(p) \/ WritePublish(p) \/ WriteReturn(p)
    \/ ReadLoad(p) \/ ReadStore(p) \/ ReadAllCopy(p) \/ ReadDone(p) \/ ReadReturn(p)

StoreNext == \E p \in Proc : Enter(p) \/ Step(p) \/ KillProcess(p)

StoreSpec == StoreInit /\ [][StoreNext]_vars

\* A process that can go on does so: the system schedules every process, and a
\* semaphore that is up lets one of its waiters in.  Nobody is obliged to call or
\* to be killed.
Fairness == \A p \in Proc : WF_vars(Step(p))

FairStoreSpec == StoreSpec /\ Fairness

-----------------------------------------------------------------------------
(* Properties *)

Places == {"none", "in", "counted", "stored", "loaded", "done", "returned"}

FrameTypeOK(p) ==
    /\ DOMAIN frame[p] = DOMAIN NoFrame
    /\ frame[p].op \in {"none", "create", "failed", "write", "read", "read_all"}
    /\ frame[p].key \in Key \union {Null}
    /\ frame[p].val \in Value \union {Null}
    /\ frame[p].at \in Places

StoreTypeOK ==
    /\ LockTypeOK
    /\ open \in BOOLEAN
    /\ pods \in Pods
    /\ left \in 0 .. MaxCalls
    /\ hist \in [Key -> Seq(Value)]
    /\ seen \in [Key -> SUBSET (0 .. MAXNUMBERVALUES)]
    /\ DOMAIN frame = Proc /\ \A p \in Proc : FrameTypeOK(p)

Found(k) == Hits(pods[PodOf[k]], k)
PairOf(k) == pods[PodOf[k]].kv_pairs[Max(Found(k))]

\* Between writes (no process, dead or alive, is in the write section) every write
\* that has returned is in the segment: the number of values of a key is that of its
\* writes, whoever made them, up to the limit of the counter, and the latest ones, as
\* many as there are rows, are in place.  This is what test2 counts after its four
\* children have written.
NoWriteIsLost ==
    InWriteSection = {} =>
        \A k \in Key :
            LET count == Len(hist[k])
            IN  IF count = 0 THEN Found(k) = {}
                ELSE /\ Found(k) # {}
                     /\ PairOf(k).numberValues = Kept(count)
                     /\ \A n \in 1 .. count : count - n < MAXNUMBERVALUES =>
                           PairOf(k).value[(n - 1) % MAXNUMBERVALUES] = hist[k][n]

\* A read between its load and its store still sees what it loaded: the pair is
\* where it was, and the value it has copied is in its row (the row past the array
\* and rows that are not terminated can give anything).
SeesStablePair(p) ==
    LET k == frame[p].key
        row == frame[p].loc[Max(Found(k))]
    IN  /\ DOMAIN frame[p].loc = Found(k)
        /\ Found(k) # {} /\ row # MAXNUMBERVALUES /\ PairOf(k).value[row] \notin LongValue =>
              frame[p].out = PairOf(k).value[row]

ReadSeesStablePair ==
    \A p \in Proc : pc[p] = "r_cs" /\ frame[p].at = "loaded" => SeesStablePair(p)

\* What a read or a read_all answers was written whole under its key: a write that a
\* kill has cut short is never seen, nor one that is under way.  Only once the
\* counter has passed the rows can an answer come from behind them.
NoTornValue ==
    \A p \in Proc :
        LET f == frame[p]
            whole(v) == \/ \E n \in DOMAIN hist[f.key] : hist[f.key][n] = v
                        \/ v = Stray /\ Len(hist[f.key]) > MAXNUMBERVALUES
        IN  /\ f.op = "read" /\ f.out # Null => whole(f.out)
            /\ f.op = "read_all" /\ f.out # Null => \A j \in DOMAIN f.out : whole(f.out[j])

\* Readers that share the section may repeat a value (the cursor that is stored last
\* wins), but they never skip one: every row before the cursor has been read.
NoRowIsSkipped ==
    \A k \in Key : Found(k) # {} => 0 .. PairOf(k).readIndex - 1 \subseteq seen[k]

\* Every call returns, unless some process was killed while it held a semaphore or
\* was counted as a reader.
EveryCallReturns ==
    [](\A p \in dead : Harmless(p)) => \A p \in Proc : <>[](pc[p] = "idle" \/ p \in dead)

-----------------------------------------------------------------------------
(* The inductive invariant *)

\* How far a call is in its section goes with its place in the locking protocol.
PlaceAgrees(p) ==
    LET f == frame[p]
    IN  /\ pc[p] = "idle" => f.at \in {"none", "returned"}
        /\ pc[p] \in WriterLabels => f.op = "write" /\ f.val \in Value
        /\ pc[p] = "w_cs" <=> pc[p] \in WriterLabels /\ f.at # "none"
        /\ pc[p] = "w_cs" => f.at \in {"in", "counted", "stored", "done"}
        /\ pc[p] \in ReaderLabels => f.op \in {"read", "read_all"}
        /\ pc[p] \in {"r_lock", "r_load", "r_store", "r_waitw", "r_unlock"} => f.at = "none"
        /\ pc[p] = "r_cs" => f.at \in {"in", "loaded", "done"}
        /\ pc[p] \in {"d_load", "d_store", "d_postw", "d_unlock"} => f.at = "done"
        /\ f.op \in {"write", "read", "read_all"} => f.key \in Key

\* What the writer has found is still so: its pod and slot are where they were.
Location == [pod : PodId, slot : Slot, keyExists : BOOLEAN, index : Slot, at : Row]

LocationHolds(p) ==
    LET l == frame[p].loc
        pod == pods[l.pod]
    IN  /\ l \in Location
        /\ l.pod = PodOf[Clip(frame[p].key)]
        /\ l.index = pod.index
        /\ IF l.keyExists THEN l.slot < l.index ELSE l.slot = l.index
        /\ l.at = pod.kv_pairs[l.slot].writeIndex
        /\ pod.kv_pairs[l.slot].numberValues > 0

\* The rows a reader has loaded are cursors of the pairs it has found.
RowsLoaded(p) == frame[p].op = "read" /\ frame[p].loc \in [Found(frame[p].key) -> 0 .. MAXNUMBERVALUES]

\* A visible pair has values, and a cursor that has moved is below their number.
CountsAgree ==
    \A b \in PodId, i \in Slot :
        LET pair == pods[b].kv_pairs[i]
        IN  /\ i < pods[b].index => pair.numberValues > 0
            /\ pair.readIndex = 0 \/ pair.readIndex < pair.numberValues

StoreInv ==
    /\ StoreTypeOK
    /\ LockInv
    /\ CountsAgree
    /\ \A p \in Proc :
          /\ PlaceAgrees(p)
          /\ pc[p] = "w_cs" /\ frame[p].at \in {"counted", "stored"} => LocationHolds(p)
          /\ pc[p] = "r_cs" /\ frame[p].at = "loaded" => RowsLoaded(p)
    /\ ReadSeesStablePair

-----------------------------------------------------------------------------
(* The inductive invariant where there is room *)

KeysOf(b) == {k \in Key : PodOf[k] = b}

\* Every string is shorter than its array and no pod is given as many keys as it has
\* slots: then no key is cut, nothing spills over, and index never wraps around.
Room ==
    /\ LongValue = {}
    /\ \A k \in Key : Len(k) < KEYSIZE
    /\ \A b \in PodId : IsFiniteSet(KeysOf(b)) /\ Cardinality(KeysOf(b)) < NUMBERKVPAIR

\* The process, dead or alive, that is halfway through its stores, and the pair it is at.
Halfway == {p \in Proc : pc[p] = "w_cs" /\ frame[p].at \in {"counted", "stored"}}

Touched(b, i) == \E p \in Halfway : frame[p].loc.pod = b /\ frame[p].loc.slot = i

\* Each visible slot has a key of its pod and no two have the same; the others are as
\* they were in the new segment.
SlotsAgree ==
    \A b \in PodId, i \in Slot :
        LET pair == pods[b].kv_pairs[i]
        IN  /\ i < pods[b].index =>
                  /\ pair.key \in KeysOf(b)
                  /\ \A j \in Slot : j < pods[b].index /\ pods[b].kv_pairs[j].key = pair.key => j = i
            /\ i >= pods[b].index /\ ~ Touched(b, i) =>
                  /\ pair.key = <<>>
                  /\ pair.numberValues = 0 /\ pair.writeIndex = 0 /\ pair.readIndex = 0

\* A key has values exactly if it is visible, and its pair is the ring of them.
RingsAgree ==
    \A k \in Key :
        /\ hist[k] = <<>> <=> Found(k) = {}
        /\ \A i \in Found(k) : ~ Touched(PodOf[k], i) =>
              LET pair == pods[PodOf[k]].kv_pairs[i]
              IN  /\ pair.writeIndex = Len(hist[k]) % MAXNUMBERVALUES
                  /\ pair.numberValues = Kept(Len(hist[k]))
                  /\ RowsHold(pair, hist[k], -1)

\* What a write has done to its pair halfway through.
HalfwayAgrees(p) ==
    LET f == frame[p]
        h == hist[f.key]
        pair == pods[f.loc.pod].kv_pairs[f.loc.slot]
    IN  /\ f.loc.keyExists <=> Found(f.key) # {}
        /\ f.loc.keyExists => f.loc.slot \in Found(f.key)
        /\ pair.numberValues = Kept(Len(h) + 1)
        /\ f.loc.at = Len(h) % MAXNUMBERVALUES
        /\ RowsHold(pair, h, f.loc.at)
        /\ ~ f.loc.keyExists => pair.readIndex = 0
        /\ ~ f.loc.keyExists /\ f.at = "counted" => pair.key = <<>>
        /\ f.at = "stored" => pair.key = f.key /\ pair.value[f.loc.at] = f.val

\* Every row before a cursor has been read, and those up to the row that a reader has
\* loaded and will store the next of.
CursorsAgree ==
    /\ \A k \in Key : \A i \in Found(k) :
          0 .. pods[PodOf[k]].kv_pairs[i].readIndex - 1 \subseteq seen[k]
    /\ \A p \in Proc : pc[p] = "r_cs" /\ frame[p].at = "loaded" =>
          \A i \in DOMAIN frame[p].loc : 0 .. frame[p].loc[i] \subseteq seen[frame[p].key]

LayoutInv ==
    /\ SlotsAgree
    /\ RingsAgree
    /\ \A p \in Halfway : HalfwayAgrees(p)

RoomInv == Room => LayoutInv /\ CursorsAgree /\ NoTornValue
=============================================================================
