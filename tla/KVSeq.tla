------------------------------- MODULE KVSeq --------------------------------
(***************************************************************************)
(* The store as one client sees it, when no other process uses it: each    *)
(* call of a2_lib.c is one step on the layout of KVPod.  What the calls do *)
(* when several processes make them is module KVStore.                     *)
(*                                                                         *)
(* The segment survives everything but a shm_unlink (kv_delete_db of the   *)
(* tests): kv_store_create opens it with O_CREAT and keeps what is there.  *)
(***************************************************************************)
EXTENDS KVPod

CONSTANTS
    MaxWrites,    \* bound: values written to one segment
    Null          \* the NULL that a read answers, never a string

VARIABLES
    open,         \* whether the segment exists
    pods,         \* this_kv_info->pods
    ret,          \* the last call and its answer
    hist          \* the values written under each key since the segment was new

vars == <<open, pods, ret, hist>>

NoHistory == [k \in Key |-> <<>>]

\* How many values have been written since the segment was new.
Written == MapThenSumSet(LAMBDA k : Len(hist[k]), Key)

Init ==
    /\ open = FALSE
    /\ pods = EmptyPods
    /\ ret = [op |-> "none", key |-> Null, out |-> Null]
    /\ hist = NoHistory

Answer(op, key, out) == ret' = [op |-> op, key |-> key, out |-> out]

Create ==
    /\ open' = TRUE
    /\ Answer("create", Null, 0)
    /\ UNCHANGED <<pods, hist>>

\* The next segment of that name is made of new, zeroed memory.
Delete ==
    /\ open' = FALSE
    /\ pods' = EmptyPods
    /\ hist' = NoHistory
    /\ Answer("delete", Null, 0)

Write(k, v) ==
    /\ open
    /\ Written < MaxWrites
    /\ pods' = AfterWrite(pods, k, v)
    /\ hist' = [hist EXCEPT ![k] = Append(@, v)]
    /\ Answer("write", k, 0)
    /\ UNCHANGED open

Read(k) ==
    /\ open
    /\ pods' = AfterRead(pods, k)
    /\ Answer("read", k, ReadValue(pods, k, Null))
    /\ UNCHANGED <<open, hist>>

ReadAll(k) ==
    /\ open
    /\ Answer("read_all", k, ReadAllValues(pods, k, Null))
    /\ UNCHANGED <<open, pods, hist>>

\* shm_open without O_CREAT fails.
CallUnopened(k) ==
    /\ ~ open
    /\ \/ Answer("write", k, -1)
       \/ \E op \in {"read", "read_all"} : Answer(op, k, Null)
    /\ UNCHANGED <<open, pods, hist>>

Next ==
    \/ Create \/ Delete
    \/ \E k \in Key : Read(k) \/ ReadAll(k) \/ CallUnopened(k) \/ \E v \in Value : Write(k, v)

Spec == Init /\ [][Next]_vars

-----------------------------------------------------------------------------
(* The promise of KVRing *)

\* The pair a read of k finds.
Found(k) == Hits(pods[PodOf[k]], k)
PairOf(k) == pods[PodOf[k]].kv_pairs[Max(Found(k))]

RingOf(k) == IF Found(k) = {} THEN <<>>
             ELSE [j \in 1 .. PairOf(k).numberValues |-> PairOf(k).value[j - 1]]
OldestOf(k) == IF Found(k) = {} THEN 0 ELSE PairOf(k).writeIndex
CursorOf(k) == IF Found(k) = {} THEN 0 ELSE PairOf(k).readIndex

Promise == INSTANCE KVRing WITH
    Capacity <- MAXNUMBERVALUES,
    ring <- [k \in Key |-> RingOf(k)],
    oldest <- [k \in Key |-> OldestOf(k)],
    cursor <- [k \in Key |-> CursorOf(k)]

\* No key has had more values than a pair has rows.
RingsHaveRoom == \A k \in Key : Len(hist[k]) <= MAXNUMBERVALUES

\* No pod has been given as many keys as it has slots.
WrittenTo(b) == {k \in Key : PodOf[k] = b /\ hist[k] # <<>>}
PodsHaveRoom == \A b \in PodId : Cardinality(WrittenTo(b)) < NUMBERKVPAIR

\* While no pod is full, no key has had more values than a pair has rows, and every
\* string is shorter than its array, the layout of the segment is invisible: reads
\* return the values of a key in the order of the writes, over and over.
KeepsPromise ==
    Promise!Init /\ [][(RingsHaveRoom /\ PodsHaveRoom)' => [Promise!Next]_Promise!vars]_vars

-----------------------------------------------------------------------------
(* What the layout keeps even when pods and rings overflow *)

Pairs == {pods[b].kv_pairs[i] : b \in PodId, i \in Slot}

PodTypeOK == open \in BOOLEAN /\ pods \in Pods /\ hist \in [Key -> Seq(Value)]

\* The three counters of a pair and its rows agree: the rows below numberValues are
\* the ones that were ever written, the next write goes right after them until the
\* ring is full, and the cursor is at a written row (or, when numberValues has
\* passed the end of the array, one past it).
RingsConsistent ==
    \A pair \in Pairs :
        /\ \A j \in Row : pair.value[j] # Empty <=> j < pair.numberValues
        /\ pair.numberValues <= MAXNUMBERVALUES
              => pair.writeIndex = pair.numberValues % MAXNUMBERVALUES
        /\ pair.readIndex < pair.numberValues \/ pair = EmptyPair

\* No key is in two of the slots that a scan looks at, whatever wrapped around before:
\* otherwise read would answer from the last and read_all from the first.
VisibleKeysDistinct ==
    \A b \in PodId : \A i, j \in 0 .. pods[b].index - 1 :
        pods[b].kv_pairs[i].key = pods[b].kv_pairs[j].key => i = j

\* A key that has values is lost only by the write that fills the last slot of its
\* pod (index starts again at 0), or with the whole segment; never by a read, by a
\* write under a key that is there, or by a write to another pod.
KeysVanishOnlyByWrap ==
    [][\A k \in Key :
          Found(k) # {} /\ Found(k)' = {} =>
             \/ ~ open'
             \/ /\ pods[PodOf[k]].index = NUMBERKVPAIR - 1
                /\ ret'.op = "write" /\ PodOf[ret'.key] = PodOf[k]
                /\ Found(ret'.key) = {}]_vars

\* FIFO replacement: as long as no pod is full, every key that was written is found
\* and its rows hold its latest MAXNUMBERVALUES values, each in the row its turn
\* gives it.
RowsAreLatest ==
    PodsHaveRoom => \A k \in Key : hist[k] # <<>> =>
        Found(k) # {} /\ \A j \in Row :
            LET turns == {n \in 1 .. Len(hist[k]) : (n - 1) % MAXNUMBERVALUES = j}
            IN  PairOf(k).value[j] = IF turns = {} THEN Empty ELSE hist[k][Max(turns)]

-----------------------------------------------------------------------------
(* What the tests say of the store *)

\* test1: a read right after a successful write of the same key gives a value.
WrittenKeyIsFound ==
    ret.op = "read" /\ hist[ret.key] # <<>> => ret.out # Null

\* test1: the array of read_all, of MAXNUMBERVALUES + 1 pointers, ends with a NULL.
ReadAllTerminated ==
    ret.op = "read_all" /\ ret.out # Null => Len(ret.out) <= MAXNUMBERVALUES

-----------------------------------------------------------------------------
(* The inductive invariant *)

\* A visible pair has values, and a cursor that has moved is below their number: also
\* where values spill over.
CountsAgree ==
    \A b \in PodId, i \in Slot :
        LET pair == pods[b].kv_pairs[i]
        IN  /\ i < pods[b].index => pair.numberValues > 0
            /\ pair.readIndex = 0 \/ pair.readIndex < pair.numberValues

\* Every string is shorter than its array.
Short == LongValue = {} /\ \A k \in Key : Len(k) < KEYSIZE

\* No key covers less than all of another one that it is copied over.
OneLength == \A k, l \in Key : Len(k) = Len(l)

KeysAreWhole == \A b \in PodId, i \in Slot : pods[b].kv_pairs[i].key \in Key \union {<<>>}

\* In a pod each visible slot has a written key of its own, and there are as many of them;
\* the other slots are as they were in the new segment.
SlotsAgree ==
    \A b \in PodId :
        /\ pods[b].index = Cardinality(WrittenTo(b))
        /\ \A i \in Slot :
              IF i < pods[b].index
              THEN /\ pods[b].kv_pairs[i].key \in WrittenTo(b)
                   /\ \A j \in Slot : j < pods[b].index =>
                         (pods[b].kv_pairs[j].key = pods[b].kv_pairs[i].key => j = i)
              ELSE pods[b].kv_pairs[i] = EmptyPair

\* A key has values exactly if it is visible, and its pair is the ring of them.
RingsAgree ==
    \A k \in Key :
        /\ hist[k] = <<>> <=> Found(k) = {}
        /\ \A i \in Found(k) :
              LET pair == pods[PodOf[k]].kv_pairs[i]
              IN  /\ pair.writeIndex = Len(hist[k]) % MAXNUMBERVALUES
                  /\ pair.numberValues = Kept(Len(hist[k]))
                  /\ RowsHold(pair, hist[k], -1)

SeqInv ==
    /\ PodTypeOK
    /\ CountsAgree
    /\ \A b \in PodId : IsFiniteSet(WrittenTo(b))
    /\ LongValue = {} => RingsConsistent
    /\ Short /\ OneLength => KeysAreWhole /\ VisibleKeysDistinct
    /\ Short /\ PodsHaveRoom => SlotsAgree /\ RingsAgree
=============================================================================
