------------------------------- MODULE KVPod --------------------------------
(***************************************************************************)
(* The shared memory segment of a2_lib.h and what the three library calls  *)
(* do to it.  A segment is an array of pods; a pod is an array of kv_pairs *)
(* and the index of the next free one; a kv_pair is a key and a ring of    *)
(* values.  These are operators only: KVSeq runs them one call at a time,  *)
(* KVStore one step at a time under the locks of KVLock.                   *)
(*                                                                         *)
(* A key is a sequence of characters, because memcpy(key, strlen(key))     *)
(* copies no terminator and the tail of an older key can stay behind.  A   *)
(* value is opaque; all that matters is whether it fills its row of the    *)
(* array, in which case its terminator falls on the byte after the row.    *)
(***************************************************************************)
EXTENDS Integers, Sequences, FiniteSetsExt

CONSTANTS
    NUMBERPODS,         \* pods in the segment (512)
    NUMBERKVPAIR,       \* kv_pairs in a pod (5)
    MAXNUMBERVALUES,    \* rows in the value array of a pair (256)
    KEYSIZE,            \* bytes of the key array of a pair (32)
    Key,                \* the key strings, non-empty sequences of characters
    Value,              \* the value strings, none of them empty
    LongValue,          \* those of 256 characters or more, cut to 256
    Empty,              \* the empty string, as in zeroed memory
    Stray,              \* any string that was never passed to kv_store_write
    PodOf               \* hash(key) % NUMBERPODS, for keys and their prefixes

ASSUME PodAssumption ==
    /\ NUMBERPODS \in Nat \ {0}
    /\ NUMBERKVPAIR \in Nat \ {0}
    /\ MAXNUMBERVALUES \in Nat \ {0}
    /\ KEYSIZE \in Nat \ {0}
    /\ LongValue \subseteq Value
    /\ Empty \notin Value /\ Stray \notin Value \union {Empty}

\* The characters that occur in keys.
Char == UNION {{k[i] : i \in 1 .. Len(k)} : k \in Key}

ASSUME KeyAssumption == Key \subseteq Seq(Char) \ {<<>>}

PodId == 0 .. NUMBERPODS - 1
Slot == 0 .. NUMBERKVPAIR - 1
Row == 0 .. MAXNUMBERVALUES - 1

EmptyPair ==
    [readIndex |-> 0, writeIndex |-> 0, numberValues |-> 0,
     key |-> <<>>, value |-> [j \in Row |-> Empty]]

EmptyPod == [index |-> 0, kv_pairs |-> [i \in Slot |-> EmptyPair]]

\* A new segment: shm_open and ftruncate give zeroed memory.
EmptyPods == [b \in PodId |-> EmptyPod]

\* What the fields can hold.  numberValues is incremented while it is at most the
\* number of rows, so it can pass it by one, and the cursor can reach the row past
\* the array.
Pair ==
    [readIndex : 0 .. MAXNUMBERVALUES, writeIndex : Row, numberValues : 0 .. MAXNUMBERVALUES + 1,
     key : Seq(Char), value : [Row -> Value \union {Empty}]]

Pod == [index : Slot, kv_pairs : [Slot -> Pair]]

Pods == [PodId -> Pod]

-----------------------------------------------------------------------------
(* Strings in memory *)

\* The key as kv_store_write cuts it.
Clip(key) == IF Len(key) > KEYSIZE THEN SubSeq(key, 1, KEYSIZE) ELSE key

ASSUME HashAssumption == \A k \in Key : PodOf[k] \in PodId /\ PodOf[Clip(k)] \in PodId

\* What the key array holds after memcpy of a key over an older one.
Overlay(old, key) == key \o SubSeq(old, Len(key) + 1, Len(old))

\* strcmp(key, storedKey) == 0.  A key that fills the array has no terminator, so
\* the stored string runs on into the values and equals no key.
SameKey(key, pair) == pair.key = key /\ Len(key) < KEYSIZE

\* Faulty variant: a scan that stops one slot early.
HitsButLast(pod, key) == {i \in 0 .. pod.index - 2 : SameKey(key, pod.kv_pairs[i])}

\* The slots that a scan for key compares equal: only those below index are looked at.
Hits(pod, key) == {i \in 0 .. pod.index - 1 : SameKey(key, pod.kv_pairs[i])}

\* The integer in memory right after the value array of pair i of pod b: readIndex of
\* the next pair, or index of the next pod, or the padding of the segment.
Beyond(pods, b, i) ==
    IF i + 1 < NUMBERKVPAIR THEN pods[b].kv_pairs[i + 1].readIndex
    ELSE IF b + 1 < NUMBERPODS THEN pods[b + 1].index
    ELSE 0

\* A full row is not terminated by its own bytes; it ends there only if the byte
\* after it is zero.  (A row index is a byte: MAXNUMBERVALUES is 256.)
RunsOn(pods, b, i, j) ==
    LET rows == pods[b].kv_pairs[i].value
    IN  /\ rows[j] \in LongValue
        /\ IF j + 1 < MAXNUMBERVALUES
           THEN rows[j + 1] # Empty
           ELSE Beyond(pods, b, i) % MAXNUMBERVALUES # 0

\* strdup(value[j]) of pair i of pod b.  Row MAXNUMBERVALUES is past the array.
StringAt(pods, b, i, j) ==
    IF j = MAXNUMBERVALUES \/ RunsOn(pods, b, i, j)
    THEN Stray
    ELSE pods[b].kv_pairs[i].value[j]

-----------------------------------------------------------------------------
(* kv_store_write, in the order of its stores *)

\* The local variables podIndex, actualPair, keyExists, actualIndex and writeIndex.
\* The scan does not stop at a match, so the last one counts.
Locate(pods, key) ==
    LET b == PodOf[key]
        hits == Hits(pods[b], key)
        i == IF hits = {} THEN pods[b].index ELSE Max(hits)
    IN  [pod |-> b, slot |-> i, keyExists |-> hits # {}, index |-> pods[b].index,
         at |-> pods[b].kv_pairs[i].writeIndex]

\* Faulty variant: numberValues is not limited.
CountAnyValue(pods, l) == [pods EXCEPT ![l.pod].kv_pairs[l.slot].numberValues = @ + 1]

\* Faulty variant: only the first value of a key is counted.
CountFirstValue(pods, l) ==
    [pods EXCEPT ![l.pod].kv_pairs[l.slot].numberValues = IF l.keyExists THEN @ ELSE @ + 1]

CountValue(pods, l) ==
    [pods EXCEPT ![l.pod].kv_pairs[l.slot].numberValues =
        IF @ <= MAXNUMBERVALUES THEN @ + 1 ELSE @]

\* The terminator of a full last row clears the low byte of the integer after it.
SpillTerminator(pods, l) ==
    IF l.slot + 1 < NUMBERKVPAIR
    THEN [pods EXCEPT ![l.pod].kv_pairs[l.slot + 1].readIndex = IF @ < MAXNUMBERVALUES THEN 0 ELSE @]
    ELSE IF l.pod + 1 < NUMBERPODS
    THEN [pods EXCEPT ![l.pod + 1].index = 0]
    ELSE pods

\* memcpy of the key and of the value.
CopyStrings(pods, l, key, val) ==
    LET pair == pods[l.pod].kv_pairs[l.slot]
    IN  [pods EXCEPT ![l.pod].kv_pairs[l.slot] =
            [pair EXCEPT !.key = Overlay(pair.key, key), !.value[l.at] = val]]

\* The same with the terminator of the value.
StoreStrings(pods, l, key, val) ==
    LET stored == CopyStrings(pods, l, key, val)
    IN  IF val \notin LongValue THEN stored
        ELSE IF l.at + 1 = MAXNUMBERVALUES THEN SpillTerminator(stored, l)
        ELSE [stored EXCEPT ![l.pod].kv_pairs[l.slot].value[l.at + 1] = Empty]

\* Faulty variant: writeIndex starts again at the second row.
PublishPastFirst(pods, l) ==
    [pods EXCEPT ![l.pod].kv_pairs[l.slot].writeIndex = IF l.at + 1 < MAXNUMBERVALUES THEN l.at + 1 ELSE 1 % MAXNUMBERVALUES,
                 ![l.pod].index = (l.index + (IF l.keyExists THEN 0 ELSE 1)) % NUMBERKVPAIR]

\* Faulty variant: index is set from the slot written, even when the key was there.
PublishSlot(pods, l) ==
    [pods EXCEPT ![l.pod].kv_pairs[l.slot].writeIndex = (l.at + 1) % MAXNUMBERVALUES,
                 ![l.pod].index = (l.slot + 1) % NUMBERKVPAIR]

\* writeIndex, and index if the key is new: both wrap around.
Publish(pods, l) ==
    [pods EXCEPT ![l.pod].kv_pairs[l.slot].writeIndex = (l.at + 1) % MAXNUMBERVALUES,
                 ![l.pod].index = (l.index + (IF l.keyExists THEN 0 ELSE 1)) % NUMBERKVPAIR]

\* The whole of a write: the key is cut before anything else.
AfterWrite(pods, key, val) ==
    LET cut == Clip(key)
        l == Locate(pods, cut)
    IN  Publish(StoreStrings(CountValue(pods, l), l, cut, val), l)

-----------------------------------------------------------------------------
(* kv_store_read and kv_store_read_all *)

\* Faulty variant: the cursor goes on by two rows.
NextRowButOne(pair, r) == (r + 2) % pair.numberValues

\* The cursor after a read of row r of a pair.
NextRow(pair, r) == (r + 1) % pair.numberValues

\* The string a read returns: that of the last match.
ReadValue(pods, key, null) ==
    LET b == PodOf[key]
        hits == Hits(pods[b], key)
    IN  IF hits = {} THEN null
        ELSE StringAt(pods, b, Max(hits), pods[b].kv_pairs[Max(hits)].readIndex)

\* The cursors of the pairs of pod b after reads of the rows loaded from them.
MoveCursors(pods, b, rows) ==
    [pods EXCEPT ![b].kv_pairs = [i \in Slot |->
        IF i \in DOMAIN rows THEN [@[i] EXCEPT !.readIndex = NextRow(pods[b].kv_pairs[i], rows[i])]
        ELSE @[i]]]

\* The cursors a scan for key loads: those of every match, not only of the last.
LoadCursors(pods, key) ==
    [i \in Hits(pods[PodOf[key]], key) |-> pods[PodOf[key]].kv_pairs[i].readIndex]

AfterRead(pods, key) == MoveCursors(pods, PodOf[key], LoadCursors(pods, key))

\* The strings read_all puts in its array: those of the first match.
ReadAllValues(pods, key, null) ==
    LET b == PodOf[key]
        hits == Hits(pods[b], key)
    IN  IF hits = {} THEN null
        ELSE [j \in 1 .. pods[b].kv_pairs[Min(hits)].numberValues |->
                 StringAt(pods, b, Min(hits), j - 1)]

-----------------------------------------------------------------------------
(* What a pair holds after the writes h of its key *)

\* numberValues after n writes.
Kept(n) == IF n <= MAXNUMBERVALUES THEN n ELSE MAXNUMBERVALUES + 1

\* The rows hold the latest values, each in the row its turn gives it, and nothing but
\* values of the key.  The row gap, if it is one, is about to be written.
RowsHold(pair, h, gap) ==
    /\ \A n \in 1 .. Len(h) :
          Len(h) - n < MAXNUMBERVALUES /\ (n - 1) % MAXNUMBERVALUES # gap =>
              pair.value[(n - 1) % MAXNUMBERVALUES] = h[n]
    /\ \A j \in Row : j < Len(h) /\ j # gap => \E n \in 1 .. Len(h) : pair.value[j] = h[n]
=============================================================================
