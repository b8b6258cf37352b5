---------------------------- MODULE KVSeqProofs -----------------------------
(***************************************************************************)
(* Proofs about KVSeq, for any number of pods, pairs, rows, keys, values   *)
(* and writes; the last of them, that the layout implements KVRing.        *)
(***************************************************************************)
EXTENDS KVSeq, KVPodProofs

-----------------------------------------------------------------------------
(* What a write does *)

LEMMA KeyFacts ==
    ASSUME NEW k \in Key
    PROVE  /\ k \in Seq(Char) /\ k # <<>> /\ Len(k) \in Nat /\ Clip(k) \in Seq(Char)
           /\ Len(k) <= KEYSIZE => Clip(k) = k
           /\ PodOf[k] \in PodId /\ PodOf[Clip(k)] \in PodId
BY KeyAssumption, ClipIsKey, HashAssumption, LenProperties

\* Pair i of pod b is where the key goes, and nothing but it and the index changes.
PairWritten(P, R, key, v, b, i) ==
    LET p == P[b].kv_pairs[i]
        q == R[b].kv_pairs[i]
        hits == Hits(P[b], key)
    IN  /\ b = PodOf[key] /\ b \in PodId /\ i \in Slot /\ R \in Pods
        /\ IF hits = {} THEN i = P[b].index ELSE i \in hits /\ i < P[b].index
        /\ R[b].index = IF hits = {} THEN (P[b].index + 1) % NUMBERKVPAIR ELSE P[b].index
        /\ \A c \in PodId : c # b => R[c].index = P[c].index
        /\ \A c \in PodId, j \in Slot : c # b \/ j # i => R[c].kv_pairs[j] = P[c].kv_pairs[j]
        /\ q.key = Overlay(p.key, key)
        /\ q.value[p.writeIndex] = v
        /\ \A j \in Row \ {p.writeIndex} : q.value[j] = p.value[j]
        /\ q.numberValues = IF p.numberValues <= MAXNUMBERVALUES THEN p.numberValues + 1
                            ELSE p.numberValues
        /\ q.readIndex = p.readIndex
        /\ q.writeIndex = (p.writeIndex + 1) % MAXNUMBERVALUES

\* The three stores of a write, one after the other.
LEMMA WriteStores ==
    ASSUME NEW P \in Pods, NEW k \in Key, NEW v \in Value, NEW R, R = AfterWrite(P, k, v)
    PROVE  \E l, A, B :
              /\ l = Locate(P, Clip(k)) /\ A = CountValue(P, l)
              /\ B = StoreStrings(A, l, Clip(k), v) /\ R = Publish(B, l)
BY DEF AfterWrite

\* Where no value spills over.
LEMMA WriteEffect ==
    ASSUME NEW P \in Pods, NEW k \in Key, NEW v \in Value, LongValue = {},
           NEW R, R = AfterWrite(P, k, v)
    PROVE  \E b, i : PairWritten(P, R, Clip(k), v, b, i)
<1>1. PICK l, A, B : /\ l = Locate(P, Clip(k)) /\ A = CountValue(P, l)
                     /\ B = StoreStrings(A, l, Clip(k), v) /\ R = Publish(B, l)
  BY WriteStores
<1>2. PICK key \in Seq(Char) : key = Clip(k) /\ PodOf[key] \in PodId
  BY KeyFacts
<1>3. /\ l.pod = PodOf[key] /\ l.slot \in Slot /\ l.keyExists \in BOOLEAN
      /\ l.keyExists <=> Hits(P[PodOf[key]], key) # {}
      /\ l.keyExists => l.slot \in Hits(P[PodOf[key]], key) /\ l.slot < P[PodOf[key]].index
      /\ ~ l.keyExists => l.slot = P[PodOf[key]].index
      /\ l.index = P[PodOf[key]].index
      /\ l.at = P[PodOf[key]].kv_pairs[l.slot].writeIndex /\ l.at \in Row
  <2>1. l = Locate(P, key) /\ PodOf[key] \in PodId
    BY <1>1, <1>2
  <2>2. /\ l.pod = PodOf[key] /\ l.slot \in Slot /\ l.keyExists \in BOOLEAN
        /\ l.keyExists => l.slot < P[PodOf[key]].index
        /\ ~ l.keyExists => l.slot = P[PodOf[key]].index
        /\ l.index = P[PodOf[key]].index /\ l.at \in Row
    BY <2>1, LocateFields
  <2>3. l.at = P[PodOf[key]].kv_pairs[l.slot].writeIndex
    BY <2>1, LocateFields
  <2>4. l.keyExists <=> Hits(P[PodOf[key]], key) # {}
    BY <2>1, LocateFields
  <2>5. l.keyExists => l.slot \in Hits(P[PodOf[key]], key)
    BY <2>1, LocateFields
  <2>. QED
    BY <2>2, <2>3, <2>4, <2>5
<1>4. PICK b \in PodId, i \in Slot, at \in Row : b = l.pod /\ i = l.slot /\ at = l.at
  BY <1>2, <1>3
<1>5. /\ OnlyPair(P, A, b, i)
      /\ A[b].kv_pairs[i].numberValues =
            IF P[b].kv_pairs[i].numberValues <= MAXNUMBERVALUES
            THEN P[b].kv_pairs[i].numberValues + 1
            ELSE P[b].kv_pairs[i].numberValues
      /\ A[b].kv_pairs[i].readIndex = P[b].kv_pairs[i].readIndex
      /\ A[b].kv_pairs[i].writeIndex = P[b].kv_pairs[i].writeIndex
      /\ A[b].kv_pairs[i].key = P[b].kv_pairs[i].key
      /\ A[b].kv_pairs[i].value = P[b].kv_pairs[i].value
  <2>1. Counted(P, A, b, i)
    BY <1>1, <1>4, CountEffect
  <2>. QED
    BY <2>1 DEF Counted
<1>6. A \in Pods
  BY <1>5 DEF OnlyPair
<1>7. B = CopyStrings(A, l, key, v)
  BY <1>1, <1>2, <1>4, <1>6, StoreEffect
<1>8. /\ OnlyPair(A, B, b, i)
      /\ B[b].kv_pairs[i].key = Overlay(A[b].kv_pairs[i].key, key)
      /\ B[b].kv_pairs[i].value[at] = v
      /\ \A j \in Row \ {at} : B[b].kv_pairs[i].value[j] = A[b].kv_pairs[i].value[j]
      /\ B[b].kv_pairs[i].numberValues = A[b].kv_pairs[i].numberValues
      /\ B[b].kv_pairs[i].readIndex = A[b].kv_pairs[i].readIndex
      /\ B[b].kv_pairs[i].writeIndex = A[b].kv_pairs[i].writeIndex
  <2>1. Copied(A, B, b, i, at, key, v)
    BY <1>4, <1>6, <1>7, StringsEffect
  <2>. QED
    BY <2>1 DEF Copied
<1>9. B \in Pods
  BY <1>8 DEF OnlyPair
<1>10. l.index \in Slot
  BY <1>2, <1>3, FieldTypes
<1>11. Published(B, R, l, b, i)
  BY <1>1, <1>3, <1>4, <1>9, <1>10, PublishEffect
<1>12. /\ \A c \in PodId : c # b => R[c].index = P[c].index
       /\ \A c \in PodId, j \in Slot : c # b \/ j # i => R[c].kv_pairs[j] = P[c].kv_pairs[j]
  <2>1. OnlyPair(P, A, b, i) /\ OnlyPair(A, B, b, i)
    BY <1>5, <1>8
  <2>2. ASSUME NEW c \in PodId, c # b PROVE R[c].index = P[c].index
    BY <1>11, <2>1, <2>2 DEF OnlyPair, Published
  <2>3. ASSUME NEW c \in PodId, NEW j \in Slot, c # b \/ j # i
        PROVE  R[c].kv_pairs[j] = P[c].kv_pairs[j]
    <3>1. R[c].kv_pairs[j] = B[c].kv_pairs[j]
      BY <1>11, <2>3 DEF Published
    <3>2. B[c].kv_pairs[j] = A[c].kv_pairs[j] /\ A[c].kv_pairs[j] = P[c].kv_pairs[j]
      BY <2>1, <2>3 DEF OnlyPair
    <3>. QED
      BY <3>1, <3>2
  <2>. QED
    BY <2>2, <2>3
<1>13. /\ R \in Pods
       /\ R[b].index = IF l.keyExists THEN l.index ELSE (l.index + 1) % NUMBERKVPAIR
       /\ R[b].kv_pairs[i].writeIndex = (at + 1) % MAXNUMBERVALUES
       /\ R[b].kv_pairs[i].readIndex = P[b].kv_pairs[i].readIndex
       /\ R[b].kv_pairs[i].numberValues = A[b].kv_pairs[i].numberValues
       /\ R[b].kv_pairs[i].key = Overlay(P[b].kv_pairs[i].key, key)
       /\ R[b].kv_pairs[i].value[at] = v
       /\ \A j \in Row \ {at} : R[b].kv_pairs[i].value[j] = P[b].kv_pairs[i].value[j]
  <2>1. /\ R \in Pods
        /\ R[b].index = IF l.keyExists THEN l.index ELSE (l.index + 1) % NUMBERKVPAIR
        /\ R[b].kv_pairs[i].writeIndex = (at + 1) % MAXNUMBERVALUES
    BY <1>4, <1>11 DEF Published
  <2>2. /\ R[b].kv_pairs[i].readIndex = B[b].kv_pairs[i].readIndex
        /\ R[b].kv_pairs[i].numberValues = B[b].kv_pairs[i].numberValues
        /\ R[b].kv_pairs[i].key = B[b].kv_pairs[i].key
        /\ R[b].kv_pairs[i].value = B[b].kv_pairs[i].value
    BY <1>11 DEF Published
  <2>. QED
    BY <1>5, <1>8, <2>1, <2>2
<1>14. at = P[b].kv_pairs[i].writeIndex /\ b = PodOf[key] /\ l.index = P[b].index
  BY <1>3, <1>4
<1>15. PairWritten(P, R, key, v, b, i)
  BY <1>3, <1>4, <1>5, <1>12, <1>13, <1>14 DEF PairWritten
<1>. QED
  BY <1>2, <1>15

\* Also where values spill over, a write keeps the counts in agreement.
CountsOf(P) ==
    \A b \in PodId, i \in Slot :
        /\ i < P[b].index => P[b].kv_pairs[i].numberValues > 0
        /\ P[b].kv_pairs[i].readIndex = 0 \/ P[b].kv_pairs[i].readIndex < P[b].kv_pairs[i].numberValues

LEMMA WriteCounts ==
    ASSUME NEW P \in Pods, NEW k \in Key, NEW v \in Value, NEW R, R = AfterWrite(P, k, v), CountsOf(P)
    PROVE  R \in Pods /\ CountsOf(R)
<1>1. PICK l, A, B : /\ l = Locate(P, Clip(k)) /\ A = CountValue(P, l)
                     /\ B = StoreStrings(A, l, Clip(k), v) /\ R = Publish(B, l)
  BY WriteStores
<1>2. PICK key \in Seq(Char) : key = Clip(k) /\ PodOf[key] \in PodId
  BY KeyFacts
<1>3. /\ l.pod = PodOf[key] /\ l.slot \in Slot /\ l.keyExists \in BOOLEAN
      /\ l.keyExists => l.slot < P[PodOf[key]].index
      /\ ~ l.keyExists => l.slot = P[PodOf[key]].index
      /\ l.index = P[PodOf[key]].index /\ l.at \in Row
  BY <1>1, <1>2, LocateFields
<1>4. PICK b \in PodId, i \in Slot, at \in Row : b = l.pod /\ i = l.slot /\ at = l.at
  BY <1>2, <1>3
<1>5. /\ OnlyPair(P, A, b, i)
      /\ A[b].kv_pairs[i].numberValues =
            IF P[b].kv_pairs[i].numberValues <= MAXNUMBERVALUES
            THEN P[b].kv_pairs[i].numberValues + 1
            ELSE P[b].kv_pairs[i].numberValues
      /\ A[b].kv_pairs[i].readIndex = P[b].kv_pairs[i].readIndex
  <2>1. Counted(P, A, b, i)
    BY <1>1, <1>4, CountEffect
  <2>. QED
    BY <2>1 DEF Counted
<1>6. A \in Pods
  BY <1>5 DEF OnlyPair
<1>7. Spilled(A, B, b)
  BY <1>1, <1>2, <1>4, <1>6, StoreEffect
<1>8. B \in Pods /\ l.index \in Slot
  BY <1>2, <1>3, <1>7, FieldTypes DEF Spilled
<1>9. Published(B, R, l, b, i)
  BY <1>1, <1>3, <1>4, <1>8, PublishEffect
<1>10. R \in Pods
  BY <1>9 DEF Published
<1>11. /\ P[b].kv_pairs[i].numberValues \in 0 .. MAXNUMBERVALUES + 1
       /\ P[b].kv_pairs[i].readIndex \in 0 .. MAXNUMBERVALUES /\ MAXNUMBERVALUES \in Nat
  BY FieldTypes, PodAssumption
<1>12. /\ A[b].kv_pairs[i].numberValues > 0
       /\ \/ A[b].kv_pairs[i].readIndex = 0
          \/ A[b].kv_pairs[i].readIndex < A[b].kv_pairs[i].numberValues
  BY <1>5, <1>11 DEF CountsOf
<1>13. ASSUME NEW c \in PodId, NEW j \in Slot
       PROVE  /\ R[c].kv_pairs[j].numberValues = A[c].kv_pairs[j].numberValues
              /\ \/ R[c].kv_pairs[j].readIndex = A[c].kv_pairs[j].readIndex
                 \/ R[c].kv_pairs[j].readIndex = 0
  <2>1. /\ R[c].kv_pairs[j].numberValues = B[c].kv_pairs[j].numberValues
        /\ R[c].kv_pairs[j].readIndex = B[c].kv_pairs[j].readIndex
    BY <1>9 DEF Published
  <2>. QED
    BY <1>7, <2>1 DEF Spilled
<1>14. ASSUME NEW c \in PodId, NEW j \in Slot, j < R[c].index
       PROVE  j < P[c].index \/ (c = b /\ j = i)
  <2>1. CASE c = b
    <3>1. R[b].index = IF l.keyExists THEN l.index ELSE (l.index + 1) % NUMBERKVPAIR
      BY <1>9 DEF Published
    <3>2. (l.index + 1) % NUMBERKVPAIR \in {0, l.index + 1} /\ l.index \in Nat /\ j \in Nat
      BY <1>8, PodAssumption DEF Slot
    <3>3. CASE l.keyExists
      BY <1>3, <1>4, <1>14, <2>1, <3>1, <3>3
    <3>4. CASE ~ l.keyExists
      BY <1>3, <1>4, <1>14, <2>1, <3>1, <3>2, <3>4
    <3>. QED
      BY <3>3, <3>4
  <2>2. CASE c # b
    <3>1. R[c].index = B[c].index /\ (B[c].index = A[c].index \/ B[c].index = 0) /\ A[c].index = P[c].index
      BY <1>5, <1>7, <1>9, <2>2 DEF OnlyPair, Spilled, Published
    <3>. QED
      BY <1>14, <3>1 DEF Slot
  <2>. QED
    BY <2>1, <2>2
<1>15. ASSUME NEW c \in PodId, NEW j \in Slot
       PROVE  /\ j < R[c].index => R[c].kv_pairs[j].numberValues > 0
              /\ \/ R[c].kv_pairs[j].readIndex = 0
                 \/ R[c].kv_pairs[j].readIndex < R[c].kv_pairs[j].numberValues
  <2>1. CASE c = b /\ j = i
    <3>1. R[b].kv_pairs[i].numberValues > 0
      BY <1>12, <1>13
    <3>2. \/ R[b].kv_pairs[i].readIndex = 0
          \/ R[b].kv_pairs[i].readIndex < R[b].kv_pairs[i].numberValues
      BY <1>12, <1>13
    <3>. QED
      BY <2>1, <3>1, <3>2
  <2>2. CASE c # b \/ j # i
    <3>1. A[c].kv_pairs[j] = P[c].kv_pairs[j]
      BY <1>5, <2>2 DEF OnlyPair
    <3>2. /\ j < P[c].index => A[c].kv_pairs[j].numberValues > 0
          /\ \/ A[c].kv_pairs[j].readIndex = 0
             \/ A[c].kv_pairs[j].readIndex < A[c].kv_pairs[j].numberValues
      BY <3>1 DEF CountsOf
    <3>3. j < R[c].index => j < P[c].index
      BY <1>14, <2>2
    <3>4. P[c].kv_pairs[j].numberValues \in Nat /\ P[c].kv_pairs[j].readIndex \in Nat
      BY FieldTypes, PodAssumption
    <3>5. CASE R[c].kv_pairs[j].readIndex = 0
      BY <1>13, <3>2, <3>3, <3>5
    <3>6. CASE R[c].kv_pairs[j].readIndex = A[c].kv_pairs[j].readIndex
      BY <1>13, <3>2, <3>3, <3>6
    <3>. QED
      BY <1>13, <3>5, <3>6
  <2>. QED
    BY <2>1, <2>2
<1>. QED
  BY <1>10, <1>15 DEF CountsOf

-----------------------------------------------------------------------------
(* What a read does *)

\* Two pairs with the same fields are the same.
LEMMA SamePair ==
    ASSUME NEW p \in Pair, NEW q \in Pair,
           p.readIndex = q.readIndex, p.writeIndex = q.writeIndex,
           p.numberValues = q.numberValues, p.key = q.key, p.value = q.value
    PROVE  p = q
BY DEF Pair

\* Only the cursors of the matches move, each to the row after it.
PairsRead(P, R, k) ==
    LET b == PodOf[k]
    IN  /\ R \in Pods
        /\ \A c \in PodId : R[c].index = P[c].index
        /\ \A c \in PodId, i \in Slot :
              /\ c # b \/ i \notin Hits(P[b], k) => R[c].kv_pairs[i] = P[c].kv_pairs[i]
              /\ R[c].kv_pairs[i].key = P[c].kv_pairs[i].key
              /\ R[c].kv_pairs[i].value = P[c].kv_pairs[i].value
              /\ R[c].kv_pairs[i].numberValues = P[c].kv_pairs[i].numberValues
              /\ R[c].kv_pairs[i].writeIndex = P[c].kv_pairs[i].writeIndex
        /\ \A i \in Hits(P[b], k) :
              /\ P[b].kv_pairs[i].numberValues > 0
              /\ R[b].kv_pairs[i].readIndex =
                    (P[b].kv_pairs[i].readIndex + 1) % P[b].kv_pairs[i].numberValues

LEMMA ReadEffect ==
    ASSUME NEW P \in Pods, CountsOf(P), NEW k \in Key, NEW R, R = AfterRead(P, k)
    PROVE  PairsRead(P, R, k)
<1>1. PICK b \in PodId : b = PodOf[k]
  BY KeyFacts
<1>2. PICK rows : rows = LoadCursors(P, k)
  OBVIOUS
<1>3. /\ DOMAIN rows = Hits(P[b], k)
      /\ \A i \in Hits(P[b], k) : rows[i] = P[b].kv_pairs[i].readIndex
  BY <1>1, <1>2 DEF LoadCursors
<1>4. Hits(P[b], k) \subseteq Slot /\ Hits(P[b], k) \subseteq 0 .. P[b].index - 1
  BY HitsAreSlots
<1>5. P[b].index \in Nat /\ \A i \in Slot : P[b].kv_pairs[i].readIndex \in 0 .. MAXNUMBERVALUES
  BY FieldTypes DEF Slot
<1>6. \A i \in Hits(P[b], k) : P[b].kv_pairs[i].numberValues > 0
  BY <1>4, <1>5 DEF CountsOf
<1>7. R = MoveCursors(P, b, rows)
  BY <1>1, <1>2 DEF AfterRead
<1>8. CursorsStored(P, R, b, rows)
  BY <1>3, <1>4, <1>5, <1>6, <1>7, CursorsEffect
<1>9. R \in Pods /\ (\A c \in PodId : R[c].index = P[c].index) /\ (\A c \in PodId : c # b => R[c] = P[c])
  BY <1>8 DEF CursorsStored
<1>10. ASSUME NEW c \in PodId, NEW i \in Slot
       PROVE  /\ c # b \/ i \notin Hits(P[b], k) => R[c].kv_pairs[i] = P[c].kv_pairs[i]
              /\ R[c].kv_pairs[i].key = P[c].kv_pairs[i].key
              /\ R[c].kv_pairs[i].value = P[c].kv_pairs[i].value
              /\ R[c].kv_pairs[i].numberValues = P[c].kv_pairs[i].numberValues
              /\ R[c].kv_pairs[i].writeIndex = P[c].kv_pairs[i].writeIndex
  <2>1. CASE c # b
    BY <1>9, <2>1
  <2>2. CASE c = b
    <3>1. R[b].kv_pairs[i] \in Pair /\ P[b].kv_pairs[i] \in Pair
      BY <1>9, FieldTypes
    <3>2. /\ R[b].kv_pairs[i].key = P[b].kv_pairs[i].key
          /\ R[b].kv_pairs[i].value = P[b].kv_pairs[i].value
          /\ R[b].kv_pairs[i].numberValues = P[b].kv_pairs[i].numberValues
          /\ R[b].kv_pairs[i].writeIndex = P[b].kv_pairs[i].writeIndex
          /\ i \notin Hits(P[b], k) => R[b].kv_pairs[i].readIndex = P[b].kv_pairs[i].readIndex
      BY <1>3, <1>8 DEF CursorsStored
    <3>3. i \notin Hits(P[b], k) => R[b].kv_pairs[i] = P[b].kv_pairs[i]
      BY <3>1, <3>2, SamePair
    <3>. QED
      BY <2>2, <3>2, <3>3
  <2>. QED
    BY <2>1, <2>2
<1>11. \A i \in Hits(P[b], k) : R[b].kv_pairs[i].readIndex =
          (P[b].kv_pairs[i].readIndex + 1) % P[b].kv_pairs[i].numberValues
  BY <1>3, <1>4, <1>8 DEF CursorsStored
<1>. QED
  BY <1>1, <1>6, <1>9, <1>10, <1>11 DEF PairsRead

-----------------------------------------------------------------------------
(* A pair on its own *)

ConsistentPair(pair) ==
    /\ \A j \in Row : pair.value[j] # Empty <=> j < pair.numberValues
    /\ pair.numberValues <= MAXNUMBERVALUES
          => pair.writeIndex = pair.numberValues % MAXNUMBERVALUES
    /\ pair.readIndex < pair.numberValues \/ pair = EmptyPair

LEMMA RingsArePairs ==
    RingsConsistent <=> \A b \in PodId, i \in Slot : ConsistentPair(pods[b].kv_pairs[i])
BY DEF RingsConsistent, ConsistentPair, Pairs

LEMMA EmptyPairFacts ==
    /\ EmptyPair \in Pair /\ ConsistentPair(EmptyPair)
    /\ EmptyPair.readIndex = 0 /\ EmptyPair.writeIndex = 0 /\ EmptyPair.numberValues = 0
    /\ EmptyPair.key = <<>>
<1>1. /\ EmptyPair.readIndex = 0 /\ EmptyPair.writeIndex = 0 /\ EmptyPair.numberValues = 0
      /\ EmptyPair.key = <<>> /\ EmptyPair.value = [j \in Row |-> Empty]
  BY DEF EmptyPair
<1>2. 0 \in Row /\ 0 \in 0 .. MAXNUMBERVALUES /\ 0 \in 0 .. MAXNUMBERVALUES + 1 /\ <<>> \in Seq(Char)
  BY PodAssumption, EmptySeq DEF Row
<1>3. EmptyPair \in Pair
  BY <1>2 DEF EmptyPair, Pair
<1>4. \A j \in Row : ~ (j < 0)
  BY DEF Row
<1>5. ConsistentPair(EmptyPair)
  BY <1>1, <1>4, PodAssumption DEF ConsistentPair
<1>. QED
  BY <1>1, <1>3, <1>5

\* The next value goes right after the last one, or over the oldest.
LEMMA PairStep ==
    ASSUME NEW p \in Pair, NEW q \in Pair, NEW v \in Value, ConsistentPair(p),
           q.value[p.writeIndex] = v,
           \A j \in Row \ {p.writeIndex} : q.value[j] = p.value[j],
           q.numberValues = IF p.numberValues <= MAXNUMBERVALUES THEN p.numberValues + 1
                            ELSE p.numberValues,
           q.readIndex = p.readIndex,
           q.writeIndex = (p.writeIndex + 1) % MAXNUMBERVALUES
    PROVE  ConsistentPair(q)
<1>1. PICK M \in Nat \ {0} : M = MAXNUMBERVALUES
  BY PodAssumption
<1>2. PICK n \in 0 .. M + 1 : n = p.numberValues
  BY <1>1 DEF Pair
<1>3. PICK w \in 0 .. M - 1 : w = p.writeIndex
  BY <1>1 DEF Pair, Row
<1>4. Row = 0 .. M - 1 /\ v # Empty
  BY <1>1, PodAssumption DEF Row
<1>5. /\ \A j \in Row : p.value[j] # Empty <=> j < n
      /\ n <= M => w = n % M
      /\ p.readIndex < n \/ (n = 0 /\ p.readIndex = 0)
      /\ p.readIndex \in Nat
  BY <1>1, <1>2, <1>3, EmptyPairFacts DEF ConsistentPair, Pair
<1>6. \A j \in Row : q.value[j] # Empty <=> (j = w \/ j < n)
  BY <1>3, <1>4, <1>5
<1>7. q.numberValues = IF n <= M THEN n + 1 ELSE n
  BY <1>1, <1>2
<1>8. q.readIndex < q.numberValues
  BY <1>5, <1>7
<1>9. CASE n < M
  <2>1. w = n /\ q.numberValues = n + 1
    BY <1>5, <1>7, <1>9
  <2>2. q.writeIndex = q.numberValues % M
    BY <1>1, <1>3, <2>1
  <2>3. \A j \in Row : q.value[j] # Empty <=> j < q.numberValues
    BY <1>4, <1>6, <2>1
  <2>. QED
    BY <1>1, <1>8, <2>2, <2>3 DEF ConsistentPair
<1>10. CASE n >= M
  <2>1. q.numberValues = M + 1
    BY <1>2, <1>7, <1>10
  <2>2. \A j \in Row : q.value[j] # Empty <=> j < q.numberValues
    BY <1>4, <1>6, <1>10, <2>1
  <2>. QED
    BY <1>1, <1>8, <2>1, <2>2 DEF ConsistentPair
<1>. QED
  BY <1>9, <1>10

\* A key over a part of itself or over one no longer leaves nothing of the other.
LEMMA OverlayWhole ==
    ASSUME NEW old \in Seq(Char), NEW k \in Seq(Char), Len(old) <= Len(k)
    PROVE  Overlay(old, k) = k
<1>1. Len(old) \in Nat /\ Len(k) \in Nat /\ Len(k) + 1 > Len(old)
  BY LenProperties
<1>2. SubSeq(old, Len(k) + 1, Len(old)) = <<>>
  BY <1>1, SubSeqEmpty
<1>. QED
  BY <1>2, ConcatEmptySeq DEF Overlay

\* Where keys are shorter than their array, a scan finds exactly the visible slots with
\* the key.
LEMMA ScanFinds ==
    ASSUME NEW P \in Pods, NEW k \in Key, Len(k) < KEYSIZE
    PROVE  /\ Clip(k) = k
           /\ Hits(P[PodOf[k]], k) \subseteq Slot
           /\ \A i \in Slot : i \in Hits(P[PodOf[k]], k) <=>
                 i < P[PodOf[k]].index /\ P[PodOf[k]].kv_pairs[i].key = k
<1>1. PICK b \in PodId : b = PodOf[k]
  BY KeyFacts
<1>2. Hits(P[b], k) \subseteq Slot
  BY HitsAreSlots
<1>3. ASSUME NEW i \in Slot
      PROVE  i \in Hits(P[b], k) <=> i < P[b].index /\ P[b].kv_pairs[i].key = k
  <2>1. P[b].index \in Slot
    BY FieldTypes
  <2>2. i \in 0 .. P[b].index - 1 <=> i < P[b].index
    BY <2>1 DEF Slot
  <2>. QED
    BY <2>2 DEF Hits, SameKey
<1>4. Clip(k) = k
  BY KeyFacts, PodAssumption
<1>. QED
  BY <1>1, <1>2, <1>3, <1>4

\* One match is the last and the first.
LEMMA OneHit ==
    ASSUME NEW i \in Slot
    PROVE  Max({i}) = i /\ Min({i}) = i
<1>1. i >= i /\ i <= i
  BY DEF Slot
<1>2. Max({i}) \in {i}
  BY <1>1 DEF Max
<1>3. Min({i}) \in {i}
  BY <1>1 DEF Min
<1>. QED
  BY <1>2, <1>3

-----------------------------------------------------------------------------
(* The new segment *)

NewSegment == pods = EmptyPods /\ hist = NoHistory /\ open \in BOOLEAN

LEMMA NewSegmentInv == NewSegment => SeqInv
<1>. SUFFICES ASSUME NewSegment PROVE SeqInv
  OBVIOUS
<1>1. \A b \in PodId : /\ pods[b] = EmptyPod /\ pods[b].index = 0
                       /\ \A i \in Slot : pods[b].kv_pairs[i] = EmptyPair
  BY DEF NewSegment, EmptyPods, EmptyPod
<1>2. EmptyPod \in Pod
  BY EmptyPairFacts, PodAssumption DEF EmptyPod, Pod, Slot
<1>3. pods \in Pods
  BY <1>2 DEF NewSegment, EmptyPods, Pods
<1>4. hist \in [Key -> Seq(Value)] /\ \A k \in Key : hist[k] = <<>>
  BY EmptySeq DEF NewSegment, NoHistory
<1>5. PodTypeOK
  BY <1>3, <1>4 DEF PodTypeOK, NewSegment
<1>6. \A i \in Slot : ~ (i < 0)
  BY DEF Slot
<1>7. CountsAgree
  BY <1>1, <1>6, EmptyPairFacts DEF CountsAgree
<1>8. \A b \in PodId : WrittenTo(b) = {} /\ IsFiniteSet(WrittenTo(b)) /\ Cardinality(WrittenTo(b)) = 0
  BY <1>4, FS_EmptySet DEF WrittenTo
<1>9. RingsConsistent
  BY <1>1, EmptyPairFacts, RingsArePairs
<1>10. KeysAreWhole
  BY <1>1, EmptyPairFacts DEF KeysAreWhole
<1>11. \A b \in PodId : 0 .. pods[b].index - 1 = {}
  BY <1>1
<1>12. VisibleKeysDistinct
  BY <1>11 DEF VisibleKeysDistinct
<1>13. SlotsAgree
  BY <1>1, <1>6, <1>8 DEF SlotsAgree
<1>14. \A k \in Key : Found(k) = {}
  BY <1>11, KeyFacts DEF Found, Hits
<1>15. RingsAgree
  BY <1>4, <1>14 DEF RingsAgree
<1>. QED
  BY <1>5, <1>7, <1>8, <1>9, <1>10, <1>12, <1>13, <1>15 DEF SeqInv

LEMMA InitSeqInv == Init => SeqInv
BY NewSegmentInv DEF Init, NewSegment

\* Where nothing is stored.
LEMMA SameSegment ==
    ASSUME SeqInv, pods' = pods, hist' = hist, open' \in BOOLEAN
    PROVE  SeqInv'
<1>1. PodTypeOK'
  BY DEF SeqInv, PodTypeOK
<1>2. CountsAgree'
  BY DEF SeqInv, CountsAgree
<1>3. \A b \in PodId : WrittenTo(b)' = WrittenTo(b)
  BY DEF WrittenTo
<1>4. \A k \in Key : Found(k)' = Found(k)
  BY DEF Found
<1>5. /\ LongValue = {} => RingsConsistent'
      /\ Short /\ OneLength => KeysAreWhole' /\ VisibleKeysDistinct'
  BY DEF SeqInv, RingsConsistent, Pairs, KeysAreWhole, VisibleKeysDistinct
<1>6. PodsHaveRoom' => PodsHaveRoom
  BY <1>3 DEF PodsHaveRoom
<1>7. SlotsAgree => SlotsAgree'
  BY <1>3 DEF SlotsAgree
<1>8. RingsAgree => RingsAgree'
  BY <1>4 DEF RingsAgree
<1>9. \A b \in PodId : IsFiniteSet(WrittenTo(b)')
  BY <1>3 DEF SeqInv
<1>. QED
  BY <1>1, <1>2, <1>5, <1>6, <1>7, <1>8, <1>9 DEF SeqInv, Short, OneLength

-----------------------------------------------------------------------------
(* A read keeps the invariant *)

LEMMA ReadKeeps ==
    ASSUME SeqInv, NEW k \in Key, Read(k)
    PROVE  SeqInv' /\ PairsRead(pods, pods', k)
<1>1. pods \in Pods /\ CountsOf(pods)
  BY DEF SeqInv, PodTypeOK, CountsAgree, CountsOf
<1>2. PICK R : R = pods'
  OBVIOUS
<1>3. R = AfterRead(pods, k) /\ UNCHANGED <<open, hist>>
  BY <1>2 DEF Read
<1>4. PairsRead(pods, pods', k)
  BY <1>1, <1>2, <1>3, ReadEffect
<1>5. /\ pods' \in Pods
      /\ \A c \in PodId : pods'[c].index = pods[c].index
      /\ \A c \in PodId, i \in Slot :
            /\ pods'[c].kv_pairs[i].key = pods[c].kv_pairs[i].key
            /\ pods'[c].kv_pairs[i].value = pods[c].kv_pairs[i].value
            /\ pods'[c].kv_pairs[i].numberValues = pods[c].kv_pairs[i].numberValues
            /\ pods'[c].kv_pairs[i].writeIndex = pods[c].kv_pairs[i].writeIndex
            /\ \/ pods'[c].kv_pairs[i] = pods[c].kv_pairs[i]
               \/ /\ c = PodOf[k] /\ i \in Hits(pods[c], k)
                  /\ pods[c].kv_pairs[i].numberValues > 0
                  /\ pods'[c].kv_pairs[i].readIndex =
                        (pods[c].kv_pairs[i].readIndex + 1) % pods[c].kv_pairs[i].numberValues
  BY <1>4 DEF PairsRead
<1>6. ASSUME NEW c \in PodId, NEW i \in Slot
      PROVE  \/ pods'[c].kv_pairs[i] = pods[c].kv_pairs[i]
             \/ pods'[c].kv_pairs[i].readIndex < pods'[c].kv_pairs[i].numberValues
  <2>1. /\ pods[c].kv_pairs[i].numberValues \in Nat /\ pods[c].kv_pairs[i].readIndex \in Nat
    BY <1>1, FieldTypes, PodAssumption
  <2>. QED
    BY <1>5, <2>1
<1>7. PodTypeOK'
  BY <1>3, <1>5 DEF SeqInv, PodTypeOK
<1>8. CountsAgree'
  BY <1>5, <1>6 DEF SeqInv, CountsAgree
<1>9. \A b \in PodId : WrittenTo(b)' = WrittenTo(b)
  BY <1>3 DEF WrittenTo
<1>10. \A l \in Key : Found(l)' = Found(l)
  <2>. SUFFICES ASSUME NEW l \in Key PROVE Hits(pods'[PodOf[l]], l) = Hits(pods[PodOf[l]], l)
    BY DEF Found
  <2>1. PICK c \in PodId : c = PodOf[l]
    BY KeyFacts
  <2>2. /\ R \in Pods /\ R[c].index = pods[c].index
        /\ \A i \in Slot : R[c].kv_pairs[i].key = pods[c].kv_pairs[i].key
    BY <1>2, <1>5
  <2>3. Hits(R[c], l) = Hits(pods[c], l)
    BY <1>1, <2>2, HitsOfKeys
  <2>. QED
    BY <1>2, <2>1, <2>3
<1>11. ASSUME LongValue = {} PROVE RingsConsistent'
  <2>1. ASSUME NEW c \in PodId, NEW i \in Slot PROVE ConsistentPair(pods'[c].kv_pairs[i])
    <3>1. ConsistentPair(pods[c].kv_pairs[i])
      BY <1>11, RingsArePairs DEF SeqInv
    <3>. QED
      BY <1>5, <1>6, <3>1 DEF ConsistentPair
  <2>. QED
    BY <2>1 DEF RingsConsistent, Pairs, ConsistentPair
<1>12. ASSUME Short, OneLength PROVE KeysAreWhole' /\ VisibleKeysDistinct'
  <2>1. KeysAreWhole /\ VisibleKeysDistinct
    BY <1>12 DEF SeqInv
  <2>2. KeysAreWhole'
    BY <1>5, <2>1 DEF KeysAreWhole
  <2>3. \A b \in PodId : 0 .. pods[b].index - 1 \subseteq Slot
    BY <1>1, FieldTypes, PodAssumption DEF Slot
  <2>4. VisibleKeysDistinct'
    BY <1>5, <2>1, <2>3 DEF VisibleKeysDistinct
  <2>. QED
    BY <2>2, <2>4
<1>13. ASSUME Short, PodsHaveRoom' PROVE SlotsAgree' /\ RingsAgree'
  <2>1. PodsHaveRoom
    BY <1>9, <1>13 DEF PodsHaveRoom
  <2>2. SlotsAgree /\ RingsAgree
    BY <1>13, <2>1 DEF SeqInv
  <2>3. SlotsAgree'
    <3>. SUFFICES ASSUME NEW b \in PodId
                  PROVE  /\ pods'[b].index = Cardinality(WrittenTo(b)')
                         /\ \A i \in Slot :
                               IF i < pods'[b].index
                               THEN /\ pods'[b].kv_pairs[i].key \in WrittenTo(b)'
                                    /\ \A j \in Slot : j < pods'[b].index =>
                                          (pods'[b].kv_pairs[j].key = pods'[b].kv_pairs[i].key => j = i)
                               ELSE pods'[b].kv_pairs[i] = EmptyPair
      BY DEF SlotsAgree
    <3>1. pods'[b].index = pods[b].index /\ WrittenTo(b)' = WrittenTo(b)
      BY <1>5, <1>9
    <3>2. ASSUME NEW i \in Slot, ~ (i < pods[b].index) PROVE pods'[b].kv_pairs[i] = EmptyPair
      <4>1. pods[b].kv_pairs[i] = EmptyPair
        BY <2>2, <3>2 DEF SlotsAgree
      <4>2. ~ (pods[b].kv_pairs[i].numberValues > 0)
        BY <4>1, EmptyPairFacts
      <4>. QED
        BY <1>5, <4>1, <4>2
    <3>. QED
      BY <1>5, <2>2, <3>1, <3>2 DEF SlotsAgree
  <2>4. RingsAgree'
    <3>. SUFFICES ASSUME NEW l \in Key
                  PROVE  /\ hist'[l] = <<>> <=> Found(l)' = {}
                         /\ \A i \in Found(l)' :
                               LET pair == pods'[PodOf[l]].kv_pairs[i]
                               IN  /\ pair.writeIndex = Len(hist'[l]) % MAXNUMBERVALUES
                                   /\ pair.numberValues = Kept(Len(hist'[l]))
                                   /\ RowsHold(pair, hist'[l], -1)
      BY DEF RingsAgree
    <3>1. Found(l)' = Found(l) /\ hist'[l] = hist[l] /\ PodOf[l] \in PodId /\ Found(l) \subseteq Slot
      BY <1>1, <1>3, <1>10, KeyFacts, HitsAreSlots DEF Found
    <3>2. ASSUME NEW i \in Found(l)
          PROVE  LET pair == pods'[PodOf[l]].kv_pairs[i]
                 IN  /\ pair.writeIndex = Len(hist[l]) % MAXNUMBERVALUES
                     /\ pair.numberValues = Kept(Len(hist[l]))
                     /\ RowsHold(pair, hist[l], -1)
      <4>1. LET pair == pods[PodOf[l]].kv_pairs[i]
            IN  /\ pair.writeIndex = Len(hist[l]) % MAXNUMBERVALUES
                /\ pair.numberValues = Kept(Len(hist[l]))
                /\ RowsHold(pair, hist[l], -1)
        BY <2>2 DEF RingsAgree
      <4>2. PICK p, q : p = pods[PodOf[l]].kv_pairs[i] /\ q = pods'[PodOf[l]].kv_pairs[i]
        OBVIOUS
      <4>3. q.value = p.value /\ q.writeIndex = p.writeIndex /\ q.numberValues = p.numberValues
        BY <1>5, <3>1, <4>2
      <4>4. RowsHold(p, hist[l], -1) => RowsHold(q, hist[l], -1)
        BY <4>3 DEF RowsHold
      <4>. QED
        BY <4>1, <4>2, <4>3, <4>4
    <3>. QED
      BY <2>2, <3>1, <3>2 DEF RingsAgree
  <2>. QED
    BY <2>3, <2>4
<1>14. \A b \in PodId : IsFiniteSet(WrittenTo(b)')
  BY <1>9 DEF SeqInv
<1>. QED
  BY <1>4, <1>7, <1>8, <1>11, <1>12, <1>13, <1>14 DEF SeqInv, Short, OneLength

-----------------------------------------------------------------------------
(* A write keeps the invariant *)

LEMMA WriteFacts ==
    ASSUME SeqInv, NEW k \in Key, NEW v \in Value, Write(k, v)
    PROVE  /\ pods \in Pods /\ pods' = AfterWrite(pods, k, v)
           /\ open' = open /\ hist[k] \in Seq(Value) /\ hist \in [Key -> Seq(Value)]
           /\ hist' = [hist EXCEPT ![k] = Append(hist[k], v)]
           /\ hist'[k] = Append(hist[k], v) /\ hist'[k] # <<>>
           /\ \A l \in Key \ {k} : hist'[l] = hist[l]
           /\ PodTypeOK' /\ CountsAgree'
<1>1. pods \in Pods /\ CountsOf(pods) /\ hist \in [Key -> Seq(Value)] /\ open \in BOOLEAN
  BY DEF SeqInv, PodTypeOK, CountsAgree, CountsOf
<1>2. PICK R : R = pods'
  OBVIOUS
<1>3. R = AfterWrite(pods, k, v) /\ open' = open /\ hist' = [hist EXCEPT ![k] = Append(hist[k], v)]
  BY <1>2 DEF Write
<1>4. R \in Pods /\ CountsOf(R)
  BY <1>1, <1>3, WriteCounts
<1>5. hist[k] \in Seq(Value) /\ Append(hist[k], v) \in Seq(Value) /\ Append(hist[k], v) # <<>>
  BY <1>1, AppendProperties
<1>6. /\ hist' \in [Key -> Seq(Value)] /\ hist'[k] = Append(hist[k], v)
      /\ \A l \in Key \ {k} : hist'[l] = hist[l]
  BY <1>1, <1>3, <1>5
<1>7. PodTypeOK'
  BY <1>1, <1>2, <1>3, <1>4, <1>6 DEF PodTypeOK
<1>8. CountsAgree'
  BY <1>2, <1>4 DEF CountsAgree, CountsOf
<1>. QED
  BY <1>1, <1>2, <1>3, <1>5, <1>6, <1>7, <1>8

\* The written keys of a pod.
LEMMA WrittenGrows ==
    ASSUME SeqInv, NEW k \in Key, NEW v \in Value, Write(k, v)
    PROVE  /\ WrittenTo(PodOf[k])' = WrittenTo(PodOf[k]) \union {k}
           /\ \A b \in PodId : b # PodOf[k] => WrittenTo(b)' = WrittenTo(b)
           /\ \A b \in PodId : IsFiniteSet(WrittenTo(b)')
           /\ PodsHaveRoom' => PodsHaveRoom
<1>1. hist'[k] # <<>> /\ \A l \in Key \ {k} : hist'[l] = hist[l]
  BY WriteFacts
<1>2. WrittenTo(PodOf[k])' = WrittenTo(PodOf[k]) \union {k}
  BY <1>1 DEF WrittenTo
<1>3. \A b \in PodId : b # PodOf[k] => WrittenTo(b)' = WrittenTo(b)
  BY <1>1 DEF WrittenTo
<1>4. ASSUME NEW b \in PodId
      PROVE  /\ IsFiniteSet(WrittenTo(b)')
             /\ Cardinality(WrittenTo(b)) \in Nat /\ Cardinality(WrittenTo(b)') \in Nat
             /\ Cardinality(WrittenTo(b)) <= Cardinality(WrittenTo(b)')
  <2>1. PICK S, T : S = WrittenTo(b) /\ T = WrittenTo(b)'
    OBVIOUS
  <2>2. IsFiniteSet(S)
    BY <2>1 DEF SeqInv
  <2>3. T = S \/ T = S \union {k}
    BY <1>2, <1>3, <2>1
  <2>4. IsFiniteSet(T)
    BY <2>2, <2>3, FS_AddElement
  <2>5. S \subseteq T
    BY <2>3
  <2>6. Cardinality(S) <= Cardinality(T) /\ Cardinality(S) \in Nat /\ Cardinality(T) \in Nat
    BY <2>4, <2>5, FS_Subset, FS_CardinalityType
  <2>. QED
    BY <2>1, <2>4, <2>6
<1>5. PodsHaveRoom' => PodsHaveRoom
  BY <1>4, PodAssumption DEF PodsHaveRoom
<1>. QED
  BY <1>2, <1>3, <1>4, <1>5

LEMMA WriteKeepsRings ==
    ASSUME SeqInv, NEW k \in Key, NEW v \in Value, Write(k, v), LongValue = {}
    PROVE  RingsConsistent'
<1>1. PICK R : R = pods'
  OBVIOUS
<1>2. pods \in Pods /\ R = AfterWrite(pods, k, v)
  BY <1>1, WriteFacts
<1>3. PICK b, i : PairWritten(pods, R, Clip(k), v, b, i)
  BY <1>2, WriteEffect
<1>4. ASSUME NEW c \in PodId, NEW j \in Slot PROVE ConsistentPair(R[c].kv_pairs[j])
  <2>1. ConsistentPair(pods[c].kv_pairs[j])
    BY RingsArePairs DEF SeqInv
  <2>2. CASE c = b /\ j = i
    <3>1. PICK p \in Pair, q \in Pair : p = pods[b].kv_pairs[i] /\ q = R[b].kv_pairs[i]
      BY <1>2, <1>3, FieldTypes DEF PairWritten
    <3>2. /\ q.value[p.writeIndex] = v
          /\ \A r \in Row \ {p.writeIndex} : q.value[r] = p.value[r]
          /\ q.numberValues = IF p.numberValues <= MAXNUMBERVALUES THEN p.numberValues + 1
                              ELSE p.numberValues
          /\ q.readIndex = p.readIndex
          /\ q.writeIndex = (p.writeIndex + 1) % MAXNUMBERVALUES
      BY <1>3, <3>1 DEF PairWritten
    <3>. QED
      BY <2>1, <2>2, <3>1, <3>2, PairStep
  <2>3. CASE c # b \/ j # i
    BY <1>3, <2>1, <2>3 DEF PairWritten
  <2>. QED
    BY <2>2, <2>3
<1>. QED
  BY <1>1, <1>4 DEF RingsConsistent, Pairs, ConsistentPair

LEMMA WriteKeepsKeys ==
    ASSUME SeqInv, NEW k \in Key, NEW v \in Value, Write(k, v), Short, OneLength
    PROVE  KeysAreWhole' /\ VisibleKeysDistinct'
<1>1. PICK R : R = pods'
  OBVIOUS
<1>2. pods \in Pods /\ R = AfterWrite(pods, k, v) /\ LongValue = {} /\ Len(k) < KEYSIZE
  BY <1>1, WriteFacts DEF Short
<1>3. KeysAreWhole /\ VisibleKeysDistinct
  BY DEF SeqInv
<1>4. Clip(k) = k
  BY <1>2, ScanFinds
<1>5. PICK b, i : PairWritten(pods, R, k, v, b, i)
  BY <1>2, <1>4, WriteEffect
<1>6. b \in PodId /\ i \in Slot /\ b = PodOf[k]
  BY <1>5 DEF PairWritten
<1>7. R[b].kv_pairs[i].key = k
  <2>1. PICK old : old = pods[b].kv_pairs[i].key
    OBVIOUS
  <2>2. old \in Key \/ old = <<>>
    BY <1>3, <1>6, <2>1 DEF KeysAreWhole
  <2>3. old \in Seq(Char) /\ Len(old) <= Len(k)
    <3>1. Len(<<>>) = 0 /\ <<>> \in Seq(Char)
      BY EmptySeq
    <3>2. Len(k) \in Nat
      BY KeyFacts
    <3>3. CASE old \in Key
      <4>1. Len(old) = Len(k) /\ old \in Seq(Char)
        BY <3>3, KeyFacts DEF OneLength
      <4>. QED
        BY <3>2, <4>1
    <3>4. CASE old = <<>>
      BY <3>1, <3>2, <3>4
    <3>. QED
      BY <2>2, <3>3, <3>4
  <2>4. Overlay(old, k) = k
    BY <2>3, KeyFacts, OverlayWhole
  <2>. QED
    BY <1>5, <2>1, <2>4 DEF PairWritten
<1>8. \A c \in PodId, j \in Slot : c # b \/ j # i => R[c].kv_pairs[j].key = pods[c].kv_pairs[j].key
  BY <1>5 DEF PairWritten
<1>9. \A c \in PodId, j \in Slot : R[c].kv_pairs[j].key \in Key \union {<<>>}
  BY <1>3, <1>7, <1>8 DEF KeysAreWhole
<1>10. \A c \in PodId : /\ pods[c].index \in Slot /\ R[c].index \in Slot
                        /\ 0 .. pods[c].index - 1 \subseteq Slot /\ 0 .. R[c].index - 1 \subseteq Slot
  <2>1. R \in Pods
    BY <1>5 DEF PairWritten
  <2>2. ASSUME NEW n \in Slot PROVE 0 .. n - 1 \subseteq Slot
    BY <2>2, PodAssumption DEF Slot
  <2>. QED
    BY <1>2, <2>1, <2>2, FieldTypes
<1>11. ASSUME NEW c \in PodId, NEW x \in 0 .. R[c].index - 1, NEW y \in 0 .. R[c].index - 1,
              R[c].kv_pairs[x].key = R[c].kv_pairs[y].key
       PROVE  x = y
  <2>1. x \in Slot /\ y \in Slot
    BY <1>10
  <2>2. CASE c # b
    <3>1. R[c].index = pods[c].index
      BY <1>5, <2>2 DEF PairWritten
    <3>. QED
      BY <1>3, <1>8, <1>11, <2>1, <2>2, <3>1 DEF VisibleKeysDistinct
  <2>3. CASE c = b /\ Hits(pods[b], k) # {}
    <3>1. R[b].index = pods[b].index /\ i \in Hits(pods[b], k)
      BY <1>5, <2>3 DEF PairWritten
    <3>2. pods[b].kv_pairs[i].key = k
      BY <3>1 DEF Hits, SameKey
    <3>3. \A j \in Slot : R[b].kv_pairs[j].key = pods[b].kv_pairs[j].key
      BY <1>6, <1>7, <1>8, <3>2
    <3>. QED
      BY <1>3, <1>11, <2>1, <2>3, <3>1, <3>3 DEF VisibleKeysDistinct
  <2>4. CASE c = b /\ Hits(pods[b], k) = {}
    <3>1. R[b].index = (pods[b].index + 1) % NUMBERKVPAIR /\ i = pods[b].index
      BY <1>5, <2>4 DEF PairWritten
    <3>2. R[b].index \in {0, i + 1} /\ i \in Nat
      BY <1>6, <3>1, PodAssumption DEF Slot
    <3>3. x \in 0 .. i /\ y \in 0 .. i
      BY <1>11, <2>4, <3>2
    <3>4. \A j \in 0 .. i - 1 : j \in Slot /\ R[b].kv_pairs[j].key = pods[b].kv_pairs[j].key
      BY <1>6, <1>8, <1>10, <3>1, <3>2
    <3>5. \A j \in 0 .. i - 1 : pods[b].kv_pairs[j].key # k
      BY <1>2, <2>4, <3>1 DEF Hits, SameKey
    <3>6. CASE x = i \/ y = i
      BY <1>7, <1>11, <2>4, <3>2, <3>3, <3>4, <3>5, <3>6
    <3>7. CASE x # i /\ y # i
      <4>1. x \in 0 .. i - 1 /\ y \in 0 .. i - 1
        BY <3>2, <3>3, <3>7
      <4>. QED
        BY <1>3, <1>6, <1>11, <2>4, <3>1, <3>4, <4>1 DEF VisibleKeysDistinct
    <3>. QED
      BY <3>6, <3>7
  <2>. QED
    BY <1>6, <2>2, <2>3, <2>4
<1>. QED
  BY <1>1, <1>9, <1>11 DEF KeysAreWhole, VisibleKeysDistinct

-----------------------------------------------------------------------------
(* A write where there is room *)

\* Under SlotsAgree a key has at most one match.
LEMMA OneMatch ==
    ASSUME SeqInv, Short, SlotsAgree, NEW k \in Key, NEW i \in Found(k)
    PROVE  Found(k) = {i} /\ i \in Slot /\ Max(Found(k)) = i /\ Min(Found(k)) = i
<1>1. PICK b \in PodId : b = PodOf[k]
  BY KeyFacts
<1>2. pods \in Pods /\ Len(k) < KEYSIZE
  BY DEF SeqInv, PodTypeOK, Short
<1>3. /\ Found(k) \subseteq Slot
      /\ \A j \in Slot : j \in Found(k) <=> j < pods[b].index /\ pods[b].kv_pairs[j].key = k
  BY <1>1, <1>2, ScanFinds DEF Found
<1>4. \A j \in Found(k) : j = i
  BY <1>3 DEF SlotsAgree
<1>5. Found(k) = {i} /\ i \in Slot
  BY <1>3, <1>4
<1>. QED
  BY <1>5, OneHit

\* The pair of the key is the one it had, or the first that is as in the new segment;
\* the other keys stay where they are.
WrittenWithRoom(k, v, i) ==
    LET b == PodOf[k]
    IN  /\ PairWritten(pods, pods', k, v, b, i)
        /\ pods'[b].kv_pairs[i].key = k
        /\ Found(k)' = {i}
        /\ \/ Found(k) = {i} /\ pods'[b].index = pods[b].index
           \/ /\ Found(k) = {} /\ i = pods[b].index /\ pods'[b].index = pods[b].index + 1
              /\ pods[b].kv_pairs[i] = EmptyPair
              /\ k \notin WrittenTo(b)
        /\ \A l \in Key \ {k} :
              /\ Found(l)' = Found(l) /\ Found(l) \subseteq Slot
              /\ \A j \in Found(l) : pods'[PodOf[l]].kv_pairs[j] = pods[PodOf[l]].kv_pairs[j]

LEMMA WriteHasRoom ==
    ASSUME SeqInv, NEW k \in Key, NEW v \in Value, Write(k, v), Short, PodsHaveRoom'
    PROVE  SlotsAgree /\ RingsAgree /\ \E i \in Slot : WrittenWithRoom(k, v, i)
<1>1. PICK R : R = pods'
  OBVIOUS
<1>2. pods \in Pods /\ R = AfterWrite(pods, k, v) /\ LongValue = {} /\ Len(k) < KEYSIZE
  BY <1>1, WriteFacts DEF Short
<1>3. SlotsAgree /\ RingsAgree
  BY WrittenGrows DEF SeqInv
<1>4. Clip(k) = k
  BY <1>2, ScanFinds
<1>5. PICK b, i : PairWritten(pods, R, k, v, b, i)
  BY <1>2, <1>4, WriteEffect
<1>6. b \in PodId /\ i \in Slot /\ b = PodOf[k] /\ R \in Pods
  BY <1>5 DEF PairWritten
<1>7. Found(k) = Hits(pods[b], k) /\ Found(k)' = Hits(R[b], k)
  BY <1>1, <1>6 DEF Found
<1>8. /\ \A j \in Slot : j \in Found(k) <=> j < pods[b].index /\ pods[b].kv_pairs[j].key = k
      /\ \A j \in Slot : j \in Found(k)' <=> j < R[b].index /\ R[b].kv_pairs[j].key = k
      /\ Found(k) \subseteq Slot /\ Found(k)' \subseteq Slot
  BY <1>2, <1>6, <1>7, ScanFinds
<1>9. \A c \in PodId, j \in Slot : c # b \/ j # i => R[c].kv_pairs[j] = pods[c].kv_pairs[j]
  BY <1>5 DEF PairWritten
<1>10. \A c \in PodId : pods[c].index \in Nat /\ R[c].index \in Nat
  BY <1>2, <1>6, FieldTypes DEF Slot
<1>11. /\ R[b].kv_pairs[i].key = k
       /\ \/ Found(k) = {i} /\ R[b].index = pods[b].index
          \/ /\ Found(k) = {} /\ i = pods[b].index /\ R[b].index = pods[b].index + 1
             /\ pods[b].kv_pairs[i] = EmptyPair
             /\ k \notin WrittenTo(b)
  <2>1. CASE Found(k) # {}
    <3>1. i \in Found(k) /\ R[b].index = pods[b].index
      BY <1>5, <1>7, <2>1 DEF PairWritten
    <3>2. Found(k) = {i} /\ pods[b].kv_pairs[i].key = k
      BY <1>3, <1>6, <1>8, <3>1, OneMatch
    <3>3. R[b].kv_pairs[i].key = k
      BY <1>5, <3>2, KeyFacts, OverlayOwn DEF PairWritten
    <3>. QED
      BY <3>1, <3>2, <3>3
  <2>2. CASE Found(k) = {}
    <3>1. i = pods[b].index /\ R[b].index = (pods[b].index + 1) % NUMBERKVPAIR
      BY <1>5, <1>7, <2>2 DEF PairWritten
    <3>2. pods[b].kv_pairs[i] = EmptyPair
      BY <1>3, <1>6, <1>10, <3>1 DEF SlotsAgree
    <3>3. R[b].kv_pairs[i].key = k
      BY <1>5, <3>2, KeyFacts, OverlayOwn, EmptyPairFacts DEF PairWritten
    <3>4. k \notin WrittenTo(b)
      BY <1>3, <2>2 DEF RingsAgree, WrittenTo
    <3>5. pods[b].index + 1 < NUMBERKVPAIR
      <4>1. PICK S, T : S = WrittenTo(b) /\ T = WrittenTo(b)'
        OBVIOUS
      <4>2. IsFiniteSet(S) /\ T = S \union {k} /\ k \notin S
        BY <1>6, <3>4, <4>1, WrittenGrows DEF SeqInv
      <4>3. Cardinality(T) = Cardinality(S) + 1
        BY <4>2, FS_AddElement
      <4>4. Cardinality(T) < NUMBERKVPAIR
        BY <1>6, <4>1 DEF PodsHaveRoom
      <4>5. Cardinality(S) = pods[b].index
        BY <1>3, <1>6, <4>1 DEF SlotsAgree
      <4>. QED
        BY <4>3, <4>4, <4>5
    <3>6. R[b].index = pods[b].index + 1
      BY <1>6, <1>10, <3>1, <3>5, PodAssumption
    <3>. QED
      BY <2>2, <3>1, <3>2, <3>3, <3>4, <3>6
  <2>. QED
    BY <2>1, <2>2
<1>12. Found(k)' = {i}
  <2>1. i \in Found(k)'
    BY <1>6, <1>8, <1>10, <1>11
  <2>2. ASSUME NEW j \in Found(k)' PROVE j = i
    <3>1. CASE j # i
      <4>1. j \in Slot /\ j < R[b].index /\ pods[b].kv_pairs[j].key = k
        BY <1>6, <1>8, <1>9, <3>1
      <4>2. j < pods[b].index
        BY <1>6, <1>10, <1>11, <3>1, <4>1 DEF Slot
      <4>. QED
        BY <1>8, <1>11, <4>1, <4>2
    <3>. QED
      BY <3>1
  <2>. QED
    BY <2>1, <2>2
<1>13. ASSUME NEW l \in Key \ {k}
       PROVE  /\ Found(l)' = Found(l) /\ Found(l) \subseteq Slot
              /\ \A j \in Found(l) : R[PodOf[l]].kv_pairs[j] = pods[PodOf[l]].kv_pairs[j]
  <2>1. PICK c \in PodId : c = PodOf[l] /\ Len(l) < KEYSIZE
    BY KeyFacts DEF Short
  <2>2. Found(l) = Hits(pods[c], l) /\ Found(l)' = Hits(R[c], l)
    BY <1>1, <2>1 DEF Found
  <2>3. /\ \A j \in Slot : j \in Found(l) <=> j < pods[c].index /\ pods[c].kv_pairs[j].key = l
        /\ \A j \in Slot : j \in Found(l)' <=> j < R[c].index /\ R[c].kv_pairs[j].key = l
        /\ Found(l) \subseteq Slot /\ Found(l)' \subseteq Slot
    BY <1>2, <1>6, <2>1, <2>2, ScanFinds
  <2>4. CASE c # b
    <3>1. R[c].index = pods[c].index /\ \A j \in Slot : R[c].kv_pairs[j] = pods[c].kv_pairs[j]
      BY <1>5, <1>9, <2>4 DEF PairWritten
    <3>. QED
      BY <2>1, <2>3, <3>1
  <2>5. CASE c = b
    <3>1. i \notin Found(l)'
      BY <1>6, <1>11, <2>3, <2>5
    <3>2. i \notin Found(l)
      <4>1. CASE Found(k) = {i}
        BY <1>6, <1>8, <2>3, <2>5, <4>1
      <4>2. CASE i = pods[b].index
        BY <1>6, <1>10, <2>3, <2>5, <4>2
      <4>. QED
        BY <1>11, <4>1, <4>2
    <3>3. ASSUME NEW j \in Slot, j # i PROVE j \in Found(l)' <=> j \in Found(l)
      <4>1. R[b].kv_pairs[j] = pods[b].kv_pairs[j]
        BY <1>6, <1>9, <3>3
      <4>2. j < R[b].index <=> j < pods[b].index
        BY <1>6, <1>10, <1>11, <3>3 DEF Slot
      <4>. QED
        BY <2>3, <2>5, <4>1, <4>2
    <3>4. Found(l)' = Found(l)
      BY <2>3, <3>1, <3>2, <3>3
    <3>. QED
      BY <1>6, <1>9, <2>1, <2>3, <2>5, <3>2, <3>4
  <2>. QED
    BY <2>4, <2>5
<1>14. WrittenWithRoom(k, v, i)
  BY <1>1, <1>5, <1>6, <1>11, <1>12, <1>13 DEF WrittenWithRoom
<1>. QED
  BY <1>3, <1>6, <1>14

\* The pair of the key is still the ring of its values.
LEMMA WrittenRing ==
    ASSUME SeqInv, NEW k \in Key, NEW v \in Value, Write(k, v), SlotsAgree, RingsAgree,
           NEW i \in Slot, WrittenWithRoom(k, v, i)
    PROVE  LET pair == pods'[PodOf[k]].kv_pairs[i]
               n == Len(hist[k])
           IN  /\ n \in Nat /\ Len(hist'[k]) = n + 1
               /\ pair.writeIndex = (n + 1) % MAXNUMBERVALUES
               /\ pair.numberValues = Kept(n + 1)
               /\ RowsHold(pair, hist'[k], -1)
               /\ pods[PodOf[k]].kv_pairs[i].writeIndex = n % MAXNUMBERVALUES
               /\ pods[PodOf[k]].kv_pairs[i].numberValues = Kept(n)
               /\ Found(k) = {} => n = 0
<1>1. PICK b, h : b = PodOf[k] /\ h = hist[k]
  OBVIOUS
<1>2. h \in Seq(Value) /\ hist'[k] = Append(h, v) /\ Len(h) \in Nat
  BY <1>1, WriteFacts, LenProperties
<1>3. PICK p, q : p = pods[b].kv_pairs[i] /\ q = pods'[b].kv_pairs[i]
  OBVIOUS
<1>4. /\ q.value[p.writeIndex] = v
      /\ \A j \in Row \ {p.writeIndex} : q.value[j] = p.value[j]
      /\ q.numberValues = IF p.numberValues <= MAXNUMBERVALUES THEN p.numberValues + 1
                          ELSE p.numberValues
      /\ q.writeIndex = (p.writeIndex + 1) % MAXNUMBERVALUES
  BY <1>1, <1>3 DEF WrittenWithRoom, PairWritten
<1>5. /\ p.writeIndex = Len(h) % MAXNUMBERVALUES /\ p.numberValues = Kept(Len(h))
      /\ RowsHold(p, h, -1)
      /\ Found(k) = {} => Len(h) = 0
  <2>1. CASE Found(k) = {i}
    BY <1>1, <1>3, <2>1 DEF RingsAgree
  <2>2. CASE Found(k) = {}
    <3>1. p = EmptyPair /\ Len(h) = 0
      BY <1>1, <1>3, <2>2, EmptySeq DEF WrittenWithRoom, RingsAgree
    <3>2. 0 % MAXNUMBERVALUES = 0 /\ Kept(0) = 0
      BY PodAssumption DEF Kept
    <3>3. RowsHold(p, h, -1)
      BY <3>1 DEF RowsHold, Row
    <3>. QED
      BY <3>1, <3>2, <3>3, EmptyPairFacts
  <2>. QED
    BY <2>1, <2>2 DEF WrittenWithRoom
<1>6. q.writeIndex = (Len(h) + 1) % MAXNUMBERVALUES
  BY <1>2, <1>4, <1>5, NextTurn, PodAssumption
<1>7. q.numberValues = Kept(Len(h) + 1)
  BY <1>2, <1>4, <1>5, KeptNext
<1>8. RowsHold(q, hist'[k], -1)
  <2>1. PICK gap \in Row : gap = Len(h) % MAXNUMBERVALUES
    BY <1>2, PodAssumption DEF Row
  <2>2. \A n \in 1 .. Len(h) : (n - 1) % MAXNUMBERVALUES \in Row /\ (n - 1) % MAXNUMBERVALUES # -1
    BY <1>2, PodAssumption DEF Row
  <2>3. \A j \in Row : j # -1
    BY DEF Row
  <2>4. RowsHold(q, h, gap)
    <3>1. p.writeIndex = gap
      BY <1>5, <2>1
    <3>2. \A j \in Row \ {gap} : q.value[j] = p.value[j]
      BY <1>4, <3>1
    <3>3. ASSUME NEW n \in 1 .. Len(h), Len(h) - n < MAXNUMBERVALUES,
                 (n - 1) % MAXNUMBERVALUES # gap
          PROVE  q.value[(n - 1) % MAXNUMBERVALUES] = h[n]
      <4>1. (n - 1) % MAXNUMBERVALUES \in Row \ {gap}
        BY <2>2, <3>3
      <4>2. p.value[(n - 1) % MAXNUMBERVALUES] = h[n]
        BY <1>5, <2>2, <3>3 DEF RowsHold
      <4>. QED
        BY <3>2, <4>1, <4>2
    <3>4. ASSUME NEW j \in Row, j < Len(h), j # gap
          PROVE  \E n \in 1 .. Len(h) : q.value[j] = h[n]
      <4>1. \E n \in 1 .. Len(h) : p.value[j] = h[n]
        BY <1>5, <2>3, <3>4 DEF RowsHold
      <4>. QED
        BY <3>2, <3>4, <4>1
    <3>. QED
      BY <3>3, <3>4 DEF RowsHold
  <2>5. q.value[Len(h) % MAXNUMBERVALUES] = v /\ RowsHold(q, h, Len(h) % MAXNUMBERVALUES)
    BY <1>4, <1>5, <2>1, <2>4
  <2>. QED
    BY <1>2, <2>5, RowsFilled
<1>9. Len(hist'[k]) = Len(h) + 1
  BY <1>2, AppendProperties
<1>. QED
  BY <1>1, <1>2, <1>3, <1>5, <1>6, <1>7, <1>8, <1>9

LEMMA WriteKeepsRoom ==
    ASSUME SeqInv, NEW k \in Key, NEW v \in Value, Write(k, v), Short, PodsHaveRoom'
    PROVE  SlotsAgree' /\ RingsAgree'
<1>1. SlotsAgree /\ RingsAgree
  BY WriteHasRoom
<1>2. PICK i \in Slot : WrittenWithRoom(k, v, i)
  BY WriteHasRoom
<1>3. PICK b \in PodId : b = PodOf[k]
  BY KeyFacts
<1>4. /\ \A c \in PodId : c # b => pods'[c].index = pods[c].index
      /\ \A c \in PodId, j \in Slot : c # b \/ j # i => pods'[c].kv_pairs[j] = pods[c].kv_pairs[j]
      /\ pods'[b].kv_pairs[i].key = k
      /\ \/ Found(k) = {i} /\ pods'[b].index = pods[b].index
         \/ /\ Found(k) = {} /\ i = pods[b].index /\ pods'[b].index = pods[b].index + 1
            /\ k \notin WrittenTo(b)
  BY <1>2, <1>3 DEF WrittenWithRoom, PairWritten
<1>5. /\ WrittenTo(b)' = WrittenTo(b) \union {k}
      /\ \A c \in PodId : c # b => WrittenTo(c)' = WrittenTo(c)
      /\ IsFiniteSet(WrittenTo(b))
  BY <1>3, WrittenGrows DEF SeqInv
<1>6. \A c \in PodId : pods[c].index \in Nat /\ pods'[c].index \in Nat
  BY WriteFacts, FieldTypes DEF Slot, PodTypeOK
<1>7. Found(k) = {i} => i < pods[b].index /\ pods[b].kv_pairs[i].key = k /\ k \in WrittenTo(b)
  <2>. SUFFICES ASSUME Found(k) = {i}
                PROVE  i < pods[b].index /\ pods[b].kv_pairs[i].key = k /\ k \in WrittenTo(b)
    OBVIOUS
  <2>1. i < pods[b].index /\ pods[b].kv_pairs[i].key = k
    BY <1>3, WriteFacts, ScanFinds DEF Found, Short
  <2>. QED
    BY <1>1, <1>3, <2>1 DEF SlotsAgree
<1>8. \A c \in PodId : pods'[c].index = Cardinality(WrittenTo(c)')
  <2>1. PICK S, T : S = WrittenTo(b) /\ T = WrittenTo(b)'
    OBVIOUS
  <2>2. IsFiniteSet(S) /\ T = S \union {k}
    BY <1>5, <2>1
  <2>3. Cardinality(T) = IF k \in S THEN Cardinality(S) ELSE Cardinality(S) + 1
    BY <2>2, FS_AddElement
  <2>4. pods[b].index = Cardinality(S)
    BY <1>1, <2>1 DEF SlotsAgree
  <2>5. pods'[b].index = Cardinality(T)
    BY <1>4, <1>7, <2>1, <2>3, <2>4
  <2>6. ASSUME NEW c \in PodId, c # b PROVE pods'[c].index = Cardinality(WrittenTo(c)')
    BY <1>1, <1>4, <1>5, <2>6 DEF SlotsAgree
  <2>. QED
    BY <2>1, <2>5, <2>6
<1>9. SlotsAgree'
  <2>1. ASSUME NEW c \in PodId, NEW j \in Slot
        PROVE  IF j < pods'[c].index
               THEN /\ pods'[c].kv_pairs[j].key \in WrittenTo(c)'
                    /\ \A m \in Slot : m < pods'[c].index =>
                          (pods'[c].kv_pairs[m].key = pods'[c].kv_pairs[j].key => m = j)
               ELSE pods'[c].kv_pairs[j] = EmptyPair
    <3>1. IF j < pods[c].index
          THEN /\ pods[c].kv_pairs[j].key \in WrittenTo(c)
               /\ \A m \in Slot : m < pods[c].index =>
                     (pods[c].kv_pairs[m].key = pods[c].kv_pairs[j].key => m = j)
          ELSE pods[c].kv_pairs[j] = EmptyPair
      BY <1>1 DEF SlotsAgree
    <3>2. CASE c # b
      BY <1>4, <1>5, <3>1, <3>2
    <3>3. CASE c = b /\ Found(k) = {i}
      <4>1. \A m \in Slot : m # i => pods'[b].kv_pairs[m] = pods[b].kv_pairs[m]
        BY <1>4
      <4>2. \A m \in Slot : pods'[b].kv_pairs[m].key = pods[b].kv_pairs[m].key
        BY <1>4, <1>7, <3>3, <4>1
      <4>3. pods'[b].index = pods[b].index
        BY <1>4, <3>3
      <4>4. ~ (j < pods[b].index) => j # i
        BY <1>7, <3>3
      <4>. QED
        BY <1>5, <3>1, <3>3, <4>1, <4>2, <4>3, <4>4
    <3>4. CASE c = b /\ Found(k) = {}
      <4>1. /\ i = pods[b].index /\ pods'[b].index = i + 1 /\ k \notin WrittenTo(b) /\ i \in Nat
            /\ pods'[b].kv_pairs[i].key = k
        BY <1>4, <1>6, <3>4
      <4>2. \A m \in Slot : m # i => pods'[b].kv_pairs[m] = pods[b].kv_pairs[m]
        BY <1>4
      <4>3. \A m \in Slot : m < i => pods[b].kv_pairs[m].key \in WrittenTo(b)
        BY <1>1, <4>1 DEF SlotsAgree
      <4>4. \A m \in Slot : m \in Nat
        BY DEF Slot
      <4>5. CASE j < i
        <5>1. pods'[b].kv_pairs[j].key \in WrittenTo(b)' /\ pods'[b].kv_pairs[j].key # k
          BY <1>5, <4>1, <4>2, <4>3, <4>5
        <5>2. ASSUME NEW m \in Slot, m < i + 1, pods'[b].kv_pairs[m].key = pods'[b].kv_pairs[j].key
              PROVE  m = j
          <6>1. m # i
            BY <4>1, <5>1, <5>2
          <6>2. m < i
            BY <4>1, <4>4, <5>2, <6>1
          <6>. QED
            BY <3>1, <3>4, <4>1, <4>2, <4>5, <5>2, <6>1, <6>2
        <5>. QED
          BY <3>4, <4>1, <4>4, <4>5, <5>1, <5>2
      <4>6. CASE j = i
        <5>1. ASSUME NEW m \in Slot, m < i + 1, pods'[b].kv_pairs[m].key = k
              PROVE  m = i
          <6>1. CASE m # i
            BY <4>1, <4>2, <4>3, <4>4, <5>1, <6>1
          <6>. QED
            BY <6>1
        <5>. QED
          BY <1>5, <3>4, <4>1, <4>6, <5>1
      <4>7. CASE j > i
        <5>1. ~ (j < i + 1) /\ ~ (j < i) /\ j # i
          <6>1. PICK x \in Nat, y \in Nat : x = i /\ y = j
            BY <4>1, <4>4
          <6>. QED
            BY <4>7, <6>1
        <5>. QED
          BY <3>1, <3>4, <4>1, <4>2, <5>1
      <4>. QED
        BY <4>1, <4>4, <4>5, <4>6, <4>7
    <3>. QED
      BY <1>4, <3>2, <3>3, <3>4
  <2>. QED
    BY <1>8, <2>1 DEF SlotsAgree
<1>10. RingsAgree'
  <2>1. ASSUME NEW l \in Key
        PROVE  /\ hist'[l] = <<>> <=> Found(l)' = {}
               /\ \A j \in Found(l)' :
                     LET pair == pods'[PodOf[l]].kv_pairs[j]
                     IN  /\ pair.writeIndex = Len(hist'[l]) % MAXNUMBERVALUES
                         /\ pair.numberValues = Kept(Len(hist'[l]))
                         /\ RowsHold(pair, hist'[l], -1)
    <3>1. CASE l = k
      <4>1. hist'[k] # <<>> /\ Found(k)' = {i}
        BY <1>2, WriteFacts DEF WrittenWithRoom
      <4>. QED
        BY <1>1, <1>2, <3>1, <4>1, WrittenRing
    <3>2. CASE l # k
      <4>1. /\ hist'[l] = hist[l] /\ Found(l)' = Found(l)
            /\ \A j \in Found(l) : pods'[PodOf[l]].kv_pairs[j] = pods[PodOf[l]].kv_pairs[j]
        BY <1>2, <3>2, WriteFacts DEF WrittenWithRoom
      <4>. QED
        BY <1>1, <4>1 DEF RingsAgree
    <3>. QED
      BY <3>1, <3>2
  <2>. QED
    BY <2>1 DEF RingsAgree
<1>. QED
  BY <1>9, <1>10

LEMMA WriteKeeps ==
    ASSUME SeqInv, NEW k \in Key, NEW v \in Value, Write(k, v)
    PROVE  SeqInv'
<1>1. PodTypeOK' /\ CountsAgree' /\ \A b \in PodId : IsFiniteSet(WrittenTo(b)')
  BY WriteFacts, WrittenGrows
<1>. QED
  BY <1>1, WriteKeepsRings, WriteKeepsKeys, WriteKeepsRoom DEF SeqInv, Short, OneLength

LEMMA NextSeqInv == SeqInv /\ [Next]_vars => SeqInv'
<1>. SUFFICES ASSUME SeqInv, [Next]_vars PROVE SeqInv'
  OBVIOUS
<1>1. CASE Create
  BY <1>1, SameSegment DEF Create
<1>2. CASE Delete
  <2>1. NewSegment'
    BY <1>2 DEF Delete, NewSegment
  <2>. QED
    BY <2>1, NewSegmentInv, PTL
<1>3. ASSUME NEW k \in Key, Read(k) PROVE SeqInv'
  BY <1>3, ReadKeeps
<1>4. ASSUME NEW k \in Key, ReadAll(k) \/ CallUnopened(k) PROVE SeqInv'
  BY <1>4, SameSegment DEF ReadAll, CallUnopened, SeqInv, PodTypeOK
<1>5. ASSUME NEW k \in Key, NEW v \in Value, Write(k, v) PROVE SeqInv'
  BY <1>5, WriteKeeps
<1>6. CASE UNCHANGED vars
  BY <1>6, SameSegment DEF vars, SeqInv, PodTypeOK
<1>. QED
  BY <1>1, <1>2, <1>3, <1>4, <1>5, <1>6 DEF Next

-----------------------------------------------------------------------------
(* What always holds of the layout *)

\* The inductive invariant of the calls.
THEOREM SeqInvariant == Spec => []SeqInv
BY InitSeqInv, NextSeqInv, PTL DEF Spec

\* No call takes a counter out of its range: numberValues never passes the rows by more
\* than one, index never passes the slots, whatever spills over.
THEOREM PodTypeCorrect == Spec => []PodTypeOK
<1>1. SeqInv => PodTypeOK
  BY DEF SeqInv
<1>. QED
  BY <1>1, SeqInvariant, PTL

\* Where no value fills its row, the counters of every pair agree with its rows, also
\* after pods and rings have wrapped around.
THEOREM RingsAreConsistent == Spec => [](LongValue = {} => RingsConsistent)
<1>1. SeqInv => (LongValue = {} => RingsConsistent)
  BY DEF SeqInv
<1>. QED
  BY <1>1, SeqInvariant, PTL

\* Where every key is shorter than its array and none can leave the tail of a longer one
\* behind, no key is in two visible slots, also after pods have wrapped around.
THEOREM KeysAreDistinct == Spec => [](Short /\ OneLength => VisibleKeysDistinct)
<1>1. SeqInv => (Short /\ OneLength => VisibleKeysDistinct)
  BY DEF SeqInv
<1>. QED
  BY <1>1, SeqInvariant, PTL

-----------------------------------------------------------------------------
(* The latest values *)

\* A round after a turn the row is the same.
LEMMA NextRound ==
    ASSUME NEW m \in Nat \ {0}, NEW a \in Nat
    PROVE  (a + m) % m = a % m
<1>1. PICK q \in Int, r \in 0 .. m - 1 : r = a % m /\ a = m * q + r
  BY Rounds
<1>2. a + m = m * (q + 1) + r
  BY <1>1
<1>3. (m * (q + 1) + r) % m = r
  BY OneRemainder
<1>. QED
  BY <1>1, <1>2, <1>3

\* The last turn of a row is less than a round before the end.
LEMMA LastTurn ==
    ASSUME NEW m \in Nat \ {0}, NEW n \in Nat, NEW j \in 0 .. m - 1,
           NEW S, S = {t \in 1 .. n : (t - 1) % m = j}
    PROVE  IF S = {} THEN j >= n
           ELSE Max(S) \in 1 .. n /\ (Max(S) - 1) % m = j /\ n - Max(S) < m
<1>1. CASE S = {}
  <2>. SUFFICES ASSUME j < n PROVE FALSE
    BY <1>1
  <2>1. j + 1 \in 1 .. n /\ (j + 1) - 1 = j /\ j % m = j
    OBVIOUS
  <2>. QED
    BY <1>1, <2>1
<1>2. CASE S # {}
  <2>1. S \in SUBSET (0 .. n)
    OBVIOUS
  <2>2. PICK x : x = Max(S)
    OBVIOUS
  <2>3. x \in S /\ \A y \in S : y <= x
    BY <1>2, <2>1, <2>2, MaxIsIn
  <2>4. x \in 1 .. n /\ (x - 1) % m = j
    BY <2>3
  <2>5. ~ (n - x >= m)
    <3>. SUFFICES ASSUME n - x >= m PROVE FALSE
      OBVIOUS
    <3>1. x - 1 \in Nat /\ x + m \in 1 .. n /\ (x + m) - 1 = (x - 1) + m
      BY <2>4
    <3>2. ((x + m) - 1) % m = j
      BY <2>4, <3>1, NextRound
    <3>3. x + m \in S
      BY <3>1, <3>2
    <3>4. x + m <= x
      BY <2>3, <3>3
    <3>. QED
      BY <2>4, <3>4
  <2>. QED
    BY <1>2, <2>2, <2>4, <2>5
<1>. QED
  BY <1>1, <1>2

LEMMA LatestHold ==
    ASSUME SeqInv, Short
    PROVE  RowsAreLatest
<1>. SUFFICES ASSUME PodsHaveRoom, NEW k \in Key, hist[k] # <<>>
              PROVE  /\ Found(k) # {}
                     /\ \A j \in Row :
                           LET turns == {n \in 1 .. Len(hist[k]) : (n - 1) % MAXNUMBERVALUES = j}
                           IN  PairOf(k).value[j] = IF turns = {} THEN Empty ELSE hist[k][Max(turns)]
  BY DEF RowsAreLatest
<1>1. SlotsAgree /\ RingsAgree /\ RingsConsistent
  BY DEF SeqInv, Short
<1>2. PICK h \in Seq(Value) : h = hist[k]
  BY DEF SeqInv, PodTypeOK
<1>3. PICK n \in Nat, m \in Nat \ {0} : n = Len(h) /\ m = MAXNUMBERVALUES
  BY LenProperties, PodAssumption
<1>4. Found(k) # {}
  BY <1>1 DEF RingsAgree
<1>5. PICK i \in Found(k) : TRUE
  BY <1>4
<1>6. Max(Found(k)) = i /\ i \in Slot
  BY <1>1, OneMatch
<1>7. PICK b \in PodId : b = PodOf[k]
  BY KeyFacts
<1>8. PICK pair \in Pair : pair = PairOf(k) /\ pair = pods[b].kv_pairs[i]
  BY <1>6, <1>7, FieldTypes DEF SeqInv, PodTypeOK, PairOf
<1>9. pair.numberValues = Kept(n) /\ RowsHold(pair, h, -1)
  BY <1>1, <1>2, <1>3, <1>5, <1>7, <1>8 DEF RingsAgree
<1>10. ConsistentPair(pair)
  BY <1>1, <1>6, <1>7, <1>8, RingsArePairs
<1>11. ASSUME NEW j \in Row, NEW turns,
              turns = {t \in 1 .. Len(hist[k]) : (t - 1) % MAXNUMBERVALUES = j}
       PROVE  PairOf(k).value[j] = IF turns = {} THEN Empty ELSE hist[k][Max(turns)]
  <2>1. j \in 0 .. m - 1
    BY <1>3 DEF Row
  <2>2. IF turns = {} THEN j >= n
        ELSE Max(turns) \in 1 .. n /\ (Max(turns) - 1) % m = j /\ n - Max(turns) < m
    <3>1. /\ MAXNUMBERVALUES \in Nat \ {0} /\ Len(hist[k]) \in Nat /\ j \in 0 .. MAXNUMBERVALUES - 1
      BY <1>2, <1>3, <2>1
    <3>2. IF turns = {} THEN j >= Len(hist[k])
          ELSE /\ Max(turns) \in 1 .. Len(hist[k]) /\ (Max(turns) - 1) % MAXNUMBERVALUES = j
               /\ Len(hist[k]) - Max(turns) < MAXNUMBERVALUES
      BY <1>11, <3>1, LastTurn
    <3>. QED
      BY <1>2, <1>3, <3>2
  <2>3. CASE turns = {}
    <3>1. Kept(n) \in 0 .. MAXNUMBERVALUES + 1 /\ Kept(n) <= n
      BY KeptNext
    <3>2. ~ (j < pair.numberValues)
      BY <1>9, <2>1, <2>2, <2>3, <3>1
    <3>. QED
      BY <1>8, <1>10, <2>3, <3>2 DEF ConsistentPair
  <2>4. CASE turns # {}
    <3>1. PICK t \in 1 .. n : t = Max(turns) /\ (t - 1) % m = j /\ n - t < m
      BY <2>2, <2>4
    <3>2. j # -1
      BY <2>1
    <3>3. pair.value[(t - 1) % MAXNUMBERVALUES] = h[t]
      BY <1>3, <1>9, <3>1, <3>2 DEF RowsHold
    <3>. QED
      BY <1>2, <1>3, <1>8, <2>4, <3>1, <3>3
  <2>. QED
    BY <2>3, <2>4
<1>. QED
  BY <1>4, <1>11

\* As long as no pod is full, a key that was written is found and its rows hold its
\* latest values, each in the row of its turn, however often the ring has wrapped.
THEOREM LatestValues == Spec => [](Short => RowsAreLatest)
<1>1. SeqInv => (Short => RowsAreLatest)
  BY LatestHold
<1>. QED
  BY <1>1, SeqInvariant, PTL

-----------------------------------------------------------------------------
(* How keys are lost *)

\* A write under l loses another key only where it fills the last slot of its pod.
LEMMA WriteLoses ==
    ASSUME SeqInv, NEW l \in Key, NEW v \in Value, Write(l, v), LongValue = {}, Len(l) <= KEYSIZE,
           NEW k \in Key, Found(k) # {}, Found(k)' = {}
    PROVE  /\ pods[PodOf[k]].index = NUMBERKVPAIR - 1
           /\ PodOf[l] = PodOf[k] /\ Found(l) = {}
<1>1. PICK R : R = pods'
  OBVIOUS
<1>2. pods \in Pods /\ R = AfterWrite(pods, l, v)
  BY <1>1, WriteFacts
<1>3. PICK b, i : PairWritten(pods, R, l, v, b, i)
  BY <1>2, KeyFacts, WriteEffect
<1>4. b \in PodId /\ i \in Slot /\ b = PodOf[l] /\ R \in Pods
  BY <1>3 DEF PairWritten
<1>5. \A c \in PodId, j \in Slot : c # b \/ j # i => R[c].kv_pairs[j] = pods[c].kv_pairs[j]
  BY <1>3 DEF PairWritten
<1>6. PICK c \in PodId : c = PodOf[k]
  BY KeyFacts
<1>7. Hits(pods[c], k) # {} /\ Hits(R[c], k) = {}
  BY <1>1, <1>6 DEF Found
<1>8. ~ (R[c].index = pods[c].index /\ \A j \in Slot : R[c].kv_pairs[j].key = pods[c].kv_pairs[j].key)
  BY <1>2, <1>4, <1>7, HitsOfKeys
<1>9. c = b
  <2>. SUFFICES ASSUME c # b PROVE FALSE
    OBVIOUS
  <2>1. R[c].index = pods[c].index
    BY <1>3 DEF PairWritten
  <2>. QED
    BY <1>5, <1>8, <2>1
<1>10. Hits(pods[b], l) = {}
  <2>. SUFFICES ASSUME Hits(pods[b], l) # {} PROVE FALSE
    OBVIOUS
  <2>1. i \in Hits(pods[b], l) /\ R[b].index = pods[b].index
    BY <1>3 DEF PairWritten
  <2>2. pods[b].kv_pairs[i].key = l
    BY <2>1 DEF Hits, SameKey
  <2>3. R[b].kv_pairs[i].key = l
    BY <1>3, <2>2, KeyFacts, OverlayOwn DEF PairWritten
  <2>. QED
    BY <1>4, <1>5, <1>8, <1>9, <2>1, <2>2, <2>3
<1>11. i = pods[b].index /\ R[b].index = (pods[b].index + 1) % NUMBERKVPAIR
  BY <1>3, <1>10 DEF PairWritten
<1>12. pods[b].index = NUMBERKVPAIR - 1
  <2>. SUFFICES ASSUME pods[b].index # NUMBERKVPAIR - 1 PROVE FALSE
    OBVIOUS
  <2>1. R[b].index = i + 1 /\ i \in Nat /\ \A j \in 0 .. i - 1 : j \in Slot /\ j # i
    <3>1. PICK n \in Nat \ {0} : n = NUMBERKVPAIR
      BY PodAssumption
    <3>2. i \in 0 .. n - 1 /\ i # n - 1 /\ R[b].index = (i + 1) % n /\ Slot = 0 .. n - 1
      BY <1>4, <1>11, <3>1 DEF Slot
    <3>. QED
      BY <3>2
  <2>2. PICK j \in 0 .. i - 1 : SameKey(k, pods[b].kv_pairs[j])
    BY <1>7, <1>9, <1>11 DEF Hits
  <2>3. j \in 0 .. R[b].index - 1 /\ R[b].kv_pairs[j] = pods[b].kv_pairs[j]
    BY <1>4, <1>5, <2>1
  <2>. QED
    BY <1>7, <1>9, <2>2, <2>3 DEF Hits
<1>. QED
  BY <1>4, <1>6, <1>9, <1>10, <1>12 DEF Found

\* What a step may do to the keys that are found.
VanishesByWrap(k) ==
    Found(k) # {} /\ Found(k)' = {} =>
       \/ ~ open'
       \/ /\ pods[PodOf[k]].index = NUMBERKVPAIR - 1
          /\ ret'.op = "write" /\ PodOf[ret'.key] = PodOf[k]
          /\ Found(ret'.key) = {}

LEMMA StepLoses ==
    ASSUME SeqInv, [Next]_vars, LongValue = {}, \A l \in Key : Len(l) <= KEYSIZE, NEW k \in Key
    PROVE  VanishesByWrap(k)
<1>1. pods' = pods => Found(k)' = Found(k)
  BY DEF Found
<1>2. CASE Create \/ UNCHANGED vars \/ \E l \in Key : ReadAll(l) \/ CallUnopened(l)
  BY <1>1, <1>2 DEF Create, vars, ReadAll, CallUnopened, VanishesByWrap
<1>3. CASE Delete
  BY <1>3 DEF Delete, VanishesByWrap
<1>4. ASSUME NEW l \in Key, Read(l) PROVE VanishesByWrap(k)
  <2>1. PairsRead(pods, pods', l)
    BY <1>4, ReadKeeps
  <2>2. PICK R \in Pods : R = pods' /\ PairsRead(pods, R, l)
    BY <2>1 DEF PairsRead
  <2>3. PICK c \in PodId : c = PodOf[k]
    BY KeyFacts
  <2>4. R[c].index = pods[c].index /\ \A j \in Slot : R[c].kv_pairs[j].key = pods[c].kv_pairs[j].key
    BY <2>2 DEF PairsRead
  <2>5. Hits(R[c], k) = Hits(pods[c], k)
    BY <2>4, HitsOfKeys DEF SeqInv, PodTypeOK
  <2>. QED
    BY <2>2, <2>3, <2>5 DEF Found, VanishesByWrap
<1>5. ASSUME NEW l \in Key, NEW v \in Value, Write(l, v) PROVE VanishesByWrap(k)
  <2>. SUFFICES ASSUME Found(k) # {}, Found(k)' = {}
                PROVE  /\ pods[PodOf[k]].index = NUMBERKVPAIR - 1
                       /\ ret'.op = "write" /\ PodOf[ret'.key] = PodOf[k]
                       /\ Found(ret'.key) = {}
    BY DEF VanishesByWrap
  <2>1. ret'.op = "write" /\ ret'.key = l
    BY <1>5 DEF Write, Answer
  <2>2. /\ pods[PodOf[k]].index = NUMBERKVPAIR - 1
        /\ PodOf[l] = PodOf[k] /\ Found(l) = {}
    BY <1>5, WriteLoses
  <2>. QED
    BY <2>1, <2>2
<1>. QED
  BY <1>2, <1>3, <1>4, <1>5 DEF Next

\* Where no value fills its row and no key is cut, a key that is found is lost only by
\* the write that fills the last slot of its pod, or with the segment.
THEOREM KeysVanish ==
    LongValue = {} /\ (\A k \in Key : Len(k) <= KEYSIZE) => (Spec => KeysVanishOnlyByWrap)
<1>. SUFFICES ASSUME LongValue = {}, \A k \in Key : Len(k) <= KEYSIZE
              PROVE  Spec => KeysVanishOnlyByWrap
  OBVIOUS
<1>1. SeqInv /\ [Next]_vars => \A k \in Key : VanishesByWrap(k)
  BY StepLoses
<1>. QED
  BY <1>1, SeqInvariant, PTL DEF Spec, KeysVanishOnlyByWrap, VanishesByWrap

-----------------------------------------------------------------------------
(* The layout implements KVRing *)

\* While there is room, the ring of a key is the history of its writes.
RingAgrees(k) ==
    LET n == Len(hist[k])
    IN  /\ hist[k] \in Seq(Value) /\ n \in 0 .. MAXNUMBERVALUES
        /\ RingOf(k) = hist[k] /\ OldestOf(k) = n % MAXNUMBERVALUES
        /\ IF hist[k] = <<>> THEN Found(k) = {} /\ CursorOf(k) = 0
           ELSE \E i \in Slot :
                   /\ Found(k) = {i} /\ Max(Found(k)) = i /\ Min(Found(k)) = i
                   /\ pods[PodOf[k]].kv_pairs[i].numberValues = n
                   /\ CursorOf(k) = pods[PodOf[k]].kv_pairs[i].readIndex
                   /\ CursorOf(k) \in 0 .. n - 1
                   /\ \A j \in 0 .. n - 1 : pods[PodOf[k]].kv_pairs[i].value[j] = hist[k][j + 1]

LEMMA RingIsHistory ==
    ASSUME SeqInv, Short, PodsHaveRoom, RingsHaveRoom, NEW k \in Key
    PROVE  RingAgrees(k)
<1>1. SlotsAgree /\ RingsAgree /\ RingsConsistent
  BY DEF SeqInv, Short
<1>2. PICK h \in Seq(Value) : h = hist[k]
  BY DEF SeqInv, PodTypeOK
<1>3. PICK n \in Nat, m \in Nat \ {0} : n = Len(h) /\ m = MAXNUMBERVALUES /\ n <= m
  BY <1>2, LenProperties, PodAssumption DEF RingsHaveRoom
<1>4. CASE h = <<>>
  <2>1. Found(k) = {} /\ n = 0
    BY <1>1, <1>2, <1>3, <1>4, EmptySeq DEF RingsAgree
  <2>2. RingOf(k) = <<>> /\ OldestOf(k) = 0 /\ CursorOf(k) = 0
    BY <2>1 DEF RingOf, OldestOf, CursorOf
  <2>3. 0 % MAXNUMBERVALUES = 0 /\ n \in 0 .. MAXNUMBERVALUES
    BY <1>3, <2>1
  <2>. QED
    BY <1>2, <1>3, <1>4, <2>1, <2>2, <2>3 DEF RingAgrees
<1>5. CASE h # <<>>
  <2>1. PICK i \in Found(k) : TRUE
    BY <1>1, <1>2, <1>5 DEF RingsAgree
  <2>2. Found(k) = {i} /\ Max(Found(k)) = i /\ Min(Found(k)) = i /\ i \in Slot
    BY <1>1, <2>1, OneMatch
  <2>3. PICK b \in PodId : b = PodOf[k]
    BY KeyFacts
  <2>4. PICK pair \in Pair : pair = PairOf(k) /\ pair = pods[b].kv_pairs[i]
    BY <2>2, <2>3, FieldTypes DEF SeqInv, PodTypeOK, PairOf
  <2>5. pair.writeIndex = n % m /\ pair.numberValues = Kept(n) /\ RowsHold(pair, h, -1)
    BY <1>1, <1>2, <1>3, <2>1, <2>3, <2>4 DEF RingsAgree
  <2>6. Kept(n) = n /\ n > 0
    BY <1>3, <1>5, EmptySeq DEF Kept
  <2>7. ConsistentPair(pair)
    BY <1>1, <2>2, <2>3, <2>4, RingsArePairs
  <2>8. pair.readIndex \in 0 .. n - 1
    <3>1. pair # EmptyPair
      BY <2>5, <2>6, EmptyPairFacts
    <3>2. pair.readIndex < n /\ pair.readIndex \in Nat
      BY <2>5, <2>6, <2>7, <3>1, PodAssumption DEF ConsistentPair, Pair
    <3>. QED
      BY <3>2
  <2>9. ASSUME NEW j \in 0 .. n - 1 PROVE pair.value[j] = h[j + 1]
    <3>1. PICK t \in 1 .. n : t = j + 1
      BY <2>6
    <3>2. (t - 1) % m = j /\ j # -1 /\ n - t < m
      BY <1>3, <3>1
    <3>. QED
      BY <1>3, <2>5, <3>1, <3>2 DEF RowsHold
  <2>10. [j \in 1 .. n |-> pair.value[j - 1]] = h
    <3>1. h \in [1 .. n -> Value]
      BY <1>3, LenProperties
    <3>2. ASSUME NEW j \in 1 .. n PROVE pair.value[j - 1] = h[j]
      <4>1. j - 1 \in 0 .. n - 1 /\ (j - 1) + 1 = j
        OBVIOUS
      <4>. QED
        BY <2>9, <4>1
    <3>. QED
      BY <3>1, <3>2
  <2>11. RingOf(k) = h /\ OldestOf(k) = n % m /\ CursorOf(k) = pair.readIndex
    BY <2>2, <2>4, <2>5, <2>6, <2>10 DEF RingOf, OldestOf, CursorOf
  <2>12. n \in 0 .. MAXNUMBERVALUES
    BY <1>3
  <2>13. \A j \in 0 .. n - 1 : pods[PodOf[k]].kv_pairs[i].value[j] = hist[k][j + 1]
    BY <1>2, <2>3, <2>4, <2>9
  <2>. QED
    BY <1>2, <1>3, <1>5, <2>2, <2>3, <2>4, <2>5, <2>6, <2>8, <2>11, <2>12, <2>13 DEF RingAgrees
<1>. QED
  BY <1>4, <1>5

\* While there is room: the state, and its rings.
HasRoom == RingsHaveRoom /\ PodsHaveRoom

LEMMA RingsMatch == SeqInv /\ Short /\ HasRoom => \A k \in Key : RingAgrees(k)
BY RingIsHistory DEF HasRoom

\* Where nothing is stored, the rings stay.
LEMMA SameRings ==
    ASSUME \A k \in Key : RingOf(k)' = RingOf(k) /\ OldestOf(k)' = OldestOf(k) /\ CursorOf(k)' = CursorOf(k)
    PROVE  UNCHANGED <<[k \in Key |-> RingOf(k)], [k \in Key |-> OldestOf(k)], [k \in Key |-> CursorOf(k)]>>
OBVIOUS

LEMMA SamePods ==
    ASSUME pods' = pods
    PROVE  /\ \A k \in Key : Found(k)' = Found(k)
           /\ UNCHANGED <<[k \in Key |-> RingOf(k)], [k \in Key |-> OldestOf(k)], [k \in Key |-> CursorOf(k)]>>
<1>1. \A k \in Key : RingOf(k)' = RingOf(k) /\ OldestOf(k)' = OldestOf(k) /\ CursorOf(k)' = CursorOf(k)
  BY DEF RingOf, OldestOf, CursorOf, PairOf, Found
<1>. QED
  BY <1>1, SameRings DEF Found

\* An empty segment holds empty rings.
LEMMA NewRings ==
    ASSUME pods = EmptyPods
    PROVE  \A k \in Key : RingOf(k) = <<>> /\ OldestOf(k) = 0 /\ CursorOf(k) = 0
<1>1. \A b \in PodId : pods[b].index = 0
  BY DEF EmptyPods, EmptyPod
<1>2. \A b \in PodId : 0 .. pods[b].index - 1 = {}
  BY <1>1
<1>3. \A k \in Key : Found(k) = {}
  BY <1>2, KeyFacts DEF Found, Hits
<1>. QED
  BY <1>3 DEF RingOf, OldestOf, CursorOf

LEMMA CreateImplements == Create => Promise!Create
<1>. SUFFICES ASSUME Create PROVE Promise!Create
  OBVIOUS
<1>1. pods' = pods /\ open' = TRUE /\ ret' = [op |-> "create", key |-> Null, out |-> 0]
  BY DEF Create, Answer
<1>. QED
  BY <1>1, SamePods DEF Promise!Create, Promise!Answer

LEMMA DeleteImplements == Delete => Promise!Delete
<1>. SUFFICES ASSUME Delete PROVE Promise!Delete
  OBVIOUS
<1>1. (pods = EmptyPods)' /\ open' = FALSE /\ ret' = [op |-> "delete", key |-> Null, out |-> 0]
  BY DEF Delete, Answer
<1>2. (\A k \in Key : RingOf(k) = <<>> /\ OldestOf(k) = 0 /\ CursorOf(k) = 0)'
  BY <1>1, NewRings, PTL
<1>3. /\ [k \in Key |-> RingOf(k)]' = [k \in Key |-> <<>>]
      /\ [k \in Key |-> OldestOf(k)]' = [k \in Key |-> 0]
      /\ [k \in Key |-> CursorOf(k)]' = [k \in Key |-> 0]
  BY <1>2
<1>. QED
  BY <1>1, <1>3 DEF Promise!Delete, Promise!Answer, Promise!Clear

LEMMA MissImplements ==
    ASSUME NEW k \in Key,
           UNCHANGED <<[l \in Key |-> RingOf(l)], [l \in Key |-> OldestOf(l)], [l \in Key |-> CursorOf(l)]>>,
           open' = open, ~ open \/ RingOf(k) = <<>>,
           NEW op \in {"read", "read_all"}, ret' = [op |-> op, key |-> k, out |-> Null]
    PROVE  Promise!Miss(k)
BY DEF Promise!Miss, Promise!Answer

LEMMA CallUnopenedImplements ==
    ASSUME NEW k \in Key, CallUnopened(k) PROVE Promise!Miss(k)
<1>1. /\ ~ open /\ open' = open
      /\ UNCHANGED <<[l \in Key |-> RingOf(l)], [l \in Key |-> OldestOf(l)], [l \in Key |-> CursorOf(l)]>>
  BY SamePods DEF CallUnopened
<1>2. CASE ret' = [op |-> "write", key |-> k, out |-> -1]
  BY <1>1, <1>2 DEF Promise!Miss, Promise!Answer
<1>3. ASSUME NEW op \in {"read", "read_all"}, ret' = [op |-> op, key |-> k, out |-> Null]
      PROVE  Promise!Miss(k)
  BY <1>1, <1>3, MissImplements
<1>. QED
  BY <1>2, <1>3 DEF CallUnopened, Answer

\* The string in a written row.
LEMMA StringInRow ==
    ASSUME Short, NEW P, NEW b, NEW i, NEW j \in 0 .. MAXNUMBERVALUES - 1
    PROVE  StringAt(P, b, i, j) = P[b].kv_pairs[i].value[j]
<1>1. j # MAXNUMBERVALUES
  BY PodAssumption
<1>2. ~ RunsOn(P, b, i, j)
  BY DEF RunsOn, Short
<1>. QED
  BY <1>1, <1>2 DEF StringAt

LEMMA ReadAllImplements ==
    ASSUME SeqInv, Short, HasRoom, NEW k \in Key, ReadAll(k)
    PROVE  Promise!GetAll(k) \/ Promise!Miss(k)
<1>1. RingAgrees(k)
  BY RingsMatch
<1>2. /\ open /\ open' = open
      /\ UNCHANGED <<[l \in Key |-> RingOf(l)], [l \in Key |-> OldestOf(l)], [l \in Key |-> CursorOf(l)]>>
      /\ ret' = [op |-> "read_all", key |-> k, out |-> ReadAllValues(pods, k, Null)]
  BY SamePods DEF ReadAll, Answer
<1>3. CASE hist[k] = <<>>
  <2>1. RingOf(k) = <<>> /\ ReadAllValues(pods, k, Null) = Null
    BY <1>1, <1>3 DEF RingAgrees, ReadAllValues, Found
  <2>2. PICK op \in {"read", "read_all"} : ret' = [op |-> op, key |-> k, out |-> Null]
    BY <1>2, <2>1
  <2>. QED
    BY <1>2, <2>1, <2>2, MissImplements
<1>4. CASE hist[k] # <<>>
  <2>1. PICK i \in Slot :
           /\ Found(k) = {i} /\ Min(Found(k)) = i
           /\ pods[PodOf[k]].kv_pairs[i].numberValues = Len(hist[k])
           /\ \A j \in 0 .. Len(hist[k]) - 1 : pods[PodOf[k]].kv_pairs[i].value[j] = hist[k][j + 1]
    BY <1>1, <1>4 DEF RingAgrees
  <2>2. PICK h \in Seq(Value) : h = hist[k]
    BY <1>1 DEF RingAgrees
  <2>3. PICK n \in Nat : n = Len(h) /\ n <= MAXNUMBERVALUES
    BY <1>1, <2>2, LenProperties DEF RingAgrees
  <2>4. ReadAllValues(pods, k, Null) = [j \in 1 .. n |-> StringAt(pods, PodOf[k], i, j - 1)]
    BY <2>1, <2>2, <2>3 DEF ReadAllValues, Found
  <2>5. ASSUME NEW j \in 1 .. n PROVE StringAt(pods, PodOf[k], i, j - 1) = h[j]
    <3>1. j - 1 \in 0 .. n - 1 /\ j - 1 \in 0 .. MAXNUMBERVALUES - 1 /\ (j - 1) + 1 = j
      BY <2>3, PodAssumption
    <3>2. pods[PodOf[k]].kv_pairs[i].value[j - 1] = h[j]
      BY <2>1, <2>2, <2>3, <3>1
    <3>. QED
      BY <3>1, <3>2, StringInRow
  <2>6. h \in [1 .. n -> Value]
    BY <2>3, LenProperties
  <2>7. ReadAllValues(pods, k, Null) = h
    BY <2>4, <2>5, <2>6
  <2>8. RingOf(k) = h /\ h # <<>>
    BY <1>1, <1>4, <2>2 DEF RingAgrees
  <2>9. Promise!GetAll(k)
    BY <1>2, <2>7, <2>8 DEF Promise!GetAll, Promise!Answer
  <2>. QED
    BY <2>9
<1>. QED
  BY <1>3, <1>4

\* What a read leaves of the rings: the cursor of its key moves on.
LEMMA ReadImplements ==
    ASSUME SeqInv, Short, HasRoom, NEW k \in Key, Read(k)
    PROVE  Promise!Get(k) \/ Promise!Miss(k)
<1>1. \A l \in Key : RingAgrees(l)
  BY RingsMatch
<1>2. PICK R : R = pods' /\ PairsRead(pods, R, k)
  BY ReadKeeps
<1>3. R \in Pods /\ pods \in Pods
  BY <1>2 DEF PairsRead, SeqInv, PodTypeOK
<1>4. /\ open /\ open' = open
      /\ ret' = [op |-> "read", key |-> k, out |-> ReadValue(pods, k, Null)]
  BY DEF Read, Answer
<1>5. ASSUME NEW l \in Key
      PROVE  /\ Found(l)' = Found(l)
             /\ Found(l) = {} =>
                   RingOf(l)' = RingOf(l) /\ OldestOf(l)' = OldestOf(l) /\ CursorOf(l)' = CursorOf(l)
             /\ \A i \in Slot : Found(l) = {i} /\ Max(Found(l)) = i =>
                   /\ RingOf(l)' = RingOf(l) /\ OldestOf(l)' = OldestOf(l)
                   /\ CursorOf(l)' = R[PodOf[l]].kv_pairs[i].readIndex
  <2>1. PICK c \in PodId : c = PodOf[l]
    BY KeyFacts
  <2>2. R[c].index = pods[c].index /\ \A j \in Slot : R[c].kv_pairs[j].key = pods[c].kv_pairs[j].key
    BY <1>2 DEF PairsRead
  <2>3. Hits(R[c], l) = Hits(pods[c], l)
    BY <1>3, <2>2, HitsOfKeys
  <2>4. Found(l)' = Found(l)
    BY <1>2, <2>1, <2>3 DEF Found
  <2>5. ASSUME Found(l) = {}
        PROVE  RingOf(l)' = RingOf(l) /\ OldestOf(l)' = OldestOf(l) /\ CursorOf(l)' = CursorOf(l)
    BY <2>4, <2>5 DEF RingOf, OldestOf, CursorOf
  <2>6. ASSUME NEW i \in Slot, Found(l) = {i}, Max(Found(l)) = i
        PROVE  /\ RingOf(l)' = RingOf(l) /\ OldestOf(l)' = OldestOf(l)
               /\ CursorOf(l)' = R[PodOf[l]].kv_pairs[i].readIndex
    <3>1. PICK p, q : p = PairOf(l) /\ q = PairOf(l)'
      OBVIOUS
    <3>2. p = pods[c].kv_pairs[i] /\ q = R[c].kv_pairs[i]
      BY <1>2, <2>1, <2>4, <2>6, <3>1 DEF PairOf
    <3>3. q.value = p.value /\ q.numberValues = p.numberValues /\ q.writeIndex = p.writeIndex
      BY <1>2, <3>2 DEF PairsRead
    <3>4. Found(l) # {} /\ Found(l)' # {}
      BY <2>4, <2>6
    <3>5. RingOf(l)' = RingOf(l)
      BY <3>1, <3>3, <3>4 DEF RingOf
    <3>6. OldestOf(l)' = OldestOf(l) /\ CursorOf(l)' = q.readIndex
      BY <3>1, <3>3, <3>4 DEF OldestOf, CursorOf
    <3>. QED
      BY <2>1, <3>2, <3>5, <3>6
  <2>. QED
    BY <2>4, <2>5, <2>6
<1>6. ASSUME NEW l \in Key
      PROVE  /\ RingOf(l)' = RingOf(l) /\ OldestOf(l)' = OldestOf(l)
             /\ l # k \/ hist[k] = <<>> => CursorOf(l)' = CursorOf(l)
             /\ hist[k] # <<>> => CursorOf(k)' = (CursorOf(k) + 1) % Len(hist[k])
  <2>. DEFINE after(c) == /\ c # k \/ hist[k] = <<>> => CursorOf(c)' = CursorOf(c)
                          /\ c = k /\ hist[k] # <<>> => CursorOf(k)' = (CursorOf(k) + 1) % Len(hist[k])
  <2>1. ASSUME NEW x \in Key
        PROVE  RingOf(x)' = RingOf(x) /\ OldestOf(x)' = OldestOf(x) /\ after(x)
    <3>1. CASE hist[x] = <<>>
      <4>1. Found(x) = {}
        BY <1>1, <3>1 DEF RingAgrees
      <4>. QED
        BY <1>5, <3>1, <4>1
    <3>2. CASE hist[x] # <<>>
      <4>1. PICK i \in Slot :
               /\ Found(x) = {i} /\ Max(Found(x)) = i
               /\ pods[PodOf[x]].kv_pairs[i].numberValues = Len(hist[x])
               /\ CursorOf(x) = pods[PodOf[x]].kv_pairs[i].readIndex
        BY <1>1, <3>2 DEF RingAgrees
      <4>2. /\ RingOf(x)' = RingOf(x) /\ OldestOf(x)' = OldestOf(x)
            /\ CursorOf(x)' = R[PodOf[x]].kv_pairs[i].readIndex
        BY <1>5, <4>1
      <4>3. PodOf[x] \in PodId /\ PodOf[k] \in PodId
        BY KeyFacts
      <4>4. CASE x = k
        <5>1. i \in Hits(pods[PodOf[k]], k)
          BY <4>1, <4>4 DEF Found
        <5>2. CursorOf(k)' = (CursorOf(k) + 1) % Len(hist[k])
          BY <1>2, <4>1, <4>2, <4>4, <5>1 DEF PairsRead
        <5>. QED
          BY <3>2, <4>2, <4>4, <5>2
      <4>5. CASE x # k
        <5>1. PodOf[x] # PodOf[k] \/ i \notin Hits(pods[PodOf[k]], k)
          <6>. SUFFICES ASSUME PodOf[x] = PodOf[k], i \in Hits(pods[PodOf[k]], k) PROVE FALSE
            OBVIOUS
          <6>1. i \in Hits(pods[PodOf[k]], x)
            BY <4>1 DEF Found
          <6>. QED
            BY <4>5, <6>1 DEF Hits, SameKey
        <5>2. R[PodOf[x]].kv_pairs[i] = pods[PodOf[x]].kv_pairs[i]
          BY <1>2, <4>3, <5>1 DEF PairsRead
        <5>. QED
          BY <4>1, <4>2, <4>5, <5>2
      <4>. QED
        BY <4>4, <4>5
    <3>. QED
      BY <3>1, <3>2
  <2>. QED
    BY <2>1
<1>7. UNCHANGED <<[l \in Key |-> RingOf(l)], [l \in Key |-> OldestOf(l)]>>
  BY <1>6
<1>8. CASE hist[k] = <<>>
  <2>1. RingOf(k) = <<>> /\ ReadValue(pods, k, Null) = Null
    BY <1>1, <1>8 DEF RingAgrees, ReadValue, Found
  <2>2. UNCHANGED [l \in Key |-> CursorOf(l)]
    BY <1>6, <1>8
  <2>3. PICK op \in {"read", "read_all"} : ret' = [op |-> op, key |-> k, out |-> Null]
    BY <1>4, <2>1
  <2>. QED
    BY <1>4, <1>7, <2>1, <2>2, <2>3, MissImplements
<1>9. CASE hist[k] # <<>>
  <2>1. PICK i \in Slot :
           /\ Found(k) = {i} /\ Max(Found(k)) = i
           /\ CursorOf(k) = pods[PodOf[k]].kv_pairs[i].readIndex
           /\ CursorOf(k) \in 0 .. Len(hist[k]) - 1
           /\ \A j \in 0 .. Len(hist[k]) - 1 : pods[PodOf[k]].kv_pairs[i].value[j] = hist[k][j + 1]
    BY <1>1, <1>9 DEF RingAgrees
  <2>2. PICK r : r = CursorOf(k)
    OBVIOUS
  <2>3. r \in 0 .. MAXNUMBERVALUES - 1 /\ r \in 0 .. Len(hist[k]) - 1
    <3>1. PICK n \in 0 .. MAXNUMBERVALUES : n = Len(hist[k])
      BY <1>1 DEF RingAgrees
    <3>. QED
      BY <2>1, <2>2, <3>1, PodAssumption
  <2>4. ReadValue(pods, k, Null) = StringAt(pods, PodOf[k], i, r)
    BY <2>1, <2>2 DEF ReadValue, Found
  <2>5. ReadValue(pods, k, Null) = hist[k][r + 1]
    BY <2>1, <2>3, <2>4, StringInRow
  <2>6. RingOf(k) = hist[k]
    BY <1>1 DEF RingAgrees
  <2>7. [l \in Key |-> CursorOf(l)]' =
           [[l \in Key |-> CursorOf(l)] EXCEPT ![k] = (CursorOf(k) + 1) % Len(RingOf(k))]
    BY <1>6, <1>9, <2>6
  <2>8. Promise!Get(k)
    BY <1>4, <1>7, <1>9, <2>2, <2>5, <2>6, <2>7 DEF Promise!Get, Promise!Answer
  <2>. QED
    BY <2>8
<1>. QED
  BY <1>8, <1>9

\* What a write leaves of the rings: its value comes last in the ring of its key.
LEMMA WriteImplements ==
    ASSUME SeqInv, Short, HasRoom, HasRoom', \A l \in Key : RingAgrees(l)', NEW k \in Key,
           NEW v \in Value, Write(k, v)
    PROVE  Promise!Put(k, v)
<1>1. \A l \in Key : RingAgrees(l)
  BY RingsMatch
<1>2. /\ open /\ open' = open /\ ret' = [op |-> "write", key |-> k, out |-> 0]
      /\ hist'[k] = Append(hist[k], v) /\ \A l \in Key \ {k} : hist'[l] = hist[l]
  BY WriteFacts DEF Write, Answer
<1>3. PICK i \in Slot : WrittenWithRoom(k, v, i)
  BY WriteHasRoom DEF HasRoom
<1>4. PICK n \in Nat : n = Len(hist[k]) /\ Len(hist'[k]) = n + 1
  BY <1>1, <1>2, AppendProperties, LenProperties DEF RingAgrees
<1>5. n < MAXNUMBERVALUES
  <2>1. Len(hist'[k]) <= MAXNUMBERVALUES
    BY DEF HasRoom, RingsHaveRoom
  <2>. QED
    BY <1>4, <2>1, PodAssumption
<1>6. \A l \in Key : RingOf(l) = hist[l] /\ RingOf(l)' = hist'[l]
  BY <1>1 DEF RingAgrees
<1>7. [l \in Key |-> RingOf(l)]' =
         [[l \in Key |-> RingOf(l)] EXCEPT ![k] = Append(RingOf(k), v)]
  BY <1>2, <1>6
<1>8. ASSUME NEW l \in Key \ {k}
      PROVE  OldestOf(l)' = OldestOf(l) /\ CursorOf(l)' = CursorOf(l)
  <2>1. /\ Found(l)' = Found(l)
        /\ \A j \in Found(l) : pods'[PodOf[l]].kv_pairs[j] = pods[PodOf[l]].kv_pairs[j]
    BY <1>3 DEF WrittenWithRoom
  <2>2. CASE Found(l) = {}
    BY <2>1, <2>2 DEF OldestOf, CursorOf
  <2>3. CASE Found(l) # {}
    <3>1. PICK j \in Slot : Found(l) = {j} /\ Max(Found(l)) = j
      BY <1>1, <2>3 DEF RingAgrees
    <3>2. PairOf(l)' = PairOf(l)
      BY <2>1, <3>1 DEF PairOf
    <3>. QED
      BY <2>1, <3>2 DEF OldestOf, CursorOf
  <2>. QED
    BY <2>2, <2>3
<1>9. OldestOf(k)' = (OldestOf(k) + 1) % MAXNUMBERVALUES
  <2>1. OldestOf(k) = n % MAXNUMBERVALUES /\ OldestOf(k)' = (n + 1) % MAXNUMBERVALUES
    BY <1>1, <1>4 DEF RingAgrees
  <2>. QED
    BY <2>1, NextTurn, PodAssumption
<1>10. CursorOf(k)' = CursorOf(k)
  <2>1. CursorOf(k)' = pods'[PodOf[k]].kv_pairs[i].readIndex
    <3>1. Found(k)' = {i}
      BY <1>3 DEF WrittenWithRoom
    <3>2. Max(Found(k)') = i
      BY <3>1, OneHit
    <3>. QED
      BY <3>1, <3>2 DEF CursorOf, PairOf
  <2>2. pods'[PodOf[k]].kv_pairs[i].readIndex = pods[PodOf[k]].kv_pairs[i].readIndex
    BY <1>3 DEF WrittenWithRoom, PairWritten
  <2>3. CASE Found(k) = {i}
    <3>1. Max(Found(k)) = i
      BY <2>3, OneHit
    <3>2. CursorOf(k) = pods[PodOf[k]].kv_pairs[i].readIndex
      BY <2>3, <3>1 DEF CursorOf, PairOf
    <3>. QED
      BY <2>1, <2>2, <3>2
  <2>4. CASE Found(k) = {}
    <3>1. pods[PodOf[k]].kv_pairs[i] = EmptyPair
      BY <1>3, <2>4 DEF WrittenWithRoom
    <3>2. CursorOf(k) = 0
      BY <2>4 DEF CursorOf
    <3>. QED
      BY <2>1, <2>2, <3>1, <3>2, EmptyPairFacts
  <2>. QED
    BY <1>3, <2>3, <2>4 DEF WrittenWithRoom
<1>11. [l \in Key |-> OldestOf(l)]' =
          [[l \in Key |-> OldestOf(l)] EXCEPT ![k] = (OldestOf(k) + 1) % MAXNUMBERVALUES]
  BY <1>8, <1>9
<1>12. UNCHANGED [l \in Key |-> CursorOf(l)]
  BY <1>8, <1>10
<1>13. Len(RingOf(k)) < MAXNUMBERVALUES
  BY <1>4, <1>5, <1>6
<1>14. [l \in Key |-> RingOf(l)]' =
          [[l \in Key |-> RingOf(l)] EXCEPT ![k] =
              IF Len(@) < MAXNUMBERVALUES THEN Append(@, v)
              ELSE [@ EXCEPT ![OldestOf(k) + 1] = v]]
  BY <1>7, <1>13
<1>. QED
  BY <1>2, <1>11, <1>12, <1>14 DEF Promise!Put, Promise!Answer

\* Only Delete makes room where there was none.
LEMMA RoomBefore ==
    ASSUME SeqInv, HasRoom', NEW k \in Key, NEW v \in Value, Write(k, v)
    PROVE  HasRoom
<1>1. PodsHaveRoom
  BY WrittenGrows DEF HasRoom
<1>2. ASSUME NEW l \in Key PROVE Len(hist[l]) <= MAXNUMBERVALUES
  <2>1. PICK h \in Seq(Value) : h = hist[l]
    BY DEF SeqInv, PodTypeOK
  <2>2. hist'[l] = h \/ hist'[l] = Append(h, v)
    BY <2>1, WriteFacts
  <2>3. Len(hist'[l]) <= MAXNUMBERVALUES
    BY DEF HasRoom, RingsHaveRoom
  <2>4. Len(h) \in Nat /\ Len(Append(h, v)) = Len(h) + 1
    BY LenProperties, AppendProperties
  <2>. QED
    BY <2>1, <2>2, <2>3, <2>4, PodAssumption
<1>. QED
  BY <1>1, <1>2 DEF HasRoom, RingsHaveRoom

LEMMA SameRoom ==
    ASSUME HasRoom', hist' = hist
    PROVE  HasRoom
BY DEF HasRoom, RingsHaveRoom, PodsHaveRoom, WrittenTo

\* A step after which there is room is a step of KVRing.
LEMMA StepImplements ==
    ASSUME SeqInv, Short, [Next]_vars, HasRoom', \A l \in Key : RingAgrees(l)'
    PROVE  [Promise!Next]_Promise!vars
<1>1. CASE Create
  BY <1>1, CreateImplements DEF Promise!Next
<1>2. CASE Delete
  BY <1>2, DeleteImplements DEF Promise!Next
<1>3. ASSUME NEW k \in Key, Read(k) PROVE Promise!Get(k) \/ Promise!Miss(k)
  BY <1>3, SameRoom, ReadImplements DEF Read
<1>4. ASSUME NEW k \in Key, ReadAll(k) PROVE Promise!GetAll(k) \/ Promise!Miss(k)
  BY <1>4, SameRoom, ReadAllImplements DEF ReadAll
<1>5. ASSUME NEW k \in Key, CallUnopened(k) PROVE Promise!Miss(k)
  BY <1>5, CallUnopenedImplements
<1>6. ASSUME NEW k \in Key, NEW v \in Value, Write(k, v) PROVE Promise!Put(k, v)
  BY <1>6, RoomBefore, WriteImplements
<1>7. CASE UNCHANGED vars
  <2>1. pods' = pods /\ open' = open /\ ret' = ret
    BY <1>7 DEF vars
  <2>. QED
    BY <2>1, SamePods DEF Promise!vars
<1>. QED
  BY <1>1, <1>2, <1>3, <1>4, <1>5, <1>6, <1>7 DEF Next, Promise!Next

\* Where every string is shorter than its array, and as long as no pod is full and no key
\* has had more values than there are rows, the layout of the segment is invisible: each
\* call is the call of KVRing.
THEOREM PromiseIsKept == Short => (Spec => KeepsPromise)
<1>. SUFFICES ASSUME Short PROVE Spec => KeepsPromise
  OBVIOUS
<1>1. Init => Promise!Init
  <2>. SUFFICES ASSUME Init PROVE Promise!Init
    OBVIOUS
  <2>1. \A k \in Key : RingOf(k) = <<>> /\ OldestOf(k) = 0 /\ CursorOf(k) = 0
    BY NewRings DEF Init
  <2>2. /\ [k \in Key |-> RingOf(k)] = [k \in Key |-> <<>>]
        /\ [k \in Key |-> OldestOf(k)] = [k \in Key |-> 0]
        /\ [k \in Key |-> CursorOf(k)] = [k \in Key |-> 0]
    BY <2>1
  <2>. QED
    BY <2>2 DEF Init, Promise!Init
<1>2. SeqInv /\ HasRoom => \A k \in Key : RingAgrees(k)
  BY RingsMatch
<1>3. SeqInv /\ (\A k \in Key : RingAgrees(k))' /\ [Next]_vars /\ HasRoom' => [Promise!Next]_Promise!vars
  BY StepImplements
<1>4. HasRoom <=> RingsHaveRoom /\ PodsHaveRoom
  BY DEF HasRoom
<1>. QED
  BY <1>1, <1>2, <1>3, <1>4, SeqInvariant, PTL DEF Spec, KeepsPromise
=============================================================================
