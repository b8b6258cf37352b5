---------------------------- MODULE KVPodProofs -----------------------------
(***************************************************************************)
(* What the operators of KVPod do to a segment, field by field: the facts  *)
(* that the proofs about the store cite instead of the definitions.        *)
(***************************************************************************)
EXTENDS KVPod, SequenceTheorems, FiniteSetTheorems, WellFoundedInduction, TLAPS

-----------------------------------------------------------------------------
(* The last match of a scan *)

\* A non-empty set of numbers that is bounded above has a greatest element, which is
\* what Max chooses.
LEMMA MaxIsIn ==
    ASSUME NEW n \in Nat, NEW S \in SUBSET (0 .. n), S # {}
    PROVE  Max(S) \in S /\ \A y \in S : y <= Max(S)
<1>. DEFINE T == {m \in Nat : n - m \in S}
            R == {ss \in Nat \X Nat : ss[1] < ss[2]}
<1>1. \A x, y \in Nat : <<x, y>> \in R <=> x < y
  OBVIOUS
<1>2. IsWellFoundedOn(R, Nat)
  BY NatLessThanWellFounded DEF OpToRel
<1>3. T \subseteq Nat /\ T # {}
  <2>1. PICK x \in S : TRUE
    OBVIOUS
  <2>2. n - x \in Nat /\ n - (n - x) = x
    OBVIOUS
  <2>. QED
    BY <2>1, <2>2
<1>. HIDE DEF R, T
<1>4. PICK x \in T : \A y \in T : ~ (<<y, x>> \in R)
  BY <1>2, <1>3, WFMin
<1>5. x \in Nat /\ n - x \in S
  BY DEF T
<1>6. ASSUME NEW y \in S PROVE y <= n - x
  <2>1. n - y \in Nat /\ n - (n - y) = y
    OBVIOUS
  <2>2. n - y \in T
    BY <2>1 DEF T
  <2>3. ~ (n - y < x)
    BY <1>1, <1>3, <1>4, <2>1, <2>2
  <2>. QED
    BY <1>5, <2>1, <2>3
<1>7. \E m \in S : \A y \in S : m >= y
  BY <1>5, <1>6
<1>8. Max(S) \in S /\ \A y \in S : Max(S) >= y
  BY <1>7 DEF Max
<1>. QED
  BY <1>8

-----------------------------------------------------------------------------
(* One pair of the segment is changed *)

\* The type of a pod and of a pair, field by field.
LEMMA FieldTypes ==
    ASSUME NEW P \in Pods, NEW b \in PodId
    PROVE  /\ P[b] \in Pod
           /\ P[b].index \in Slot
           /\ P[b].kv_pairs \in [Slot -> Pair]
           /\ \A i \in Slot :
                 /\ P[b].kv_pairs[i] \in Pair
                 /\ P[b].kv_pairs[i].readIndex \in 0 .. MAXNUMBERVALUES
                 /\ P[b].kv_pairs[i].writeIndex \in Row
                 /\ P[b].kv_pairs[i].numberValues \in 0 .. MAXNUMBERVALUES + 1
                 /\ P[b].kv_pairs[i].key \in Seq(Char)
                 /\ P[b].kv_pairs[i].value \in [Row -> Value \union {Empty}]
BY DEF Pods, Pod, Pair

\* A segment with one pair, or one index, replaced.
WithPair(P, b, i, pair) == [P EXCEPT ![b].kv_pairs[i] = pair]
WithIndex(P, b, n) == [P EXCEPT ![b].index = n]

\* Between two segments only one pair, or only one index, may differ.
OnlyPair(P, R, b, i) ==
    /\ R \in Pods
    /\ \A c \in PodId : R[c].index = P[c].index
    /\ \A c \in PodId, j \in Slot : c # b \/ j # i => R[c].kv_pairs[j] = P[c].kv_pairs[j]

OnlyIndex(P, R, b) ==
    /\ R \in Pods
    /\ \A c \in PodId : c # b => R[c] = P[c]
    /\ \A c \in PodId : R[c].kv_pairs = P[c].kv_pairs

\* Storing a pair leaves all the other pairs and every index as they were.
LEMMA PairStored ==
    ASSUME NEW P \in Pods, NEW b \in PodId, NEW i \in Slot, NEW q \in Pair, NEW R,
           R = WithPair(P, b, i, q)
    PROVE  OnlyPair(P, R, b, i) /\ R[b].kv_pairs[i] = q
<1>. DEFINE pod == [P[b] EXCEPT !.kv_pairs = [@ EXCEPT ![i] = q]]
<1>1. pod \in Pod /\ pod.index = P[b].index /\ pod.kv_pairs[i] = q
      /\ \A j \in Slot \ {i} : pod.kv_pairs[j] = P[b].kv_pairs[j]
  BY FieldTypes DEF Pod
<1>2. R = [P EXCEPT ![b] = pod]
  BY DEF WithPair
<1>3. P \in [PodId -> Pod]
  BY DEF Pods
<1>. HIDE DEF pod
<1>4. [P EXCEPT ![b] = pod] \in [PodId -> Pod]
  BY <1>1, <1>3
<1>5. \A c \in PodId : [P EXCEPT ![b] = pod][c] = IF c = b THEN pod ELSE P[c]
  BY <1>3
<1>6. R \in Pods /\ R[b] = pod /\ \A c \in PodId \ {b} : R[c] = P[c]
  BY <1>2, <1>4, <1>5 DEF Pods
<1>7. R[b].kv_pairs[i] = q
  BY <1>1, <1>6
<1>8. \A c \in PodId : R[c].index = P[c].index
  BY <1>1, <1>6
<1>9. \A c \in PodId, j \in Slot : c # b \/ j # i => R[c].kv_pairs[j] = P[c].kv_pairs[j]
  BY <1>1, <1>6
<1>. QED
  BY <1>6, <1>7, <1>8, <1>9 DEF OnlyPair

\* Storing an index leaves all pairs and the other indices as they were.
LEMMA IndexStored ==
    ASSUME NEW P \in Pods, NEW b \in PodId, NEW n \in Slot, NEW R,
           R = WithIndex(P, b, n)
    PROVE  OnlyIndex(P, R, b) /\ R[b].index = n
<1>. DEFINE pod == [P[b] EXCEPT !.index = n]
<1>1. pod \in Pod /\ pod.index = n /\ pod.kv_pairs = P[b].kv_pairs
  BY FieldTypes DEF Pod
<1>2. R = [P EXCEPT ![b] = pod]
  BY DEF WithIndex
<1>. HIDE DEF pod
<1>3. R \in [PodId -> Pod] /\ R[b] = pod /\ \A c \in PodId \ {b} : R[c] = P[c]
  BY <1>1, <1>2 DEF Pods
<1>. QED
  BY <1>1, <1>3 DEF Pods, OnlyIndex

-----------------------------------------------------------------------------
(* What a scan finds *)

\* A scan finds only slots below index, and its last match is one of them.
LEMMA HitsAreSlots ==
    ASSUME NEW P \in Pods, NEW b \in PodId, NEW k
    PROVE  /\ Hits(P[b], k) \subseteq 0 .. P[b].index - 1
           /\ Hits(P[b], k) \subseteq Slot
           /\ Hits(P[b], k) # {} =>
                 Max(Hits(P[b], k)) \in Hits(P[b], k) /\ Max(Hits(P[b], k)) \in Slot
<1>1. P[b].index \in Slot /\ Slot \subseteq Nat
  BY FieldTypes DEF Slot
<1>2. Hits(P[b], k) \subseteq 0 .. P[b].index - 1
  BY DEF Hits
<1>3. Hits(P[b], k) \subseteq Slot
  BY <1>1, <1>2, PodAssumption DEF Slot
<1>4. ASSUME Hits(P[b], k) # {}
      PROVE  Max(Hits(P[b], k)) \in Hits(P[b], k)
  <2>1. Hits(P[b], k) \in SUBSET (0 .. NUMBERKVPAIR)
    BY <1>3, PodAssumption DEF Slot
  <2>. QED
    BY <1>4, <2>1, MaxIsIn, PodAssumption
<1>. QED
  BY <1>2, <1>3, <1>4

\* A scan depends on the keys and on the index of its pod alone.
LEMMA HitsOfKeys ==
    ASSUME NEW P \in Pods, NEW R \in Pods, NEW b \in PodId, NEW k,
           R[b].index = P[b].index,
           \A i \in Slot : R[b].kv_pairs[i].key = P[b].kv_pairs[i].key
    PROVE  Hits(R[b], k) = Hits(P[b], k)
<1>1. P[b].index \in Slot /\ R[b].index \in Slot
  BY FieldTypes
<1>2. 0 .. P[b].index - 1 \subseteq Slot
  BY <1>1, PodAssumption DEF Slot
<1>. QED
  BY <1>2 DEF Hits, SameKey

\* Where a write goes: the last match, or else the next free slot.
LEMMA LocateFields ==
    ASSUME NEW P \in Pods, NEW k, PodOf[k] \in PodId, NEW l, l = Locate(P, k)
    PROVE  /\ l.pod = PodOf[k]
           /\ l.slot \in Slot
           /\ l.keyExists \in BOOLEAN
           /\ l.keyExists <=> Hits(P[PodOf[k]], k) # {}
           /\ l.keyExists => l.slot \in Hits(P[PodOf[k]], k) /\ l.slot < P[PodOf[k]].index
           /\ ~ l.keyExists => l.slot = P[PodOf[k]].index
           /\ l.index = P[PodOf[k]].index
           /\ l.at = P[PodOf[k]].kv_pairs[l.slot].writeIndex
           /\ l.at \in Row
<1>. DEFINE b == PodOf[k]
            hits == Hits(P[b], k)
<1>1. /\ l.pod = b
      /\ l.slot = IF hits = {} THEN P[b].index ELSE Max(hits)
      /\ l.keyExists = (hits # {})
      /\ l.index = P[b].index
      /\ l.at = P[b].kv_pairs[IF hits = {} THEN P[b].index ELSE Max(hits)].writeIndex
  BY DEF Locate
<1>2. P[b].index \in Slot
  BY FieldTypes
<1>3. hits # {} => Max(hits) \in hits /\ Max(hits) \in Slot /\ Max(hits) < P[b].index
  <2>. SUFFICES ASSUME hits # {} PROVE Max(hits) \in hits /\ Max(hits) \in Slot /\ Max(hits) < P[b].index
    OBVIOUS
  <2>1. hits \subseteq 0 .. P[b].index - 1 /\ Max(hits) \in hits /\ Max(hits) \in Slot
    BY HitsAreSlots
  <2>. QED
    BY <1>2, <2>1 DEF Slot
<1>. HIDE DEF hits
<1>4. l.slot \in Slot /\ l.at = P[b].kv_pairs[l.slot].writeIndex
  BY <1>1, <1>2, <1>3
<1>5. l.at \in Row
  BY <1>4, FieldTypes
<1>. QED
  BY <1>1, <1>3, <1>4, <1>5 DEF hits

-----------------------------------------------------------------------------
(* The three stores of a write *)

\* The key that stays in the array when a key is copied over an older one.
LEMMA OverlayIsKey ==
    ASSUME NEW old \in Seq(Char), NEW key \in Seq(Char)
    PROVE  Overlay(old, key) \in Seq(Char)
<1>1. \A i \in Len(key) + 1 .. Len(old) : old[i] \in Char
  BY LenProperties
<1>2. SubSeq(old, Len(key) + 1, Len(old)) \in Seq(Char)
  BY <1>1, LenProperties, SubSeqProperties
<1>. QED
  BY <1>2, ConcatProperties DEF Overlay

\* A key that is copied over nothing, or over itself, is stored as it is.
LEMMA OverlayOwn ==
    ASSUME NEW k \in Seq(Char)
    PROVE  Overlay(<<>>, k) = k /\ Overlay(k, k) = k
<1>1. Len(k) \in Nat /\ Len(<<>>) = 0
  BY LenProperties
<1>2. SubSeq(<<>>, Len(k) + 1, 0) = <<>> /\ SubSeq(k, Len(k) + 1, Len(k)) = <<>>
  BY <1>1, SubSeqEmpty
<1>. QED
  BY <1>1, <1>2, ConcatEmptySeq DEF Overlay

\* A key is cut to a sequence of its characters.
LEMMA ClipIsKey ==
    ASSUME NEW k \in Key
    PROVE  k \in Seq(Char) /\ Clip(k) \in Seq(Char) /\ (Len(k) <= KEYSIZE => Clip(k) = k)
<1>1. k \in Seq(Char) /\ Len(k) \in Nat
  BY KeyAssumption, LenProperties
<1>2. Len(k) > KEYSIZE => SubSeq(k, 1, KEYSIZE) \in Seq(Char)
  <2>. SUFFICES ASSUME Len(k) > KEYSIZE PROVE SubSeq(k, 1, KEYSIZE) \in Seq(Char)
    OBVIOUS
  <2>1. \A i \in 1 .. KEYSIZE : k[i] \in Char
    BY <1>1, LenProperties, PodAssumption
  <2>. QED
    BY <2>1, SubSeqProperties, PodAssumption
<1>. QED
  BY <1>1, <1>2, PodAssumption DEF Clip

\* The store of numberValues.
Counted(P, R, b, i) ==
    /\ OnlyPair(P, R, b, i)
    /\ R[b].kv_pairs[i].numberValues =
          IF P[b].kv_pairs[i].numberValues <= MAXNUMBERVALUES
          THEN P[b].kv_pairs[i].numberValues + 1
          ELSE P[b].kv_pairs[i].numberValues
    /\ R[b].kv_pairs[i].readIndex = P[b].kv_pairs[i].readIndex
    /\ R[b].kv_pairs[i].writeIndex = P[b].kv_pairs[i].writeIndex
    /\ R[b].kv_pairs[i].key = P[b].kv_pairs[i].key
    /\ R[b].kv_pairs[i].value = P[b].kv_pairs[i].value

LEMMA CountEffect ==
    ASSUME NEW P \in Pods, NEW l, NEW b \in PodId, NEW i \in Slot,
           l.pod = b, l.slot = i, NEW R, R = CountValue(P, l)
    PROVE  Counted(P, R, b, i)
<1>. DEFINE p == P[b].kv_pairs[i]
            n == IF p.numberValues <= MAXNUMBERVALUES THEN p.numberValues + 1 ELSE p.numberValues
            q == [p EXCEPT !.numberValues = n]
<1>1. p \in Pair /\ p.numberValues \in 0 .. MAXNUMBERVALUES + 1
  BY FieldTypes
<1>2. n \in 0 .. MAXNUMBERVALUES + 1
  BY <1>1, PodAssumption
<1>3. R = WithPair(P, b, i, q)
  BY DEF CountValue, WithPair
<1>. HIDE DEF n, p
<1>4. /\ q \in Pair /\ q.numberValues = n
      /\ q.readIndex = p.readIndex /\ q.writeIndex = p.writeIndex
      /\ q.key = p.key /\ q.value = p.value
  BY <1>1, <1>2 DEF Pair
<1>. HIDE DEF q
<1>5. OnlyPair(P, R, b, i) /\ R[b].kv_pairs[i] = q
  BY <1>3, <1>4, PairStored
<1>. QED
  BY <1>4, <1>5 DEF n, p, Counted

\* The two memcpy for a value that is terminated inside its row: no other pair changes.
Copied(P, R, b, i, at, key, val) ==
    /\ OnlyPair(P, R, b, i)
    /\ R[b].kv_pairs[i].key = Overlay(P[b].kv_pairs[i].key, key)
    /\ R[b].kv_pairs[i].value[at] = val
    /\ \A j \in Row \ {at} : R[b].kv_pairs[i].value[j] = P[b].kv_pairs[i].value[j]
    /\ R[b].kv_pairs[i].numberValues = P[b].kv_pairs[i].numberValues
    /\ R[b].kv_pairs[i].readIndex = P[b].kv_pairs[i].readIndex
    /\ R[b].kv_pairs[i].writeIndex = P[b].kv_pairs[i].writeIndex

LEMMA StringsEffect ==
    ASSUME NEW P \in Pods, NEW l, NEW b \in PodId, NEW i \in Slot, NEW at \in Row,
           l.pod = b, l.slot = i, l.at = at,
           NEW key \in Seq(Char), NEW val \in Value, NEW R,
           R = CopyStrings(P, l, key, val)
    PROVE  Copied(P, R, b, i, at, key, val)
<1>. DEFINE p == P[b].kv_pairs[i]
            v == [p.value EXCEPT ![at] = val]
            k == Overlay(p.key, key)
            q == [p EXCEPT !.key = k, !.value = v]
<1>1. p \in Pair /\ p.value \in [Row -> Value \union {Empty}] /\ p.key \in Seq(Char)
  BY FieldTypes
<1>2. k \in Seq(Char)
  BY <1>1, OverlayIsKey
<1>3. /\ v \in [Row -> Value \union {Empty}]
      /\ v[at] = val
      /\ \A j \in Row \ {at} : v[j] = p.value[j]
  BY <1>1
<1>4. R = WithPair(P, b, i, q)
  BY DEF WithPair, CopyStrings
<1>. HIDE DEF k, v, p
<1>5. /\ q \in Pair
      /\ q.numberValues = p.numberValues
      /\ q.readIndex = p.readIndex /\ q.writeIndex = p.writeIndex
      /\ q.key = k /\ q.value = v
  BY <1>1, <1>2, <1>3 DEF Pair
<1>. HIDE DEF q
<1>6. OnlyPair(P, R, b, i) /\ R[b].kv_pairs[i] = q
  BY <1>4, <1>5, PairStored
<1>. QED
  BY <1>3, <1>5, <1>6 DEF k, p, Copied

\* What the terminator of a full row can do to the counters: it clears a cursor or the
\* index of the next pod, and nothing else.
Spilled(P, R, b) ==
    /\ R \in Pods
    /\ R[b].index = P[b].index
    /\ \A c \in PodId : R[c].index = P[c].index \/ R[c].index = 0
    /\ \A c \in PodId, j \in Slot :
          /\ R[c].kv_pairs[j].numberValues = P[c].kv_pairs[j].numberValues
          /\ R[c].kv_pairs[j].writeIndex = P[c].kv_pairs[j].writeIndex
          /\ \/ R[c].kv_pairs[j].readIndex = P[c].kv_pairs[j].readIndex
             \/ R[c].kv_pairs[j].readIndex = 0

\* The terminator that falls behind the value array.
LEMMA SpillEffect ==
    ASSUME NEW P \in Pods, NEW l, NEW b \in PodId, NEW i \in Slot, l.pod = b, l.slot = i,
           NEW R, R = SpillTerminator(P, l)
    PROVE  Spilled(P, R, b)
<1>1. CASE i + 1 < NUMBERKVPAIR
  <2>. DEFINE p == P[b].kv_pairs[i + 1]
              r == IF p.readIndex < MAXNUMBERVALUES THEN 0 ELSE p.readIndex
              q == [p EXCEPT !.readIndex = r]
  <2>1. i + 1 \in Slot
    BY <1>1, PodAssumption DEF Slot
  <2>2. R = WithPair(P, b, i + 1, q)
    BY <1>1 DEF SpillTerminator, WithPair
  <2>3. p \in Pair /\ p.readIndex \in 0 .. MAXNUMBERVALUES
    BY <2>1, FieldTypes
  <2>4. r \in 0 .. MAXNUMBERVALUES /\ (r = p.readIndex \/ r = 0)
    BY <2>3, PodAssumption
  <2>. HIDE DEF p, r
  <2>5. /\ q \in Pair /\ q.readIndex = r
        /\ q.numberValues = p.numberValues /\ q.writeIndex = p.writeIndex
    BY <2>3, <2>4 DEF Pair
  <2>. HIDE DEF q
  <2>6. OnlyPair(P, R, b, i + 1) /\ R[b].kv_pairs[i + 1] = q
    BY <2>1, <2>2, <2>5, PairStored
  <2>. QED
    BY <2>4, <2>5, <2>6 DEF Spilled, OnlyPair, p
<1>2. CASE ~ (i + 1 < NUMBERKVPAIR) /\ b + 1 < NUMBERPODS
  <2>1. b + 1 \in PodId /\ b + 1 # b /\ 0 \in Slot
    BY <1>2, PodAssumption DEF PodId, Slot
  <2>2. R = WithIndex(P, b + 1, 0)
    BY <1>2 DEF SpillTerminator, WithIndex
  <2>3. PICK d \in PodId, n \in Slot : d = b + 1 /\ n = 0
    BY <2>1
  <2>4. R = WithIndex(P, d, n)
    BY <2>2, <2>3
  <2>5. OnlyIndex(P, R, d) /\ R[d].index = n
    BY <2>4, IndexStored
  <2>. QED
    BY <2>1, <2>3, <2>5 DEF Spilled, OnlyIndex
<1>3. CASE ~ (i + 1 < NUMBERKVPAIR) /\ ~ (b + 1 < NUMBERPODS)
  BY <1>3 DEF SpillTerminator, Spilled
<1>. QED
  BY <1>1, <1>2, <1>3

\* The two memcpy for any value.
LEMMA StoreEffect ==
    ASSUME NEW P \in Pods, NEW l, NEW b \in PodId, NEW i \in Slot, NEW at \in Row,
           l.pod = b, l.slot = i, l.at = at,
           NEW key \in Seq(Char), NEW val \in Value, NEW R, R = StoreStrings(P, l, key, val)
    PROVE  Spilled(P, R, b) /\ (val \notin LongValue => R = CopyStrings(P, l, key, val))
<1>0. PICK S : S = CopyStrings(P, l, key, val)
  OBVIOUS
<1>1. /\ S \in Pods
      /\ \A c \in PodId : S[c].index = P[c].index
      /\ \A c \in PodId, j \in Slot :
            /\ S[c].kv_pairs[j].numberValues = P[c].kv_pairs[j].numberValues
            /\ S[c].kv_pairs[j].writeIndex = P[c].kv_pairs[j].writeIndex
            /\ S[c].kv_pairs[j].readIndex = P[c].kv_pairs[j].readIndex
  <2>1. Copied(P, S, b, i, at, key, val)
    BY <1>0, StringsEffect
  <2>. QED
    BY <2>1 DEF Copied, OnlyPair
<1>2. CASE val \notin LongValue
  <2>1. R = S
    BY <1>0, <1>2 DEF StoreStrings
  <2>. QED
    BY <1>0, <1>1, <2>1 DEF Spilled
<1>3. CASE val \in LongValue /\ at + 1 = MAXNUMBERVALUES
  <2>1. R = SpillTerminator(S, l)
    BY <1>0, <1>3 DEF StoreStrings
  <2>2. Spilled(S, R, b)
    BY <1>1, <2>1, SpillEffect
  <2>. QED
    BY <1>1, <1>3, <2>2 DEF Spilled
<1>4. CASE val \in LongValue /\ at + 1 # MAXNUMBERVALUES
  <2>. DEFINE p == S[b].kv_pairs[i]
              v == [p.value EXCEPT ![at + 1] = Empty]
              q == [p EXCEPT !.value = v]
  <2>1. R = [S EXCEPT ![l.pod].kv_pairs[l.slot].value[l.at + 1] = Empty]
    BY <1>0, <1>4 DEF StoreStrings
  <2>2. R = WithPair(S, b, i, q)
    BY <2>1 DEF WithPair
  <2>3. p \in Pair /\ p.value \in [Row -> Value \union {Empty}]
    BY <1>1, FieldTypes
  <2>4. v \in [Row -> Value \union {Empty}]
    BY <2>3
  <2>. HIDE DEF p, v
  <2>5. /\ q \in Pair /\ q.readIndex = p.readIndex
        /\ q.numberValues = p.numberValues /\ q.writeIndex = p.writeIndex
    BY <2>3, <2>4 DEF Pair
  <2>. HIDE DEF q
  <2>6. OnlyPair(S, R, b, i) /\ R[b].kv_pairs[i] = q
    BY <1>1, <2>2, <2>5, PairStored
  <2>. QED
    BY <1>1, <1>4, <2>5, <2>6 DEF Spilled, OnlyPair, p
<1>. QED
  BY <1>2, <1>3, <1>4

\* What the stores of writeIndex and of index leave and change.
Published(P, R, l, b, i) ==
    /\ R \in Pods
    /\ R[b].index = IF l.keyExists THEN l.index ELSE (l.index + 1) % NUMBERKVPAIR
    /\ \A c \in PodId : c # b => R[c].index = P[c].index
    /\ \A c \in PodId, j \in Slot : c # b \/ j # i => R[c].kv_pairs[j] = P[c].kv_pairs[j]
    /\ R[b].kv_pairs[i].writeIndex = (l.at + 1) % MAXNUMBERVALUES
    /\ R[b].kv_pairs[i].readIndex = P[b].kv_pairs[i].readIndex
    /\ R[b].kv_pairs[i].numberValues = P[b].kv_pairs[i].numberValues
    /\ R[b].kv_pairs[i].key = P[b].kv_pairs[i].key
    /\ R[b].kv_pairs[i].value = P[b].kv_pairs[i].value

LEMMA PublishEffect ==
    ASSUME NEW P \in Pods, NEW l, NEW b \in PodId, NEW i \in Slot,
           l.pod = b, l.slot = i, l.at \in Row, l.index \in Slot, l.keyExists \in BOOLEAN,
           NEW R, R = Publish(P, l)
    PROVE  Published(P, R, l, b, i)
<1>. DEFINE p == P[b].kv_pairs[i]
            w == (l.at + 1) % MAXNUMBERVALUES
            n == (l.index + (IF l.keyExists THEN 0 ELSE 1)) % NUMBERKVPAIR
            q == [p EXCEPT !.writeIndex = w]
<1>1. p \in Pair
  BY FieldTypes
<1>2. w \in Row
  BY PodAssumption DEF Row
<1>3. n \in Slot /\ n = IF l.keyExists THEN l.index ELSE (l.index + 1) % NUMBERKVPAIR
  BY PodAssumption DEF Slot
<1>4. R = WithIndex(WithPair(P, b, i, q), b, n)
  BY DEF Publish, WithPair, WithIndex
<1>5. PICK S : S = WithPair(P, b, i, q)
  OBVIOUS
<1>6. R = WithIndex(S, b, n)
  BY <1>4, <1>5
<1>. HIDE DEF w, n, p
<1>7. /\ q \in Pair /\ q.writeIndex = w
      /\ q.readIndex = p.readIndex /\ q.numberValues = p.numberValues
      /\ q.key = p.key /\ q.value = p.value
  BY <1>1, <1>2 DEF Pair
<1>. HIDE DEF q
<1>8. OnlyPair(P, S, b, i) /\ S[b].kv_pairs[i] = q
  BY <1>5, <1>7, PairStored
<1>9. S \in Pods
  BY <1>8 DEF OnlyPair
<1>10. OnlyIndex(S, R, b) /\ R[b].index = n
  BY <1>3, <1>6, <1>9, IndexStored
<1>. QED
  BY <1>3, <1>7, <1>8, <1>10 DEF Published, OnlyPair, OnlyIndex, w, p

-----------------------------------------------------------------------------
(* The stores of a read *)

\* Between two segments only cursors of pod b may differ: each of those loaded is one
\* more than it was then.
CursorsStored(P, R, b, rows) ==
    /\ R \in Pods
    /\ \A c \in PodId : R[c].index = P[c].index
    /\ \A c \in PodId : c # b => R[c] = P[c]
    /\ \A i \in Slot :
          /\ R[b].kv_pairs[i].readIndex =
                IF i \in DOMAIN rows THEN (rows[i] + 1) % P[b].kv_pairs[i].numberValues
                ELSE P[b].kv_pairs[i].readIndex
          /\ R[b].kv_pairs[i].writeIndex = P[b].kv_pairs[i].writeIndex
          /\ R[b].kv_pairs[i].numberValues = P[b].kv_pairs[i].numberValues
          /\ R[b].kv_pairs[i].key = P[b].kv_pairs[i].key
          /\ R[b].kv_pairs[i].value = P[b].kv_pairs[i].value

LEMMA CursorsEffect ==
    ASSUME NEW P \in Pods, NEW b \in PodId, NEW rows,
           \A i \in Slot \intersect DOMAIN rows :
              rows[i] \in 0 .. MAXNUMBERVALUES /\ P[b].kv_pairs[i].numberValues > 0,
           NEW R, R = MoveCursors(P, b, rows)
    PROVE  CursorsStored(P, R, b, rows)
<1>. DEFINE p(i) == P[b].kv_pairs[i]
            q(i) == IF i \in DOMAIN rows
                    THEN [p(i) EXCEPT !.readIndex = NextRow(p(i), rows[i])]
                    ELSE p(i)
            pairs == [i \in Slot |-> q(i)]
            pod == [P[b] EXCEPT !.kv_pairs = pairs]
<1>1. ASSUME NEW i \in Slot
      PROVE  /\ q(i) \in Pair
             /\ q(i).readIndex = IF i \in DOMAIN rows THEN (rows[i] + 1) % p(i).numberValues
                                 ELSE p(i).readIndex
             /\ q(i).writeIndex = p(i).writeIndex
             /\ q(i).numberValues = p(i).numberValues
             /\ q(i).key = p(i).key /\ q(i).value = p(i).value
  <2>1. p(i) \in Pair /\ p(i).numberValues \in 0 .. MAXNUMBERVALUES + 1
    BY FieldTypes
  <2>2. CASE i \in DOMAIN rows
    <3>1. /\ NextRow(p(i), rows[i]) = (rows[i] + 1) % p(i).numberValues
          /\ NextRow(p(i), rows[i]) \in 0 .. MAXNUMBERVALUES
      BY <2>1, <2>2, PodAssumption DEF NextRow
    <3>. QED
      BY <2>1, <2>2, <3>1 DEF Pair
  <2>3. CASE i \notin DOMAIN rows
    BY <2>1, <2>3
  <2>. QED
    BY <2>2, <2>3
<1>2. R = [P EXCEPT ![b] = pod]
  BY DEF MoveCursors
<1>. HIDE DEF q
<1>3. pairs \in [Slot -> Pair] /\ \A i \in Slot : pairs[i] = q(i)
  BY <1>1
<1>. HIDE DEF pairs
<1>4. pod \in Pod /\ pod.index = P[b].index /\ pod.kv_pairs = pairs
  BY <1>3, FieldTypes DEF Pod
<1>. HIDE DEF pod
<1>5. R \in [PodId -> Pod] /\ R[b] = pod /\ \A c \in PodId : c # b => R[c] = P[c]
  BY <1>2, <1>4 DEF Pods
<1>6. ASSUME NEW i \in Slot
      PROVE  R[b].kv_pairs[i] = q(i)
  BY <1>3, <1>4, <1>5
<1>7. \A c \in PodId : R[c].index = P[c].index
  BY <1>4, <1>5
<1>. QED
  BY <1>1, <1>5, <1>6, <1>7 DEF Pods, CursorsStored

-----------------------------------------------------------------------------
(* Rows in turn *)

\* A product of a positive number is at least the number.
LEMMA AtLeastOnce ==
    ASSUME NEW m \in Nat \ {0}, NEW d \in Nat \ {0}
    PROVE  m * d >= m
<1>1. m * (d - 1) >= 0
  OBVIOUS
<1>2. m * d = m * (d - 1) + m
  OBVIOUS
<1>. QED
  BY <1>1, <1>2

\* The remainder is the only one there is.
LEMMA OneRemainder ==
    ASSUME NEW m \in Nat \ {0}, NEW q \in Int, NEW r \in 0 .. m - 1
    PROVE  (m * q + r) % m = r
<1>1. PICK a \in Int : a = m * q + r
  OBVIOUS
<1>2. PICK d \in Int, e \in 0 .. m - 1 : e = a % m /\ a = m * d + e
  OBVIOUS
<1>3. m * (q - d) = e - r
  BY <1>1, <1>2
<1>4. CASE q - d = 0
  BY <1>1, <1>2, <1>3, <1>4
<1>5. CASE q - d >= 1
  <2>1. m * (q - d) >= m
    BY <1>5, AtLeastOnce
  <2>. QED
    BY <1>3, <2>1
<1>6. CASE d - q >= 1
  <2>1. m * (d - q) >= m
    BY <1>6, AtLeastOnce
  <2>2. m * (d - q) = r - e
    BY <1>3
  <2>. QED
    BY <2>1, <2>2
<1>. QED
  BY <1>4, <1>5, <1>6

\* And is at most the number itself.
LEMMA RemainderIsLess ==
    ASSUME NEW m \in Nat \ {0}, NEW a \in Nat
    PROVE  a % m \in Nat /\ a % m <= a
<1>1. CASE a < m
  BY <1>1
<1>2. CASE a >= m
  BY <1>2
<1>. QED
  BY <1>1, <1>2

\* Every number is a number of rounds and a remainder.
LEMMA Rounds ==
    ASSUME NEW m \in Nat \ {0}, NEW a \in Nat
    PROVE  \E q \in Int : \E r \in 0 .. m - 1 : r = a % m /\ a = m * q + r
OBVIOUS

\* Turns less than a round apart fall on different rows.
LEMMA TurnsApart ==
    ASSUME NEW m \in Nat \ {0}, NEW a \in Nat, NEW b \in Nat, a < b, b - a < m
    PROVE  a % m # b % m
<1>. SUFFICES ASSUME a % m = b % m PROVE FALSE
  OBVIOUS
<1>1. PICK q \in Int, r \in 0 .. m - 1 : r = a % m /\ a = m * q + r
  BY Rounds
<1>2. PICK d \in Int, s \in 0 .. m - 1 : s = b % m /\ b = m * d + s
  BY Rounds
<1>3. b - a = m * (d - q)
  BY <1>1, <1>2
<1>4. CASE d - q <= 0
  <2>1. m * (q - d) >= 0
    BY <1>4
  <2>2. m * (q - d) = a - b
    BY <1>3
  <2>. QED
    BY <2>1, <2>2
<1>5. CASE d - q >= 1
  <2>1. m * (d - q) >= m
    BY <1>5, AtLeastOnce
  <2>. QED
    BY <1>3, <2>1
<1>. QED
  BY <1>4, <1>5

\* The row after the row of a turn is the row of the next turn.
LEMMA NextTurn ==
    ASSUME NEW m \in Nat \ {0}, NEW a \in Nat
    PROVE  ((a % m) + 1) % m = (a + 1) % m
<1>1. PICK q \in Int, r \in 0 .. m - 1 : r = a % m /\ a = m * q + r
  BY Rounds
<1>2. CASE r + 1 < m
  <2>1. (r + 1) % m = r + 1
    BY <1>2
  <2>2. r + 1 \in 0 .. m - 1
    BY <1>2
  <2>3. (m * q + (r + 1)) % m = r + 1
    BY <2>2, OneRemainder
  <2>4. a + 1 = m * q + (r + 1)
    BY <1>1
  <2>. QED
    BY <1>1, <2>1, <2>3, <2>4
<1>3. CASE r + 1 = m
  <2>1. (r + 1) % m = 0
    BY <1>3
  <2>2. (m * (q + 1) + 0) % m = 0
    BY OneRemainder
  <2>3. a + 1 = m * (q + 1) + 0
    BY <1>1, <1>3
  <2>. QED
    BY <1>1, <2>1, <2>2, <2>3
<1>. QED
  BY <1>2, <1>3

-----------------------------------------------------------------------------
(* The rows of a pair *)

\* Rows that all hold their values also do so with a gap.
LEMMA RowsWithGap ==
    ASSUME NEW pair, NEW other, NEW h \in Seq(Value), NEW gap \in Row, RowsHold(pair, h, -1),
           other.value = pair.value
    PROVE  RowsHold(other, h, gap)
<1>1. \A n \in 1 .. Len(h) : (n - 1) % MAXNUMBERVALUES # -1
  BY PodAssumption
<1>2. \A j \in Row : j # -1
  BY DEF Row
<1>. QED
  BY <1>1, <1>2 DEF RowsHold

\* The next value fills the gap at its turn and takes the place of the oldest.
LEMMA RowsFilled ==
    ASSUME NEW pair, NEW h \in Seq(Value), NEW v \in Value,
           RowsHold(pair, h, Len(h) % MAXNUMBERVALUES), pair.value[Len(h) % MAXNUMBERVALUES] = v
    PROVE  RowsHold(pair, Append(h, v), -1)
<1>. DEFINE L == Len(h)
            g == Append(h, v)
            M == MAXNUMBERVALUES
<1>1. M \in Nat \ {0} /\ L \in Nat
  BY PodAssumption, LenProperties
<1>2. Len(g) = L + 1 /\ g[L + 1] = v /\ \A n \in 1 .. L : g[n] = h[n]
  BY AppendProperties
<1>3. pair.value[L % M] = v
  OBVIOUS
<1>4. ASSUME NEW n \in 1 .. L + 1, (L + 1) - n < M
      PROVE  pair.value[(n - 1) % M] = g[n]
  <2>1. CASE n = L + 1
    BY <1>1, <1>2, <1>3, <2>1
  <2>2. CASE n # L + 1
    <3>1. n \in 1 .. L /\ L - n < M
      BY <1>1, <1>4, <2>2
    <3>2. n - 1 \in Nat /\ n - 1 < L /\ L - (n - 1) < M
      BY <1>1, <1>4, <3>1
    <3>3. (n - 1) % M # L % M
      BY <1>1, <3>2, TurnsApart
    <3>4. pair.value[(n - 1) % M] = h[n]
      BY <3>1, <3>3 DEF RowsHold
    <3>. QED
      BY <1>2, <3>1, <3>4
  <2>. QED
    BY <2>1, <2>2
<1>5. ASSUME NEW j \in Row, j < L + 1
      PROVE  \E n \in 1 .. L + 1 : pair.value[j] = g[n]
  <2>1. CASE j = L % M
    BY <1>1, <1>2, <1>3, <2>1
  <2>2. CASE j # L % M
    <3>1. L < M => L % M = L
      BY <1>1
    <3>2. j < L
      BY <1>1, <1>5, <2>2, <3>1 DEF Row
    <3>3. PICK n \in 1 .. L : pair.value[j] = h[n]
      BY <2>2, <3>2 DEF RowsHold
    <3>. QED
      BY <1>1, <1>2, <3>3
  <2>. QED
    BY <2>1, <2>2
<1>. HIDE DEF L, g, M
<1>6. RowsHold(pair, g, -1)
  BY <1>2, <1>4, <1>5 DEF RowsHold, M
<1>. QED
  BY <1>6 DEF g

\* The counter is one more than the writes of the key that have reached their end.
LEMMA KeptNext ==
    ASSUME NEW n \in Nat
    PROVE  /\ Kept(n + 1) = IF Kept(n) <= MAXNUMBERVALUES THEN Kept(n) + 1 ELSE Kept(n)
           /\ Kept(n) \in 0 .. MAXNUMBERVALUES + 1
           /\ Kept(n) <= n
           /\ Kept(n) > MAXNUMBERVALUES => n > MAXNUMBERVALUES
BY PodAssumption DEF Kept
=============================================================================
