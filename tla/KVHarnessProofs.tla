-------------------------- MODULE KVHarnessProofs ---------------------------
(***************************************************************************)
(* Proofs about KVHarness, for any number of children, rounds, values,     *)
(* launches, failed forks and signals.                                     *)
(***************************************************************************)
EXTENDS KVHarness, FiniteSetTheorems, TLAPS

-----------------------------------------------------------------------------
(* Counting *)

LEMMA Numbers ==
    /\ FORK_NUM \in Nat \ {0} /\ RUN_ITERATIONS \in Nat \ {0} /\ Writes \in Nat \ {0}
    /\ MaxLaunches \in Nat /\ MaxForkFailures \in Nat /\ MaxSignals \in Nat
    /\ FORK_NUM * Writes \in Nat
    /\ 0 \in Process /\ Child \subseteq Process /\ Child \subseteq Nat \ {0}
    /\ 0 \notin Child /\ FORK_NUM \in Child
BY HarnessAssumption DEF Process, Child

LEMMA WritesAreFinite ==
    /\ IsFiniteSet(Child) /\ Cardinality(Child) = FORK_NUM
    /\ IsFiniteSet(Child \X (1 .. Writes))
    /\ Cardinality(Child \X (1 .. Writes)) = FORK_NUM * Writes
<1>1. IsFiniteSet(1 .. FORK_NUM) /\ Cardinality(1 .. FORK_NUM) = FORK_NUM
  BY Numbers, FS_Interval
<1>2. IsFiniteSet(1 .. Writes) /\ Cardinality(1 .. Writes) = Writes
  BY Numbers, FS_Interval
<1>3. IsFiniteSet(Child) /\ Cardinality(Child) = FORK_NUM
  BY <1>1 DEF Child
<1>. QED
  BY <1>2, <1>3, FS_Product

LEMMA CountsAreFinite ==
    /\ IsFiniteSet(ToCome) /\ Cardinality(ToCome) \in Nat
    /\ IsFiniteSet(ToPass) /\ Cardinality(ToPass) \in Nat
<1>1. ToCome \subseteq Child \X (1 .. Writes) /\ ToPass \subseteq Child
  BY DEF ToCome, ToPass
<1>2. IsFiniteSet(ToCome) /\ IsFiniteSet(ToPass)
  BY <1>1, WritesAreFinite, FS_Subset
<1>. QED
  BY <1>2, FS_CardinalityType

LEMMA CountsAreFiniteAfter ==
    /\ IsFiniteSet(ToCome') /\ Cardinality(ToCome') \in Nat
    /\ IsFiniteSet(ToPass') /\ Cardinality(ToPass') \in Nat
<1>1. ToCome' \subseteq Child \X (1 .. Writes) /\ ToPass' \subseteq Child
  BY DEF ToCome, ToPass
<1>2. IsFiniteSet(ToCome') /\ IsFiniteSet(ToPass')
  BY <1>1, WritesAreFinite, FS_Subset
<1>. QED
  BY <1>2, FS_CardinalityType

\* Where the writers still to come are fewer or the same, and no value is stored.
LEMMA ValuesStay ==
    ASSUME HarnessInv, stored' = stored, ToCome' \subseteq ToCome,
           Counting' => Counting,
           (Counting' /\ Calm' /\ failedForks' = 0) =>
               (Calm /\ failedForks = 0 /\ ToCome' = ToCome)
    PROVE  ValuesAgree'
<1>1. Cardinality(ToCome') <= Cardinality(ToCome)
  BY CountsAreFinite, FS_Subset
<1>2. stored \in Nat
  BY DEF HarnessInv, HarnessTypeOK
<1>. QED
  BY <1>1, <1>2, CountsAreFinite, CountsAreFiniteAfter, Numbers DEF HarnessInv, ValuesAgree

\* Where the parent is neither before the store of a result nor among the children.
LEMMA BranchElsewhere ==
    ASSUME pc'[0] \notin {"forked"} \union AtWork, InMain' => from'[0] = "none"
    PROVE  BranchAgrees'
BY DEF BranchAgrees, AtWork

\* Where the parent does not move, and no post is made.
LEMMA BranchStays ==
    ASSUME HarnessInv, pc'[0] = pc[0], n'[0] = n[0], from'[0] = from[0], pids'[0] = pids[0],
           unreaped' = unreaped, failedForks' = failedForks, barrier' \in 0 .. barrier
    PROVE  BranchAgrees' /\ LeftAsChild' = LeftAsChild
<1>1. HarnessTypeOK /\ BranchAgrees
  BY DEF HarnessInv
<1>2. barrier' <= barrier /\ barrier' \in Nat /\ barrier \in Nat /\ failedForks \in Nat
  BY <1>1, Numbers DEF HarnessTypeOK
<1>. QED
  BY <1>1, <1>2 DEF BranchAgrees, LeftAsChild, InMain

LEMMA InitInv == Init => HarnessInv
<1>. SUFFICES ASSUME Init PROVE HarnessInv
  OBVIOUS
<1>. USE Numbers
<1>a. pc \in [Process -> Place] /\ from \in [Process -> Place]
  BY DEF Init, Place, Ended
<1>b. /\ n \in [Process -> 1 .. FORK_NUM + Writes]
      /\ pids \in [Process -> [Child -> {-1, 0} \union Child]]
  BY DEF Init
<1>c. abandoned \in BOOLEAN /\ outsiders \in BOOLEAN
  BY DEF Init
<1>1. HarnessTypeOK
  BY <1>a, <1>b, <1>c DEF Init, HarnessTypeOK, NoNames, Absent
<1>2. PlacesAgree /\ ParentAgrees /\ LastWrites /\ ChildAgrees /\ HandlersAgree
  BY DEF Init, PlacesAgree, ParentAgrees, LastWrites, ChildAgrees, HandlersAgree, Ended, Handling,
         Reaped, Reading, Unforked, Alive, InMain, AtWork
<1>3. ToCome = {} /\ ToPass = {}
  BY DEF ToCome, ToPass, Init, Unforked, AtWork
<1>4. ValuesAgree
  BY <1>3, FS_EmptySet DEF ValuesAgree, Init, Calm, InMain, Ended
<1>5. PostsAgree /\ RoundsAgree /\ CountsAgree /\ OutsidersAreSafe /\ NamesAreGone
  BY DEF PostsAgree, RoundsAgree, CountsAgree, OutsidersAreSafe, NamesAreGone, Init, Calm, InMain, Ended
<1>6. BranchAgrees
  BY DEF Init, BranchAgrees, InMain, Ended
<1>. QED
  BY <1>1, <1>2, <1>4, <1>5, <1>6 DEF HarnessInv

-----------------------------------------------------------------------------
(* The parent *)

LEMMA StartKeeps ==
    ASSUME HarnessInv, Start
    PROVE  HarnessInv'
<1>. USE Numbers
<1>1. /\ pc' = [p \in Process |-> IF p = 0 THEN "round" ELSE "none"]
      /\ pids' = [p \in Process |-> [c \in Child |-> 0]]
      /\ barrier' = 0 /\ unreaped' = {} /\ round' = 1 /\ errors' = 0 /\ failedForks' = 0
      /\ pending' = {} /\ from' = [p \in Process |-> "none"] /\ outsiders' = FALSE
      /\ n' = n /\ stored' = stored
  BY DEF Start
<1>d. pc' \in [Process -> Place] /\ from' \in [Process -> Place]
  BY <1>1 DEF Place, Ended
<1>e. pids' \in [Process -> [Child -> {-1, 0} \union Child]]
  BY <1>1
<1>f. abandoned' \in BOOLEAN /\ outsiders' \in BOOLEAN
  BY <1>1 DEF HarnessInv, HarnessTypeOK, Start
<1>g. names' \in [shm : BOOLEAN, writers : {Absent, 0, 1}, readers : {Absent, 0, 1}]
  BY DEF HarnessInv, HarnessTypeOK, Start
<1>h. launch' \in 0 .. MaxLaunches
  BY DEF HarnessInv, HarnessTypeOK, Start
<1>i. n' \in [Process -> 1 .. FORK_NUM + Writes] /\ stored' \in Nat
  BY <1>1 DEF HarnessInv, HarnessTypeOK
<1>2. HarnessTypeOK'
  BY <1>1, <1>d, <1>e, <1>f, <1>g, <1>h, <1>i DEF HarnessTypeOK
<1>3. pc'[0] = "round" /\ (\A c \in Child : pc'[c] = "none") /\ \A p \in Process : ~ (pc'[p] = "unlink")
  BY <1>1
<1>a. PlacesAgree' /\ LastWrites'
  BY <1>1, <1>3 DEF PlacesAgree, LastWrites, Ended, Reaped, Reading, InMain, AtWork
<1>b. ParentAgrees'
  BY <1>1, <1>3 DEF ParentAgrees, Ended, Reaped, Alive, Unforked
<1>c. ChildAgrees' /\ HandlersAgree'
  BY <1>1, <1>3 DEF ChildAgrees, HandlersAgree, Ended, Handling, Alive, AtWork
<1>4. ToCome' = {}
  BY <1>1 DEF ToCome, Unforked, AtWork
<1>5. ValuesAgree'
  BY <1>3 DEF ValuesAgree, Counting
<1>6. PostsAgree' /\ RoundsAgree' /\ CountsAgree' /\ OutsidersAreSafe' /\ NamesAreGone'
  BY <1>1, CountsAreFiniteAfter
     DEF PostsAgree, RoundsAgree, CountsAgree, OutsidersAreSafe, NamesAreGone, Over, Alive, Ended
<1>7. BranchAgrees'
  BY <1>1, <1>3, BranchElsewhere DEF AtWork
<1>. QED
  BY <1>2, <1>a, <1>b, <1>c, <1>5, <1>6, <1>7 DEF HarnessInv

LEMMA StartRoundKeeps ==
    ASSUME HarnessInv, StartRound
    PROVE  HarnessInv'
<1>. USE Numbers
<1>1. /\ pc[0] = "round" /\ pc' = [pc EXCEPT ![0] = "fork"]
      /\ pids' = [pids EXCEPT ![0] = [c \in Child |-> -1]]
      /\ n' = [n EXCEPT ![0] = 1] /\ stored' = 0
      /\ UNCHANGED <<unreaped, barrier, names, loop, fault, signal>>
  BY DEF StartRound, Goto
<1>2. HarnessTypeOK /\ HarnessTypeOK'
  BY <1>1 DEF HarnessInv, HarnessTypeOK, Place, loop, fault, signal
<1>3. unreaped = {} /\ \A c \in Child : pc[c] \in {"none", "exited"} /\ pc'[c] = pc[c]
  BY <1>1, <1>2 DEF HarnessInv, ParentAgrees, HarnessTypeOK, Reaped
<1>4. pc'[0] = "fork" /\ n'[0] = 1 /\ \A c \in Child : pids'[0][c] = -1 /\ pids'[c] = pids[c]
  BY <1>1, <1>2 DEF HarnessTypeOK
<1>5. PlacesAgree' /\ LastWrites'
  BY <1>1, <1>2, <1>3, <1>4
     DEF HarnessInv, HarnessTypeOK, PlacesAgree, LastWrites, Reading, Process, Child
<1>a. ParentAgrees'
  BY <1>1, <1>3, <1>4
     DEF ParentAgrees, Reaped, Reading, Unforked, Ended, Alive, Settled, Child
<1>b. ChildAgrees'
  BY <1>1, <1>2, <1>3, <1>4
     DEF HarnessInv, ChildAgrees, Ended, Alive, AtWork
<1>6. HandlersAgree'
  BY <1>1, <1>2, <1>3, <1>4
     DEF HarnessInv, HandlersAgree, Ended, Handling, Alive, InMain, Process, Child, signal
<1>7. ToCome' = Child \X (1 .. Writes) /\ ToPass' = Child
  BY <1>4 DEF ToCome, ToPass, Unforked, Child
<1>8. ValuesAgree' /\ PostsAgree'
  BY <1>1, <1>2, <1>4, <1>7, WritesAreFinite
     DEF HarnessInv, HarnessTypeOK, ValuesAgree, PostsAgree, Reaped, fault
<1>9. RoundsAgree' /\ CountsAgree' /\ OutsidersAreSafe' /\ NamesAreGone'
  BY <1>1, <1>2, <1>4
     DEF HarnessInv, HarnessTypeOK, HandlersAgree, RoundsAgree, CountsAgree, OutsidersAreSafe, NamesAreGone,
         Over, Alive, Ended, InMain, Handling, loop, fault, signal
<1>10. BranchAgrees'
  BY <1>1, <1>4, BranchElsewhere DEF HarnessInv, BranchAgrees, AtWork, InMain, Ended, Handling, signal
<1>. QED
  BY <1>2, <1>5, <1>a, <1>b, <1>6, <1>8, <1>9, <1>10 DEF HarnessInv

LEMMA ForkKeeps ==
    ASSUME HarnessInv, Fork
    PROVE  HarnessInv'
<1>. USE Numbers
<1>0. PICK c \in Child : c = n[0]
  BY DEF HarnessInv, PlacesAgree, Fork
<1>1. /\ pc[0] = "fork" /\ c \in Unforked
      /\ pids[0][c] = -1 /\ c \notin unreaped /\ pc[c] \in {"none", "exited"}
  BY <1>0 DEF HarnessInv, ParentAgrees, Unforked, Fork, Child
<1>2. /\ pc' = [pc EXCEPT ![0] = "forked", ![c] = "born"]
      /\ pids' = [pids EXCEPT ![c] = pids[0]]
      /\ n' = [n EXCEPT ![c] = 1]
      /\ unreaped' = unreaped \union {c} /\ pending' = pending \ {c}
      /\ from' = [from EXCEPT ![c] = "none"]
      /\ UNCHANGED <<barrier, store, loop, fault, signals, abandoned, outsiders>>
  BY <1>0 DEF Fork
<1>3. HarnessTypeOK /\ HarnessTypeOK'
  <2>1. HarnessTypeOK
    BY DEF HarnessInv
  <2>2. pc' \in [Process -> Place] /\ from' \in [Process -> Place]
    BY <1>1, <1>2, <2>1 DEF HarnessTypeOK, Place, Ended
  <2>3. pids' \in [Process -> [Child -> {-1, 0} \union Child]]
    BY <1>1, <1>2, <2>1 DEF HarnessTypeOK
  <2>4. n' \in [Process -> 1 .. FORK_NUM + Writes]
    BY <1>1, <1>2, <2>1 DEF HarnessTypeOK
  <2>5. unreaped' \subseteq Child /\ pending' \subseteq Process
    BY <1>1, <1>2, <2>1 DEF HarnessTypeOK
  <2>6. /\ barrier' \in Nat
        /\ names' \in [shm : BOOLEAN, writers : {Absent, 0, 1}, readers : {Absent, 0, 1}]
        /\ stored' \in Nat
        /\ round' \in 0 .. RUN_ITERATIONS /\ errors' \in 0 .. RUN_ITERATIONS
        /\ launch' \in 0 .. MaxLaunches /\ failedForks' \in 0 .. MaxForkFailures
        /\ abandoned' \in BOOLEAN /\ outsiders' \in BOOLEAN
    BY <1>2, <2>1 DEF HarnessTypeOK, store, loop, fault
  <2>. QED
    BY <2>1, <2>2, <2>3, <2>4, <2>5, <2>6 DEF HarnessTypeOK
<1>4. /\ pc'[0] = "forked" /\ pc'[c] = "born" /\ n[0] = c /\ n'[0] = c /\ n'[c] = 1
      /\ from'[0] = from[0] /\ from'[c] = "none" /\ pids'[0] = pids[0] /\ pids'[c] = pids[0]
      /\ \A q \in Process \ {0, c} : pc'[q] = pc[q] /\ n'[q] = n[q] /\ from'[q] = from[q]
                                     /\ pids'[q] = pids[q]
  BY <1>0, <1>1, <1>2, <1>3 DEF HarnessTypeOK
<1>a. \A d \in Child : d # c => (pc'[d] = pc[d] /\ n'[d] = n[d] /\ from'[d] = from[d] /\ pids'[d] = pids[d])
  BY <1>4
<1>b. Unforked \subseteq Child
  BY DEF Unforked
<1>5. Unforked' = Unforked \ {c}
  BY <1>1, <1>4 DEF Unforked, Child
<1>6. PlacesAgree' /\ LastWrites'
  <2>1. PlacesAgree'
    BY <1>1, <1>3, <1>4 DEF HarnessInv, PlacesAgree, AtWork, Ended, Handling, Reaped, Reading
  <2>2. LastWrites'
    BY <1>1, <1>2, <1>3, <1>4 DEF HarnessInv, HarnessTypeOK, LastWrites, InMain, Ended, Handling, Reading, store
  <2>. QED
    BY <2>1, <2>2
<1>7. ParentAgrees'
  <2>1. \A d \in Child : Alive(d)' => d \in unreaped' /\ pids'[0][d] # 0
    BY <1>1, <1>2, <1>4 DEF HarnessInv, ParentAgrees, Alive
  <2>2. ASSUME NEW d \in Unforked'
        PROVE  pids'[0][d] = -1 /\ d \notin unreaped' /\ pc'[d] \in {"none", "exited"}
    <3>1. d \in Unforked /\ d \in Child /\ d # c
      BY <1>5, <1>b
    <3>2. pids[0][d] = -1 /\ d \notin unreaped /\ pc[d] \in {"none", "exited"}
      BY <3>1 DEF HarnessInv, ParentAgrees
    <3>. QED
      BY <1>2, <1>4, <1>a, <3>1, <3>2
  <2>3. pids'[0][c] = -1 /\ c \in unreaped'
    BY <1>1, <1>2, <1>4
  <2>4. ASSUME NEW d \in unreaped', Settled(d)' PROVE pids'[0][d] = d
    <3>1. d \in unreaped /\ Settled(d)
      BY <1>1, <1>2, <1>4, <2>4 DEF Settled
    <3>. QED
      BY <1>1, <1>4, <3>1 DEF HarnessInv, ParentAgrees
  <2>5. ASSUME NEW d \in Child, Settled(d)', pids'[0][d] = -1 PROVE failedForks' # 0
    <3>1. Settled(d) /\ InMain
      BY <1>1, <1>4, <2>5 DEF Settled, InMain, Ended, Handling
    <3>2. InMain => \A b \in Child : (Settled(b) /\ pids[0][b] = -1) => failedForks # 0
      BY DEF HarnessInv, ParentAgrees
    <3>. QED
      BY <1>2, <1>4, <2>5, <3>1, <3>2 DEF fault
  <2>. QED
    BY <1>4, <2>1, <2>2, <2>3, <2>4, <2>5 DEF ParentAgrees, Reaped, Reading
<1>8. ChildAgrees'
  <2>1. ASSUME NEW b \in Child, b < c, pids[0][b] = -1 PROVE failedForks # 0
    <3>1. InMain /\ Settled(b)
      BY <1>0, <1>1, <2>1 DEF InMain, Settled, Ended, Handling
    <3>. QED
      BY <2>1, <3>1 DEF HarnessInv, ParentAgrees
  <2>2. ASSUME NEW d \in Child, d # c
        PROVE  /\ Alive(d)' = Alive(d)
               /\ pc[d] = "kill" => ~ (n[d] > d)
    <3>1. Alive(0)
      BY <1>1 DEF Alive, Ended
    <3>2. ~ AloneIs(d)
      BY <3>1 DEF AloneIs
    <3>. QED
      BY <1>a, <2>2, <3>2 DEF HarnessInv, ChildAgrees, Alive
  <2>3. failedForks' = failedForks
    BY <1>2 DEF fault
  <2>4. ASSUME NEW d \in Child, d # c
        PROVE  /\ Alive(d)' => /\ pids'[d][d] = IF "born" \in {pc'[d], from'[d]} THEN -1 ELSE 0
                               /\ \A b \in Child : (b < d /\ pids'[d][b] = -1) => failedForks' # 0
               /\ pc'[d] = "kill" => n'[d] \in Child /\ (n'[d] > d => from'[d] = "born" /\ AloneIs(d)')
               /\ pc'[d] \in AtWork => n'[d] \in 1 .. Writes /\ from'[d] = "none"
    BY <1>a, <2>2, <2>3, <2>4 DEF HarnessInv, ChildAgrees
  <2>5. pids'[c][c] = -1 /\ \A b \in Child : (b < c /\ pids'[c][b] = -1) => failedForks' # 0
    BY <1>1, <1>4, <2>1, <2>3
  <2>6. pc'[c] # "kill" /\ n'[c] \in 1 .. Writes /\ from'[c] = "none"
    BY <1>4
  <2>. QED
    BY <1>4, <2>4, <2>5, <2>6 DEF ChildAgrees
<1>9. HandlersAgree'
  <2>1. \A p \in Process : pc'[p] # "unlink"
    BY <1>1, <1>4 DEF HarnessInv, HandlersAgree, AloneIs, Alive, Ended
  <2>2. ASSUME NEW d \in Child, pc'[d] = "killed" PROVE \E k \in Child : pc'[k] = "kill"
    <3>1. pc[d] = "killed" /\ InMain
      BY <1>1, <1>4, <1>a, <2>2 DEF InMain, Ended, Handling
    <3>2. PICK k \in Child : pc[k] = "kill"
      BY <3>1 DEF HarnessInv, HandlersAgree
    <3>. QED
      BY <1>1, <1>a, <3>2
  <2>3. ~ outsiders'
    BY <1>1, <1>2 DEF HarnessInv, HandlersAgree, InMain, Ended, Handling
  <2>. QED
    BY <1>4, <2>1, <2>2, <2>3 DEF HandlersAgree, Handling, Ended
<1>10. Calm' => Calm
  BY <1>1, <1>4 DEF Calm, InMain, Ended, Handling
<1>11. ToCome' = ToCome /\ ToPass' = ToPass
  BY <1>a, <1>1, <1>4, <1>5 DEF ToCome, ToPass, AtWork, Child
<1>12. ValuesAgree'
  BY <1>1, <1>2, <1>4, <1>10, <1>11, ValuesStay DEF store, fault, Counting, InMain, Ended, Handling, AtWork
<1>13. PostsAgree'
  BY <1>1, <1>2, <1>4, <1>10, <1>11 DEF HarnessInv, PostsAgree, fault, Reaped, Reading
<1>14. RoundsAgree' /\ CountsAgree' /\ NamesAreGone'
  BY <1>1, <1>2, <1>4
     DEF HarnessInv, RoundsAgree, CountsAgree, NamesAreGone, Over, Alive, Ended, InMain, Handling, loop, fault
<1>15. OutsidersAreSafe'
  BY <1>1, <1>2 DEF HarnessInv, HandlersAgree, OutsidersAreSafe, InMain, Ended, Handling
<1>16. BranchAgrees'
  <2>1. n'[0] \in unreaped'
    BY <1>2, <1>4
  <2>2. from'[0] = "none"
    BY <1>1, <1>4 DEF HarnessInv, BranchAgrees, InMain, Ended, Handling
  <2>. QED
    BY <1>4, <2>1, <2>2 DEF BranchAgrees
<1>. QED
  BY <1>3, <1>6, <1>7, <1>8, <1>9, <1>12, <1>13, <1>14, <1>15, <1>16 DEF HarnessInv

LEMMA ForkFailsKeeps ==
    ASSUME HarnessInv, ForkFails
    PROVE  HarnessInv'
<1>. USE Numbers
<1>0. PICK c \in Child : c = n[0]
  BY DEF HarnessInv, PlacesAgree, ForkFails, Goto
<1>1. /\ pc[0] = "fork" /\ n[0] = c /\ c \in Unforked
      /\ pids[0][c] = -1 /\ c \notin unreaped /\ pc[c] \in {"none", "exited"}
  BY <1>0 DEF HarnessInv, ParentAgrees, Unforked, ForkFails, Goto, Child
<1>2. /\ pc' = [pc EXCEPT ![0] = "forked"] /\ failedForks' = failedForks + 1
      /\ failedForks < MaxForkFailures
      /\ UNCHANGED <<n, pids, unreaped, barrier, store, loop, launch, signal>>
  BY <1>0 DEF ForkFails, Goto
<1>3. HarnessTypeOK /\ HarnessTypeOK'
  <2>1. HarnessTypeOK
    BY DEF HarnessInv
  <2>2. pc' \in [Process -> Place]
    BY <1>1, <1>2, <2>1 DEF HarnessTypeOK, Place
  <2>. QED
    BY <1>1, <1>2, <2>1, <2>2 DEF HarnessTypeOK, store, loop, signal
<1>4. pc'[0] = "forked" /\ \A q \in Child : pc'[q] = pc[q]
  BY <1>1, <1>2, <1>3 DEF HarnessTypeOK
<1>5. Unforked' = Unforked \ {c} /\ failedForks' # 0 /\ failedForks \in Nat
  BY <1>1, <1>2, <1>3, <1>4 DEF Unforked, Child, HarnessTypeOK
<1>6. PlacesAgree' /\ LastWrites'
  <2>1. PlacesAgree'
    BY <1>1, <1>2, <1>4 DEF HarnessInv, PlacesAgree, AtWork, Ended, Handling, Reaped, Reading
  <2>2. LastWrites'
    BY <1>1, <1>2, <1>3, <1>4 DEF HarnessInv, HarnessTypeOK, LastWrites, InMain, Ended, Handling, Reading, store
  <2>. QED
    BY <2>1, <2>2
<1>7. ParentAgrees'
  BY <1>1, <1>2, <1>4, <1>5
     DEF HarnessInv, ParentAgrees, Alive, Reaped, Reading, InMain, Ended, Handling, Settled
<1>8. ChildAgrees'
  <2>1. \A d \in Child : ~ AloneIs(d)
    BY <1>1 DEF AloneIs, Alive, Ended
  <2>2. \A d \in Child : /\ pc'[d] = pc[d] /\ n'[d] = n[d] /\ from'[d] = from[d]
                         /\ pids'[d] = pids[d] /\ Alive(d)' = Alive(d)
    BY <1>2, <1>4 DEF Alive, signal
  <2>. QED
    BY <1>5, <2>1, <2>2 DEF HarnessInv, ChildAgrees
<1>9. HandlersAgree'
  <2>1. \A p \in Process : pc'[p] # "unlink"
    BY <1>1, <1>2, <1>3 DEF HarnessInv, HandlersAgree, HarnessTypeOK, AloneIs, Alive, Ended
  <2>. QED
    BY <1>1, <1>2, <1>4, <2>1 DEF HarnessInv, HandlersAgree, InMain, Ended, Handling, signal
<1>10. Calm' => Calm
  BY <1>1, <1>4 DEF Calm, InMain, Ended, Handling
<1>11. ToCome' \subseteq ToCome /\ ToPass' = ToPass \ {c} /\ c \in ToPass
  BY <1>1, <1>2, <1>4, <1>5 DEF ToCome, ToPass, AtWork
<1>12. ValuesAgree'
  BY <1>1, <1>2, <1>4, <1>5, <1>11, ValuesStay DEF store, Counting, InMain, Ended, Handling, AtWork
<1>13. PostsAgree'
  <2>1. Cardinality(ToPass') = Cardinality(ToPass) - 1
    BY <1>11, CountsAreFinite, FS_RemoveElement
  <2>. QED
    BY <1>1, <1>2, <1>3, <1>4, <1>5, <1>10, <2>1, CountsAreFinite
       DEF HarnessInv, HarnessTypeOK, PostsAgree, Reaped, Reading
<1>14. RoundsAgree' /\ CountsAgree' /\ NamesAreGone' /\ OutsidersAreSafe'
  BY <1>1, <1>2, <1>4, <1>5
     DEF HarnessInv, RoundsAgree, CountsAgree, NamesAreGone, OutsidersAreSafe, Over, Alive, Ended, InMain,
         Handling, loop
<1>15. BranchAgrees'
  <2>1. barrier \in Nat /\ barrier <= failedForks
    BY <1>1, <1>3 DEF HarnessInv, HarnessTypeOK, PostsAgree
  <2>2. from'[0] = "none"
    BY <1>1, <1>2 DEF HarnessInv, BranchAgrees, InMain, Ended, Handling, signal
  <2>. QED
    BY <1>2, <1>4, <1>5, <2>1, <2>2 DEF BranchAgrees
<1>. QED
  BY <1>3, <1>6, <1>7, <1>8, <1>9, <1>12, <1>13, <1>14, <1>15 DEF HarnessInv

\* A step of the parent in main that leaves the children as they are.
ChildrenStay ==
    /\ \A c \in Child : pc'[c] = pc[c] /\ n'[c] = n[c] /\ from'[c] = from[c] /\ pids'[c] = pids[c]
    /\ failedForks' = failedForks /\ outsiders' = outsiders

LEMMA MainStepKeeps ==
    ASSUME HarnessInv, InMain, InMain' \/ LeftAsChild', ChildrenStay
    PROVE  ChildAgrees' /\ HandlersAgree' /\ OutsidersAreSafe' /\ NamesAreGone' /\ (Calm' => Calm)
<1>. USE Numbers
<1>1. Alive(0) /\ (Alive(0)' \/ LeftAsChild') /\ ~ outsiders
  BY DEF InMain, Alive, HarnessInv, HandlersAgree
<1>2. \A c \in Child : ~ AloneIs(c)
  BY <1>1 DEF AloneIs
<1>3. ASSUME NEW c \in Child
      PROVE  /\ Alive(c)' = Alive(c)
             /\ pc[c] = "kill" => ~ (n[c] > c)
             /\ pc[c] # "unlink"
  BY <1>2 DEF ChildrenStay, Alive, HarnessInv, ChildAgrees, HandlersAgree
<1>4. ASSUME NEW c \in Child
      PROVE  /\ Alive(c)' => /\ pids'[c][c] = IF "born" \in {pc'[c], from'[c]} THEN -1 ELSE 0
                             /\ \A b \in Child : (b < c /\ pids'[c][b] = -1) => failedForks' # 0
             /\ pc'[c] = "kill" => n'[c] \in Child /\ (n'[c] > c => from'[c] = "born" /\ AloneIs(c)')
             /\ pc'[c] \in AtWork => n'[c] \in 1 .. Writes /\ from'[c] = "none"
  BY <1>3 DEF HarnessInv, ChildAgrees, ChildrenStay
<1>5. ChildAgrees'
  BY <1>4 DEF ChildAgrees
<1>6. HandlersAgree'
  <2>1. pc'[0] \notin Handling /\ (pc'[0] \in Ended => LeftAsChild')
    BY DEF InMain, LeftAsChild, Handling
  <2>2. \A p \in Process : pc'[p] # "unlink"
    BY <1>3, <2>1 DEF ChildrenStay, Process, Child, Handling
  <2>3. (\E c \in Child : pc'[c] = "killed") => \E c \in Child : pc'[c] = "kill"
    BY DEF HarnessInv, HandlersAgree, ChildrenStay
  <2>. QED
    BY <1>1, <2>1, <2>2, <2>3 DEF HandlersAgree, Handling, ChildrenStay
<1>7. OutsidersAreSafe' /\ NamesAreGone'
  BY <1>1 DEF OutsidersAreSafe, NamesAreGone, Over, ChildrenStay
<1>8. Calm' => Calm
  BY DEF Calm, ChildrenStay
<1>. QED
  BY <1>5, <1>6, <1>7, <1>8

LEMMA StorePidKeeps ==
    ASSUME HarnessInv, StorePid
    PROVE  HarnessInv'
<1>. USE Numbers
<1>0. PICK c \in Child : c = n[0]
  BY DEF HarnessInv, PlacesAgree, StorePid
<1>. DEFINE result == IF c \in unreaped THEN c ELSE -1
<1>1. /\ pc[0] = "forked" /\ n[0] = c
      /\ pids' = [pids EXCEPT ![0][c] = result]
      /\ n' = [n EXCEPT ![0] = IF c = FORK_NUM THEN 1 ELSE c + 1]
      /\ pc' = [pc EXCEPT ![0] = IF c # FORK_NUM THEN "fork" ELSE IF result > 0 THEN "post" ELSE "barrier"]
      /\ UNCHANGED <<unreaped, barrier, store, loop, fault, signal>>
  BY <1>0 DEF StorePid
<1>. HIDE DEF result
<1>2. result \in {-1, c} /\ (c \in unreaped => result = c) /\ (c \notin unreaped => result = -1)
  BY DEF result
<1>3. HarnessTypeOK /\ HarnessTypeOK'
  <2>1. HarnessTypeOK
    BY DEF HarnessInv
  <2>2. pc' \in [Process -> Place]
    BY <1>1, <2>1 DEF HarnessTypeOK, Place
  <2>3. pids' \in [Process -> [Child -> {-1, 0} \union Child]]
    BY <1>1, <1>2, <2>1 DEF HarnessTypeOK
  <2>4. n' \in [Process -> 1 .. FORK_NUM + Writes]
    BY <1>1, <2>1 DEF HarnessTypeOK, Child
  <2>. QED
    BY <1>1, <2>1, <2>2, <2>3, <2>4 DEF HarnessTypeOK, store, loop, fault, signal
<1>4. /\ \A d \in Child : pc'[d] = pc[d] /\ n'[d] = n[d] /\ pids'[d] = pids[d]
      /\ pids'[0][c] = result /\ \A d \in Child : d # c => pids'[0][d] = pids[0][d]
      /\ n'[0] = IF c = FORK_NUM THEN 1 ELSE c + 1
      /\ pc'[0] = IF c # FORK_NUM THEN "fork" ELSE IF result > 0 THEN "post" ELSE "barrier"
  BY <1>1, <1>3 DEF HarnessTypeOK
<1>5. ChildrenStay /\ InMain /\ InMain'
  BY <1>1, <1>4 DEF ChildrenStay, InMain, Ended, Handling, fault, signal
<1>6. Unforked' = Unforked
  BY <1>1, <1>4 DEF Unforked, Child
<1>7. PlacesAgree'
  <2>1. /\ \A d \in Child : pc[d] \in Ended \union Handling \union AtWork
        /\ \A p \in Process, d \in Child : pids[p][d] \in {0, -1, d}
    BY DEF HarnessInv, PlacesAgree
  <2>2. \A p \in Process, d \in Child : pids'[p][d] \in {0, -1, d}
    BY <1>2, <1>4, <2>1 DEF Process, Child
  <2>. QED
    BY <1>4, <2>1, <2>2 DEF PlacesAgree, Child, AtWork
<1>8. ParentAgrees'
  <2>1. ASSUME NEW d \in Child, Alive(d)' PROVE d \in unreaped' /\ pids'[0][d] # 0
    BY <1>1, <1>2, <1>4, <2>1 DEF HarnessInv, ParentAgrees, Alive
  <2>2. ASSUME NEW d \in Unforked'
        PROVE  pids'[0][d] = -1 /\ d \notin unreaped' /\ pc'[d] \in {"none", "exited"}
    <3>1. d \in Unforked /\ d \in Child /\ d # c
      BY <1>1, <1>6, <2>2 DEF Unforked
    <3>2. pids[0][d] = -1 /\ d \notin unreaped /\ pc[d] \in {"none", "exited"}
      BY <3>1 DEF HarnessInv, ParentAgrees
    <3>. QED
      BY <1>1, <1>4, <3>1, <3>2
  <2>3. ASSUME NEW d \in Child, Settled(d)', d # c PROVE Settled(d)
    BY <1>1, <1>4, <2>3 DEF Settled, Child
  <2>4. ASSUME NEW d \in unreaped', Settled(d)' PROVE pids'[0][d] = d
    <3>1. d \in Child /\ d \in unreaped
      BY <1>1, <1>3, <2>4 DEF HarnessTypeOK
    <3>2. d # c => pids[0][d] = d
      BY <1>1, <2>3, <2>4, <3>1 DEF HarnessInv, ParentAgrees
    <3>. QED
      BY <1>2, <1>4, <3>1, <3>2
  <2>5. ASSUME NEW d \in Child, Settled(d)', pids'[0][d] = -1 PROVE failedForks' # 0
    <3>1. failedForks' = failedForks
      BY <1>1 DEF fault
    <3>2. CASE d = c
      <4>1. c \notin unreaped
        BY <1>2, <1>4, <2>5, <3>2
      <4>. QED
        BY <1>1, <3>1, <4>1 DEF HarnessInv, ParentAgrees
    <3>3. CASE d # c
      <4>1. InMain => \A b \in Child : (Settled(b) /\ pids[0][b] = -1) => failedForks # 0
        BY DEF HarnessInv, ParentAgrees
      <4>. QED
        BY <1>4, <1>5, <2>3, <2>5, <3>1, <3>3, <4>1
    <3>. QED
      BY <3>2, <3>3
  <2>. QED
    BY <1>4, <2>1, <2>2, <2>4, <2>5 DEF ParentAgrees, Reaped, Reading
<1>9. LastWrites'
  <2>1. \A d \in unreaped' : pc'[d] \in {"none", "exited"} => stored' > 0
    BY <1>1, <1>3, <1>4, <1>5 DEF HarnessInv, HarnessTypeOK, LastWrites, store
  <2>2. pc'[0] = "post" => FORK_NUM \in unreaped'
    BY <1>1, <1>2, <1>4
  <2>. QED
    BY <1>4, <2>1, <2>2 DEF LastWrites, Reading
<1>10. ChildAgrees' /\ HandlersAgree' /\ OutsidersAreSafe' /\ NamesAreGone' /\ (Calm' => Calm)
  BY <1>5, MainStepKeeps
<1>11. ToCome' = ToCome /\ ToPass' = ToPass
  BY <1>4, <1>6 DEF ToCome, ToPass
<1>12. ValuesAgree'
  BY <1>1, <1>5, <1>10, <1>11, ValuesStay DEF store, fault, Counting, AtWork
<1>13. PostsAgree'
  BY <1>1, <1>4, <1>10, <1>11 DEF HarnessInv, PostsAgree, fault, Reaped, Reading
<1>14. RoundsAgree' /\ CountsAgree'
  BY <1>1, <1>5 DEF HarnessInv, RoundsAgree, CountsAgree, loop, fault
<1>15. BranchAgrees'
  <2>1. from'[0] = "none" /\ barrier' = barrier /\ failedForks' = failedForks
    BY <1>1, <1>5 DEF HarnessInv, BranchAgrees, fault, signal
  <2>2. pc'[0] = "barrier" => c = FORK_NUM /\ pids'[0][FORK_NUM] = -1 /\ c \notin unreaped
    BY <1>2, <1>4
  <2>3. c \notin unreaped => barrier < failedForks
    BY <1>1 DEF HarnessInv, BranchAgrees
  <2>. QED
    BY <1>4, <2>1, <2>2, <2>3 DEF BranchAgrees
<1>. QED
  BY <1>3, <1>7, <1>8, <1>9, <1>10, <1>12, <1>13, <1>14, <1>15 DEF HarnessInv

LEMMA PostKeeps ==
    ASSUME HarnessInv, Post
    PROVE  HarnessInv'
<1>. USE Numbers
<1>1. /\ pc[0] = "post" /\ pc' = [pc EXCEPT ![0] = "wait"]
      /\ names' = [names EXCEPT !.shm = TRUE] /\ barrier' = barrier + FORK_NUM
      /\ UNCHANGED <<n, pids, unreaped, stored, loop, fault, signal>>
  BY DEF Post, PostTimes, Goto
<1>2. HarnessTypeOK /\ HarnessTypeOK'
  <2>1. HarnessTypeOK
    BY DEF HarnessInv
  <2>2. pc' \in [Process -> Place]
    BY <1>1, <2>1 DEF HarnessTypeOK, Place
  <2>3. barrier' \in Nat
    BY <1>1, <2>1 DEF HarnessTypeOK
  <2>4. names' \in [shm : BOOLEAN, writers : {Absent, 0, 1}, readers : {Absent, 0, 1}]
    BY <1>1, <2>1 DEF HarnessTypeOK
  <2>. QED
    BY <1>1, <2>1, <2>2, <2>3, <2>4 DEF HarnessTypeOK, loop, fault, signal
<1>3. pc'[0] = "wait" /\ \A c \in Child : pc'[c] = pc[c]
  BY <1>1, <1>2 DEF HarnessTypeOK
<1>4. ChildrenStay /\ InMain /\ InMain'
  BY <1>1, <1>3 DEF ChildrenStay, InMain, Ended, Handling, fault, signal
<1>5. n[0] = 1 /\ FORK_NUM \in unreaped /\ unreaped \subseteq Child
  BY <1>1, <1>2 DEF HarnessInv, HarnessTypeOK, PlacesAgree, LastWrites
<1>6. PlacesAgree'
  BY <1>1, <1>3, <1>5 DEF HarnessInv, PlacesAgree, Child, AtWork
<1>9. LastWrites'
  BY <1>1, <1>3, <1>4, <1>5 DEF HarnessInv, LastWrites, Reading
<1>7. Unforked' = {} /\ Unforked = {}
  BY <1>1, <1>3 DEF Unforked
<1>8. ParentAgrees'
  BY <1>1, <1>3, <1>4, <1>5, <1>7
     DEF HarnessInv, ParentAgrees, Alive, Settled, Reaped, Reading, Child, fault
<1>10. ChildAgrees' /\ HandlersAgree' /\ OutsidersAreSafe' /\ NamesAreGone' /\ (Calm' => Calm)
  BY <1>4, MainStepKeeps
<1>11. ToCome' = ToCome /\ ToPass' = ToPass
  BY <1>1, <1>3, <1>7 DEF ToCome, ToPass
<1>12. ValuesAgree'
  BY <1>1, <1>4, <1>10, <1>11, ValuesStay DEF fault, Counting, AtWork
<1>13. PostsAgree'
  BY <1>1, <1>3, <1>10, <1>11 DEF HarnessInv, PostsAgree, fault
<1>14. RoundsAgree' /\ CountsAgree'
  BY <1>1, <1>4 DEF HarnessInv, RoundsAgree, CountsAgree, loop, fault
<1>15. BranchAgrees'
  BY <1>1, <1>3, <1>4, BranchElsewhere DEF HarnessInv, BranchAgrees, AtWork, signal
<1>. QED
  BY <1>2, <1>6, <1>8, <1>9, <1>10, <1>12, <1>13, <1>14, <1>15 DEF HarnessInv

\* After the turn for a child, no child up to it is left to wait for.
LEMMA WaitReaps ==
    ASSUME HarnessInv, Wait, NEW d \in unreaped'
    PROVE  d \in unreaped /\ d > n[0]
<1>. USE Numbers
<1>1. pc[0] = "wait" /\ n[0] \in Child /\ unreaped \subseteq Child
  BY DEF HarnessInv, HarnessTypeOK, PlacesAgree, Wait, WaitUpTo
<1>2. \/ \E c \in Waitable(pids[0][n[0]]) : unreaped' = unreaped \ {c}
      \/ Waitable(pids[0][n[0]]) = {} /\ unreaped' = unreaped
  BY DEF Wait, WaitUpTo
<1>3. d \in unreaped
  BY <1>2
<1>4. \A c \in unreaped : c >= n[0] /\ pids[0][c] = c
  BY <1>1 DEF HarnessInv, ParentAgrees, Settled
<1>5. d # n[0]
  <2>1. SUFFICES ASSUME d = n[0] PROVE FALSE
    OBVIOUS
  <2>2. pids[0][n[0]] = n[0] /\ n[0] # -1
    BY <1>1, <1>3, <1>4, <2>1
  <2>3. Waitable(pids[0][n[0]]) = {n[0]}
    BY <1>3, <2>1, <2>2 DEF Waitable
  <2>. QED
    BY <1>2, <2>1, <2>3
<1>. QED
  <2>1. d \in Nat /\ n[0] \in Nat /\ d >= n[0]
    BY <1>1, <1>3, <1>4
  <2>. QED
    BY <1>3, <1>5, <2>1

LEMMA WaitKeeps ==
    ASSUME HarnessInv, Wait
    PROVE  HarnessInv'
<1>. USE Numbers
<1>0. PICK k \in Child : k = n[0]
  BY DEF HarnessInv, PlacesAgree, Wait, WaitUpTo
<1>1. /\ pc[0] = "wait" /\ n[0] = k
      /\ n' = [n EXCEPT ![0] = IF k = FORK_NUM THEN 1 ELSE k + 1]
      /\ pc' = [pc EXCEPT ![0] = IF k = FORK_NUM THEN "read" ELSE "wait"]
      /\ UNCHANGED <<pids, barrier, store, loop, fault, signal>>
  <2>1. n[0] >= FORK_NUM <=> k = FORK_NUM
    BY <1>0 DEF Child
  <2>2. pc[0] = "wait" /\ UNCHANGED <<pids, barrier, store, loop, fault, signal>>
    BY DEF Wait, WaitUpTo
  <2>3. n' = [n EXCEPT ![0] = IF k = FORK_NUM THEN 1 ELSE k + 1]
    BY <1>0, <2>1 DEF Wait, WaitUpTo
  <2>4. pc' = [pc EXCEPT ![0] = IF k = FORK_NUM THEN "read" ELSE "wait"]
    BY <1>0, <2>1, <2>2 DEF Wait, WaitUpTo
  <2>. QED
    BY <1>0, <2>2, <2>3, <2>4
<1>2. /\ unreaped' \subseteq unreaped
      /\ \A c \in unreaped \ unreaped' : ~ Alive(c)
      /\ \A c \in unreaped' : c > k
  BY <1>1, WaitReaps DEF Wait, WaitUpTo
<1>3. HarnessTypeOK /\ HarnessTypeOK'
  <2>1. HarnessTypeOK
    BY DEF HarnessInv
  <2>2. pc' \in [Process -> Place]
    BY <1>1, <2>1 DEF HarnessTypeOK, Place
  <2>4. n' \in [Process -> 1 .. FORK_NUM + Writes]
    BY <1>1, <2>1 DEF HarnessTypeOK, Child
  <2>. QED
    BY <1>1, <1>2, <2>1, <2>2, <2>4 DEF HarnessTypeOK, store, loop, fault, signal
<1>4. /\ \A d \in Child : pc'[d] = pc[d] /\ n'[d] = n[d]
      /\ n'[0] = IF k = FORK_NUM THEN 1 ELSE k + 1
      /\ pc'[0] = IF k = FORK_NUM THEN "read" ELSE "wait"
  BY <1>1, <1>3 DEF HarnessTypeOK
<1>5. ChildrenStay /\ InMain /\ InMain'
  BY <1>1, <1>4 DEF ChildrenStay, InMain, Ended, Handling, fault, signal
<1>6. PlacesAgree'
  BY <1>1, <1>4 DEF HarnessInv, PlacesAgree, Child, Reaped, Reading, AtWork
<1>7. Unforked' = {} /\ Unforked = {}
  BY <1>1, <1>4 DEF Unforked
<1>8. unreaped \subseteq Child /\ (k = FORK_NUM => unreaped' = {})
  BY <1>2, <1>3 DEF HarnessTypeOK, Child
<1>9. ASSUME k = FORK_NUM, NEW c \in Child PROVE pc'[c] \in {"none", "exited"}
  <2>1. ~ Alive(c)
    BY <1>2, <1>8, <1>9 DEF HarnessInv, ParentAgrees
  <2>2. pc[c] # "killed"
    <3>1. SUFFICES ASSUME pc[c] = "killed" PROVE FALSE
      OBVIOUS
    <3>2. PICK d \in Child : pc[d] = "kill"
      BY <1>5, <3>1 DEF HarnessInv, HandlersAgree
    <3>3. Alive(d)
      BY <3>2 DEF Alive, Ended
    <3>. QED
      BY <1>2, <1>8, <1>9, <3>3 DEF HarnessInv, ParentAgrees
  <2>. QED
    BY <1>4, <2>1, <2>2 DEF Alive, Ended
<1>10. ParentAgrees'
  <2>1. \A c \in Child : Alive(c)' => c \in unreaped' /\ pids'[0][c] # 0
    BY <1>1, <1>2, <1>4 DEF HarnessInv, ParentAgrees, Alive
  <2>2. \A c \in unreaped' : pids'[0][c] = c
    BY <1>1, <1>2 DEF HarnessInv, ParentAgrees, Settled
  <2>3. \A c \in Child : pids'[0][c] = -1 => failedForks' # 0
    BY <1>1, <1>5 DEF HarnessInv, ParentAgrees, Settled, fault
  <2>4. pc'[0] = "wait" => \A c \in unreaped' : c >= n'[0]
    BY <1>2, <1>4, <1>8 DEF Child
  <2>5. pc'[0] \in Reaped => unreaped' = {} /\ \A c \in Child : pc'[c] \in {"none", "exited"}
    BY <1>4, <1>8, <1>9 DEF Reaped, Reading
  <2>. QED
    BY <1>4, <1>7, <2>1, <2>2, <2>3, <2>4, <2>5 DEF ParentAgrees
<1>11. LastWrites'
  <2>1. InMain => \A c \in unreaped : pc[c] \in {"none", "exited"} => stored > 0
    BY DEF HarnessInv, LastWrites
  <2>2. FORK_NUM \in unreaped \/ stored > 0 \/ \E c \in Child : pc[c] = "killed"
    BY <1>1 DEF HarnessInv, LastWrites
  <2>3. FORK_NUM \in unreaped' \/ stored > 0 \/ \E c \in Child : pc'[c] = "killed"
    <3>1. CASE FORK_NUM \in unreaped \ unreaped'
      <4>1. pc[FORK_NUM] \in Ended
        BY <1>2, <3>1 DEF Alive
      <4>. QED
        BY <1>4, <1>5, <2>1, <3>1, <4>1 DEF Ended
    <3>. QED
      BY <1>4, <2>2, <3>1
  <2>4. k = FORK_NUM => stored > 0
    BY <1>8, <1>9, <2>3
  <2>. QED
    BY <1>1, <1>2, <1>4, <1>5, <1>8, <2>1, <2>3, <2>4 DEF LastWrites, Reading, store
<1>12. ChildAgrees' /\ HandlersAgree' /\ OutsidersAreSafe' /\ NamesAreGone' /\ (Calm' => Calm)
  BY <1>5, MainStepKeeps
<1>13. ToCome' = ToCome /\ ToPass' = ToPass
  BY <1>4, <1>7 DEF ToCome, ToPass
<1>14. ValuesAgree'
  BY <1>1, <1>5, <1>12, <1>13, ValuesStay DEF store, fault, Counting, AtWork
<1>15. PostsAgree'
  BY <1>1, <1>4, <1>12, <1>13 DEF HarnessInv, PostsAgree, fault, Reaped, Reading
<1>16. RoundsAgree' /\ CountsAgree'
  BY <1>1, <1>5 DEF HarnessInv, RoundsAgree, CountsAgree, loop, fault
<1>17. BranchAgrees'
  BY <1>1, <1>4, <1>5, BranchElsewhere DEF HarnessInv, BranchAgrees, AtWork, signal
<1>. QED
  BY <1>3, <1>6, <1>10, <1>11, <1>12, <1>14, <1>15, <1>16, <1>17 DEF HarnessInv

\* The steps of the parent when it has waited for all children: nobody else is alive.
ReapedStep == ReadAll \/ CountValues \/ DeleteDb \/ Finish

LEMMA ReapedIsAlone ==
    ASSUME HarnessInv, pc[0] \in Reaped
    PROVE  /\ unreaped = {} /\ Unforked = {}
           /\ \A c \in Child : pc[c] \in {"none", "exited"} /\ ~ Alive(c)
           /\ Calm /\ ToCome = {} /\ ToPass = {}
<1>1. unreaped = {} /\ \A c \in Child : pc[c] \in {"none", "exited"}
  BY DEF HarnessInv, ParentAgrees
<1>2. Unforked = {}
  BY DEF Unforked, Reaped, Reading
<1>. QED
  BY <1>1, <1>2 DEF Alive, Ended, Calm, InMain, Handling, Reaped, Reading, ToCome, ToPass, AtWork

\* Where a step leads, and what it does to the names and the counters.
LEMMA ReapedStepEffect ==
    ASSUME HarnessInv, ReapedStep
    PROVE  /\ pc[0] \in Reaped /\ pc' = [pc EXCEPT ![0] = pc'[0]]
           /\ \/ pc'[0] \in Reaped
              \/ pc[0] = "end" /\ pc'[0] = "exited" /\ UNCHANGED <<round, names>>
           /\ pc'[0] \in Reading => stored > 0
           /\ pc'[0] = "end" => names' = NoNames
           /\ round' \in 0 .. RUN_ITERATIONS /\ errors' \in 0 .. round'
           /\ pc'[0] \in {"round"} \union Reading => errors' < round'
           /\ errors' > 0 => failedForks # 0
           /\ names' \in [shm : BOOLEAN, writers : {Absent, 0, 1}, readers : {Absent, 0, 1}]
           /\ abandoned' \in BOOLEAN
           /\ UNCHANGED <<n, pids, unreaped, barrier, stored, fault, pending, from, signals, outsiders>>
<1>. USE Numbers
<1>1. HarnessTypeOK /\ RoundsAgree /\ CountsAgree /\ LastWrites
  BY DEF HarnessInv
<1>2. CASE ReadAll
  <2>1. pc[0] \in Reading /\ pc'[0] \in Reading /\ pc' = [pc EXCEPT ![0] = pc'[0]]
    BY <1>1, <1>2 DEF ReadAll, Goto, Reading, HarnessTypeOK
  <2>2. names' \in [shm : BOOLEAN, writers : {Absent, 0, 1}, readers : {Absent, 0, 1}]
    BY <1>1, <1>2 DEF ReadAll, Down, Up, HarnessTypeOK
  <2>3. UNCHANGED <<n, pids, unreaped, barrier, stored, loop, fault, signal>>
    BY <1>2 DEF ReadAll
  <2>4. stored > 0 /\ errors < round
    BY <1>1, <2>1 DEF LastWrites, RoundsAgree, InMain, Ended, Handling, Reading
  <2>. QED
    BY <1>1, <2>1, <2>2, <2>3, <2>4 DEF HarnessTypeOK, CountsAgree, Reaped, Reading, loop, signal
<1>3. CASE CountValues
  <2>1. pc[0] = "count" /\ stored > 0 /\ errors < round
    BY <1>1, <1>3 DEF CountValues, LastWrites, RoundsAgree, InMain, Ended, Handling, Reading
  <2>2. pc' = [pc EXCEPT ![0] = "delete"] /\ pc'[0] = "delete" /\ round' = round
    BY <1>1, <1>3, <2>1 DEF CountValues, HarnessTypeOK
  <2>3. errors' \in {errors, errors + 1} /\ (errors' > 0 => failedForks # 0)
    <3>1. stored = FORK_NUM * Writes \/ failedForks # 0
      <4>1. Calm /\ ToCome = {} /\ Counting
        BY <2>1, ReapedIsAlone DEF Reaped, Reading, Calm, Counting, AtWork
      <4>2. Cardinality(ToCome) = 0
        BY <4>1, FS_EmptySet
      <4>3. failedForks = 0 => stored + Cardinality(ToCome) = FORK_NUM * Writes
        BY <4>1 DEF HarnessInv, ValuesAgree
      <4>. QED
        BY <1>1, <4>2, <4>3 DEF HarnessTypeOK
    <3>. QED
      BY <1>1, <1>3, <3>1 DEF CountValues, CountsAgree
  <2>. QED
    BY <1>1, <1>3, <2>1, <2>2, <2>3 DEF CountValues, HarnessTypeOK, Reaped, Reading, store, signal
<1>4. CASE DeleteDb
  <2>1. pc[0] = "delete" /\ pc[0] \in Reaped
    BY <1>4 DEF DeleteDb, Goto, Reaped
  <2>2. /\ pc' = [pc EXCEPT ![0] = pc'[0]]
        /\ pc'[0] = IF round < RUN_ITERATIONS THEN "round" ELSE "end"
    BY <1>1, <1>4 DEF DeleteDb, Goto, HarnessTypeOK
  <2>3. names' = NoNames /\ NoNames \in [shm : BOOLEAN, writers : {Absent, 0, 1}, readers : {Absent, 0, 1}]
    BY <1>4 DEF DeleteDb, NoNames
  <2>4. /\ round' = (IF round < RUN_ITERATIONS THEN round + 1 ELSE round)
        /\ errors' = errors /\ abandoned' = FALSE
        /\ UNCHANGED <<n, pids, unreaped, barrier, stored, fault, pending, from, signals, outsiders>>
    BY <1>4 DEF DeleteDb
  <2>5. round \in 0 .. RUN_ITERATIONS /\ errors \in 0 .. round /\ (errors > 0 => failedForks # 0)
    BY <1>1 DEF HarnessTypeOK, RoundsAgree, CountsAgree
  <2>6. /\ round' \in 0 .. RUN_ITERATIONS /\ errors' \in 0 .. round'
        /\ pc'[0] \in {"round"} \union Reading => errors' < round'
    BY <2>2, <2>4, <2>5 DEF Reading
  <2>. QED
    BY <2>1, <2>2, <2>3, <2>4, <2>5, <2>6 DEF Reaped, Reading
<1>5. CASE Finish
  <2>1. pc[0] = "end" /\ pc'[0] = "exited" /\ pc' = [pc EXCEPT ![0] = pc'[0]]
    BY <1>1, <1>5 DEF Finish, Goto, HarnessTypeOK
  <2>2. UNCHANGED <<n, pids, unreaped, barrier, store, loop, fault, signal>>
    BY <1>5 DEF Finish
  <2>3. round \in 0 .. RUN_ITERATIONS /\ errors \in 0 .. round /\ (errors > 0 => failedForks # 0)
    BY <1>1 DEF HarnessTypeOK, RoundsAgree, CountsAgree
  <2>. QED
    BY <1>1, <2>1, <2>2, <2>3 DEF HarnessTypeOK, Reaped, Reading, loop, store, signal
<1>. QED
  BY <1>2, <1>3, <1>4, <1>5 DEF ReapedStep

LEMMA ReapedStepKeeps ==
    ASSUME HarnessInv, ReapedStep
    PROVE  HarnessInv'
<1>. USE Numbers
<1>1. pc[0] \in Reaped /\ HarnessTypeOK
  BY ReapedStepEffect DEF HarnessInv
<1>2. /\ pc' = [pc EXCEPT ![0] = pc'[0]]
      /\ pc'[0] \in Reaped \/ (pc[0] = "end" /\ pc'[0] = "exited" /\ UNCHANGED <<round, names>>)
      /\ UNCHANGED <<n, pids, unreaped, barrier, stored, fault, pending, from, signals, outsiders>>
  BY ReapedStepEffect
<1>3. pc'[0] \in Reaped \union {"exited"} /\ \A c \in Child : pc'[c] = pc[c]
  BY <1>1, <1>2 DEF HarnessTypeOK
<1>4. HarnessTypeOK'
  <2>1. pc' \in [Process -> Place]
    BY <1>1, <1>2, <1>3 DEF HarnessTypeOK, Place, Ended, Reaped, Reading
  <2>2. /\ names' \in [shm : BOOLEAN, writers : {Absent, 0, 1}, readers : {Absent, 0, 1}]
        /\ round' \in 0 .. RUN_ITERATIONS /\ errors' \in 0 .. RUN_ITERATIONS /\ abandoned' \in BOOLEAN
    BY ReapedStepEffect
  <2>. QED
    BY <1>1, <1>2, <2>1, <2>2 DEF HarnessTypeOK, fault
<1>5. /\ unreaped = {} /\ Unforked = {} /\ Calm /\ ToCome = {} /\ ToPass = {}
      /\ \A c \in Child : pc[c] \in {"none", "exited"} /\ ~ Alive(c)
  BY <1>1, ReapedIsAlone
<1>6. \A c \in Child : pc'[c] \in {"none", "exited"} /\ ~ Alive(c)'
  BY <1>3, <1>5 DEF Alive
<1>7. Unforked' = {}
  BY <1>3 DEF Unforked, Reaped, Reading
<1>8. PlacesAgree'
  BY <1>2, <1>3, <1>6 DEF HarnessInv, PlacesAgree, Ended, Reaped, Reading, AtWork
<1>9. ParentAgrees'
  <2>1. InMain' => \A c \in Child : (Settled(c)' /\ pids'[0][c] = -1) => failedForks' # 0
    <3>1. InMain => \A c \in Child : (Settled(c) /\ pids[0][c] = -1) => failedForks # 0
      BY DEF HarnessInv, ParentAgrees
    <3>. QED
      BY <1>1, <1>2, <1>5, <3>1 DEF Calm, Settled, Reaped, Reading, fault
  <2>. QED
    BY <1>2, <1>3, <1>5, <1>6, <1>7, <2>1 DEF ParentAgrees, Reaped, Reading
<1>10. LastWrites'
  <2>1. (pc'[0] \in Reading => stored > 0) /\ (pc'[0] = "end" => names' = NoNames)
    BY ReapedStepEffect
  <2>. QED
    BY <1>2, <1>3, <1>5, <2>1 DEF LastWrites, Reaped, Reading
<1>11. ChildAgrees'
  BY <1>6 DEF ChildAgrees, Alive, Ended, AtWork
<1>12. HandlersAgree'
  <2>1. \A p \in Process : pc'[p] # "unlink"
    BY <1>3, <1>6 DEF Process, Child, Reaped, Reading
  <2>2. ~ outsiders'
    BY <1>2, <1>5 DEF HarnessInv, HandlersAgree, Calm
  <2>. QED
    BY <1>3, <1>6, <2>1, <2>2 DEF HandlersAgree, Handling, Ended, Reaped, Reading
<1>13. ToCome' = {} /\ ToPass' = {}
  BY <1>6, <1>7 DEF ToCome, ToPass, AtWork
<1>14. ValuesAgree'
  <2>2. Counting' => Counting
    <3>1. Counting' => pc[0] # "round" /\ InMain
      BY <1>5, ReapedStepEffect
         DEF ReapedStep, ReadAll, CountValues, DeleteDb, Finish, Goto, Calm, Counting
    <3>. QED
      BY <1>1, <3>1 DEF Counting, Reaped, Reading, AtWork
  <2>. QED
    BY <1>2, <1>5, <1>13, <2>2, ValuesStay DEF fault
<1>15. PostsAgree'
  BY <1>1, <1>2, <1>3, <1>5, <1>13, FS_EmptySet
     DEF HarnessInv, HarnessTypeOK, PostsAgree, fault, Reaped, Reading
<1>16. RoundsAgree' /\ CountsAgree'
  <2>1. /\ round' \in 0 .. RUN_ITERATIONS /\ errors' \in 0 .. round'
        /\ pc'[0] \in {"round"} \union Reading => errors' < round'
        /\ errors' > 0 => failedForks # 0
    BY ReapedStepEffect
  <2>. QED
    BY <1>2, <1>3, <2>1 DEF RoundsAgree, CountsAgree, InMain, Ended, Reaped, fault
<1>17. OutsidersAreSafe'
  BY <1>2, <1>5 DEF HarnessInv, HandlersAgree, Calm, OutsidersAreSafe
<1>18. NamesAreGone'
  <2>1. pc[0] = "end" => names = NoNames
    BY DEF HarnessInv, LastWrites
  <2>. QED
    BY <1>2, <2>1 DEF NamesAreGone, Over, Alive, Reaped, Reading, Ended
<1>19. BranchAgrees'
  BY <1>2, <1>3, <1>5, BranchElsewhere
     DEF HarnessInv, BranchAgrees, Calm, AtWork, Reaped, Reading
<1>. QED
  BY <1>4, <1>8, <1>9, <1>10, <1>11, <1>12, <1>14, <1>15, <1>16, <1>17, <1>18, <1>19 DEF HarnessInv

-----------------------------------------------------------------------------
(* The parent in the branch of the children *)

\* What its steps have in common: it passes the barrier only after two failed forks.
LEMMA ParentAsChildMoves ==
    ASSUME HarnessInv, ParentAsChild
    PROVE  /\ pc[0] \in AtWork \ {"born"} /\ pc'[0] \in {"create", "write", "writing", "exited"}
           /\ pc' = [pc EXCEPT ![0] = pc'[0]]
           /\ n' \in [Process -> 1 .. FORK_NUM + Writes] /\ \A c \in Child : n'[c] = n[c]
           /\ pc'[0] # "exited" => n'[0] \in 1 .. Writes
           /\ names' \in [shm : BOOLEAN, writers : {Absent, 0, 1}, readers : {Absent, 0, 1}]
           /\ barrier' \in 0 .. barrier /\ stored' \in Nat /\ stored' >= stored
           /\ pids[0][FORK_NUM] = -1 /\ failedForks > 1 /\ from[0] = "none"
           /\ UNCHANGED <<pids, unreaped, loop, fault, signal>>
<1>. USE Numbers
<1>1. HarnessTypeOK /\ BranchAgrees /\ PlacesAgree
  BY DEF HarnessInv
<1>2. /\ pc[0] \in AtWork \ {"born"} /\ pc'[0] \in {"create", "write", "writing", "exited"}
      /\ pc' = [pc EXCEPT ![0] = pc'[0]]
      /\ UNCHANGED <<pids, unreaped, loop, fault, signal>>
  BY <1>1 DEF ParentAsChild, Pass, GoOn, CreateStore, EnterWrite, LeaveWrite, Goto, AtWork, HarnessTypeOK
<1>3. n[0] \in 1 .. Writes /\ from[0] = "none"
  BY <1>1, <1>2 DEF PlacesAgree, BranchAgrees, InMain, Ended, Handling, AtWork
<1>4. /\ n' \in [Process -> 1 .. FORK_NUM + Writes] /\ \A c \in Child : n'[c] = n[c]
      /\ pc'[0] # "exited" => n'[0] \in 1 .. Writes
  <2>1. CASE LeaveWrite(0)
    <3>1. n' = [n EXCEPT ![0] = @ + 1] /\ pc'[0] = IF n[0] = Writes THEN "exited" ELSE "write"
      BY <1>1, <2>1 DEF LeaveWrite, Goto, HarnessTypeOK
    <3>. QED
      BY <1>1, <1>3, <3>1 DEF HarnessTypeOK
  <2>2. CASE ~ LeaveWrite(0)
    <3>1. n' = n
      BY <2>2 DEF ParentAsChild, Pass, GoOn, CreateStore, EnterWrite
    <3>. QED
      BY <1>1, <1>3, <3>1 DEF HarnessTypeOK
  <2>. QED
    BY <2>1, <2>2
<1>5. names' \in [shm : BOOLEAN, writers : {Absent, 0, 1}, readers : {Absent, 0, 1}]
  BY <1>1 DEF ParentAsChild, Pass, GoOn, CreateStore, EnterWrite, LeaveWrite, Down, Up, store, HarnessTypeOK
<1>6. barrier' \in 0 .. barrier /\ stored' \in Nat /\ stored' >= stored
  BY <1>1 DEF ParentAsChild, Pass, GoOn, CreateStore, EnterWrite, LeaveWrite, store, HarnessTypeOK
<1>7. pc[0] = "barrier" => barrier > 0
  BY DEF ParentAsChild, Pass, GoOn, CreateStore, EnterWrite, LeaveWrite, Goto
<1>8. pids[0][FORK_NUM] = -1 /\ failedForks > 1
  <2>1. barrier \in Nat /\ failedForks \in Nat
    BY <1>1 DEF HarnessTypeOK
  <2>. QED
    BY <1>1, <1>2, <1>7, <2>1 DEF BranchAgrees, AtWork
<1>. QED
  BY <1>2, <1>3, <1>4, <1>5, <1>6, <1>8

LEMMA ParentAsChildKeeps ==
    ASSUME HarnessInv, ParentAsChild
    PROVE  HarnessInv'
<1>. USE Numbers
<1>1. /\ pc[0] \in AtWork \ {"born"} /\ pc'[0] \in {"create", "write", "writing", "exited"}
      /\ pc' = [pc EXCEPT ![0] = pc'[0]]
      /\ n' \in [Process -> 1 .. FORK_NUM + Writes] /\ \A c \in Child : n'[c] = n[c]
      /\ pc'[0] # "exited" => n'[0] \in 1 .. Writes
      /\ names' \in [shm : BOOLEAN, writers : {Absent, 0, 1}, readers : {Absent, 0, 1}]
      /\ barrier' \in 0 .. barrier /\ stored' \in Nat /\ stored' >= stored
      /\ pids[0][FORK_NUM] = -1 /\ failedForks > 1 /\ from[0] = "none"
      /\ UNCHANGED <<pids, unreaped, loop, fault, signal>>
  BY ParentAsChildMoves
<1>2. HarnessTypeOK /\ HarnessTypeOK'
  <2>1. HarnessTypeOK
    BY DEF HarnessInv
  <2>2. pc' \in [Process -> Place]
    BY <1>1, <2>1 DEF HarnessTypeOK, Place, Ended
  <2>3. barrier' \in Nat
    BY <1>1, <2>1 DEF HarnessTypeOK
  <2>. QED
    BY <1>1, <2>1, <2>2, <2>3 DEF HarnessTypeOK, loop, fault, signal
<1>3. \A c \in Child : pc'[c] = pc[c]
  BY <1>1, <1>2 DEF HarnessTypeOK
<1>4. ChildrenStay /\ InMain /\ (pc'[0] # "exited" => InMain')
  BY <1>1, <1>3 DEF ChildrenStay, InMain, Ended, Handling, AtWork, fault, signal
<1>5. failedForks' = failedForks /\ from'[0] = "none" /\ pids' = pids /\ unreaped' = unreaped
  BY <1>1 DEF fault, signal
<1>6. pc'[0] = "exited" => LeftAsChild'
  BY <1>1, <1>5 DEF LeftAsChild
<1>7. ChildAgrees' /\ HandlersAgree' /\ OutsidersAreSafe' /\ NamesAreGone' /\ (Calm' => Calm)
  BY <1>4, <1>6, MainStepKeeps
<1>8. Unforked' = {}
  BY <1>1 DEF Unforked
<1>9. PlacesAgree'
  BY <1>1, <1>3 DEF HarnessInv, PlacesAgree, Ended, AtWork
<1>10. ParentAgrees'
  <2>1. \A c \in Child : Alive(c)' => c \in unreaped' /\ pids'[0][c] # 0
    BY <1>3, <1>5 DEF HarnessInv, ParentAgrees, Alive
  <2>2. InMain' => \A c \in Child : (Settled(c)' /\ pids'[0][c] = -1) => failedForks' # 0
    BY <1>1, <1>5
  <2>. QED
    BY <1>1, <1>8, <2>1, <2>2 DEF ParentAgrees, Reaped, Reading
<1>11. LastWrites'
  <2>1. \A c \in unreaped : pc[c] \in {"none", "exited"} => stored > 0
    BY <1>4 DEF HarnessInv, LastWrites
  <2>2. unreaped \subseteq Child /\ stored \in Nat
    BY <1>2 DEF HarnessTypeOK
  <2>. QED
    BY <1>1, <1>3, <1>5, <2>1, <2>2 DEF LastWrites, Reading
<1>12. ValuesAgree'
  BY <1>1 DEF ValuesAgree, Counting, InMain, Ended, AtWork
<1>13. PostsAgree'
  BY <1>1 DEF PostsAgree, Reaped, Reading
<1>14. BranchAgrees'
  BY <1>1, <1>5 DEF BranchAgrees
<1>15. RoundsAgree' /\ CountsAgree'
  BY <1>1, <1>4 DEF HarnessInv, RoundsAgree, CountsAgree, AtWork, loop, fault
<1>. QED
  BY <1>2, <1>7, <1>9, <1>10, <1>11, <1>12, <1>13, <1>14, <1>15 DEF HarnessInv

-----------------------------------------------------------------------------
(* The children *)

\* What the steps of a child have in common.
ChildMoves(c) ==
    /\ pc[c] \in AtWork /\ pc'[c] \in (AtWork \ {"born"}) \union {"exited"}
    /\ n'[c] \in 1 .. Writes + 1 /\ (pc'[c] # "exited" => n'[c] <= Writes)
    /\ pids'[c][c] = 0 /\ \A b \in Child : b # c => pids'[c][b] = pids[c][b]
    /\ \A q \in Process : q # c => pc'[q] = pc[q] /\ n'[q] = n[q] /\ pids'[q] = pids[q]
    /\ pc' \in [Process -> Place] /\ n' \in [Process -> 1 .. FORK_NUM + Writes]
    /\ pids' \in [Process -> [Child -> {-1, 0} \union Child]]
    /\ names' \in [shm : BOOLEAN, writers : {Absent, 0, 1}, readers : {Absent, 0, 1}]
    /\ barrier' \in 0 .. barrier /\ stored' >= stored /\ stored' \in Nat
    /\ stored' + Cardinality(ToCome') = stored + Cardinality(ToCome)
    /\ barrier' + Cardinality(ToPass) = barrier + Cardinality(ToPass')
    /\ pc'[c] = "exited" => stored' > 0
    /\ UNCHANGED <<unreaped, loop, fault, signal>>

\* The places of the others do not change, and neither do the sets that count them.
LEMMA OthersCount ==
    ASSUME HarnessInv, NEW c \in Child, pc[c] \in AtWork,
           \A q \in Process : q # c => pc'[q] = pc[q] /\ n'[q] = n[q]
    PROVE  /\ Unforked' = Unforked /\ c \notin Unforked
           /\ ToPass' \ {c} = ToPass \ {c}
           /\ \A x \in Child \X (1 .. Writes) : x[1] # c => (x \in ToCome' <=> x \in ToCome)
           /\ \A x \in Child \X (1 .. Writes) : x[1] = c => (x \in ToCome <=> x[2] >= n[c])
           /\ \A x \in Child \X (1 .. Writes) :
                 x[1] = c => (x \in ToCome' <=> (pc'[c] \in AtWork /\ x[2] >= n'[c]))
           /\ c \in ToPass <=> pc[c] \in {"born", "barrier"}
           /\ c \in ToPass' <=> pc'[c] \in {"born", "barrier"}
<1>. USE Numbers
<1>1. c # 0 /\ \A d \in Child : d # c => pc'[d] = pc[d] /\ n'[d] = n[d]
  OBVIOUS
<1>2. Unforked' = Unforked
  BY <1>1 DEF Unforked
<1>3. c \notin Unforked
  <2>1. \A d \in Unforked : pc[d] \in {"none", "exited"}
    BY DEF HarnessInv, ParentAgrees
  <2>. QED
    BY <2>1 DEF AtWork
<1>4. ToPass' \ {c} = ToPass \ {c}
  BY <1>1, <1>2 DEF ToPass
<1>5. \A x \in Child \X (1 .. Writes) : x[1] # c => (x \in ToCome' <=> x \in ToCome)
  BY <1>1, <1>2 DEF ToCome
<1>6. \A x \in Child \X (1 .. Writes) : x[1] = c => (x \in ToCome <=> x[2] >= n[c])
  BY <1>3 DEF ToCome
<1>7. \A x \in Child \X (1 .. Writes) :
          x[1] = c => (x \in ToCome' <=> (pc'[c] \in AtWork /\ x[2] >= n'[c]))
  BY <1>2, <1>3 DEF ToCome
<1>. QED
  BY <1>2, <1>3, <1>4, <1>5, <1>6, <1>7 DEF ToPass

LEMMA ChildStepMoves ==
    ASSUME HarnessInv, NEW c \in Child, ChildStep(c)
    PROVE  ChildMoves(c)
<1>. USE Numbers
<1>1. HarnessTypeOK
  BY DEF HarnessInv
<1>2. /\ pc[c] \in AtWork /\ c # 0
      /\ pc' = [pc EXCEPT ![c] = pc'[c]] /\ pc'[c] \in (AtWork \ {"born"}) \union {"exited"}
  BY <1>1 DEF ChildStep, StoreZero, StoreResult, Pass, GoOn, CreateStore, EnterWrite, LeaveWrite, Goto,
              AtWork, HarnessTypeOK
<1>3. n[c] \in 1 .. Writes /\ (pc[c] # "born" => pids[c][c] = 0)
  BY <1>2 DEF HarnessInv, ChildAgrees, Alive, Ended, AtWork
<1>4. pc' \in [Process -> Place] /\ \A q \in Process : q # c => pc'[q] = pc[q]
  BY <1>1, <1>2 DEF HarnessTypeOK, Place, Ended, AtWork
<1>5. UNCHANGED <<unreaped, loop, fault, signal>>
  BY DEF ChildStep, StoreZero, StoreResult, Pass, GoOn, CreateStore, EnterWrite, LeaveWrite
<1>6. names' \in [shm : BOOLEAN, writers : {Absent, 0, 1}, readers : {Absent, 0, 1}]
  BY <1>1 DEF ChildStep, StoreZero, StoreResult, Pass, GoOn, CreateStore, EnterWrite, LeaveWrite,
              Down, Up, store, HarnessTypeOK
<1>7. CASE LeaveWrite(c)
  <2>1. /\ pc[c] = "writing" /\ pc'[c] = IF n[c] = Writes THEN "exited" ELSE "write"
        /\ stored' = stored + 1 /\ n' = [n EXCEPT ![c] = @ + 1] /\ UNCHANGED <<pids, barrier>>
    BY <1>1, <1>7 DEF LeaveWrite, Goto, HarnessTypeOK
  <2>2. /\ n' \in [Process -> 1 .. FORK_NUM + Writes] /\ n'[c] = n[c] + 1
        /\ \A q \in Process : q # c => n'[q] = n[q]
    BY <1>1, <1>3, <2>1 DEF HarnessTypeOK
  <2>3. <<c, n[c]>> \in ToCome /\ ToCome' = ToCome \ {<<c, n[c]>>}
    <3>1. ToCome \subseteq Child \X (1 .. Writes) /\ ToCome' \subseteq Child \X (1 .. Writes)
      BY DEF ToCome
    <3>2. /\ \A x \in Child \X (1 .. Writes) : x[1] # c => (x \in ToCome' <=> x \in ToCome)
          /\ \A x \in Child \X (1 .. Writes) : x[1] = c => (x \in ToCome <=> x[2] >= n[c])
          /\ \A x \in Child \X (1 .. Writes) :
                x[1] = c => (x \in ToCome' <=> (pc'[c] \in AtWork /\ x[2] >= n'[c]))
      BY <1>2, <1>4, <2>2, OthersCount
    <3>3. ASSUME NEW d \in Child, NEW i \in 1 .. Writes
          PROVE  <<d, i>> \in ToCome' <=> <<d, i>> \in ToCome /\ <<d, i>> # <<c, n[c]>>
      <4>1. pc'[c] \in AtWork <=> n[c] # Writes
        BY <2>1 DEF AtWork
      <4>2. <<d, i>> \in Child \X (1 .. Writes) /\ <<d, i>>[1] = d /\ <<d, i>>[2] = i
        OBVIOUS
      <4>3. CASE d = c
        <5>1. <<d, i>> \in ToCome <=> i >= n[c]
          BY <3>2, <4>2, <4>3
        <5>2. <<d, i>> \in ToCome' <=> (n[c] # Writes /\ i >= n[c] + 1)
          BY <2>2, <3>2, <4>1, <4>2, <4>3
        <5>. QED
          BY <1>3, <4>3, <5>1, <5>2
      <4>. QED
        BY <3>2, <4>2, <4>3
    <3>4. <<c, n[c]>> \in ToCome
      BY <1>3, <3>2
    <3>5. ASSUME NEW x \in Child \X (1 .. Writes)
          PROVE  x \in ToCome' <=> x \in ToCome /\ x # <<c, n[c]>>
      <4>1. x[1] \in Child /\ x[2] \in 1 .. Writes /\ x = <<x[1], x[2]>>
        OBVIOUS
      <4>. QED
        BY <3>3, <4>1
    <3>. QED
      BY <3>1, <3>4, <3>5
  <2>4. Cardinality(ToCome') = Cardinality(ToCome) - 1
    BY <2>3, CountsAreFinite, FS_RemoveElement
  <2>5. ToPass' = ToPass
    <3>1. c \notin ToPass /\ c \notin ToPass' /\ ToPass' \ {c} = ToPass \ {c}
      BY <1>2, <1>4, <2>1, <2>2, OthersCount
    <3>. QED
      BY <3>1
  <2>6. /\ pids'[c][c] = 0 /\ \A b \in Child : b # c => pids'[c][b] = pids[c][b]
        /\ \A q \in Process : q # c => pids'[q] = pids[q]
        /\ pids' \in [Process -> [Child -> {-1, 0} \union Child]]
    BY <1>1, <1>3, <2>1 DEF HarnessTypeOK
  <2>7. /\ n'[c] \in 1 .. Writes + 1 /\ (pc'[c] # "exited" => n'[c] <= Writes)
        /\ stored \in Nat /\ barrier \in Nat
    BY <1>1, <1>3, <2>1, <2>2 DEF HarnessTypeOK
  <2>8. /\ stored' + Cardinality(ToCome') = stored + Cardinality(ToCome) /\ stored' > 0
        /\ barrier' \in 0 .. barrier /\ stored' >= stored /\ stored' \in Nat
        /\ barrier' + Cardinality(ToPass) = barrier + Cardinality(ToPass')
    BY <2>1, <2>4, <2>5, <2>7, CountsAreFinite
  <2>. QED
    BY <1>2, <1>4, <1>5, <1>6, <2>2, <2>6, <2>7, <2>8 DEF ChildMoves
<1>8. CASE StoreZero(c) \/ Pass(c) \/ CreateStore(c) \/ EnterWrite(c)
  <2>1. n' = n /\ stored' = stored /\ pc'[c] \in AtWork
    BY <1>1, <1>8
       DEF StoreZero, StoreResult, Pass, GoOn, CreateStore, EnterWrite, Goto, store, HarnessTypeOK, AtWork
  <2>2. ToCome' = ToCome
    <3>1. ToCome \subseteq Child \X (1 .. Writes) /\ ToCome' \subseteq Child \X (1 .. Writes)
      BY DEF ToCome
    <3>2. \A x \in Child \X (1 .. Writes) : x \in ToCome' <=> x \in ToCome
      BY <1>2, <1>4, <2>1, OthersCount
    <3>. QED
      BY <3>1, <3>2
  <2>3. /\ pids'[c][c] = 0 /\ \A b \in Child : b # c => pids'[c][b] = pids[c][b]
        /\ \A q \in Process : q # c => pids'[q] = pids[q]
        /\ pids' \in [Process -> [Child -> {-1, 0} \union Child]]
    <3>1. CASE StoreZero(c)
      BY <1>1, <3>1 DEF StoreZero, StoreResult, HarnessTypeOK
    <3>2. CASE ~ StoreZero(c)
      <4>1. pids' = pids /\ pc[c] # "born"
        BY <1>8, <3>2 DEF Pass, GoOn, CreateStore, EnterWrite, Goto
      <4>. QED
        BY <1>1, <1>3, <4>1 DEF HarnessTypeOK
    <3>. QED
      BY <3>1, <3>2
  <2>4. ToPass' \ {c} = ToPass \ {c} /\ (c \in ToPass <=> pc[c] \in {"born", "barrier"})
        /\ (c \in ToPass' <=> pc'[c] \in {"born", "barrier"})
    BY <1>2, <1>4, <2>1, OthersCount
  <2>5. barrier' \in 0 .. barrier /\ barrier' + Cardinality(ToPass) = barrier + Cardinality(ToPass')
    <3>1. CASE Pass(c)
      <4>1. pc[c] = "barrier" /\ pc'[c] = "create" /\ barrier > 0 /\ barrier' = barrier - 1
        BY <1>1, <3>1 DEF Pass, GoOn, Goto, HarnessTypeOK
      <4>2. c \in ToPass /\ ToPass' = ToPass \ {c}
        BY <2>4, <4>1
      <4>3. Cardinality(ToPass') = Cardinality(ToPass) - 1
        BY <4>2, CountsAreFinite, FS_RemoveElement
      <4>. QED
        BY <1>1, <4>1, <4>3, CountsAreFinite DEF HarnessTypeOK
    <3>2. CASE ~ Pass(c)
      <4>1. barrier' = barrier /\ (pc[c] \in {"born", "barrier"} <=> pc'[c] \in {"born", "barrier"})
        BY <1>1, <1>8, <3>2
           DEF StoreZero, StoreResult, CreateStore, EnterWrite, Goto, HarnessTypeOK
      <4>2. ToPass' = ToPass
        BY <2>4, <4>1
      <4>. QED
        BY <1>1, <4>1, <4>2 DEF HarnessTypeOK
    <3>. QED
      BY <3>1, <3>2
  <2>6. stored \in Nat /\ stored' + Cardinality(ToCome') = stored + Cardinality(ToCome)
    BY <1>1, <2>1, <2>2 DEF HarnessTypeOK
  <2>7. /\ n'[c] \in 1 .. Writes + 1 /\ n'[c] <= Writes /\ n' \in [Process -> 1 .. FORK_NUM + Writes]
        /\ \A q \in Process : n'[q] = n[q]
        /\ pc'[c] # "exited" /\ stored' >= stored /\ stored' \in Nat
    BY <1>1, <1>3, <2>1, <2>6 DEF HarnessTypeOK, AtWork
  <2>. QED
    BY <1>2, <1>4, <1>5, <1>6, <2>3, <2>5, <2>6, <2>7 DEF ChildMoves
<1>. QED
  BY <1>7, <1>8 DEF ChildStep

LEMMA ChildStepKeeps ==
    ASSUME HarnessInv, NEW c \in Child, ChildStep(c)
    PROVE  HarnessInv'
<1>. USE Numbers
<1>1. ChildMoves(c) /\ HarnessTypeOK
  BY ChildStepMoves DEF HarnessInv
<1>2. /\ pc[c] \in AtWork /\ pc'[c] \in (AtWork \ {"born"}) \union {"exited"} /\ c # 0
      /\ \A q \in Process : q # c => pc'[q] = pc[q] /\ n'[q] = n[q] /\ pids'[q] = pids[q]
      /\ UNCHANGED <<unreaped, loop, fault, signal>>
  BY <1>1 DEF ChildMoves
<1>3. from' = from /\ failedForks' = failedForks /\ outsiders' = outsiders
  BY <1>2 DEF signal, fault
<1>4. Alive(c) /\ c \in unreaped
  BY <1>2 DEF HarnessInv, ParentAgrees, Alive, Ended, AtWork
<1>a. barrier' \in 0 .. barrier /\ stored' \in Nat
  BY <1>1 DEF ChildMoves
<1>5. pc'[0] = pc[0] /\ n'[0] = n[0] /\ pids'[0] = pids[0] /\ (pc[0] \in Ended => LeftAsChild)
  BY <1>2, <1>4 DEF HarnessInv, HandlersAgree, Alive, Handling, AtWork
<1>b. BranchAgrees' /\ LeftAsChild' = LeftAsChild
  BY <1>2, <1>3, <1>5, <1>a, BranchStays
<1>6. \A d \in Child : d # c => /\ pc'[d] = pc[d] /\ n'[d] = n[d] /\ pids'[d] = pids[d]
                                /\ Alive(d)' = Alive(d)
  BY <1>2 DEF Alive
<1>7. HarnessTypeOK'
  <2>2. /\ pc' \in [Process -> Place] /\ n' \in [Process -> 1 .. FORK_NUM + Writes]
        /\ pids' \in [Process -> [Child -> {-1, 0} \union Child]]
        /\ names' \in [shm : BOOLEAN, writers : {Absent, 0, 1}, readers : {Absent, 0, 1}]
        /\ barrier' \in 0 .. barrier
    BY <1>1 DEF ChildMoves
  <2>3. barrier' \in Nat
    BY <1>1, <2>2 DEF HarnessTypeOK
  <2>. QED
    BY <1>1, <1>2, <1>a, <2>2, <2>3 DEF HarnessTypeOK, loop, fault, signal
<1>8. Unforked' = Unforked /\ c \notin Unforked
  BY <1>2, OthersCount
<1>9. PlacesAgree'
  <2>1. \A p \in Process, d \in Child : pids'[p][d] \in {0, -1, d}
    BY <1>1, <1>2 DEF HarnessInv, PlacesAgree, ChildMoves
  <2>2. \A d \in Child : pc'[d] \in Ended \union Handling \union AtWork
    BY <1>2, <1>6 DEF HarnessInv, PlacesAgree, Ended
  <2>. QED
    BY <1>5, <2>1, <2>2 DEF HarnessInv, PlacesAgree
<1>10. pc[0] \notin Reaped
  BY <1>4, ReapedIsAlone
<1>11. ParentAgrees'
  <2>1. \A d \in Child : Alive(d)' => d \in unreaped' /\ pids'[0][d] # 0
    BY <1>2, <1>4, <1>5, <1>6 DEF HarnessInv, ParentAgrees
  <2>2. \A d \in Unforked' : pids'[0][d] = -1 /\ d \notin unreaped' /\ pc'[d] \in {"none", "exited"}
    <3>1. Unforked \subseteq Child
      BY DEF Unforked
    <3>. QED
      BY <1>2, <1>5, <1>6, <1>8, <3>1 DEF HarnessInv, ParentAgrees
  <2>3. \A d \in Child : Settled(d)' = Settled(d)
    BY <1>5 DEF Settled
  <2>4. InMain' = InMain
    BY <1>5 DEF InMain
  <2>5. unreaped \subseteq Child /\ unreaped' = unreaped
    BY <1>1, <1>2 DEF HarnessTypeOK
  <2>6. InMain => \A d \in Child : (Settled(d) /\ pids[0][d] = -1) => failedForks # 0
    BY DEF HarnessInv, ParentAgrees
  <2>7. /\ pc[0] = "forked" => pids[0][n[0]] = -1 /\ (n[0] \in unreaped \/ failedForks # 0)
        /\ pc[0] \in {"fork", "forked", "post", "wait"} =>
              \A d \in unreaped : Settled(d) => pids[0][d] = d
        /\ pc[0] = "wait" => \A d \in unreaped : d >= n[0]
    BY DEF HarnessInv, ParentAgrees
  <2>. QED
    BY <1>3, <1>5, <1>10, <2>1, <2>2, <2>3, <2>4, <2>5, <2>6, <2>7 DEF ParentAgrees
<1>12. LastWrites'
  <2>1. stored' >= stored /\ stored \in Nat /\ stored' \in Nat /\ (pc'[c] = "exited" => stored' > 0)
    BY <1>1 DEF ChildMoves, HarnessTypeOK
  <2>2. InMain => \A d \in unreaped : pc[d] \in {"none", "exited"} => stored > 0
    BY DEF HarnessInv, LastWrites
  <2>3. InMain' => \A d \in unreaped' : pc'[d] \in {"none", "exited"} => stored' > 0
    BY <1>1, <1>2, <1>5, <1>6, <2>1, <2>2 DEF InMain, AtWork, HarnessTypeOK
  <2>4. pc[0] = "wait" => \/ FORK_NUM \in unreaped \/ stored > 0
                          \/ \E d \in Child : pc[d] = "killed"
    BY DEF HarnessInv, LastWrites
  <2>5. pc'[0] = "wait" => \/ FORK_NUM \in unreaped' \/ stored' > 0
                           \/ \E d \in Child : pc'[d] = "killed"
    <3>1. pc[c] # "killed"
      BY <1>2 DEF AtWork
    <3>. QED
      BY <1>2, <1>5, <1>6, <2>1, <2>4, <3>1
  <2>6. pc[0] = "post" => FORK_NUM \in unreaped
    BY DEF HarnessInv, LastWrites
  <2>. QED
    BY <1>2, <1>5, <1>10, <2>3, <2>5, <2>6 DEF LastWrites, Reaped
<1>13. ChildAgrees'
  <2>1. ASSUME NEW d \in Child
        PROVE  pc[d] = "kill" => ~ (n[d] > d)
    <3>1. pc[c] # "kill"
      BY <1>2 DEF AtWork
    <3>. QED
      BY <1>4, <3>1 DEF HarnessInv, ChildAgrees, AloneIs
  <2>2. ASSUME NEW d \in Child, d # c
        PROVE  /\ Alive(d)' => /\ pids'[d][d] = IF "born" \in {pc'[d], from'[d]} THEN -1 ELSE 0
                               /\ \A b \in Child : (b < d /\ pids'[d][b] = -1) => failedForks' # 0
               /\ pc'[d] = "kill" => n'[d] \in Child /\ (n'[d] > d => from'[d] = "born" /\ AloneIs(d)')
               /\ pc'[d] \in AtWork => n'[d] \in 1 .. Writes /\ from'[d] = "none"
    BY <1>3, <1>6, <2>1, <2>2 DEF HarnessInv, ChildAgrees
  <2>3. /\ from[c] = "none"
        /\ \A b \in Child : (b < c /\ pids[c][b] = -1) => failedForks # 0
    BY <1>2, <1>4 DEF HarnessInv, ChildAgrees
  <2>4. /\ pids'[c][c] = 0 /\ \A b \in Child : b # c => pids'[c][b] = pids[c][b]
        /\ n'[c] \in 1 .. Writes + 1 /\ (pc'[c] # "exited" => n'[c] <= Writes)
    BY <1>1 DEF ChildMoves
  <2>5. \A b \in Child : (b < c /\ pids'[c][b] = -1) => failedForks' # 0
    BY <1>3, <2>3, <2>4
  <2>6. /\ pc'[c] # "born" /\ pc'[c] # "kill" /\ from'[c] = "none"
        /\ pc'[c] \in AtWork => n'[c] \in 1 .. Writes
    BY <1>2, <1>3, <2>3, <2>4 DEF AtWork
  <2>. QED
    BY <2>2, <2>4, <2>5, <2>6 DEF ChildAgrees
<1>14. HandlersAgree'
  <2>1. \A p \in Process : pc'[p] # "unlink"
    <3>1. \A p \in Process : pc[p] # "unlink"
      BY <1>2, <1>4 DEF HarnessInv, HandlersAgree, AloneIs, AtWork
    <3>. QED
      BY <1>2, <3>1 DEF AtWork
  <2>2. pc[0] = "kill" => \A d \in Child : Alive(d) => d >= n[0]
    BY DEF HarnessInv, HandlersAgree
  <2>3. pc'[0] = "kill" => \A d \in Child : Alive(d)' => d >= n'[0]
    BY <1>4, <1>5, <1>6, <2>2
  <2>4. (InMain /\ \E d \in Child : pc[d] = "killed") => \E d \in Child : pc[d] = "kill"
    BY DEF HarnessInv, HandlersAgree
  <2>5. (InMain' /\ \E d \in Child : pc'[d] = "killed") => \E d \in Child : pc'[d] = "kill"
    <3>1. pc[c] # "kill" /\ pc'[c] # "killed"
      BY <1>2 DEF AtWork
    <3>. QED
      BY <1>5, <1>6, <2>4, <3>1 DEF InMain
  <2>6. /\ pc[0] \in Handling => \A d \in Child : pids[0][d] = -1 =>
                                     (failedForks # 0 \/ from[0] \in {"fork", "forked"})
        /\ outsiders => ~ InMain
    BY DEF HarnessInv, HandlersAgree
  <2>. QED
    BY <1>3, <1>5, <1>b, <2>1, <2>3, <2>5, <2>6 DEF HandlersAgree, InMain
<1>15. Calm' => Calm
  <2>1. pc[c] \notin Handling \union {"killed"}
    BY <1>2 DEF AtWork, Handling
  <2>. QED
    BY <1>5, <1>6, <2>1 DEF Calm, InMain
<1>16. ValuesAgree'
  <2>1. /\ stored' + Cardinality(ToCome') = stored + Cardinality(ToCome)
        /\ stored' \in Nat /\ stored \in Nat
    BY <1>1 DEF ChildMoves, HarnessTypeOK
  <2>. QED
    BY <1>3, <1>5, <1>15, <2>1, CountsAreFinite, CountsAreFiniteAfter
       DEF HarnessInv, ValuesAgree, Counting, InMain
<1>17. PostsAgree'
  <2>1. barrier' \in 0 .. barrier /\ barrier \in Nat
        /\ barrier' + Cardinality(ToPass) = barrier + Cardinality(ToPass')
    BY <1>1 DEF ChildMoves, HarnessTypeOK
  <2>2. failedForks \in Nat
    BY <1>1 DEF HarnessTypeOK
  <2>. QED
    BY <1>3, <1>5, <1>15, <2>1, <2>2, CountsAreFinite, CountsAreFiniteAfter DEF HarnessInv, PostsAgree
<1>18. RoundsAgree' /\ CountsAgree'
  BY <1>2, <1>5 DEF HarnessInv, RoundsAgree, CountsAgree, loop, fault, InMain
<1>19. OutsidersAreSafe' /\ NamesAreGone'
  BY <1>3, <1>5, <1>b DEF HarnessInv, OutsidersAreSafe, NamesAreGone, Over, Alive
<1>. QED
  BY <1>7, <1>9, <1>b, <1>11, <1>12, <1>13, <1>14, <1>16, <1>17, <1>18, <1>19 DEF HarnessInv

-----------------------------------------------------------------------------
(* Signals *)

LEMMA QuietKeeps ==
    ASSUME HarnessInv, pending' \subseteq Process,
           UNCHANGED <<process, unreaped, barrier, store, loop, fault, from, abandoned, outsiders>>
    PROVE  HarnessInv'
<1>1. /\ UNCHANGED <<pc, n, pids>> /\ UNCHANGED <<names, stored>> /\ UNCHANGED <<round, errors>>
      /\ UNCHANGED <<launch, failedForks>> /\ UNCHANGED <<unreaped, barrier, from, abandoned, outsiders>>
  BY DEF process, store, loop, fault
<1>b. BranchAgrees' /\ LeftAsChild' = LeftAsChild
  <2>1. barrier' \in 0 .. barrier
    BY <1>1 DEF HarnessInv, HarnessTypeOK
  <2>. QED
    BY <1>1, <2>1, BranchStays
<1>2. HarnessTypeOK'
  BY <1>1 DEF HarnessInv, HarnessTypeOK
<1>3. Unforked' = Unforked
  BY <1>1 DEF Unforked
<1>4. ToCome' = ToCome /\ ToPass' = ToPass
  BY <1>1, <1>3 DEF ToCome, ToPass
<1>5. PlacesAgree' /\ LastWrites' /\ RoundsAgree' /\ CountsAgree'
  BY <1>1 DEF HarnessInv, PlacesAgree, LastWrites, RoundsAgree, CountsAgree, InMain
<1>6. ParentAgrees'
  BY <1>1, <1>3 DEF HarnessInv, ParentAgrees, InMain, Settled, Alive
<1>7. ChildAgrees' /\ HandlersAgree'
  BY <1>1, <1>b DEF HarnessInv, ChildAgrees, HandlersAgree, InMain, AloneIs, Alive
<1>8. ValuesAgree' /\ PostsAgree'
  BY <1>1, <1>4 DEF HarnessInv, ValuesAgree, PostsAgree, Counting, Calm, InMain
<1>9. OutsidersAreSafe' /\ NamesAreGone'
  BY <1>1, <1>b DEF HarnessInv, OutsidersAreSafe, NamesAreGone, Over, Alive
<1>. QED
  BY <1>2, <1>5, <1>6, <1>7, <1>8, <1>9, <1>b DEF HarnessInv

\* The values still to come are fewer where children leave their work.
LEMMA FewerToCome ==
    ASSUME n'[0] = n[0] \/ pc'[0] \notin {"fork", "forked"},
           pc'[0] = pc[0] \/ pc'[0] \notin {"fork", "forked"},
           \A c \in Child : pc'[c] \in AtWork => pc'[c] = pc[c] /\ n'[c] = n[c]
    PROVE  Unforked' \subseteq Unforked /\ ToCome' \subseteq ToCome
<1>1. Unforked' \subseteq Unforked
  BY DEF Unforked
<1>. QED
  BY <1>1 DEF ToCome

LEMMA InterruptParentKeeps ==
    ASSUME HarnessInv, Interrupt(0)
    PROVE  HarnessInv'
<1>. USE Numbers
<1>1. HarnessTypeOK /\ Alive(0)
  BY DEF HarnessInv, Interrupt
<1>2. /\ pending' = pending \ {0}
      /\ from' = [from EXCEPT ![0] = IF pc[0] \in Handling THEN @ ELSE pc[0]]
      /\ pc' = [pc EXCEPT ![0] = "kill"] /\ n' = [n EXCEPT ![0] = 1]
      /\ UNCHANGED <<pids, unreaped, barrier, store, loop, fault, signals, abandoned, outsiders>>
  BY DEF Interrupt, Handling
<1>3. /\ pc'[0] = "kill" /\ n'[0] = 1 /\ (pc[0] \in Handling => from'[0] = from[0])
      /\ pc[0] \notin Handling => from'[0] = pc[0]
      /\ \A c \in Child : pc'[c] = pc[c] /\ n'[c] = n[c] /\ from'[c] = from[c]
  BY <1>1, <1>2 DEF HarnessTypeOK
<1>4. \A p \in Process : Alive(p)' = Alive(p)
  BY <1>1, <1>3 DEF Alive, Ended, Process, Child
<1>5. HarnessTypeOK'
  <2>1. pc' \in [Process -> Place] /\ from' \in [Process -> Place]
    BY <1>1, <1>2 DEF HarnessTypeOK, Place
  <2>2. n' \in [Process -> 1 .. FORK_NUM + Writes]
    BY <1>1, <1>2 DEF HarnessTypeOK
  <2>. QED
    BY <1>1, <1>2, <2>1, <2>2 DEF HarnessTypeOK, store, loop, fault
<1>6. Unforked' = {} /\ ~ InMain'
  BY <1>3 DEF Unforked, InMain, Handling
<1>7. PlacesAgree' /\ LastWrites'
  BY <1>2, <1>3, <1>6 DEF HarnessInv, PlacesAgree, LastWrites, Handling, Reading, AtWork, Child
<1>8. ParentAgrees'
  BY <1>2, <1>3, <1>4, <1>6 DEF HarnessInv, ParentAgrees, Reaped, Reading
<1>9. ChildAgrees'
  BY <1>2, <1>3, <1>4 DEF HarnessInv, ChildAgrees, AloneIs, fault
<1>10. HandlersAgree'
  <2>1. \A p \in Process : pc'[p] = "unlink" => AloneIs(p)'
    BY <1>3, <1>4 DEF HarnessInv, HandlersAgree, AloneIs, Process, Child
  <2>2. ASSUME NEW c \in Child, pids'[0][c] = -1
        PROVE  failedForks' # 0 \/ from'[0] \in {"fork", "forked"}
    <3>1. pids[0][c] = -1 /\ failedForks' = failedForks
      BY <1>2, <2>2 DEF fault
    <3>2. CASE pc[0] \in Handling
      BY <1>3, <3>1, <3>2 DEF HarnessInv, HandlersAgree
    <3>3. CASE pc[0] \notin Handling /\ pc[0] \notin {"fork", "forked"}
      <4>1. InMain /\ Settled(c)
        BY <1>1, <3>3 DEF InMain, Alive, Settled
      <4>. QED
        BY <3>1, <4>1 DEF HarnessInv, ParentAgrees
    <3>. QED
      BY <1>3, <3>2, <3>3
  <2>. QED
    BY <1>3, <1>6, <2>1, <2>2 DEF HandlersAgree, Ended, Child
<1>11. ValuesAgree'
  <2>1. ToCome' \subseteq ToCome
    BY <1>3, FewerToCome
  <2>. QED
    BY <1>2, <1>6, <2>1, ValuesStay DEF Calm, Counting, store
<1>12. PostsAgree' /\ RoundsAgree' /\ CountsAgree' /\ NamesAreGone'
  BY <1>1, <1>2, <1>3, <1>4, <1>6
     DEF HarnessInv, PostsAgree, Calm, Reaped, Reading, RoundsAgree, CountsAgree, NamesAreGone, Over, loop, fault
<1>13. OutsidersAreSafe'
  <2>1. outsiders => pc[0] \in Handling
    BY <1>1 DEF HarnessInv, HandlersAgree, InMain, Alive
  <2>. QED
    BY <1>2, <1>3, <2>1 DEF HarnessInv, OutsidersAreSafe, fault
<1>14. BranchAgrees'
  BY <1>3, <1>6, BranchElsewhere DEF AtWork
<1>. QED
  BY <1>5, <1>7, <1>8, <1>9, <1>10, <1>11, <1>12, <1>13, <1>14 DEF HarnessInv

LEMMA InterruptChildKeeps ==
    ASSUME HarnessInv, NEW c \in Child, Interrupt(c)
    PROVE  HarnessInv'
<1>. USE Numbers
<1>1. HarnessTypeOK /\ Alive(c) /\ c # 0 /\ pc[c] \in Handling \union AtWork
  BY DEF HarnessInv, PlacesAgree, Interrupt, Alive
<1>2. /\ pending' = pending \ {c}
      /\ from' = [from EXCEPT ![c] = IF pc[c] \in Handling THEN @ ELSE pc[c]]
      /\ pc' = [pc EXCEPT ![c] = "kill"] /\ n' = [n EXCEPT ![c] = 1]
      /\ UNCHANGED <<pids, unreaped, barrier, store, loop, fault, signals, abandoned, outsiders>>
  BY DEF Interrupt, Handling
<1>3. /\ pc'[c] = "kill" /\ n'[c] = 1 /\ (pc[c] \in Handling => from'[c] = from[c])
      /\ pc[c] \in AtWork => from'[c] = pc[c]
      /\ \A q \in Process : q # c => pc'[q] = pc[q] /\ n'[q] = n[q] /\ from'[q] = from[q]
  BY <1>1, <1>2 DEF HarnessTypeOK, AtWork, Handling
<1>4. /\ \A p \in Process : Alive(p)' = Alive(p)
      /\ pc'[0] = pc[0] /\ n'[0] = n[0] /\ from'[0] = from[0] /\ InMain' = InMain
      /\ failedForks' = failedForks /\ stored' = stored
  BY <1>1, <1>2, <1>3 DEF Alive, Ended, InMain, fault, store
<1>b. BranchAgrees' /\ LeftAsChild' = LeftAsChild
  <2>1. barrier' \in 0 .. barrier
    BY <1>1, <1>2 DEF HarnessTypeOK
  <2>. QED
    BY <1>2, <1>4, <2>1, BranchStays
<1>5. HarnessTypeOK'
  <2>1. pc' \in [Process -> Place] /\ from' \in [Process -> Place]
    BY <1>1, <1>2 DEF HarnessTypeOK, Place
  <2>2. n' \in [Process -> 1 .. FORK_NUM + Writes]
    BY <1>1, <1>2 DEF HarnessTypeOK
  <2>. QED
    BY <1>1, <1>2, <2>1, <2>2 DEF HarnessTypeOK, store, loop, fault
<1>6. Unforked' = Unforked /\ Unforked \subseteq Child /\ c \notin Unforked
  BY <1>1, <1>4 DEF Unforked, HarnessInv, ParentAgrees, Alive, Ended
<1>7. pc[0] \notin Reaped
  BY <1>1, ReapedIsAlone
<1>8. PlacesAgree'
  BY <1>2, <1>3, <1>4 DEF HarnessInv, PlacesAgree, Handling
<1>9. LastWrites'
  <2>1. /\ pc[c] \notin {"none", "exited", "killed"} /\ pc'[c] \notin {"none", "exited", "killed"}
        /\ unreaped' = unreaped /\ unreaped \subseteq Child
    BY <1>1, <1>2, <1>3 DEF Alive, Ended, HarnessTypeOK
  <2>. QED
    BY <1>3, <1>4, <1>7, <2>1 DEF HarnessInv, LastWrites, Reaped
<1>10. ParentAgrees'
  <2>1. \A d \in Child : Settled(d)' = Settled(d)
    BY <1>4 DEF Settled
  <2>2. \A d \in Unforked' : pids'[0][d] = -1 /\ d \notin unreaped' /\ pc'[d] \in {"none", "exited"}
    BY <1>2, <1>3, <1>6 DEF HarnessInv, ParentAgrees
  <2>3. /\ \A d \in Child : Alive(d)' => d \in unreaped' /\ pids'[0][d] # 0
        /\ pids' = pids /\ unreaped' = unreaped /\ unreaped \subseteq Child
    BY <1>1, <1>2, <1>4 DEF HarnessInv, HarnessTypeOK, ParentAgrees
  <2>4. /\ pc[0] = "forked" => pids[0][n[0]] = -1 /\ (n[0] \in unreaped \/ failedForks # 0)
        /\ pc[0] \in {"fork", "forked", "post", "wait"} =>
              \A d \in unreaped : Settled(d) => pids[0][d] = d
        /\ pc[0] = "wait" => \A d \in unreaped : d >= n[0]
    BY DEF HarnessInv, ParentAgrees
  <2>5. InMain => \A d \in Child : (Settled(d) /\ pids[0][d] = -1) => failedForks # 0
    BY DEF HarnessInv, ParentAgrees
  <2>. QED
    BY <1>4, <1>7, <2>1, <2>2, <2>3, <2>4, <2>5 DEF ParentAgrees
<1>11. ChildAgrees'
  <2>1. ASSUME NEW d \in Child, d # c
        PROVE  /\ Alive(d)' => /\ pids'[d][d] = IF "born" \in {pc'[d], from'[d]} THEN -1 ELSE 0
                               /\ \A b \in Child : (b < d /\ pids'[d][b] = -1) => failedForks' # 0
               /\ pc'[d] = "kill" => n'[d] \in Child /\ (n'[d] > d => from'[d] = "born" /\ AloneIs(d)')
               /\ pc'[d] \in AtWork => n'[d] \in 1 .. Writes /\ from'[d] = "none"
    BY <1>2, <1>3, <1>4, <2>1 DEF HarnessInv, ChildAgrees, AloneIs
  <2>2. /\ pids[c][c] = IF "born" \in {pc[c], from[c]} THEN -1 ELSE 0
        /\ \A b \in Child : (b < c /\ pids[c][b] = -1) => failedForks # 0
        /\ pc[c] \in AtWork => from[c] = "none"
    BY <1>1 DEF HarnessInv, ChildAgrees
  <2>3. "born" \in {pc'[c], from'[c]} <=> "born" \in {pc[c], from[c]}
    BY <1>1, <1>3, <2>2 DEF Handling
  <2>4. pids'[c][c] = IF "born" \in {pc'[c], from'[c]} THEN -1 ELSE 0
    BY <1>2, <2>2, <2>3
  <2>5. n'[c] \in Child /\ ~ (n'[c] > c)
    BY <1>3 DEF Child
  <2>6. \A b \in Child : (b < c /\ pids'[c][b] = -1) => failedForks' # 0
    BY <1>2, <1>4, <2>2
  <2>. QED
    BY <1>3, <2>1, <2>4, <2>5, <2>6 DEF ChildAgrees, AtWork
<1>12. HandlersAgree'
  <2>1. \A p \in Process : pc'[p] = "unlink" => AloneIs(p)'
    BY <1>3, <1>4 DEF HarnessInv, HandlersAgree, AloneIs
  <2>2. pc'[0] \in Ended /\ ~ LeftAsChild' => \A d \in Child : Alive(d)' => pc'[d] \in Handling
    BY <1>3, <1>4, <1>b DEF HarnessInv, HandlersAgree, Handling
  <2>3. /\ pc[0] = "kill" => \A d \in Child : Alive(d) => d >= n[0]
        /\ pc[0] \in Handling => \A d \in Child : pids[0][d] = -1 =>
                                     (failedForks # 0 \/ from[0] \in {"fork", "forked"})
        /\ outsiders => ~ InMain
    BY DEF HarnessInv, HandlersAgree
  <2>. QED
    BY <1>2, <1>3, <1>4, <2>1, <2>2, <2>3 DEF HandlersAgree
<1>13. ~ Calm'
  BY <1>3 DEF Calm, Handling
<1>14. ValuesAgree'
  <2>1. ToCome' \subseteq ToCome
    <3>1. \A d \in Child : pc'[d] \in AtWork => pc'[d] = pc[d] /\ n'[d] = n[d]
      BY <1>3 DEF AtWork
    <3>. QED
      BY <1>4, <3>1, FewerToCome
  <2>. QED
    BY <1>4, <1>13, <2>1, ValuesStay DEF Counting
<1>15. PostsAgree' /\ RoundsAgree' /\ CountsAgree' /\ NamesAreGone'
  BY <1>1, <1>2, <1>4, <1>13
     DEF HarnessInv, PostsAgree, RoundsAgree, CountsAgree, NamesAreGone, Over, loop
<1>16. OutsidersAreSafe'
  <2>1. from[c] = "born" => from'[c] = "born"
    BY <1>1, <1>3 DEF HarnessInv, ChildAgrees
  <2>. QED
    BY <1>2, <1>3, <1>4, <2>1 DEF HarnessInv, OutsidersAreSafe
<1>. QED
  BY <1>5, <1>8, <1>9, <1>10, <1>11, <1>12, <1>14, <1>15, <1>16, <1>b DEF HarnessInv

\* What a turn of the handler does: it may kill, and goes on unless it has killed itself.
KillMoves(p) ==
    /\ \A q \in Process : Alive(q)' => Alive(q)
    /\ \A q \in Process : q # p => /\ n'[q] = n[q]
                                   /\ pc'[q] = pc[q] \/ (Alive(q) /\ pc'[q] = "killed")
    /\ pc[p] = "kill" /\ n'[p] = n[p] + 1 /\ n[p] \in Child
    /\ pc'[p] = (IF Alive(p)' THEN IF n[p] = FORK_NUM THEN "unlink" ELSE "kill" ELSE "killed")
    /\ ~ Alive(p)' => abandoned'
    /\ abandoned => abandoned'
    /\ outsiders' <=> (outsiders \/ pids[p][n[p]] = -1)
    /\ pids[p][n[p]] = 0 => \A q \in Process : ~ Alive(q)'
    /\ pids[p][n[p]] = -1 => AloneIs(p)' /\ Alive(p)'
    /\ pids[p][n[p]] = n[p] => \A q \in Process : Alive(q)' <=> Alive(q) /\ q # n[p]
    /\ pids[p][n[p]] \in {0, -1, n[p]}
    /\ UNCHANGED <<pids, unreaped, barrier, store, loop, fault, pending, from, signals>>

LEMMA KillOneMoves ==
    ASSUME HarnessInv, NEW p \in Process, KillOne(p)
    PROVE  KillMoves(p) /\ HarnessTypeOK'
<1>. USE Numbers
<1>1. HarnessTypeOK /\ pc[p] = "kill" /\ Alive(p)
  BY DEF HarnessInv, KillOne, KillFrom, Alive, Ended
<1>0. PICK k \in Child : k = n[p] /\ k >= 1
  BY <1>1 DEF HarnessInv, PlacesAgree, ChildAgrees, Process, Child
<1>2. PICK pid : pid = pids[p][k] /\ pid \in {0, -1, k}
  BY DEF HarnessInv, PlacesAgree
<1>. DEFINE V == Victims(p, pid)
<1>3. /\ pc' = [q \in Process |-> IF q \in V THEN "killed"
                                  ELSE IF q = p /\ k = FORK_NUM THEN "unlink" ELSE pc[q]]
      /\ abandoned' = (abandoned \/ p \in V) /\ outsiders' = (outsiders \/ pid = -1)
      /\ n' = [n EXCEPT ![p] = @ + 1]
      /\ UNCHANGED <<pids, unreaped, barrier, store, loop, fault, pending, from, signals>>
  BY <1>0, <1>2 DEF KillOne, KillFrom
<1>4. /\ V \subseteq Process /\ \A q \in V : Alive(q)
      /\ pid = 0 => \A q \in Process : Alive(q) => q \in V
      /\ pid = -1 => \A q \in Process : q \in V <=> Alive(q) /\ q # p
      /\ pid = k => \A q \in Process : q \in V <=> Alive(q) /\ q = k
  BY DEF Victims, Child
<1>. HIDE DEF V
<1>5. \A q \in Process : pc'[q] = IF q \in V THEN "killed"
                                  ELSE IF q = p /\ k = FORK_NUM THEN "unlink" ELSE pc[q]
  BY <1>3
<1>6. \A q \in Process : Alive(q)' <=> Alive(q) /\ q \notin V
  BY <1>1, <1>5 DEF Alive, Ended
<1>7. /\ n'[p] = k + 1 /\ \A q \in Process : q # p => n'[q] = n[q]
      /\ n' \in [Process -> 1 .. FORK_NUM + Writes]
  BY <1>0, <1>1, <1>3 DEF HarnessTypeOK, Child
<1>8. pc' \in [Process -> Place]
  BY <1>1, <1>3, <1>5 DEF HarnessTypeOK, Place, Ended
<1>9. abandoned' \in BOOLEAN /\ outsiders' \in BOOLEAN
  BY <1>3
<1>10. HarnessTypeOK'
  BY <1>1, <1>3, <1>7, <1>8, <1>9 DEF HarnessTypeOK, store, loop, fault
<1>11. /\ pid = 0 => \A q \in Process : ~ Alive(q)'
       /\ pid = -1 => (\A q \in Process \ {p} : ~ Alive(q)') /\ Alive(p)'
       /\ pid = k => \A q \in Process : Alive(q)' <=> Alive(q) /\ q # k
  BY <1>1, <1>4, <1>6
<1>12. /\ \A q \in Process : q # p => pc'[q] = pc[q] \/ (Alive(q) /\ pc'[q] = "killed")
       /\ pc'[p] = (IF Alive(p)' THEN IF k = FORK_NUM THEN "unlink" ELSE "kill" ELSE "killed")
  BY <1>1, <1>4, <1>5, <1>6
<1>13. (~ Alive(p)' => abandoned') /\ (abandoned => abandoned') /\ (outsiders' <=> (outsiders \/ pid = -1))
  BY <1>1, <1>3, <1>6
<1>. QED
  BY <1>0, <1>1, <1>2, <1>3, <1>6, <1>7, <1>10, <1>11, <1>12, <1>13 DEF KillMoves, AloneIs

LEMMA KillByParentKeeps ==
    ASSUME HarnessInv, KillOne(0)
    PROVE  HarnessInv'
<1>. USE Numbers
<1>1. HarnessTypeOK /\ HarnessTypeOK' /\ KillMoves(0)
  BY KillOneMoves DEF HarnessInv
<1>2. /\ pc[0] = "kill" /\ n'[0] = n[0] + 1 /\ n[0] \in Child
      /\ pc'[0] = (IF Alive(0)' THEN IF n[0] = FORK_NUM THEN "unlink" ELSE "kill" ELSE "killed")
      /\ ~ Alive(0)' => abandoned'
      /\ outsiders' <=> (outsiders \/ pids[0][n[0]] = -1)
      /\ UNCHANGED <<pids, unreaped, barrier, store, loop, fault, pending, from, signals>>
  BY <1>1 DEF KillMoves
<1>3. \A c \in Child : /\ n'[c] = n[c] /\ (Alive(c)' => Alive(c) /\ pc'[c] = pc[c])
                       /\ pc'[c] = pc[c] \/ (Alive(c) /\ pc'[c] = "killed")
  BY <1>1 DEF KillMoves, Alive, Ended
<1>4. failedForks' = failedForks /\ stored' = stored /\ errors' = errors /\ round' = round
  BY <1>2 DEF fault, store, loop
<1>5. Unforked' = {} /\ ~ InMain' /\ pc'[0] \in {"kill", "unlink", "killed"}
  BY <1>2 DEF Unforked, InMain, Handling, Ended
<1>6. \A c \in Child : ~ AloneIs(c) /\ pc[c] # "unlink"
  BY <1>2 DEF HarnessInv, HandlersAgree, AloneIs, Alive, Ended
<1>7. PlacesAgree' /\ LastWrites'
  <2>1. PlacesAgree'
    <3>1. \A c \in Child : pc'[c] \in Ended \union Handling \union AtWork
      BY <1>3 DEF HarnessInv, PlacesAgree, Ended
    <3>2. pc'[0] = "kill" => n'[0] \in Child
      BY <1>2 DEF Child
    <3>. QED
      BY <1>2, <1>5, <3>1, <3>2 DEF HarnessInv, PlacesAgree, Ended, Handling, AtWork
  <2>. QED
    BY <1>5, <2>1 DEF LastWrites, Reading
<1>8. ParentAgrees'
  BY <1>2, <1>3, <1>5 DEF HarnessInv, ParentAgrees, Reaped, Reading
<1>9. ChildAgrees'
  <2>1. \A c \in Child : pc'[c] \in AtWork \union {"kill"} => Alive(c)'
    BY DEF Alive, Ended, AtWork
  <2>. QED
    BY <1>2, <1>3, <1>4, <1>6, <2>1 DEF HarnessInv, ChildAgrees
<1>10. HandlersAgree'
  <2>1. ASSUME NEW c \in Child, Alive(c)' PROVE c > n[0]
    <3>1. Alive(c) /\ c >= n[0] /\ pids[0][c] # 0 /\ pids[0][c] \in {0, -1, c}
      BY <1>2, <1>3, <2>1 DEF HarnessInv, HandlersAgree, ParentAgrees, PlacesAgree
    <3>2. c # n[0]
      BY <1>1, <2>1, <3>1 DEF KillMoves, AloneIs
    <3>3. c \in Nat /\ n[0] \in Nat
      BY <1>2
    <3>. QED
      BY <3>1, <3>2, <3>3
  <2>2. pc'[0] = "kill" => \A c \in Child : Alive(c)' => c >= n'[0]
    <3>1. ASSUME NEW c \in Child, Alive(c)' PROVE c >= n[0] + 1
      <4>1. c \in Nat /\ n[0] \in Nat /\ c > n[0]
        BY <1>2, <2>1, <3>1
      <4>. QED
        BY <4>1
    <3>. QED
      BY <1>2, <3>1
  <2>3. \A p \in Process : pc'[p] = "unlink" => AloneIs(p)'
    <3>1. pc'[0] = "unlink" => \A c \in Child : ~ Alive(c)'
      BY <1>2, <2>1 DEF Child
    <3>2. \A c \in Child : pc'[c] # "unlink"
      BY <1>3, <1>6
    <3>. QED
      BY <3>1, <3>2 DEF AloneIs, Process, Child
  <2>4. \A c \in Child : pids'[0][c] = -1 => (failedForks' # 0 \/ from'[0] \in {"fork", "forked"})
    BY <1>2, <1>4 DEF HarnessInv, HandlersAgree, Handling
  <2>5. pc'[0] \in Ended => \A c \in Child : ~ Alive(c)'
    <3>1. ~ Alive(0)' => pids[0][n[0]] = 0
      BY <1>1, <1>2 DEF KillMoves, Alive, Ended
    <3>. QED
      BY <1>1, <3>1 DEF KillMoves, Alive
  <2>. QED
    BY <1>5, <2>2, <2>3, <2>4, <2>5 DEF HandlersAgree
<1>11. ValuesAgree'
  <2>1. \A c \in Child : pc'[c] \in AtWork => pc'[c] = pc[c] /\ n'[c] = n[c]
    BY <1>3 DEF AtWork
  <2>2. ToCome' \subseteq ToCome
    BY <1>5, <2>1, FewerToCome
  <2>. QED
    BY <1>4, <1>5, <2>2, ValuesStay DEF Calm, Counting
<1>12. PostsAgree' /\ RoundsAgree' /\ CountsAgree'
  BY <1>4, <1>5 DEF HarnessInv, PostsAgree, Calm, RoundsAgree, CountsAgree
<1>13. OutsidersAreSafe'
  <2>1. pids[0][n[0]] = -1 => (failedForks # 0 \/ from[0] \in {"fork", "forked"})
    BY <1>2 DEF HarnessInv, HandlersAgree, Handling
  <2>. QED
    BY <1>2, <1>4, <2>1 DEF HarnessInv, OutsidersAreSafe
<1>14. NamesAreGone'
  BY <1>2 DEF NamesAreGone, Over
<1>15. BranchAgrees'
  BY <1>5, BranchElsewhere DEF AtWork
<1>. QED
  BY <1>1, <1>7, <1>8, <1>9, <1>10, <1>11, <1>12, <1>13, <1>14, <1>15 DEF HarnessInv

LEMMA KillByChildKeeps ==
    ASSUME HarnessInv, NEW c \in Child, KillOne(c)
    PROVE  HarnessInv'
<1>. USE Numbers
<1>1. HarnessTypeOK /\ HarnessTypeOK' /\ KillMoves(c) /\ c # 0 /\ Alive(c)
  BY KillOneMoves DEF HarnessInv, KillOne, KillFrom, Alive, Ended
<1>2. /\ pc[c] = "kill" /\ n'[c] = n[c] + 1 /\ n[c] \in Child
      /\ pc'[c] = (IF Alive(c)' THEN IF n[c] = FORK_NUM THEN "unlink" ELSE "kill" ELSE "killed")
      /\ ~ Alive(c)' => abandoned'
      /\ outsiders' <=> (outsiders \/ pids[c][n[c]] = -1)
      /\ UNCHANGED <<pids, unreaped, barrier, store, loop, fault, pending, from, signals>>
  BY <1>1 DEF KillMoves
<1>3. \A q \in Process : q # c => /\ n'[q] = n[q] /\ (Alive(q)' => Alive(q) /\ pc'[q] = pc[q])
                                  /\ pc'[q] = pc[q] \/ (Alive(q) /\ pc'[q] = "killed")
  BY <1>1 DEF KillMoves, Alive, Ended
<1>4. failedForks' = failedForks /\ stored' = stored /\ errors' = errors /\ round' = round
  BY <1>2 DEF fault, store, loop
<1>5. n'[0] = n[0] /\ (pc'[0] = pc[0] \/ pc'[0] = "killed") /\ (InMain' => InMain /\ pc'[0] = pc[0])
  BY <1>1, <1>3 DEF InMain, Ended
<1>6. /\ pids[c][c] = IF from[c] = "born" THEN -1 ELSE 0
      /\ n[c] > c => from[c] = "born" /\ AloneIs(c)
      /\ \A b \in Child : (b < c /\ pids[c][b] = -1) => failedForks # 0
  BY <1>1, <1>2 DEF HarnessInv, ChildAgrees
\* Past its own entry the child is alone, or dead.
<1>7. ASSUME n[c] >= c, Alive(c)' PROVE from[c] = "born" /\ AloneIs(c)'
  <2>1. CASE n[c] = c
    <3>1. pids[c][n[c]] # 0
      BY <1>1, <1>7 DEF KillMoves
    <3>2. from[c] = "born" /\ pids[c][n[c]] = -1
      BY <1>6, <2>1, <3>1
    <3>. QED
      BY <1>1, <3>2 DEF KillMoves
  <2>2. CASE n[c] # c
    <3>1. n[c] > c
      BY <1>2, <1>7, <2>2
    <3>. QED
      BY <1>1, <1>6, <3>1 DEF KillMoves, AloneIs
  <2>. QED
    BY <2>1, <2>2
\* The parent is not killed alone.
<1>8. pc'[0] = pc[0] \/ \A q \in Process \ {c} : ~ Alive(q)'
  <2>1. SUFFICES ASSUME pc'[0] # pc[0] PROVE \A q \in Process \ {c} : ~ Alive(q)'
    OBVIOUS
  <2>2. Alive(0) /\ ~ Alive(0)'
    BY <1>1, <1>3, <2>1 DEF Alive, Ended
  <2>3. pids[c][n[c]] # n[c]
    BY <1>1, <1>2, <2>2 DEF KillMoves
  <2>. QED
    BY <1>1, <2>3 DEF KillMoves, AloneIs
<1>9. pc[0] \notin Reaped /\ \A q \in Process : pc[q] = "unlink" => FALSE
  <2>1. pc[0] \notin Reaped
    BY <1>1, ReapedIsAlone
  <2>. QED
    BY <1>1, <1>2, <2>1 DEF HarnessInv, HandlersAgree, AloneIs
<1>b. BranchAgrees' /\ (pc'[0] = pc[0] => LeftAsChild' = LeftAsChild)
  <2>1. CASE pc'[0] = pc[0]
    <3>1. barrier' \in 0 .. barrier
      BY <1>1, <1>2 DEF HarnessTypeOK
    <3>. QED
      BY <1>2, <1>4, <1>5, <2>1, <3>1, BranchStays
  <2>2. CASE pc'[0] # pc[0]
    BY <1>5, <2>2, BranchElsewhere DEF InMain, Ended, AtWork
  <2>. QED
    BY <2>1, <2>2
<1>10. PlacesAgree'
  <2>1. \A d \in Child : pc'[d] \in Ended \union Handling \union AtWork
    BY <1>2, <1>3 DEF HarnessInv, PlacesAgree, Ended, Handling
  <2>. QED
    BY <1>2, <1>5, <2>1 DEF HarnessInv, PlacesAgree, Ended, AtWork
<1>11. LastWrites'
  <2>1. unreaped' = unreaped /\ unreaped \subseteq Child
    BY <1>1, <1>2 DEF HarnessTypeOK
  <2>2. \A d \in Child : pc'[d] \in {"none", "exited"} => pc'[d] = pc[d]
    BY <1>2, <1>3
  <2>3. \A d \in Child : pc[d] = "killed" => pc'[d] = "killed"
    BY <1>2, <1>3 DEF Alive, Ended
  <2>. QED
    <3>1. InMain' => \A d \in unreaped' : pc'[d] \in {"none", "exited"} => stored' > 0
      <4>1. InMain => \A d \in unreaped : pc[d] \in {"none", "exited"} => stored > 0
        BY DEF HarnessInv, LastWrites
      <4>. QED
        BY <1>4, <1>5, <2>1, <2>2, <4>1
    <3>2. pc'[0] = "wait" => FORK_NUM \in unreaped' \/ stored' > 0 \/ \E d \in Child : pc'[d] = "killed"
      <4>1. pc[0] = "wait" => FORK_NUM \in unreaped \/ stored > 0 \/ \E d \in Child : pc[d] = "killed"
        BY DEF HarnessInv, LastWrites
      <4>. QED
        BY <1>4, <1>5, <2>1, <2>3, <4>1
    <3>3. pc'[0] = "post" => FORK_NUM \in unreaped'
      BY <1>5, <2>1 DEF HarnessInv, LastWrites
    <3>4. pc'[0] \notin Reading \union {"end"}
      BY <1>5, <1>9 DEF Reaped, Reading
    <3>. QED
      BY <3>1, <3>2, <3>3, <3>4 DEF LastWrites
<1>12. ParentAgrees'
  <2>1. \A d \in Child : Alive(d)' => d \in unreaped' /\ pids'[0][d] # 0
    BY <1>1, <1>2, <1>3 DEF HarnessInv, ParentAgrees
  <2>2. \A d \in Unforked' : pids'[0][d] = -1 /\ d \notin unreaped' /\ pc'[d] \in {"none", "exited"}
    <3>1. Unforked' \subseteq Unforked /\ Unforked \subseteq Child
      BY <1>5 DEF Unforked
    <3>2. \A d \in Unforked : pids[0][d] = -1 /\ d \notin unreaped /\ pc[d] \in {"none", "exited"}
      BY DEF HarnessInv, ParentAgrees
    <3>3. \A d \in Unforked : pc'[d] = pc[d]
      BY <1>2, <1>3, <3>1, <3>2 DEF Alive, Ended
    <3>. QED
      BY <1>2, <3>1, <3>2, <3>3
  <2>3. pc'[0] = pc[0] => \A d \in Child : Settled(d)' = Settled(d)
    BY <1>5 DEF Settled
  <2>4. unreaped' = unreaped /\ unreaped \subseteq Child /\ pids' = pids
    BY <1>1, <1>2 DEF HarnessTypeOK
  <2>5. InMain => \A d \in Child : (Settled(d) /\ pids[0][d] = -1) => failedForks # 0
    BY DEF HarnessInv, ParentAgrees
  <2>6. /\ pc[0] = "forked" => pids[0][n[0]] = -1 /\ (n[0] \in unreaped \/ failedForks # 0)
        /\ pc[0] \in {"fork", "forked", "post", "wait"} =>
              \A d \in unreaped : Settled(d) => pids[0][d] = d
        /\ pc[0] = "wait" => \A d \in unreaped : d >= n[0]
    BY DEF HarnessInv, ParentAgrees
  <2>7. pc'[0] \notin Reaped
    BY <1>5, <1>9 DEF Reaped, Reading
  <2>. QED
    BY <1>4, <1>5, <2>1, <2>2, <2>3, <2>4, <2>5, <2>6, <2>7 DEF ParentAgrees
<1>13. ChildAgrees'
  <2>1. ASSUME NEW d \in Child, d # c
        PROVE  /\ Alive(d)' => /\ pids'[d][d] = IF "born" \in {pc'[d], from'[d]} THEN -1 ELSE 0
                               /\ \A b \in Child : (b < d /\ pids'[d][b] = -1) => failedForks' # 0
               /\ pc'[d] = "kill" => n'[d] \in Child /\ (n'[d] > d => from'[d] = "born" /\ AloneIs(d)')
               /\ pc'[d] \in AtWork => n'[d] \in 1 .. Writes /\ from'[d] = "none"
    <3>1. pc'[d] \in AtWork \union {"kill"} => Alive(d)'
      BY DEF Alive, Ended, AtWork
    <3>2. ~ AloneIs(d)
      BY <1>1, <2>1 DEF AloneIs
    <3>3. Alive(d)' => pc'[d] = pc[d] /\ Alive(d) /\ n'[d] = n[d]
      BY <1>3, <2>1
    <3>. QED
      BY <1>2, <1>4, <3>1, <3>2, <3>3 DEF HarnessInv, ChildAgrees
  <2>2. pids'[c][c] = IF "born" \in {pc'[c], from'[c]} THEN -1 ELSE 0
    BY <1>2, <1>6
  <2>3. \A b \in Child : (b < c /\ pids'[c][b] = -1) => failedForks' # 0
    BY <1>2, <1>4, <1>6
  <2>4. pc'[c] = "kill" => n'[c] \in Child /\ (n'[c] > c => from'[c] = "born" /\ AloneIs(c)')
    <3>1. SUFFICES ASSUME pc'[c] = "kill"
                   PROVE  n'[c] \in Child /\ (n'[c] > c => from'[c] = "born" /\ AloneIs(c)')
      OBVIOUS
    <3>2. Alive(c)' /\ n[c] # FORK_NUM
      BY <1>2, <3>1
    <3>3. n'[c] \in Child /\ (n'[c] > c => n[c] >= c)
      BY <1>2, <3>2 DEF Child
    <3>. QED
      BY <1>2, <1>7, <3>2, <3>3
  <2>. QED
    BY <1>2, <2>1, <2>2, <2>3, <2>4 DEF ChildAgrees, AtWork
<1>14. HandlersAgree'
  <2>1. pc'[0] = "kill" => \A d \in Child : Alive(d)' => d >= n'[0]
    BY <1>1, <1>2, <1>3, <1>5 DEF HarnessInv, HandlersAgree
  <2>2. \A p \in Process : pc'[p] = "unlink" => AloneIs(p)'
    <3>1. pc'[c] = "unlink" => AloneIs(c)'
      <4>1. pc'[c] = "unlink" => Alive(c)' /\ n[c] >= c
        BY <1>2 DEF Child
      <4>. QED
        BY <1>7, <4>1
    <3>. QED
      BY <1>3, <1>9, <3>1
  <2>3. pc'[0] \in Handling => \A d \in Child : pids'[0][d] = -1 =>
                                  (failedForks' # 0 \/ from'[0] \in {"fork", "forked"})
    BY <1>2, <1>4, <1>5 DEF HarnessInv, HandlersAgree, Handling
  <2>4. InMain' => pc'[c] = "kill"
    <3>1. SUFFICES ASSUME InMain' PROVE pc'[c] = "kill"
      OBVIOUS
    <3>2. Alive(0)'
      BY <3>1 DEF InMain, Alive
    <3>3. Alive(c)'
      <4>1. pids[c][n[c]] # 0 /\ (n[c] = c => pids[c][n[c]] # n[c])
        BY <1>1, <1>2, <1>6, <3>2 DEF KillMoves
      <4>. QED
        BY <1>1, <4>1 DEF KillMoves
    <3>4. n[c] # FORK_NUM
      BY <1>1, <1>2, <1>7, <3>2, <3>3 DEF AloneIs, Child
    <3>. QED
      BY <1>2, <3>3, <3>4
  <2>5. pc'[0] \in Ended /\ ~ LeftAsChild' => \A d \in Child : Alive(d)' => pc'[d] \in Handling
    <3>1. Alive(c)' => pc'[c] \in Handling
      BY <1>2 DEF Handling
    <3>2. pc[0] \in Ended /\ ~ LeftAsChild => \A d \in Child : Alive(d) => pc[d] \in Handling
      BY DEF HarnessInv, HandlersAgree
    <3>3. ASSUME pc'[0] \in Ended, ~ LeftAsChild', NEW d \in Child, Alive(d)'
          PROVE  pc'[d] \in Handling
      <4>1. CASE d = c
        BY <3>1, <3>3, <4>1
      <4>2. CASE d # c
        <5>1. d \in Process /\ d \in Process \ {c}
          BY <4>2 DEF Child, Process
        <5>2. pc'[0] = pc[0]
          BY <1>8, <3>3, <5>1
        <5>3. pc[0] \in Ended /\ ~ LeftAsChild
          BY <1>b, <3>3, <5>2
        <5>4. Alive(d) /\ pc'[d] = pc[d]
          BY <1>3, <3>3, <4>2, <5>1
        <5>. QED
          BY <3>2, <5>3, <5>4
      <4>. QED
        BY <4>1, <4>2
    <3>. QED
      BY <3>3
  <2>6. outsiders' => ~ InMain'
    <3>1. outsiders => ~ InMain
      BY DEF HarnessInv, HandlersAgree
    <3>2. pids[c][n[c]] = -1 => ~ Alive(0)'
      BY <1>1 DEF KillMoves, AloneIs
    <3>. QED
      BY <1>2, <1>5, <3>1, <3>2 DEF InMain, Alive
  <2>. QED
    BY <2>1, <2>2, <2>3, <2>4, <2>5, <2>6 DEF HandlersAgree
<1>15. ~ Calm'
  BY <1>2 DEF Calm, Handling
<1>16. ValuesAgree'
  <2>1. \A d \in Child : pc'[d] \in AtWork => pc'[d] = pc[d] /\ n'[d] = n[d]
    BY <1>2, <1>3 DEF AtWork
  <2>2. ToCome' \subseteq ToCome
    BY <1>5, <2>1, FewerToCome
  <2>. QED
    BY <1>4, <1>5, <1>15, <2>2, ValuesStay DEF Counting
<1>17. PostsAgree' /\ RoundsAgree' /\ CountsAgree'
  BY <1>2, <1>4, <1>5, <1>15 DEF HarnessInv, PostsAgree, RoundsAgree, CountsAgree
<1>18. OutsidersAreSafe'
  <2>1. pids[c][n[c]] = -1 => (failedForks # 0 \/ from[c] = "born")
    <3>1. CASE n[c] < c
      BY <1>2, <1>6, <3>1
    <3>2. ASSUME n[c] >= c, pids[c][n[c]] = -1 PROVE from[c] = "born"
      BY <1>1, <1>7, <3>2 DEF KillMoves
    <3>3. n[c] < c \/ n[c] >= c
      BY <1>2 DEF Child
    <3>. QED
      BY <3>1, <3>2, <3>3
  <2>. QED
    BY <1>2, <1>4, <2>1 DEF HarnessInv, OutsidersAreSafe
<1>19. NamesAreGone'
  BY <1>2 DEF NamesAreGone, Over
<1>. QED
  BY <1>1, <1>b, <1>10, <1>11, <1>12, <1>13, <1>14, <1>16, <1>17, <1>18, <1>19 DEF HarnessInv

\* Whoever takes the names away is alone, and exits.
LEMMA UnlinkKeeps ==
    ASSUME HarnessInv, NEW p \in Process, Unlink(p)
    PROVE  HarnessInv'
<1>. USE Numbers
<1>1. HarnessTypeOK /\ pc[p] = "unlink" /\ AloneIs(p)
  BY DEF HarnessInv, HandlersAgree, Unlink, UnlinkTo, Goto
<1>2. /\ pc' = [pc EXCEPT ![p] = "exited"] /\ names' = NoNames /\ abandoned' = FALSE
      /\ UNCHANGED <<n, pids, unreaped, barrier, stored, loop, fault, pending, from, signals, outsiders>>
  BY DEF Unlink, UnlinkTo, Goto
<1>3. /\ pc'[p] = "exited" /\ \A q \in Process : q # p => pc'[q] = pc[q]
      /\ failedForks' = failedForks /\ errors' = errors /\ round' = round
  BY <1>1, <1>2 DEF HarnessTypeOK, fault, loop
<1>4. \A q \in Process : ~ Alive(q)' /\ pc'[q] \in Ended
  BY <1>1, <1>3 DEF AloneIs, Alive, Ended
<1>5. HarnessTypeOK'
  <2>1. pc' \in [Process -> Place]
    BY <1>1, <1>2 DEF HarnessTypeOK, Place, Ended
  <2>2. names' \in [shm : BOOLEAN, writers : {Absent, 0, 1}, readers : {Absent, 0, 1}]
    BY <1>2 DEF NoNames
  <2>. QED
    BY <1>1, <1>2, <2>1, <2>2 DEF HarnessTypeOK, loop, fault
<1>6. pc'[0] \in Ended /\ Unforked' = {} /\ ~ InMain' /\ \A c \in Child : pc'[c] \in Ended
  BY <1>4 DEF Unforked, InMain, Ended
<1>7. PlacesAgree' /\ LastWrites' /\ ParentAgrees'
  <2>1. \A c \in Child : ~ Alive(c)'
    BY <1>4
  <2>. QED
    BY <1>2, <1>6, <2>1 DEF HarnessInv, PlacesAgree, LastWrites, ParentAgrees, Ended, Reaped, Reading, AtWork
<1>8. ChildAgrees' /\ HandlersAgree'
  BY <1>2, <1>4, <1>6 DEF ChildAgrees, HandlersAgree, Ended, Handling, AtWork
<1>9. ValuesAgree'
  BY <1>6 DEF ValuesAgree, Counting
<1>10. PostsAgree' /\ RoundsAgree' /\ CountsAgree'
  BY <1>3, <1>6 DEF HarnessInv, PostsAgree, Calm, RoundsAgree, CountsAgree, Ended
<1>11. OutsidersAreSafe' /\ NamesAreGone'
  BY <1>2, <1>3 DEF HarnessInv, OutsidersAreSafe, NamesAreGone
<1>12. BranchAgrees'
  BY <1>6, BranchElsewhere DEF AtWork, Ended
<1>. QED
  BY <1>5, <1>7, <1>8, <1>9, <1>10, <1>11, <1>12 DEF HarnessInv

-----------------------------------------------------------------------------
(* The theorems *)

LEMMA NextKeeps == HarnessInv /\ [Next]_vars => HarnessInv'
<1>. SUFFICES ASSUME HarnessInv, [Next]_vars PROVE HarnessInv'
  OBVIOUS
<1>1. CASE Start
  BY <1>1, StartKeeps
<1>2. CASE Parent
  BY <1>2, StartRoundKeeps, ForkKeeps, ForkFailsKeeps, StorePidKeeps, PostKeeps, WaitKeeps,
     ReapedStepKeeps, ParentAsChildKeeps DEF Parent, ReapedStep
<1>3. CASE Signal
  BY <1>3, QuietKeeps DEF Signal, HarnessInv, HarnessTypeOK
<1>4. ASSUME NEW c \in Child, ChildStep(c) PROVE HarnessInv'
  BY <1>4, ChildStepKeeps
<1>5. ASSUME NEW p \in Process, Handler(p) PROVE HarnessInv'
  <2>1. CASE Interrupt(p)
    BY <2>1, InterruptParentKeeps, InterruptChildKeeps DEF Process, Child
  <2>2. CASE KillOne(p)
    BY <2>2, KillByParentKeeps, KillByChildKeeps DEF Process, Child
  <2>3. CASE Unlink(p)
    BY <2>3, UnlinkKeeps
  <2>. QED
    BY <1>5, <2>1, <2>2, <2>3 DEF Handler
<1>6. CASE UNCHANGED vars
  BY <1>6, QuietKeeps DEF vars, signal, HarnessInv, HarnessTypeOK
<1>. QED
  BY <1>1, <1>2, <1>3, <1>4, <1>5, <1>6 DEF Next

\* The inductive invariant: what each process knows of the others, what a handler has done
\* so far, and how many values and posts are still to come.
THEOREM HarnessInvariant == Spec => []HarnessInv
BY InitInv, NextKeeps, PTL DEF Spec

THEOREM HarnessTypeCorrect == Spec => []HarnessTypeOK
<1>1. HarnessInv => HarnessTypeOK
  BY DEF HarnessInv
<1>. QED
  BY <1>1, HarnessInvariant, PTL

\* Whoever reads all values or takes the names away is alone.
THEOREM NobodyElseIsAlive == Spec => []ParentAlone
<1>1. HarnessInv => ParentAlone
  <2>. SUFFICES ASSUME HarnessInv, NEW p \in Process,
                       pc[p] \in {"read", "r_waitw", "r_unlock", "r_cs", "d_postw", "d_unlock", "count",
                                  "delete", "end", "unlink"}
                PROVE  AloneIs(p)
    BY DEF ParentAlone, AloneIs
  <2>1. CASE pc[p] = "unlink"
    BY <2>1 DEF HarnessInv, HandlersAgree
  <2>2. CASE pc[p] # "unlink"
    <3>1. p = 0
      BY <2>2 DEF HarnessInv, PlacesAgree, Process, Child, Ended, Handling, AtWork
    <3>2. pc[0] \in Reaped
      BY <2>2, <3>1 DEF Reaped, Reading
    <3>. QED
      BY <3>1, <3>2, ReapedIsAlone DEF AloneIs, Process, Child
  <2>. QED
    BY <2>1, <2>2
<1>. QED
  BY <1>1, HarnessInvariant, PTL

\* However many forks fail, no child outlives its parent but to finish a handler, unless
\* the parent has passed the barrier of the children after a second failed fork.
THEOREM ChildrenDoNotOutlive == Spec => []NoOrphans
<1>1. HarnessInv => NoOrphans
  BY DEF HarnessInv, HandlersAgree, NoOrphans, Ended, Handling
<1>. QED
  BY <1>1, HarnessInvariant, PTL

\* A count that differs from what was written comes only after a failed fork.
THEOREM ValuesAreCounted == Spec => []CountsAgree
<1>1. HarnessInv => CountsAgree
  BY DEF HarnessInv
<1>. QED
  BY <1>1, HarnessInvariant, PTL

\* kill(-1) needs a handler that came before the result of a fork was stored, or a failed fork.
THEOREM OthersAreSpared == Spec => []OutsidersAreSafe
<1>1. HarnessInv => OutsidersAreSafe
  BY DEF HarnessInv
<1>. QED
  BY <1>1, HarnessInvariant, PTL

\* A launch that is over leaves no name, unless a handler killed its own group or the
\* parent has left as a child.
THEOREM NamesDoNotStay == Spec => []NamesAreGone
<1>1. HarnessInv => NamesAreGone
  BY DEF HarnessInv
<1>. QED
  BY <1>1, HarnessInvariant, PTL
=============================================================================
