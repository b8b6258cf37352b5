------------------------- MODULE SRContainerProofs -------------------------
(***************************************************************************)
(* Proofs about SRCgroups and SRContainer, for any set of launches, any    *)
(* host names and any lists of controllers; any of the launches may fail   *)
(* at any call or have either of its processes killed.                     *)
(*                                                                         *)
(* The first half needs nothing of SRContainer: Next and Spec are those of *)
(* SRCgroups.  The second is about main and its child: every step of theirs *)
(* keeps the groups as SRCgroups has them, and the payload is confined.    *)
(***************************************************************************)
EXTENDS SRContainer, TLAPS

-----------------------------------------------------------------------------
(* The groups: what is there, and what main has come to *)

\* The entries of a launch are directories, all of its own host name.
LEMMA EntriesAreDirs ==
    ASSUME NEW l \in Launch
    PROVE  /\ Len(ControlsOf[l]) \in Nat
           /\ DirsOf(l) = Entries(l, 1, Len(ControlsOf[l]))
           /\ \A d \in DirsOf(l) : d \in Dir /\ d[2] = NameOf[l]
           /\ \A i \in 1 .. Len(ControlsOf[l]) :
                 /\ ControlsOf[l][i] \in Control
                 /\ <<ControlsOf[l][i], NameOf[l]>> \in DirsOf(l)
           /\ \A i, j \in Int : 1 <= i /\ j <= Len(ControlsOf[l]) =>
                 Entries(l, i, j) \subseteq DirsOf(l)
<1>1. ControlsOf[l] \in Seq(Control) /\ NameOf[l] \in Name
  BY LaunchAssumption
<1>2. /\ Len(ControlsOf[l]) \in Nat
      /\ DOMAIN ControlsOf[l] = 1 .. Len(ControlsOf[l])
      /\ \A i \in 1 .. Len(ControlsOf[l]) : ControlsOf[l][i] \in Control
  BY <1>1
<1>. QED
  BY <1>1, <1>2 DEF DirsOf, Entries, Dir

\* The entry that main has come to.
LEMMA DirAtIsDir ==
    ASSUME CgroupTypeOK, NEW l \in Launch, at[l] <= Len(ControlsOf[l])
    PROVE  DirAt(l) \in DirsOf(l) /\ DirAt(l) \in Dir /\ DirAt(l)[2] = NameOf[l]
<1>1. at[l] \in 1 .. Len(ControlsOf[l])
  BY EntriesAreDirs DEF CgroupTypeOK
<1>. QED
  BY <1>1, EntriesAreDirs DEF DirAt

\* Main writes 0 to the tasks of a group when it is the last thing left to write there.
LEMMA UnwrittenEnds ==
    ASSUME NEW s \in Unwritten
    PROVE  /\ Tail(s) \in {<<>>} \union Unwritten
           /\ Len(s) = 1 <=> s = <<"tasks">>
           /\ Head(s) = "tasks" <=> s = <<"tasks">>
           /\ s # <<"tasks">> => Tail(s) \in Unwritten
<1>1. CASE s = <<"cpus", "mems", "tasks">>
  <2>1. Len(s) = 3 /\ Head(s) = "cpus" /\ Tail(s) = <<"mems", "tasks">>
    BY <1>1
  <2>. QED
    BY <1>1, <2>1 DEF Unwritten
<1>2. CASE s = <<"mems", "tasks">>
  <2>1. Len(s) = 2 /\ Head(s) = "mems" /\ Tail(s) = <<"tasks">>
    BY <1>2
  <2>. QED
    BY <1>2, <2>1 DEF Unwritten
<1>3. CASE s = <<"value", "tasks">>
  <2>1. Len(s) = 2 /\ Head(s) = "value" /\ Tail(s) = <<"tasks">>
    BY <1>3
  <2>. QED
    BY <1>3, <2>1 DEF Unwritten
<1>4. CASE s = <<"tasks">>
  <2>1. Len(s) = 1 /\ Head(s) = "tasks" /\ Tail(s) = <<>>
    BY <1>4
  <2>. QED
    BY <1>4, <2>1 DEF Unwritten
<1>. QED
  BY <1>1, <1>2, <1>3, <1>4 DEF Unwritten

LEMMA SettingsUnwritten ==
    ASSUME NEW c
    PROVE  Settings(c) \in Unwritten /\ Settings(c) # <<"tasks">>
BY DEF Settings, Unwritten

-----------------------------------------------------------------------------
(***************************************************************************)
(* What a step of one launch leaves to the others: their places and tasks, *)
(* and all directories but those of its own host name.  It changes the     *)
(* limits only of the directory that it writes to, or takes away empty.    *)
(***************************************************************************)
KeepsOthers(l) ==
    /\ \A m \in Launch \ {l} :
          /\ pc'[m] = pc[m] /\ at'[m] = at[m] /\ todo'[m] = todo[m]
          /\ \A d \in Dir : \A r \in {"main", "child"} :
                <<m, r>> \in tasks'[d] <=> <<m, r>> \in tasks[d]
    /\ \A d \in Dir : d[2] # NameOf[l] => (d \in groups' <=> d \in groups) /\ limit'[d] = limit[d]
    /\ \A d \in Dir : limit'[d] # limit[d] =>
          \/ pc[l] = "settings" /\ d = DirAt(l)
          \/ tasks[d] = {} /\ d \notin groups'
    /\ \A d \in Dir : d \in groups' /\ d \notin groups => pc[l] = "mkdir" /\ d = DirAt(l)
    /\ \A d \in Dir : d \in groups /\ d \notin groups' => pc[l] = "rmdir"

\* How a step takes its own launch on: to the settings of a directory only by making it,
\* past them only by joining it, and to a child only by the clone.
Advances(l) ==
    /\ pc'[l] = "settings" =>
          /\ DirAt(l)' = DirAt(l)
          /\ \/ pc[l] = "settings" /\ groups' = groups
             \/ pc[l] = "mkdir" /\ DirAt(l) \notin groups /\ DirAt(l) \in groups'
    /\ pc'[l] \in SettingUp =>
          /\ pc[l] \in SettingUp
          /\ \A d \in Entries(l, 1, at[l] - 1)' :
                d \in Entries(l, 1, at[l] - 1) \/ (pc[l] = "settings" /\ d = DirAt(l))
    /\ Alive(<<l, "child">>)' => Alive(<<l, "child">>) \/ pc[l] = "clone"

\* The invariant of one launch is not disturbed by the step of another.
LEMMA OthersKeepInv ==
    ASSUME CgroupTypeOK, PairsApart, NEW l \in Launch, KeepsOthers(l),
           NEW m \in Launch, m # l, LaunchInv(m)
    PROVE  LaunchInv(m)'
<1>1. /\ pc'[m] = pc[m] /\ at'[m] = at[m] /\ todo'[m] = todo[m]
      /\ \A d \in Dir : \A r \in {"main", "child"} :
            <<m, r>> \in tasks'[d] <=> <<m, r>> \in tasks[d]
  BY DEF KeepsOthers
<1>2. at[m] \in 1 .. Len(ControlsOf[m]) + 1 /\ DirAt(m)' = DirAt(m)
  BY <1>1 DEF CgroupTypeOK, DirAt
<1>3. \A d \in DirsOf(m) : d \in Dir /\ d[2] = NameOf[m]
  BY EntriesAreDirs
<1>4. \A d \in Entries(m, 1, at[m] - 1) : d \in Dir /\ d[2] = NameOf[m]
  BY <1>2, <1>3, EntriesAreDirs
<1>5. Alive(<<m, "child">>)' <=> Alive(<<m, "child">>)
  BY <1>1 DEF Alive
<1>6. pc[m] \in {"settings", "rmdir"} => DirAt(m) \in Dir /\ DirAt(m)[2] = NameOf[m]
  BY DirAtIsDir DEF CgroupTypeOK
<1>7. MainIsIn(m)'
  BY <1>1, <1>2, <1>4, <1>6 DEF LaunchInv, MainIsIn, Entries
<1>8. ChildIsIn(m)'
  BY <1>1, <1>3, <1>5 DEF LaunchInv, ChildIsIn, DirsOf
<1>9. ASSUME AtMostOneShares(m) PROVE OwnLimits(m)'
  <2>1. OwnLimits(m)
    BY <1>9 DEF LaunchInv
  <2>2. CASE NameOf[m] # NameOf[l]
    BY <1>1, <1>2, <1>3, <1>4, <1>5, <1>6, <2>1, <2>2
       DEF OwnLimits, KeepsOthers, Entries, DirsOf
  <2>3. CASE NameOf[m] = NameOf[l]
    <3>1. Apart(m, l)
      BY <1>9, <2>3 DEF AtMostOneShares, Pair, PairsApart
    <3>2. /\ \A d \in Dir : limit'[d] # limit[d] =>
                \/ pc[l] = "settings" /\ d = DirAt(l)
                \/ tasks[d] = {} /\ d \notin groups'
          /\ \A d \in Dir : d \in groups' /\ d \notin groups => pc[l] = "mkdir" /\ d = DirAt(l)
      BY DEF KeepsOthers
    <3>3. pc[m] \in SettingUp => \A d \in Entries(m, 1, at[m] - 1) : limit'[d] = limit[d]
      <4>1. pc[m] \in SettingUp => \A d \in Entries(m, 1, at[m] - 1) : d \in Dir /\ tasks[d] # {}
        BY <1>4 DEF LaunchInv, MainIsIn
      <4>. QED
        BY <3>1, <3>2, <4>1 DEF Apart
    <3>4. pc[m] = "settings" /\ DirAt(m) \in groups' =>
             DirAt(m) \in groups /\ limit'[DirAt(m)] = limit[DirAt(m)]
      BY <1>6, <3>1, <3>2 DEF Apart, SettingUp
    <3>5. Alive(<<m, "child">>) => \A d \in DirsOf(m) : limit'[d] = limit[d]
      <4>1. Alive(<<m, "child">>) => \A d \in DirsOf(m) : d \in Dir /\ tasks[d] # {}
        BY <1>3 DEF LaunchInv, ChildIsIn
      <4>. QED
        BY <3>1, <3>2, <4>1 DEF Apart
    <3>6. Entries(m, 1, at[m] - 1)' = Entries(m, 1, at[m] - 1) /\ DirsOf(m)' = DirsOf(m)
      BY <1>1 DEF Entries, DirsOf
    <3>. QED
      BY <1>1, <1>2, <1>5, <2>1, <3>3, <3>4, <3>5, <3>6 DEF OwnLimits
  <2>. QED
    BY <2>2, <2>3
<1>10. ASSUME Alone(m) PROVE Accounted(m)'
  <2>1. NameOf[m] # NameOf[l]
    BY <1>10 DEF Alone
  <2>3. (DirsOf(m) \intersect groups)' = DirsOf(m) \intersect groups
    BY <1>3, <2>1 DEF KeepsOthers, DirsOf
  <2>4. \A i, k \in Int : Standing(m, i, k) => Standing(m, i, k)'
    BY <2>3 DEF Standing, Entries
  <2>5. Accounted(m)
    BY <1>10 DEF LaunchInv
  <2>6. at[m] \in Int /\ 0 .. Len(ControlsOf[m]) \subseteq Int
    BY <1>2, EntriesAreDirs
  <2>. QED
    BY <1>1, <2>3, <2>4, <2>5, <2>6 DEF Accounted
<1>11. (Alone(m)' <=> Alone(m)) /\ (AtMostOneShares(m)' <=> AtMostOneShares(m))
  BY DEF Alone, AtMostOneShares, Pair
<1>. QED
  BY <1>7, <1>8, <1>9, <1>10, <1>11 DEF LaunchInv

\* Two launches of one host name stay apart when one of them takes a step ...
LEMMA StepKeepsApart ==
    ASSUME CgroupInv, NEW l \in Launch, KeepsOthers(l), Advances(l),
           NEW m \in Launch, m # l, NameOf[m] = NameOf[l], Pair(l, m)
    PROVE  Apart(l, m)' /\ Apart(m, l)'
<1>1. /\ Apart(l, m) /\ Apart(m, l)
      /\ CgroupTypeOK /\ LaunchInv(l) /\ LaunchInv(m)
  BY DEF CgroupInv, PairsApart, Pair
<1>2. /\ pc'[m] = pc[m] /\ at'[m] = at[m] /\ DirAt(m)' = DirAt(m)
      /\ Entries(m, 1, at[m] - 1)' = Entries(m, 1, at[m] - 1)
      /\ DirsOf(l)' = DirsOf(l) /\ DirsOf(m)' = DirsOf(m)
      /\ (Alive(<<m, "child">>)' <=> Alive(<<m, "child">>))
  BY DEF KeepsOthers, DirAt, Entries, DirsOf, Alive
<1>3. /\ pc[m] = "settings" => DirAt(m) \in Dir
      /\ pc[l] = "clone" => DirsOf(l) = Entries(l, 1, at[l] - 1)
      /\ \A d \in DirsOf(m) : d \in Dir
      /\ pc[m] \in SettingUp => \A d \in Entries(m, 1, at[m] - 1) : d \in Dir
  <2>1. /\ at[m] \in 1 .. Len(ControlsOf[m]) + 1
        /\ pc[m] = "settings" => at[m] <= Len(ControlsOf[m])
        /\ pc[l] = "clone" => at[l] = Len(ControlsOf[l]) + 1
        /\ Len(ControlsOf[m]) \in Nat /\ Len(ControlsOf[l]) \in Nat
    BY <1>1, EntriesAreDirs DEF CgroupTypeOK
  <2>2. pc[m] = "settings" => DirAt(m) \in Dir
    BY <1>1, <2>1, DirAtIsDir
  <2>3. pc[l] = "clone" => DirsOf(l) = Entries(l, 1, at[l] - 1)
    BY <2>1, EntriesAreDirs
  <2>4. \A d \in DirsOf(m) : d \in Dir
    BY EntriesAreDirs
  <2>5. Entries(m, 1, at[m] - 1) \subseteq DirsOf(m)
    BY <2>1, EntriesAreDirs
  <2>. QED
    BY <2>2, <2>3, <2>4, <2>5
<1>4. Apart(l, m)'
  <2>1. pc'[l] = "settings" /\ pc[m] \in SettingUp => DirAt(l)' \in groups'
    BY <1>1 DEF Apart, Advances
  <2>2. ASSUME pc[m] = "settings", pc'[l] \in SettingUp
        PROVE  DirAt(m) \notin Entries(l, 1, at[l] - 1)'
    BY <1>1, <2>2 DEF Apart, Advances
  <2>3. ASSUME pc[m] = "settings", pc'[l] = "settings" PROVE DirAt(l)' # DirAt(m)
    BY <1>1, <2>3 DEF Apart, Advances, SettingUp
  <2>4. ASSUME pc[m] = "settings", Alive(<<l, "child">>)' PROVE DirAt(m) \notin DirsOf(l)
    BY <1>1, <1>3, <2>4 DEF Apart, Advances, SettingUp
  <2>. QED
    BY <1>2, <2>1, <2>2, <2>3, <2>4 DEF Apart
<1>5. Apart(m, l)'
  <2>1. ASSUME pc[m] = "settings", pc'[l] \in SettingUp PROVE DirAt(m) \in groups'
    <3>1. pc[l] \in SettingUp /\ DirAt(m) \in groups
      BY <1>1, <2>1 DEF Apart, Advances
    <3>. QED
      BY <1>3, <2>1, <3>1 DEF KeepsOthers, SettingUp
  <2>2. /\ pc[m] \in SettingUp => \A d \in Entries(m, 1, at[m] - 1) : d \in groups
        /\ Alive(<<m, "child">>) => \A d \in DirsOf(m) : d \in groups
    BY <1>1, <1>3 DEF LaunchInv, MainIsIn, ChildIsIn, CgroupTypeOK
  <2>3. ASSUME pc'[l] = "settings", pc[m] \in SettingUp
        PROVE  DirAt(l)' \notin Entries(m, 1, at[m] - 1)
    BY <1>1, <2>2, <2>3 DEF Apart, Advances
  <2>4. ASSUME pc'[l] = "settings", pc[m] = "settings" PROVE DirAt(l)' # DirAt(m)
    BY <1>1, <2>4 DEF Apart, Advances, SettingUp
  <2>5. ASSUME pc'[l] = "settings", Alive(<<m, "child">>) PROVE DirAt(l)' \notin DirsOf(m)
    BY <1>1, <2>2, <2>5 DEF Apart, Advances
  <2>. QED
    BY <1>2, <2>1, <2>3, <2>4, <2>5 DEF Apart
<1>. QED
  BY <1>4, <1>5

\* ... and when a launch of another name does.
LEMMA OthersKeepApart ==
    ASSUME CgroupInv, NEW l \in Launch, KeepsOthers(l),
           NEW x \in Launch \ {l}, NEW y \in Launch \ {l},
           x # y, NameOf[x] = NameOf[y], Pair(x, y)
    PROVE  Apart(x, y)'
<1>1. Apart(x, y) /\ CgroupTypeOK /\ NameOf[l] # NameOf[x]
  BY DEF CgroupInv, PairsApart, Pair
<1>2. ASSUME NEW m \in {x, y}
      PROVE  /\ pc'[m] = pc[m] /\ at'[m] = at[m] /\ DirAt(m)' = DirAt(m)
             /\ Entries(m, 1, at[m] - 1)' = Entries(m, 1, at[m] - 1) /\ DirsOf(m)' = DirsOf(m)
             /\ (Alive(<<m, "child">>)' <=> Alive(<<m, "child">>))
  <2>1. m \in Launch \ {l}
    OBVIOUS
  <2>2. /\ pc'[m] = pc[m] /\ at'[m] = at[m]
        /\ \A d \in Dir : <<m, "child">> \in tasks'[d] <=> <<m, "child">> \in tasks[d]
    BY <2>1 DEF KeepsOthers
  <2>. QED
    BY <2>2 DEF DirAt, Entries, DirsOf, Alive
<1>3. pc[x] = "settings" => (DirAt(x) \in groups' <=> DirAt(x) \in groups)
  <2>1. pc[x] = "settings" => DirAt(x) \in Dir /\ DirAt(x)[2] = NameOf[x]
    BY <1>1, DirAtIsDir DEF CgroupTypeOK
  <2>. QED
    BY <1>1, <2>1 DEF KeepsOthers
<1>. QED
  BY <1>1, <1>2, <1>3 DEF Apart

\* So a step preserves the invariant if it preserves that of the launch that takes it.
LEMMA StepPreserves ==
    ASSUME CgroupInv, NEW l \in Launch, KeepsOthers(l), Advances(l),
           CgroupTypeOK', TasksKeepToNames', LaunchInv(l)'
    PROVE  CgroupInv'
<1>1. ASSUME NEW m \in Launch PROVE LaunchInv(m)'
  <2>1. CASE m = l
    BY <2>1
  <2>2. CASE m # l
    BY <2>2, OthersKeepInv DEF CgroupInv
  <2>. QED
    BY <2>1, <2>2
<1>2. PairsApart'
  <2>. SUFFICES ASSUME NEW x \in Launch, NEW y \in Launch,
                       x # y, NameOf[x] = NameOf[y], Pair(x, y)
                PROVE  Apart(x, y)'
    BY DEF PairsApart, Pair
  <2>1. CASE x = l \/ y = l
    BY <2>1, StepKeepsApart DEF Pair
  <2>2. CASE x # l /\ y # l
    BY <2>2, OthersKeepApart
  <2>. QED
    BY <2>1, <2>2
<1>. QED
  BY <1>1, <1>2 DEF CgroupInv

LEMMA InitCgroupInv == Init => CgroupInv
<1>. SUFFICES ASSUME Init PROVE CgroupInv
  OBVIOUS
<1>1. \A l \in Launch : Len(ControlsOf[l]) \in Nat
  BY EntriesAreDirs
<1>2. CgroupTypeOK
  BY <1>1 DEF Init, CgroupTypeOK, SettingUp
<1>3. TasksKeepToNames /\ \A t : ~ Alive(t)
  BY DEF Init, TasksKeepToNames, Alive
<1>4. ASSUME NEW l \in Launch PROVE LaunchInv(l)
  <2>1. pc[l] = "mkdir" /\ at[l] = 1 /\ Entries(l, 1, 0) = {} /\ DirsOf(l) \intersect groups = {}
    BY DEF Init, Entries
  <2>2. Standing(l, 1, at[l] - 1)
    BY <2>1 DEF Standing
  <2>. QED
    BY <1>3, <2>1, <2>2 DEF LaunchInv, MainIsIn, ChildIsIn, OwnLimits, Accounted
<1>5. PairsApart
  BY DEF Init, PairsApart, Apart
<1>. QED
  BY <1>2, <1>3, <1>4, <1>5 DEF CgroupInv

-----------------------------------------------------------------------------
(***************************************************************************)
(* One lemma per action.  Each takes the type, the names in the            *)
(* directories, what is left to others, and then the three parts of        *)
(* LaunchInv for the launch that takes the step.                           *)
(***************************************************************************)

\* All actions that only go to another place.
LEMMA GotoMoves ==
    ASSUME CgroupTypeOK, NEW l \in Launch, NEW from, NEW to, Goto(l, from, to)
    PROVE  /\ pc[l] = from /\ pc'[l] = to
           /\ \A m \in Launch \ {l} : pc'[m] = pc[m]
           /\ to \in SettingUp \union {"leave", "rmdir"} \union Ended =>
                 pc' \in [Launch -> SettingUp \union {"leave", "rmdir"} \union Ended]
BY DEF Goto, CgroupTypeOK

\* The clean-up starts with every directory still there that the loop has made.
LEMMA CleanUpPreserves ==
    ASSUME CgroupInv, NEW l \in Launch, NEW from \in SettingUp, CleanUp(l, from),
           ~ Alive(<<l, "child">>), UNCHANGED <<groups, tasks, limit>>
    PROVE  CgroupInv'
<1>1. /\ pc[l] = from /\ pc'[l] = "leave"
      /\ \A m \in Launch \ {l} : pc'[m] = pc[m]
      /\ pc' \in [Launch -> SettingUp \union {"leave", "rmdir"} \union Ended]
  BY GotoMoves DEF CgroupInv, CleanUp
<1>2. /\ at' = [at EXCEPT ![l] = 1] /\ todo' = [todo EXCEPT ![l] = <<>>]
      /\ groups' = groups /\ tasks' = tasks /\ limit' = limit
  BY DEF CleanUp
<1>3. /\ at \in [Launch -> Nat] /\ at[l] \in 1 .. Len(ControlsOf[l]) + 1
      /\ at'[l] = 1
  BY <1>2 DEF CgroupInv, CgroupTypeOK
<1>4. CgroupTypeOK'
  BY <1>1, <1>2, EntriesAreDirs DEF CgroupInv, CgroupTypeOK, SettingUp, Ended
<1>5. TasksKeepToNames'
  BY <1>2 DEF CgroupInv, TasksKeepToNames
<1>6. KeepsOthers(l)
  BY <1>1, <1>2 DEF CgroupInv, CgroupTypeOK, KeepsOthers
<1>7. MainIsIn(l)' /\ ChildIsIn(l)'
  BY <1>1, <1>2 DEF MainIsIn, ChildIsIn, SettingUp, Alive
<1>8. OwnLimits(l)'
  BY <1>1, <1>2 DEF OwnLimits, SettingUp, Alive
<1>9. ASSUME Alone(l) PROVE Accounted(l)'
  <2>1. Accounted(l) /\ Len(ControlsOf[l]) \in Nat
    BY <1>9, EntriesAreDirs DEF CgroupInv, LaunchInv
  <2>2. pc[l] = "settings" => at[l] <= Len(ControlsOf[l])
    BY DEF CgroupInv, CgroupTypeOK
  <2>3. PICK k \in 0 .. Len(ControlsOf[l]) : Standing(l, 1, k)
    <3>1. CASE from = "settings"
      BY <1>1, <1>3, <2>1, <2>2, <3>1 DEF Accounted
    <3>2. CASE from \in {"mkdir", "clone", "parent"}
      <4>1. at[l] - 1 \in 0 .. Len(ControlsOf[l]) /\ Standing(l, 1, at[l] - 1)
        BY <1>1, <1>3, <2>1, <3>2 DEF Accounted
      <4>. QED
        BY <4>1
    <3>. QED
      BY <3>1, <3>2 DEF SettingUp
  <2>4. Standing(l, 1, k)'
    BY <1>2, <2>3 DEF Standing, DirsOf, Entries
  <2>. QED
    BY <1>1, <1>3, <2>4 DEF Accounted
<1>10. LaunchInv(l)'
  BY <1>7, <1>8, <1>9 DEF LaunchInv, Alone, AtMostOneShares, Pair
<1>20. Advances(l)
  BY <1>1, <1>2 DEF Advances, SettingUp, Alive
<1>. QED
  BY <1>4, <1>5, <1>6, <1>10, <1>20, StepPreserves

\* An entry whose directory is not there yet differs from those before it.
LEMMA MkdirPreserves ==
    ASSUME CgroupInv, NEW l \in Launch, Mkdir(l)
    PROVE  CgroupInv'
<1>1. /\ pc[l] = "mkdir" /\ pc'[l] = "settings"
      /\ \A m \in Launch \ {l} : pc'[m] = pc[m]
      /\ pc' \in [Launch -> SettingUp \union {"leave", "rmdir"} \union Ended]
  BY GotoMoves DEF CgroupInv, Mkdir, SettingUp
<1>2. /\ at[l] <= Len(ControlsOf[l]) /\ DirAt(l) \notin groups
      /\ groups' = groups \union {DirAt(l)}
      /\ todo' = [todo EXCEPT ![l] = Settings(ControlsOf[l][at[l]])]
      /\ at' = at /\ tasks' = tasks /\ limit' = limit
  BY DEF Mkdir
<1>3. DirAt(l) \in Dir /\ DirAt(l) \in DirsOf(l) /\ DirAt(l)[2] = NameOf[l]
  BY <1>2, DirAtIsDir DEF CgroupInv
<1>4. todo'[l] \in Unwritten /\ todo'[l] # <<"tasks">>
  BY <1>2, SettingsUnwritten DEF CgroupInv, CgroupTypeOK
<1>5. /\ Len(ControlsOf[l]) \in Nat /\ at[l] \in 1 .. Len(ControlsOf[l])
      /\ DirAt(l)' = DirAt(l) /\ Entries(l, 1, at[l] - 1)' = Entries(l, 1, at[l] - 1)
  BY <1>2, EntriesAreDirs DEF CgroupInv, CgroupTypeOK, DirAt, Entries
<1>6. CgroupTypeOK'
  BY <1>1, <1>2, <1>3, <1>4 DEF CgroupInv, CgroupTypeOK, SettingUp, Ended
<1>7. TasksKeepToNames'
  BY <1>2 DEF CgroupInv, TasksKeepToNames
<1>8. KeepsOthers(l)
  BY <1>1, <1>2, <1>3 DEF CgroupInv, CgroupTypeOK, KeepsOthers
<1>9. MainIsIn(l) /\ ChildIsIn(l) /\ (AtMostOneShares(l) => OwnLimits(l)) /\ (Alone(l) => Accounted(l))
  BY DEF CgroupInv, LaunchInv
<1>10. MainIsIn(l)'
  BY <1>1, <1>2, <1>5, <1>9 DEF MainIsIn, SettingUp
<1>11. ~ Alive(<<l, "child">>) /\ ~ Alive(<<l, "child">>)'
  BY <1>1, <1>2, <1>9 DEF ChildIsIn, Alive
<1>12. ChildIsIn(l)'
  BY <1>11 DEF ChildIsIn
<1>13. ASSUME AtMostOneShares(l) PROVE OwnLimits(l)'
  BY <1>1, <1>2, <1>4, <1>5, <1>9, <1>11, <1>13 DEF OwnLimits, SettingUp
<1>14. ASSUME Alone(l) PROVE Accounted(l)'
  <2>1. Standing(l, 1, at[l] - 1)
    BY <1>1, <1>9, <1>14 DEF Accounted
  <2>2. \A x \in 1 .. at[l] - 1 : ControlsOf[l][x] # ControlsOf[l][at[l]]
    BY <1>2, <1>3, <2>1 DEF Standing, Entries, DirAt
  <2>3. (DirsOf(l) \intersect groups)' = (DirsOf(l) \intersect groups) \union {DirAt(l)}
    BY <1>2, <1>3 DEF DirsOf
  <2>4. Entries(l, 1, at[l]) = Entries(l, 1, at[l] - 1) \union {DirAt(l)}
    BY <1>5 DEF Entries, DirAt
  <2>5. \A x, y \in 1 .. at[l] : ControlsOf[l][x] = ControlsOf[l][y] => x = y
    BY <1>5, <2>1, <2>2 DEF Standing
  <2>6. Standing(l, 1, at[l])'
    BY <1>2, <2>1, <2>3, <2>4, <2>5 DEF Standing, Entries
  <2>. QED
    BY <1>1, <1>2, <2>6 DEF Accounted
<1>20. Advances(l)
  BY <1>1, <1>2, <1>3, <1>5, <1>11 DEF Advances, SettingUp
<1>. QED
  BY <1>6, <1>7, <1>8, <1>10, <1>12, <1>13, <1>14, <1>20, StepPreserves DEF LaunchInv, Alone, AtMostOneShares, Pair

\* A setting is written: its group then holds the value of l.
LEMMA WriteValuePreserves ==
    ASSUME CgroupInv, NEW l \in Launch, WriteSetting(l), todo[l] # <<"tasks">>
    PROVE  CgroupInv'
<1>1. /\ pc[l] = "settings" /\ DirAt(l) \in groups
      /\ Head(todo[l]) # "tasks" /\ Len(todo[l]) # 1 /\ Tail(todo[l]) \in Unwritten
  BY UnwrittenEnds DEF CgroupInv, CgroupTypeOK, WriteSetting
<1>2. /\ pc' = pc /\ at' = at /\ groups' = groups /\ tasks' = tasks
      /\ todo' = [todo EXCEPT ![l] = Tail(@)]
      /\ limit' = [limit EXCEPT ![DirAt(l)] = l]
  BY <1>1 DEF WriteSetting, Goto, CgroupInv, CgroupTypeOK
<1>3. /\ Len(ControlsOf[l]) \in Nat /\ at[l] \in 1 .. Len(ControlsOf[l])
      /\ DirAt(l)' = DirAt(l) /\ Entries(l, 1, at[l] - 1)' = Entries(l, 1, at[l] - 1)
  BY <1>1, <1>2, EntriesAreDirs DEF CgroupInv, CgroupTypeOK, DirAt, Entries
<1>4. DirAt(l) \in Dir /\ DirAt(l)[2] = NameOf[l]
  BY <1>3, DirAtIsDir DEF CgroupInv
<1>5. /\ limit \in [Dir -> Launch \union {Nobody}] /\ limit'[DirAt(l)] = l
      /\ limit' \in [Dir -> Launch \union {Nobody}]
      /\ \A d \in Dir : d # DirAt(l) => limit'[d] = limit[d]
  BY <1>2, <1>4 DEF CgroupInv, CgroupTypeOK
<1>6. todo' \in [Launch -> {<<>>} \union Unwritten] /\ todo'[l] \in Unwritten
  BY <1>1, <1>2 DEF CgroupInv, CgroupTypeOK
<1>7. \A m \in Launch \ {l} : todo'[m] = todo[m]
  BY <1>2 DEF CgroupInv, CgroupTypeOK
<1>8. CgroupTypeOK'
  BY <1>1, <1>2, <1>5, <1>6, <1>7 DEF CgroupInv, CgroupTypeOK
<1>9. TasksKeepToNames'
  BY <1>2 DEF CgroupInv, TasksKeepToNames
<1>10. KeepsOthers(l)
  BY <1>1, <1>2, <1>4, <1>5, <1>7 DEF KeepsOthers
<1>11. MainIsIn(l) /\ ChildIsIn(l) /\ (AtMostOneShares(l) => OwnLimits(l)) /\ (Alone(l) => Accounted(l))
  BY DEF CgroupInv, LaunchInv
<1>12. MainIsIn(l)' /\ ChildIsIn(l)'
  BY <1>1, <1>2, <1>3, <1>11 DEF MainIsIn, ChildIsIn, Alive, DirsOf
<1>13. ~ Alive(<<l, "child">>)'
  BY <1>1, <1>2, <1>11 DEF ChildIsIn, Alive
<1>14. ASSUME AtMostOneShares(l) PROVE OwnLimits(l)'
  <2>1. OwnLimits(l) /\ \A d \in Entries(l, 1, at[l] - 1) : d \in Dir
    BY <1>3, <1>11, <1>14, EntriesAreDirs
  <2>. QED
    BY <1>1, <1>2, <1>3, <1>5, <1>13, <2>1 DEF OwnLimits, SettingUp
<1>15. ASSUME Alone(l) PROVE Accounted(l)'
  BY <1>1, <1>2, <1>11, <1>15 DEF Accounted, Standing, DirsOf, Entries
<1>20. Advances(l)
  BY <1>1, <1>2, <1>3, <1>13 DEF Advances, SettingUp
<1>. QED
  BY <1>8, <1>9, <1>10, <1>12, <1>14, <1>15, <1>20, StepPreserves DEF LaunchInv, Alone, AtMostOneShares, Pair

\* The last setting: main joins the group, and has left the one of that controller it
\* was in, which cannot be one of its entries.
LEMMA JoinPreserves ==
    ASSUME CgroupInv, NEW l \in Launch, WriteSetting(l), todo[l] = <<"tasks">>
    PROVE  CgroupInv'
<1>1. Head(todo[l]) = "tasks" /\ Len(todo[l]) = 1 /\ Tail(todo[l]) = <<>>
  OBVIOUS
<1>2. Goto(l, "settings", "mkdir")
  BY <1>1 DEF WriteSetting
<1>3. /\ pc[l] = "settings" /\ pc'[l] = "mkdir"
      /\ \A m \in Launch \ {l} : pc'[m] = pc[m]
      /\ pc' \in [Launch -> SettingUp \union {"leave", "rmdir"} \union Ended]
  BY <1>2, GotoMoves DEF CgroupInv, SettingUp
<1>4. /\ DirAt(l) \in groups /\ groups' = groups /\ limit' = limit
      /\ at' = [at EXCEPT ![l] = @ + 1] /\ todo' = [todo EXCEPT ![l] = <<>>]
      /\ tasks' = [d \in Dir |->
             IF d = DirAt(l) THEN tasks[d] \union {<<l, "main">>}
             ELSE IF d[1] = DirAt(l)[1] THEN tasks[d] \ {<<l, "main">>} ELSE tasks[d]]
  BY <1>1 DEF WriteSetting
<1>5. /\ Len(ControlsOf[l]) \in Nat /\ at[l] \in 1 .. Len(ControlsOf[l])
      /\ at'[l] = at[l] + 1 /\ at'[l] - 1 = at[l]
      /\ Entries(l, 1, at[l]) = Entries(l, 1, at[l] - 1) \union {DirAt(l)}
  BY <1>3, <1>4, EntriesAreDirs DEF CgroupInv, CgroupTypeOK, DirAt, Entries
<1>6. DirAt(l) \in Dir /\ DirAt(l)[2] = NameOf[l]
  BY <1>5, DirAtIsDir DEF CgroupInv
<1>7. /\ \A d \in Dir : \A t \in Task \ {<<l, "main">>} : t \in tasks'[d] <=> t \in tasks[d]
      /\ <<l, "main">> \in tasks'[DirAt(l)]
      /\ \A d \in Dir : d[2] = NameOf[l] /\ <<l, "main">> \in tasks[d] => <<l, "main">> \in tasks'[d]
      /\ \A d \in Dir : <<l, "main">> \in tasks'[d] => d = DirAt(l) \/ <<l, "main">> \in tasks[d]
      /\ tasks' \in [Dir -> SUBSET Task]
  <2>1. \A d \in Dir : d[2] = NameOf[l] /\ d[1] = DirAt(l)[1] => d = DirAt(l)
    BY <1>6 DEF Dir, DirAt
  <2>2. tasks \in [Dir -> SUBSET Task] /\ <<l, "main">> \in Task
    BY DEF CgroupInv, CgroupTypeOK, Task
  <2>3. \A d \in Dir :
           tasks'[d] = IF d = DirAt(l) THEN tasks[d] \union {<<l, "main">>}
                       ELSE IF d[1] = DirAt(l)[1] THEN tasks[d] \ {<<l, "main">>} ELSE tasks[d]
    BY <1>4
  <2>4. \A d \in Dir : tasks'[d] \in SUBSET Task
    BY <2>2, <2>3
  <2>5. tasks' \in [Dir -> SUBSET Task]
    BY <1>4, <2>4
  <2>. QED
    BY <1>6, <2>1, <2>3, <2>5
<1>8. \A d \in Dir \ groups : tasks'[d] = {}
  BY <1>4, <1>7 DEF CgroupInv, CgroupTypeOK
<1>9. /\ at' \in [Launch -> Nat] /\ at'[l] \in 1 .. Len(ControlsOf[l]) + 1
      /\ todo' \in [Launch -> {<<>>} \union Unwritten]
      /\ \A m \in Launch \ {l} : at'[m] = at[m] /\ todo'[m] = todo[m]
  BY <1>4, <1>5 DEF CgroupInv, CgroupTypeOK
<1>10. CgroupTypeOK'
  BY <1>3, <1>4, <1>7, <1>8, <1>9 DEF CgroupInv, CgroupTypeOK
<1>11. TasksKeepToNames'
  <2>. SUFFICES ASSUME NEW d \in Dir, NEW t \in tasks'[d] PROVE NameOf[t[1]] = d[2]
    BY DEF TasksKeepToNames
  <2>1. CASE t = <<l, "main">>
    BY <1>6, <1>7, <2>1 DEF CgroupInv, TasksKeepToNames
  <2>2. CASE t # <<l, "main">>
    BY <1>7, <2>2 DEF CgroupInv, TasksKeepToNames
  <2>. QED
    BY <2>1, <2>2
<1>12. KeepsOthers(l)
  BY <1>3, <1>4, <1>7, <1>9 DEF KeepsOthers, Task
<1>13. MainIsIn(l) /\ ChildIsIn(l) /\ (AtMostOneShares(l) => OwnLimits(l)) /\ (Alone(l) => Accounted(l))
  BY DEF CgroupInv, LaunchInv
<1>14. ~ Alive(<<l, "child">>) /\ ~ Alive(<<l, "child">>)'
  <2>1. ~ Alive(<<l, "child">>)
    BY <1>3, <1>13 DEF ChildIsIn
  <2>. QED
    BY <1>7, <2>1 DEF Alive, Task
<1>15. Entries(l, 1, at[l] - 1)' = Entries(l, 1, at[l])
  BY <1>5 DEF Entries
<1>16. MainIsIn(l)'
  <2>1. \A d \in Entries(l, 1, at[l] - 1) : d \in Dir /\ d[2] = NameOf[l]
    BY <1>5, EntriesAreDirs
  <2>. QED
    BY <1>3, <1>5, <1>7, <1>13, <1>15, <2>1 DEF MainIsIn, SettingUp
<1>17. ChildIsIn(l)'
  BY <1>14 DEF ChildIsIn
<1>18. ASSUME AtMostOneShares(l) PROVE OwnLimits(l)'
  BY <1>3, <1>4, <1>5, <1>13, <1>14, <1>15, <1>18 DEF OwnLimits, SettingUp
<1>19. ASSUME Alone(l) PROVE Accounted(l)'
  BY <1>3, <1>4, <1>5, <1>13, <1>19 DEF Accounted, Standing, DirsOf, Entries
<1>20. Advances(l)
  BY <1>3, <1>5, <1>14, <1>15 DEF Advances, SettingUp
<1>. QED
  BY <1>10, <1>11, <1>12, <1>16, <1>17, <1>18, <1>19, <1>20, StepPreserves DEF LaunchInv, Alone, AtMostOneShares, Pair

\* All entries are done.
LEMMA SetUpDonePreserves ==
    ASSUME CgroupInv, NEW l \in Launch, at[l] > Len(ControlsOf[l]),
           Goto(l, "mkdir", "clone"), UNCHANGED <<at, todo, groups, tasks, limit>>
    PROVE  CgroupInv'
<1>1. /\ pc[l] = "mkdir" /\ pc'[l] = "clone"
      /\ \A m \in Launch \ {l} : pc'[m] = pc[m]
      /\ pc' \in [Launch -> SettingUp \union {"leave", "rmdir"} \union Ended]
  BY GotoMoves DEF CgroupInv, SettingUp
<1>2. at[l] = Len(ControlsOf[l]) + 1
  BY EntriesAreDirs DEF CgroupInv, CgroupTypeOK
<1>3. CgroupTypeOK'
  BY <1>1, <1>2 DEF CgroupInv, CgroupTypeOK
<1>4. TasksKeepToNames'
  BY DEF CgroupInv, TasksKeepToNames
<1>5. KeepsOthers(l)
  BY <1>1 DEF KeepsOthers
<1>6. MainIsIn(l) /\ ChildIsIn(l) /\ (AtMostOneShares(l) => OwnLimits(l)) /\ (Alone(l) => Accounted(l))
  BY DEF CgroupInv, LaunchInv
<1>7. MainIsIn(l)' /\ ChildIsIn(l)'
  BY <1>1, <1>6 DEF MainIsIn, ChildIsIn, SettingUp, Entries, Alive
<1>8. AtMostOneShares(l) => OwnLimits(l)'
  BY <1>1, <1>6 DEF OwnLimits, SettingUp, Entries, Alive, DirsOf
<1>9. Alone(l) => Accounted(l)'
  BY <1>1, <1>6 DEF Accounted, Standing, Entries, DirsOf
<1>20. Advances(l)
  BY <1>1 DEF Advances, SettingUp, Entries, Alive
<1>. QED
  BY <1>3, <1>4, <1>5, <1>7, <1>8, <1>9, <1>20, StepPreserves DEF LaunchInv, Alone, AtMostOneShares, Pair

\* The child starts in the groups of main, which are all those of its entries.
LEMMA ClonePreserves ==
    ASSUME CgroupInv, NEW l \in Launch, Clone(l)
    PROVE  CgroupInv'
<1>1. /\ pc[l] = "clone" /\ pc'[l] = "parent"
      /\ \A m \in Launch \ {l} : pc'[m] = pc[m]
      /\ pc' \in [Launch -> SettingUp \union {"leave", "rmdir"} \union Ended]
  BY GotoMoves DEF CgroupInv, SettingUp, Clone
<1>2. /\ at' = at /\ todo' = todo /\ groups' = groups /\ limit' = limit
      /\ tasks' = [d \in Dir |-> IF <<l, "main">> \in tasks[d] THEN tasks[d] \union {<<l, "child">>}
                                 ELSE tasks[d]]
  BY DEF Clone
<1>3. /\ tasks' \in [Dir -> SUBSET Task]
      /\ \A d \in Dir : \A t \in Task \ {<<l, "child">>} : t \in tasks'[d] <=> t \in tasks[d]
      /\ \A d \in Dir : <<l, "main">> \in tasks[d] => <<l, "child">> \in tasks'[d]
      /\ \A d \in Dir : <<l, "child">> \in tasks'[d] =>
             <<l, "main">> \in tasks[d] \/ <<l, "child">> \in tasks[d]
  <2>1. tasks \in [Dir -> SUBSET Task] /\ <<l, "child">> \in Task
    BY DEF CgroupInv, CgroupTypeOK, Task
  <2>2. \A d \in Dir : tasks'[d] \in SUBSET Task
    BY <1>2, <2>1
  <2>3. tasks' \in [Dir -> SUBSET Task]
    BY <1>2, <2>2
  <2>. QED
    BY <1>2, <2>3
<1>4. /\ Len(ControlsOf[l]) \in Nat /\ at[l] = Len(ControlsOf[l]) + 1
      /\ DirsOf(l) = Entries(l, 1, at[l] - 1)
      /\ \A d \in DirsOf(l) : d \in Dir
  BY <1>1, EntriesAreDirs DEF CgroupInv, CgroupTypeOK
<1>5. CgroupTypeOK'
  <2>1. \A d \in Dir \ groups : tasks'[d] = {}
    BY <1>2 DEF CgroupInv, CgroupTypeOK
  <2>. QED
    BY <1>1, <1>2, <1>3, <1>4, <2>1 DEF CgroupInv, CgroupTypeOK
<1>6. TasksKeepToNames'
  <2>. SUFFICES ASSUME NEW d \in Dir, NEW t \in tasks'[d] PROVE NameOf[t[1]] = d[2]
    BY DEF TasksKeepToNames
  <2>1. CASE t = <<l, "child">>
    BY <1>3, <2>1 DEF CgroupInv, TasksKeepToNames
  <2>2. CASE t # <<l, "child">>
    BY <1>3, <2>2 DEF CgroupInv, TasksKeepToNames
  <2>. QED
    BY <2>1, <2>2
<1>7. KeepsOthers(l)
  BY <1>1, <1>2, <1>3 DEF KeepsOthers, Task
<1>8. MainIsIn(l) /\ (AtMostOneShares(l) => OwnLimits(l)) /\ (Alone(l) => Accounted(l))
  BY DEF CgroupInv, LaunchInv
<1>9. \A d \in DirsOf(l) : <<l, "main">> \in tasks[d]
  BY <1>1, <1>4, <1>8 DEF MainIsIn, SettingUp
<1>10. Entries(l, 1, at[l] - 1)' = Entries(l, 1, at[l] - 1) /\ DirsOf(l)' = DirsOf(l)
  BY <1>2 DEF Entries, DirsOf
<1>11. MainIsIn(l)'
  BY <1>1, <1>3, <1>4, <1>9, <1>10 DEF MainIsIn, Task
<1>12. ChildIsIn(l)'
  BY <1>1, <1>3, <1>4, <1>9, <1>10 DEF ChildIsIn
<1>13. AtMostOneShares(l) => OwnLimits(l)'
  BY <1>1, <1>2, <1>4, <1>8, <1>10 DEF OwnLimits, SettingUp
<1>14. Alone(l) => Accounted(l)'
  BY <1>1, <1>2, <1>8 DEF Accounted, Standing, Entries, DirsOf
<1>20. Advances(l)
  BY <1>1, <1>10 DEF Advances, SettingUp
<1>. QED
  BY <1>5, <1>6, <1>7, <1>11, <1>12, <1>13, <1>14, <1>20, StepPreserves DEF LaunchInv, Alone, AtMostOneShares, Pair

\* The child ends, and is in no group any more.
LEMMA ChildEndsPreserves ==
    ASSUME CgroupInv, NEW l \in Launch, ChildEnds(l)
    PROVE  CgroupInv'
<1>1. /\ pc' = pc /\ at' = at /\ todo' = todo /\ groups' = groups /\ limit' = limit
      /\ tasks' = [d \in Dir |-> tasks[d] \ {<<l, "child">>}]
  BY DEF ChildEnds
<1>2. \A d \in Dir : tasks'[d] = tasks[d] \ {<<l, "child">>}
  BY <1>1
<1>3. CgroupTypeOK'
  <2>1. tasks' \in [Dir -> SUBSET Task]
    BY <1>1, <1>2 DEF CgroupInv, CgroupTypeOK
  <2>. QED
    BY <1>1, <1>2, <2>1 DEF CgroupInv, CgroupTypeOK
<1>4. TasksKeepToNames'
  BY <1>2 DEF CgroupInv, TasksKeepToNames
<1>5. KeepsOthers(l)
  BY <1>1, <1>2 DEF KeepsOthers
<1>6. MainIsIn(l) /\ (AtMostOneShares(l) => OwnLimits(l)) /\ (Alone(l) => Accounted(l))
  BY DEF CgroupInv, LaunchInv
<1>7. ~ Alive(<<l, "child">>)'
  BY <1>2 DEF Alive
<1>8. pc[l] \in SettingUp => \A d \in Entries(l, 1, at[l] - 1) : d \in Dir
  BY EntriesAreDirs DEF CgroupInv, CgroupTypeOK
<1>9. pc[l] = "rmdir" => DirAt(l) \in Dir
  BY DirAtIsDir DEF CgroupInv, CgroupTypeOK
<1>10. MainIsIn(l)'
  BY <1>1, <1>2, <1>6, <1>8, <1>9 DEF MainIsIn, Entries, DirAt
<1>11. ChildIsIn(l)'
  BY <1>7 DEF ChildIsIn
<1>12. (AtMostOneShares(l) => OwnLimits(l)') /\ (Alone(l) => Accounted(l)')
  BY <1>1, <1>6, <1>7 DEF OwnLimits, Accounted, Standing, Entries, DirsOf, DirAt
<1>20. Advances(l)
  BY <1>1, <1>7 DEF Advances, Entries, DirAt
<1>. QED
  BY <1>3, <1>4, <1>5, <1>10, <1>11, <1>12, <1>20, StepPreserves DEF LaunchInv, Alone, AtMostOneShares, Pair

\* main ends: it is in no group any more, and its child, if it has one, lives on only
\* when main was killed.
LEMMA MainEndsPreserves ==
    ASSUME CgroupInv, NEW l \in Launch, NEW to \in Ended,
           pc' = [pc EXCEPT ![l] = to],
           tasks' = [d \in Dir |-> tasks[d] \ {<<l, "main">>}],
           UNCHANGED <<at, todo, groups, limit>>,
           Alive(<<l, "child">>) => to = "killed",
           to = "returned" /\ Alone(l) => DirsOf(l) \intersect groups = {},
           to = "gaveup" /\ Alone(l) => \E k \in 0 .. Len(ControlsOf[l]) : Standing(l, at[l], k)
    PROVE  CgroupInv'
<1>1. /\ pc' \in [Launch -> SettingUp \union {"leave", "rmdir"} \union Ended]
      /\ pc'[l] = to /\ \A m \in Launch \ {l} : pc'[m] = pc[m]
      /\ to \notin SettingUp \union {"leave", "rmdir"}
  BY DEF CgroupInv, CgroupTypeOK, SettingUp, Ended
<1>2. \A d \in Dir : tasks'[d] = tasks[d] \ {<<l, "main">>}
  OBVIOUS
<1>3. CgroupTypeOK'
  <2>1. tasks' \in [Dir -> SUBSET Task]
    BY <1>2 DEF CgroupInv, CgroupTypeOK
  <2>. QED
    BY <1>1, <1>2, <2>1 DEF CgroupInv, CgroupTypeOK, SettingUp
<1>4. TasksKeepToNames'
  BY <1>2 DEF CgroupInv, TasksKeepToNames
<1>5. KeepsOthers(l)
  BY <1>1, <1>2 DEF KeepsOthers
<1>6. MainIsIn(l) /\ ChildIsIn(l) /\ (AtMostOneShares(l) => OwnLimits(l))
  BY DEF CgroupInv, LaunchInv
<1>7. \A d \in Dir : <<l, "child">> \in tasks'[d] <=> <<l, "child">> \in tasks[d]
  BY <1>2
<1>8. Alive(<<l, "child">>)' <=> Alive(<<l, "child">>)
  BY <1>7 DEF Alive
<1>9. MainIsIn(l)'
  BY <1>1 DEF MainIsIn
<1>10. ChildIsIn(l)'
  BY <1>1, <1>6, <1>7, <1>8, EntriesAreDirs DEF ChildIsIn, DirsOf
<1>11. AtMostOneShares(l) => OwnLimits(l)'
  BY <1>1, <1>6, <1>8 DEF OwnLimits, SettingUp, DirsOf
<1>12. Alone(l) => Accounted(l)'
  <2>1. ASSUME NEW i \in Int, NEW k \in Int, Standing(l, i, k) PROVE Standing(l, i, k)'
    BY <2>1 DEF Standing, DirsOf, Entries
  <2>2. at[l] \in Int /\ 0 .. Len(ControlsOf[l]) \subseteq Int
    BY EntriesAreDirs DEF CgroupInv, CgroupTypeOK
  <2>. QED
    BY <1>1, <2>1, <2>2 DEF Accounted, SettingUp, DirsOf
<1>20. Advances(l)
  BY <1>1, <1>8 DEF Advances, SettingUp
<1>. QED
  BY <1>3, <1>4, <1>5, <1>9, <1>10, <1>11, <1>12, <1>20, StepPreserves DEF LaunchInv, Alone, AtMostOneShares, Pair

\* main moves to the root group of the controller.
LEMMA LeaveGroupPreserves ==
    ASSUME CgroupInv, NEW l \in Launch, LeaveGroup(l)
    PROVE  CgroupInv'
<1>1. /\ pc[l] = "leave" /\ pc'[l] = "rmdir"
      /\ \A m \in Launch \ {l} : pc'[m] = pc[m]
      /\ pc' \in [Launch -> SettingUp \union {"leave", "rmdir"} \union Ended]
  BY GotoMoves DEF CgroupInv, LeaveGroup
<1>2. /\ at[l] <= Len(ControlsOf[l])
      /\ at' = at /\ todo' = todo /\ groups' = groups /\ limit' = limit
      /\ tasks' = [d \in Dir |-> IF d[1] = DirAt(l)[1] THEN tasks[d] \ {<<l, "main">>} ELSE tasks[d]]
  BY DEF LeaveGroup
<1>3. DirAt(l) \in Dir /\ DirAt(l)' = DirAt(l)
  BY <1>2, DirAtIsDir DEF CgroupInv, DirAt
<1>4. /\ \A d \in Dir : tasks'[d] \subseteq tasks[d]
      /\ \A d \in Dir : \A t \in tasks[d] : t # <<l, "main">> => t \in tasks'[d]
      /\ <<l, "main">> \notin tasks'[DirAt(l)]
  BY <1>2, <1>3
<1>5. CgroupTypeOK'
  <2>1. tasks' \in [Dir -> SUBSET Task]
    BY <1>2, <1>4 DEF CgroupInv, CgroupTypeOK
  <2>. QED
    BY <1>1, <1>2, <1>4, <2>1 DEF CgroupInv, CgroupTypeOK, SettingUp
<1>6. TasksKeepToNames'
  BY <1>4 DEF CgroupInv, TasksKeepToNames
<1>7. KeepsOthers(l)
  BY <1>1, <1>2, <1>4 DEF KeepsOthers
<1>8. ChildIsIn(l) /\ (Alone(l) => Accounted(l))
  BY DEF CgroupInv, LaunchInv
<1>9. ~ Alive(<<l, "child">>)'
  BY <1>1, <1>4, <1>8 DEF ChildIsIn, Alive
<1>10. MainIsIn(l)' /\ ChildIsIn(l)' /\ OwnLimits(l)'
  BY <1>1, <1>3, <1>4, <1>9 DEF MainIsIn, ChildIsIn, OwnLimits, SettingUp
<1>11. Alone(l) => Accounted(l)'
  BY <1>1, <1>2, <1>8 DEF Accounted, Standing, DirsOf, Entries
<1>20. Advances(l)
  BY <1>1, <1>9 DEF Advances, SettingUp
<1>. QED
  BY <1>5, <1>6, <1>7, <1>10, <1>11, <1>20, StepPreserves DEF LaunchInv, Alone, AtMostOneShares, Pair

\* The directory taken away is the first of those that are left.
LEMMA RmdirPreserves ==
    ASSUME CgroupInv, NEW l \in Launch, Rmdir(l)
    PROVE  CgroupInv'
<1>1. /\ pc[l] = "rmdir" /\ pc'[l] = "leave"
      /\ \A m \in Launch \ {l} : pc'[m] = pc[m]
      /\ pc' \in [Launch -> SettingUp \union {"leave", "rmdir"} \union Ended]
  BY GotoMoves DEF CgroupInv, Rmdir
<1>2. /\ DirAt(l) \in groups /\ tasks[DirAt(l)] = {}
      /\ at' = [at EXCEPT ![l] = @ + 1] /\ groups' = groups \ {DirAt(l)}
      /\ limit' = [limit EXCEPT ![DirAt(l)] = Nobody]
      /\ todo' = todo /\ tasks' = tasks
  BY DEF Rmdir
<1>3. /\ Len(ControlsOf[l]) \in Nat /\ at[l] \in 1 .. Len(ControlsOf[l])
      /\ at'[l] = at[l] + 1 /\ at' \in [Launch -> Nat]
      /\ at'[l] \in 1 .. Len(ControlsOf[l]) + 1
      /\ \A m \in Launch \ {l} : at'[m] = at[m]
  BY <1>1, <1>2, EntriesAreDirs DEF CgroupInv, CgroupTypeOK
<1>4. DirAt(l) \in Dir /\ DirAt(l) \in DirsOf(l) /\ DirAt(l)[2] = NameOf[l]
  BY <1>3, DirAtIsDir DEF CgroupInv
<1>5. /\ limit' \in [Dir -> Launch \union {Nobody}] /\ limit'[DirAt(l)] = Nobody
      /\ \A d \in Dir : d # DirAt(l) => limit'[d] = limit[d]
  BY <1>2, <1>4 DEF CgroupInv, CgroupTypeOK
<1>6. CgroupTypeOK'
  BY <1>1, <1>2, <1>3, <1>5 DEF CgroupInv, CgroupTypeOK
<1>7. TasksKeepToNames'
  BY <1>2 DEF CgroupInv, TasksKeepToNames
<1>8. KeepsOthers(l)
  BY <1>1, <1>2, <1>3, <1>4, <1>5 DEF KeepsOthers
<1>9. ChildIsIn(l) /\ (Alone(l) => Accounted(l))
  BY DEF CgroupInv, LaunchInv
<1>10. ~ Alive(<<l, "child">>)'
  BY <1>1, <1>2, <1>9 DEF ChildIsIn, Alive
<1>11. MainIsIn(l)' /\ ChildIsIn(l)' /\ OwnLimits(l)'
  BY <1>1, <1>10 DEF MainIsIn, ChildIsIn, OwnLimits, SettingUp
<1>12. ASSUME Alone(l) PROVE Accounted(l)'
  <2>1. PICK k \in 0 .. Len(ControlsOf[l]) : Standing(l, at[l], k)
    BY <1>1, <1>9, <1>12 DEF Accounted
  <2>2. PICK x \in at[l] .. k : DirAt(l) = <<ControlsOf[l][x], NameOf[l]>>
    BY <1>2, <1>4, <2>1 DEF Standing, Entries
  <2>3. at[l] \in 1 .. k
    BY <1>3, <2>1, <2>2
  <2>4. \A y \in 1 .. k : <<ControlsOf[l][y], NameOf[l]>> = DirAt(l) => y = at[l]
    BY <2>1, <2>3 DEF Standing, DirAt
  <2>5. Entries(l, at[l] + 1, k) = Entries(l, at[l], k) \ {DirAt(l)}
    <3>1. \A y \in at[l] .. k : y \in 1 .. k /\ (y # at[l] => y \in at[l] + 1 .. k)
      BY <1>3, <2>1
    <3>2. \A y \in at[l] + 1 .. k : y \in at[l] .. k /\ y # at[l]
      BY <1>3, <2>1
    <3>. QED
      BY <2>4, <3>1, <3>2 DEF Entries, DirAt
  <2>6. (DirsOf(l) \intersect groups)' = (DirsOf(l) \intersect groups) \ {DirAt(l)}
    BY <1>2 DEF DirsOf
  <2>7. Standing(l, at[l], k)'
    BY <1>3, <2>1, <2>5, <2>6 DEF Standing, Entries
  <2>. QED
    BY <1>1, <2>7 DEF Accounted
<1>20. Advances(l)
  BY <1>1, <1>10 DEF Advances, SettingUp
<1>. QED
  BY <1>6, <1>7, <1>8, <1>11, <1>12, <1>20, StepPreserves DEF LaunchInv, Alone, AtMostOneShares, Pair

\* When the loop of free_cgroup_controls is over, or breaks off at a directory that is
\* gone, nothing of a launch that is alone is left; and a directory of it that is
\* there is empty by then.
LEMMA ReturnPreserves ==
    ASSUME CgroupInv, NEW l \in Launch, Return(l)
    PROVE  CgroupInv'
<1>1. /\ pc' = [pc EXCEPT ![l] = "returned"]
      /\ tasks' = [d \in Dir |-> tasks[d] \ {<<l, "main">>}]
      /\ UNCHANGED <<at, todo, groups, limit>>
      /\ \/ at[l] > Len(ControlsOf[l]) /\ pc[l] = "leave"
         \/ pc[l] = "rmdir" /\ (DirAt(l) \notin groups \/ tasks[DirAt(l)] # {})
  BY DEF Return, Goto
<1>2. MainIsIn(l) /\ ChildIsIn(l) /\ (Alone(l) => Accounted(l))
  BY DEF CgroupInv, LaunchInv
<1>3. ~ Alive(<<l, "child">>)
  BY <1>1, <1>2 DEF ChildIsIn
<1>4. Len(ControlsOf[l]) \in Nat /\ at[l] \in 1 .. Len(ControlsOf[l]) + 1
  BY EntriesAreDirs DEF CgroupInv, CgroupTypeOK
<1>5. ASSUME Alone(l) PROVE DirsOf(l) \intersect groups = {}
  <2>1. PICK k \in 0 .. Len(ControlsOf[l]) : Standing(l, at[l], k)
    BY <1>1, <1>2, <1>5 DEF Accounted
  <2>2. CASE at[l] > Len(ControlsOf[l])
    BY <1>4, <2>1, <2>2 DEF Standing, Entries
  <2>3. CASE pc[l] = "rmdir"
    <3>1. at[l] <= Len(ControlsOf[l])
      BY <2>3 DEF CgroupInv, CgroupTypeOK
    <3>2. DirAt(l) \in Dir /\ DirAt(l) \in DirsOf(l) /\ DirAt(l)[2] = NameOf[l]
      BY <3>1, DirAtIsDir DEF CgroupInv
    <3>3. \A t \in tasks[DirAt(l)] : t \in Task /\ t[1] = l
      BY <1>5, <3>2 DEF CgroupInv, CgroupTypeOK, TasksKeepToNames, Alone, Task
    <3>4. <<l, "main">> \notin tasks[DirAt(l)] /\ <<l, "child">> \notin tasks[DirAt(l)]
      BY <1>2, <1>3, <2>3, <3>2 DEF MainIsIn, Alive
    <3>5. tasks[DirAt(l)] = {}
      BY <3>3, <3>4 DEF Task
    <3>6. DirAt(l) \notin groups
      BY <1>1, <2>3, <3>1, <3>5
    <3>7. ~ at[l] <= k
      BY <1>4, <2>1, <3>2, <3>6 DEF Standing, Entries, DirAt
    <3>. QED
      BY <1>4, <2>1, <3>7 DEF Standing, Entries
  <2>. QED
    BY <1>1, <2>2, <2>3
<1>. QED
  BY <1>1, <1>3, <1>5, MainEndsPreserves DEF Ended

\* A clean-up that breaks off leaves what its loop has not come to.
LEMMA FreeFailsPreserves ==
    ASSUME CgroupInv, NEW l \in Launch, FreeFails(l)
    PROVE  CgroupInv'
<1>1. /\ pc' = [pc EXCEPT ![l] = "gaveup"] /\ pc[l] \in {"leave", "rmdir"}
      /\ tasks' = [d \in Dir |-> tasks[d] \ {<<l, "main">>}]
      /\ UNCHANGED <<at, todo, groups, limit>>
  BY DEF FreeFails, Goto
<1>2. ~ Alive(<<l, "child">>) /\ (Alone(l) => Accounted(l))
  BY <1>1 DEF CgroupInv, LaunchInv, ChildIsIn
<1>. QED
  BY <1>1, <1>2, MainEndsPreserves DEF Ended, Accounted

LEMMA CrashPreserves ==
    ASSUME CgroupInv, NEW l \in Launch, Crash(l)
    PROVE  CgroupInv'
BY MainEndsPreserves DEF Crash, Ended

LEMMA ExitAtOncePreserves ==
    ASSUME CgroupInv, NEW l \in Launch, ExitAtOnce(l)
    PROVE  CgroupInv'
<1>1. /\ pc[l] = "clone" /\ pc' = [pc EXCEPT ![l] = "exited"]
      /\ tasks' = [d \in Dir |-> tasks[d] \ {<<l, "main">>}]
      /\ UNCHANGED <<at, todo, groups, limit>>
  BY DEF ExitAtOnce, Goto
<1>2. ~ Alive(<<l, "child">>)
  BY <1>1 DEF CgroupInv, LaunchInv, ChildIsIn
<1>. QED
  BY <1>1, <1>2, MainEndsPreserves DEF Ended

\* The ways in which main comes to its clean-up.
LEMMA ToCleanUpPreserves ==
    ASSUME CgroupInv, NEW l \in Launch,
           MkdirFails(l) \/ WriteSettingFails(l) \/ CloneFails(l) \/ Waited(l)
    PROVE  CgroupInv'
<1>1. PICK from \in SettingUp : CleanUp(l, from)
  BY DEF MkdirFails, WriteSettingFails, CloneFails, Waited, SettingUp
<1>2. UNCHANGED <<groups, tasks, limit>>
  BY DEF MkdirFails, WriteSettingFails, CloneFails, Waited
<1>3. ~ Alive(<<l, "child">>)
  <2>1. CASE Waited(l)
    BY <2>1 DEF Waited
  <2>2. CASE MkdirFails(l) \/ WriteSettingFails(l) \/ CloneFails(l)
    <3>1. pc[l] \in {"mkdir", "settings", "clone"}
      BY <2>2 DEF MkdirFails, WriteSettingFails, CloneFails, CleanUp, Goto
    <3>. QED
      BY <3>1 DEF CgroupInv, LaunchInv, ChildIsIn
  <2>. QED
    BY <2>1, <2>2
<1>. QED
  BY <1>1, <1>2, <1>3, CleanUpPreserves

LEMMA SetRlimitPreserves ==
    ASSUME CgroupInv, NEW l \in Launch, SetRlimit(l)
    PROVE  CgroupInv'
<1>1. CASE Goto(l, "mkdir", "clone") /\ UNCHANGED <<at, todo>>
  BY <1>1, SetUpDonePreserves DEF SetRlimit
<1>2. CASE CleanUp(l, "mkdir")
  <2>1. ~ Alive(<<l, "child">>)
    BY <1>2 DEF CgroupInv, LaunchInv, ChildIsIn, CleanUp, Goto
  <2>. QED
    BY <1>2, <2>1, CleanUpPreserves DEF SetRlimit, SettingUp
<1>. QED
  BY <1>1, <1>2 DEF SetRlimit

-----------------------------------------------------------------------------

LEMMA NextPreserves ==
    ASSUME CgroupInv, Next
    PROVE  CgroupInv'
<1>. PICK l \in Launch :
        SetUp(l) \/ Start(l) \/ ChildEnds(l) \/ Waited(l) \/ Free(l) \/ Crash(l)
  BY DEF Next
<1>1. CASE SetUp(l)
  <2>1. CASE WriteSetting(l)
    BY <2>1, WriteValuePreserves, JoinPreserves
  <2>. QED
    BY <1>1, <2>1, MkdirPreserves, ToCleanUpPreserves, SetRlimitPreserves DEF SetUp
<1>2. CASE Start(l)
  BY <1>2, ClonePreserves, ToCleanUpPreserves, ExitAtOncePreserves DEF Start
<1>3. CASE ChildEnds(l) \/ Waited(l) \/ Crash(l)
  BY <1>3, ChildEndsPreserves, ToCleanUpPreserves, CrashPreserves
<1>4. CASE Free(l)
  BY <1>4, LeaveGroupPreserves, RmdirPreserves, ReturnPreserves, FreeFailsPreserves DEF Free
<1>. QED
  BY <1>1, <1>2, <1>3, <1>4

LEMMA CgroupStepPreserves ==
    ASSUME CgroupInv, [Next]_cgroupVars
    PROVE  CgroupInv'
<1>1. CASE UNCHANGED cgroupVars
  <2>1. CgroupTypeOK' /\ TasksKeepToNames'
    BY <1>1 DEF CgroupInv, cgroupVars, CgroupTypeOK, TasksKeepToNames
  <2>2. ASSUME NEW l \in Launch PROVE LaunchInv(l)'
    <3>1. LaunchInv(l)
      BY DEF CgroupInv
    <3>2. MainIsIn(l)' /\ ChildIsIn(l)'
      BY <1>1, <3>1 DEF cgroupVars, LaunchInv, MainIsIn, ChildIsIn, Entries, DirsOf, DirAt, Alive
    <3>3. OwnLimits(l) => OwnLimits(l)'
      BY <1>1 DEF cgroupVars, OwnLimits, Entries, DirsOf, DirAt, Alive
    <3>4. Accounted(l) => Accounted(l)'
      BY <1>1 DEF cgroupVars, Accounted, Standing, Entries, DirsOf
    <3>. QED
      BY <3>1, <3>2, <3>3, <3>4 DEF LaunchInv, Alone, AtMostOneShares, Pair
  <2>3. ASSUME NEW l \in Launch, NEW m \in Launch, Apart(l, m) PROVE Apart(l, m)'
    BY <1>1, <2>3 DEF cgroupVars, Apart, Entries, DirsOf, DirAt, Alive
  <2>4. PairsApart'
    BY <2>3 DEF CgroupInv, PairsApart, Pair
  <2>. QED
    BY <2>1, <2>2, <2>4 DEF CgroupInv
<1>. QED
  BY <1>1, NextPreserves

\* The inductive invariant: type, membership, ownership and account of directories, and
\* what two launches of one host name leave to each other.
THEOREM CgroupInvariant == Spec => []CgroupInv
BY CgroupStepPreserves, InitCgroupInv, PTL DEF Spec

\* A container stays in every group its command line asks for as long as it lives,
\* however many launches share its host name: each loop of setup_cgroup_controls
\* joins its group before the next mkdir, and no rmdir takes away one with a task.
THEOREM ContainersStayHeld == Spec => []ContainersAreHeld
<1>1. CgroupInv => ContainersAreHeld
  <2>. SUFFICES ASSUME CgroupInv, NEW l \in Launch, Alive(<<l, "child">>), NEW d \in DirsOf(l)
                PROVE  d \in groups /\ <<l, "child">> \in tasks[d]
    BY DEF ContainersAreHeld
  <2>1. <<l, "child">> \in tasks[d]
    BY DEF CgroupInv, LaunchInv, ChildIsIn
  <2>2. d \in Dir
    BY EntriesAreDirs
  <2>. QED
    BY <2>1, <2>2 DEF CgroupInv, CgroupTypeOK
<1>. QED
  BY <1>1, CgroupInvariant, PTL

\* Whatever failed before, a clean-up that comes to its end, or to a directory that is
\* not there or not empty, leaves no directory of its host name behind if no other launch
\* uses that name; and one that breaks off at a call that fails leaves none of those
\* before.
THEOREM NothingStays == Spec => []NothingIsLeft
<1>1. CgroupInv => NothingIsLeft
  <2>. SUFFICES ASSUME CgroupInv, NEW l \in Launch, Alone(l)
                PROVE  /\ pc[l] = "returned" => DirsOf(l) \intersect groups = {}
                       /\ pc[l] = "gaveup" =>
                             \A i \in 1 .. at[l] - 1 : <<ControlsOf[l][i], NameOf[l]>> \notin groups
    BY DEF NothingIsLeft
  <2>1. Accounted(l) /\ at[l] \in 1 .. Len(ControlsOf[l]) + 1 /\ Len(ControlsOf[l]) \in Nat
    BY EntriesAreDirs DEF CgroupInv, LaunchInv, CgroupTypeOK
  <2>2. ASSUME pc[l] = "gaveup", NEW i \in 1 .. at[l] - 1
        PROVE  <<ControlsOf[l][i], NameOf[l]>> \notin groups
    <3>1. PICK k \in 0 .. Len(ControlsOf[l]) : Standing(l, at[l], k)
      BY <2>1, <2>2 DEF Accounted
    <3>2. <<ControlsOf[l][i], NameOf[l]>> \in DirsOf(l) /\ i < at[l]
      BY <2>1, EntriesAreDirs
    <3>3. ASSUME NEW x \in at[l] .. k PROVE ControlsOf[l][x] # ControlsOf[l][i]
      <4>1. x \in 1 .. k /\ i \in 1 .. k /\ x # i
        BY <2>1, <3>1, <3>2
      <4>. QED
        BY <3>1, <4>1 DEF Standing
    <3>. QED
      BY <3>1, <3>2, <3>3 DEF Standing, Entries
  <2>. QED
    BY <2>1, <2>2 DEF Accounted
<1>. QED
  BY <1>1, CgroupInvariant, PTL

\* The groups of a living container hold its own values, also after its main has been
\* killed, while at most one other launch uses its host name: whatever the two do to the
\* directories of each other, whichever fails or is killed.
THEOREM LimitsAreOwn == Spec => []ContainersHaveOwnLimits
<1>1. CgroupInv => ContainersHaveOwnLimits
  BY DEF CgroupInv, LaunchInv, OwnLimits, ContainersHaveOwnLimits
<1>. QED
  BY <1>1, CgroupInvariant, PTL

-----------------------------------------------------------------------------
(* The groups in SRContainer *)

LEMMA DiesEndsChild ==
    ASSUME NEW l \in Launch, Dies(l)
    PROVE  ChildEnds(l)
BY DEF Dies

\* A step of main is a step of SRCgroups or leaves the groups alone.
LEMMA MainStepMaps ==
    ASSUME NEW l \in Launch, MainStep(l)
    PROVE  [Next]_cgroupVars
<1>1. CASE Groups(l)
  BY <1>1 DEF Groups, Next, Start
<1>2. CASE StartChild(l)
  BY <1>2 DEF StartChild, Next, Start
<1>3. CASE WaitChild(l)
  BY <1>3 DEF WaitChild, Next
<1>4. CASE KillChild(l)
  BY <1>4, DiesEndsChild DEF KillChild, Next
<1>5. CASE CloseSocket(l) \/ ReadFlag(l) \/ ReadEnds(l) \/ WriteMaps(l) \/ WriteAck(l) \/ MapFails(l)
  BY <1>5 DEF CloseSocket, ReadFlag, ReadEnds, WriteMaps, WriteMap, WriteAck, MapFails, MainGoes
<1>. QED
  BY <1>1, <1>2, <1>3, <1>4, <1>5 DEF MainStep

\* A step of the child leaves the groups alone, unless it ends the child.
LEMMA ChildStepMaps ==
    ASSUME NEW l \in Launch, ChildStep(l) \/ ChildExits(l)
    PROVE  [Next]_cgroupVars
<1>1. CASE UnmountFails(l) \/ ChildFails(l) \/ ChildExits(l)
  BY <1>1, DiesEndsChild DEF UnmountFails, ChildFails, ChildExits, Next
<1>2. CASE \/ SetHostname(l) \/ Remount(l) \/ PivotRoot(l) \/ UnmountOld(l)
           \/ MountProc(l) \/ Unshare(l) \/ TellMain(l) \/ HearMain(l) \/ SwitchIds(l)
           \/ DropCapabilities(l) \/ LoadFilter(l) \/ Exec(l)
  BY <1>2 DEF SetHostname, Remount, PivotRoot, UnmountOld, MountProc, Unshare, TellMain, HearMain,
              SwitchIds, DropCapabilities, LoadFilter, Exec, Quietly, Confine, ChildGoes
<1>. QED
  BY <1>1, <1>2 DEF ChildStep

LEMMA ContainerNextMaps ==
    ASSUME [ContainerNext]_vars
    PROVE  [Next]_cgroupVars
<1>1. CASE UNCHANGED vars
  BY <1>1 DEF vars
<1>2. CASE ContainerNext
  <2>. PICK l \in Launch : MainStep(l) \/ ChildStep(l) \/ ChildExits(l) \/ CrashMain(l)
    BY <1>2 DEF ContainerNext
  <2>1. CASE CrashMain(l)
    BY <2>1 DEF CrashMain, Next
  <2>. QED
    BY <2>1, MainStepMaps, ChildStepMaps
<1>. QED
  BY <1>1, <1>2

\* So the invariant of the groups holds here.
LEMMA ContainerKeepsCgroups == ContainerSpec => []CgroupInv
<1>1. ContainerInit => CgroupInv
  BY InitCgroupInv DEF ContainerInit
<1>2. CgroupInv /\ [ContainerNext]_vars => CgroupInv'
  BY ContainerNextMaps, CgroupStepPreserves
<1>. QED
  BY <1>1, <1>2, PTL DEF ContainerSpec

-----------------------------------------------------------------------------
(* Steps of SRCgroups, seen from the child *)

BeforeClone == {"mkdir", "settings", "clone"}

\* Only a clone puts a child into groups and only its end takes it out; and once main
\* has left the set-up it does not come back to it.
LEMMA GroupsKeepChild ==
    ASSUME CgroupTypeOK, NEW l \in Launch,
           SetUp(l) \/ CloneFails(l) \/ ExitAtOnce(l) \/ Free(l) \/ Waited(l) \/ Crash(l)
    PROVE  /\ \A m \in Launch \ {l} : pc'[m] = pc[m]
           /\ pc'[l] \in BeforeClone => pc[l] \in BeforeClone
           /\ \A m \in Launch : \A d \in Dir :
                 <<m, "child">> \in tasks'[d] <=> <<m, "child">> \in tasks[d]
<1>1. CASE MkdirFails(l) \/ WriteSettingFails(l) \/ CloneFails(l) \/ Waited(l)
  BY <1>1 DEF MkdirFails, WriteSettingFails, CloneFails, Waited, CleanUp, Goto, CgroupTypeOK, BeforeClone
<1>2. CASE Mkdir(l)
  BY <1>2 DEF Mkdir, Goto, CgroupTypeOK, BeforeClone
<1>3. CASE WriteSetting(l)
  <2>1. /\ \A m \in Launch \ {l} : pc'[m] = pc[m]
        /\ pc[l] \in BeforeClone
    BY <1>3 DEF WriteSetting, Goto, CgroupTypeOK, BeforeClone
  <2>2. \A m \in Launch : \A d \in Dir :
           <<m, "child">> \in tasks'[d] <=> <<m, "child">> \in tasks[d]
    <3>1. CASE Head(todo[l]) = "tasks"
      BY <1>3, <3>1 DEF WriteSetting
    <3>2. CASE Head(todo[l]) # "tasks"
      BY <1>3, <3>2 DEF WriteSetting
    <3>. QED
      BY <3>1, <3>2
  <2>. QED
    BY <2>1, <2>2
<1>4. CASE SetRlimit(l)
  BY <1>4 DEF SetRlimit, CleanUp, Goto, CgroupTypeOK, BeforeClone
<1>5. CASE ExitAtOnce(l) \/ Return(l) \/ FreeFails(l) \/ Crash(l)
  <2>1. tasks' = [d \in Dir |-> tasks[d] \ {<<l, "main">>}]
    BY <1>5 DEF ExitAtOnce, Return, FreeFails, Crash
  <2>2. /\ \A m \in Launch \ {l} : pc'[m] = pc[m]
        /\ pc'[l] \notin BeforeClone
    BY <1>5 DEF ExitAtOnce, Return, FreeFails, Crash, Goto, CgroupTypeOK, BeforeClone
  <2>. QED
    BY <2>1, <2>2
<1>6. CASE LeaveGroup(l)
  <2>1. \A m \in Launch \ {l} : pc'[m] = pc[m]
    BY <1>6 DEF LeaveGroup, Goto, CgroupTypeOK
  <2>2. pc'[l] = "rmdir"
    BY <1>6 DEF LeaveGroup, Goto, CgroupTypeOK
  <2>3. \A d \in Dir : tasks'[d] = IF d[1] = DirAt(l)[1] THEN tasks[d] \ {<<l, "main">>} ELSE tasks[d]
    BY <1>6 DEF LeaveGroup
  <2>. QED
    BY <2>1, <2>2, <2>3 DEF BeforeClone
<1>7. CASE Rmdir(l)
  BY <1>7 DEF Rmdir, Goto, CgroupTypeOK, BeforeClone
<1>. QED
  BY <1>1, <1>2, <1>3, <1>4, <1>5, <1>6, <1>7 DEF SetUp, Free

-----------------------------------------------------------------------------
(* The payload is confined *)

LaunchConfined(l) == NotYetCloned(l) /\ BehindIt(l) /\ Agreement(l)

\* What a step of one launch leaves to the others.
LeavesOthers(l) ==
    \A m \in Launch \ {l} :
        /\ main'[m] = main[m] /\ child'[m] = child[m] /\ jail'[m] = jail[m]
        /\ up'[m] = up[m] /\ down'[m] = down[m] /\ pc'[m] = pc[m]
        /\ \A d \in Dir : <<m, "child">> \in tasks[d] => <<m, "child">> \in tasks'[d]

LEMMA StepKeepsContainerInv ==
    ASSUME ContainerInv, NEW l \in Launch, LeavesOthers(l), ContainerTypeOK', LaunchConfined(l)'
    PROVE  ContainerInv'
<1>1. ASSUME NEW m \in Launch, m # l PROVE LaunchConfined(m)'
  <2>1. NotYetCloned(m)'
    BY <1>1 DEF ContainerInv, NotYetCloned, LeavesOthers
  <2>2. BehindIt(m)'
    BY <1>1, EntriesAreDirs DEF ContainerInv, BehindIt, LeavesOthers, DirsOf
  <2>3. Agreement(m)'
    BY <1>1 DEF ContainerInv, Agreement, Mapped, LeavesOthers
  <2>. QED
    BY <2>1, <2>2, <2>3 DEF LaunchConfined
<1>. QED
  BY <1>1 DEF ContainerInv, LaunchConfined

\* A step of which neither main nor the child knows: the set-up, the clean-up, the end
\* of main.
LEMMA GroupsStepConfined ==
    ASSUME CgroupInv, ContainerInv, NEW l \in Launch,
           SetUp(l) \/ CloneFails(l) \/ ExitAtOnce(l) \/ Free(l) \/ Waited(l) \/ Crash(l),
           UNCHANGED <<main, child, up, down, jail>>, end1' \subseteq Launch
    PROVE  ContainerInv'
<1>1. /\ \A m \in Launch \ {l} : pc'[m] = pc[m]
      /\ pc'[l] \in BeforeClone => pc[l] \in BeforeClone
      /\ \A m \in Launch : \A d \in Dir :
            <<m, "child">> \in tasks'[d] <=> <<m, "child">> \in tasks[d]
  BY GroupsKeepChild DEF CgroupInv
<1>2. ContainerTypeOK'
  BY DEF ContainerInv, ContainerTypeOK
<1>3. LeavesOthers(l)
  BY <1>1 DEF LeavesOthers
<1>4. NotYetCloned(l)'
  BY <1>1 DEF ContainerInv, NotYetCloned, BeforeClone
<1>5. BehindIt(l)'
  BY <1>1, EntriesAreDirs DEF ContainerInv, BehindIt, DirsOf
<1>6. Agreement(l)'
  BY DEF ContainerInv, Agreement, Mapped
<1>. QED
  BY <1>2, <1>3, <1>4, <1>5, <1>6, StepKeepsContainerInv DEF LaunchConfined

LEMMA StartChildConfined ==
    ASSUME CgroupInv, ContainerInv, NEW l \in Launch, StartChild(l)
    PROVE  ContainerInv'
<1>1. /\ pc[l] = "clone" /\ pc'[l] = "parent" /\ \A m \in Launch \ {l} : pc'[m] = pc[m]
      /\ tasks' = [d \in Dir |-> IF <<l, "main">> \in tasks[d] THEN tasks[d] \union {<<l, "child">>}
                                 ELSE tasks[d]]
      /\ main' = [main EXCEPT ![l] = "close"] /\ child' = [child EXCEPT ![l] = "hostname"]
      /\ end1' = end1 /\ up' = up /\ down' = down /\ jail' = jail
  BY DEF StartChild, Clone, Goto, CgroupInv, CgroupTypeOK
<1>2. ContainerTypeOK'
  BY <1>1 DEF ContainerInv, ContainerTypeOK, Outside
<1>3. LeavesOthers(l)
  BY <1>1 DEF ContainerInv, ContainerTypeOK, LeavesOthers
<1>4. main'[l] = "close" /\ child'[l] = "hostname" /\ child[l] = "none"
  BY <1>1 DEF ContainerInv, ContainerTypeOK, NotYetCloned
<1>5. NotYetCloned(l)'
  BY <1>1 DEF NotYetCloned
<1>6. \A d \in DirsOf(l) : <<l, "child">> \in tasks'[d]
  <2>0. at[l] = Len(ControlsOf[l]) + 1
    BY <1>1 DEF CgroupInv, CgroupTypeOK
  <2>1. DirsOf(l) = Entries(l, 1, at[l] - 1) /\ \A d \in DirsOf(l) : d \in Dir
    BY <2>0, EntriesAreDirs
  <2>2. \A d \in DirsOf(l) : <<l, "main">> \in tasks[d]
    BY <1>1, <2>1 DEF CgroupInv, LaunchInv, MainIsIn, SettingUp
  <2>. QED
    BY <1>1, <2>1, <2>2
<1>7. BehindIt(l)'
  BY <1>4, <1>6 DEF BehindIt, Rooted, Hearing, Answered, DirsOf
<1>8. Agreement(l)'
  BY <1>1, <1>4 DEF ContainerInv, Agreement, Mapped, Outside, Answered, BothMaps
<1>. QED
  BY <1>2, <1>3, <1>5, <1>7, <1>8, StepKeepsContainerInv DEF LaunchConfined

\* The child is gone: it promises nothing any more.
LEMMA DiesConfined ==
    ASSUME CgroupInv, ContainerInv, NEW l \in Launch, Dies(l), UNCHANGED <<end1, up, down, jail>>,
           \/ main' = main
           \/ main[l] = "kill" /\ main' = [main EXCEPT ![l] = "wait"]
    PROVE  ContainerInv'
<1>1. /\ child' = [child EXCEPT ![l] = "dead"] /\ child[l] # "none" /\ pc' = pc
      /\ tasks' = [d \in Dir |-> tasks[d] \ {<<l, "child">>}]
  BY DEF Dies, ChildEnds
<1>2. ContainerTypeOK'
  BY <1>1 DEF ContainerInv, ContainerTypeOK
<1>3. LeavesOthers(l)
  BY <1>1 DEF ContainerInv, ContainerTypeOK, LeavesOthers
<1>4. child'[l] = "dead" /\ (main'[l] = main[l] \/ main'[l] = "wait")
  BY <1>1 DEF ContainerInv, ContainerTypeOK
<1>5. NotYetCloned(l)'
  BY <1>1, <1>4 DEF ContainerInv, NotYetCloned
<1>6. BehindIt(l)'
  BY <1>4 DEF BehindIt, Rooted, Hearing, Answered
<1>7. Agreement(l)'
  BY <1>4 DEF ContainerInv, Agreement, Mapped, Outside, Rooted, Answered, BothMaps
<1>. QED
  BY <1>2, <1>3, <1>5, <1>6, <1>7, StepKeepsContainerInv DEF LaunchConfined

\* main goes on without a word to the child.
LEMMA MainGoesConfined ==
    ASSUME ContainerInv, NEW l \in Launch, NEW to \in {"read", "kill", "wait"},
           pc[l] = "parent", main' = [main EXCEPT ![l] = to],
           main[l] \in {"close", "read"} \union BothMaps \union {"ack", "kill"},
           child[l] = "dead" \/ to = "read" \/ main[l] \notin {"close", "read"},
           end1' \subseteq Launch, UNCHANGED <<cgroupVars, child, up, down, jail>>
    PROVE  ContainerInv'
<1>1. ContainerTypeOK'
  BY DEF ContainerInv, ContainerTypeOK
<1>2. LeavesOthers(l)
  BY DEF ContainerInv, ContainerTypeOK, LeavesOthers, cgroupVars
<1>3. main'[l] = to
  BY DEF ContainerInv, ContainerTypeOK
<1>4. NotYetCloned(l)'
  BY DEF NotYetCloned, cgroupVars
<1>5. BehindIt(l)'
  BY DEF ContainerInv, BehindIt, DirsOf, cgroupVars
<1>6. Agreement(l)'
  BY <1>3 DEF ContainerInv, Agreement, Mapped, BothMaps, Outside, Rooted
<1>. QED
  BY <1>1, <1>2, <1>4, <1>5, <1>6, StepKeepsContainerInv DEF LaunchConfined

\* main hears whether the child has a user namespace: it goes straight to the answer
\* only if there is nothing to map.
LEMMA ReadFlagConfined ==
    ASSUME ContainerInv, NEW l \in Launch, ReadFlag(l)
    PROVE  ContainerInv'
<1>1. /\ pc[l] = "parent" /\ main[l] = "read" /\ up[l] # <<>>
      /\ main' = [main EXCEPT ![l] = IF Head(up[l]) THEN "uid_map" ELSE "ack"]
      /\ up' = [up EXCEPT ![l] = Tail(@)]
      /\ UNCHANGED <<cgroupVars, child, end1, down, jail>>
  BY DEF ReadFlag, MainGoes
<1>2. up[l] = <<jail[l].userns>> /\ jail[l].userns \in BOOLEAN
  BY <1>1 DEF ContainerInv, ContainerTypeOK, Agreement, Jail
<1>3. Head(up[l]) = jail[l].userns /\ Tail(up[l]) = <<>>
  BY <1>2
<1>4. /\ up'[l] = <<>> /\ main'[l] \in {"uid_map", "ack"}
      /\ main'[l] = "ack" => ~ jail[l].userns
      /\ main'[l] = "uid_map" => jail[l].userns
      /\ up' \in [Launch -> Seq(BOOLEAN)]
  <2>1. main' = [main EXCEPT ![l] = IF jail[l].userns THEN "uid_map" ELSE "ack"]
    BY <1>1, <1>3
  <2>2. up' = [up EXCEPT ![l] = <<>>]
    BY <1>1, <1>3, Zenon
  <2>3. up' \in [Launch -> Seq(BOOLEAN)] /\ up'[l] = <<>>
    BY <2>2 DEF ContainerInv, ContainerTypeOK
  <2>. QED
    BY <2>1, <2>3 DEF ContainerInv, ContainerTypeOK
<1>5. ContainerTypeOK'
  BY <1>1, <1>4 DEF ContainerInv, ContainerTypeOK, BothMaps
<1>6. LeavesOthers(l)
  BY <1>1 DEF ContainerInv, ContainerTypeOK, LeavesOthers, cgroupVars
<1>7. NotYetCloned(l)' /\ BehindIt(l)'
  BY <1>1 DEF ContainerInv, NotYetCloned, BehindIt, DirsOf, cgroupVars
<1>8. Agreement(l)'
  BY <1>1, <1>4 DEF ContainerInv, Agreement, Mapped, BothMaps
<1>. QED
  BY <1>5, <1>6, <1>7, <1>8, StepKeepsContainerInv DEF LaunchConfined

\* The two maps are written one after the other.
LEMMA WriteMapsConfined ==
    ASSUME ContainerInv, NEW l \in Launch, WriteMaps(l)
    PROVE  ContainerInv'
<1>1. PICK map \in BothMaps, next \in {"gid_map", "ack"} :
         /\ WriteMap(l, map, next)
         /\ map = "uid_map" <=> next = "gid_map"
  BY DEF WriteMaps, BothMaps
<1>2. /\ pc[l] = "parent" /\ main[l] = map
      /\ main' = [main EXCEPT ![l] = next]
      /\ jail' = [jail EXCEPT ![l].maps = @ \union {map}]
      /\ UNCHANGED <<cgroupVars, child, end1, up, down>>
  BY <1>1 DEF WriteMap, MainGoes
<1>3. /\ main'[l] = next
      /\ jail' \in [Launch -> Jail]
      /\ jail'[l] = [jail[l] EXCEPT !.maps = @ \union {map}]
  BY <1>2 DEF ContainerInv, ContainerTypeOK, Jail
<1>4. /\ jail'[l].maps = jail[l].maps \union {map}
      /\ jail'[l].root = jail[l].root /\ jail'[l].old = jail[l].old
      /\ jail'[l].userns = jail[l].userns /\ jail'[l].ids = jail[l].ids
      /\ jail'[l].caps = jail[l].caps /\ jail'[l].filter = jail[l].filter
      /\ jail[l].maps \subseteq BothMaps
  BY <1>3 DEF ContainerInv, ContainerTypeOK, Jail
<1>5. ContainerTypeOK'
  BY <1>2, <1>3 DEF ContainerInv, ContainerTypeOK, BothMaps
<1>6. LeavesOthers(l)
  BY <1>2 DEF ContainerInv, ContainerTypeOK, LeavesOthers, cgroupVars
<1>7. NotYetCloned(l)' /\ BehindIt(l)'
  BY <1>2, <1>4 DEF ContainerInv, NotYetCloned, BehindIt, DirsOf, cgroupVars
<1>8. Agreement(l)'
  <2>1. Agreement(l)
    BY DEF ContainerInv
  <2>2. Mapped(l) => Mapped(l)'
    BY <1>4 DEF Mapped
  <2>3. CASE map = "uid_map"
    BY <1>1, <1>2, <1>3, <1>4, <2>1, <2>2, <2>3 DEF Agreement, BothMaps
  <2>4. CASE map = "gid_map"
    <3>1. jail'[l].maps = BothMaps
      BY <1>2, <1>4, <2>1, <2>4 DEF Agreement, BothMaps
    <3>2. Mapped(l)'
      BY <3>1 DEF Mapped
    <3>. QED
      BY <1>1, <1>2, <1>3, <1>4, <2>1, <2>4, <3>2 DEF Agreement, BothMaps
  <2>. QED
    BY <2>3, <2>4 DEF BothMaps
<1>. QED
  BY <1>5, <1>6, <1>7, <1>8, StepKeepsContainerInv DEF LaunchConfined

LEMMA WriteAckConfined ==
    ASSUME ContainerInv, NEW l \in Launch, WriteAck(l)
    PROVE  ContainerInv'
<1>1. /\ pc[l] = "parent" /\ main[l] = "ack" /\ child[l] # "dead"
      /\ main' = [main EXCEPT ![l] = "wait"]
      /\ down' = [down EXCEPT ![l] = Append(@, 0)]
      /\ UNCHANGED <<cgroupVars, child, end1, up, jail>>
  BY DEF WriteAck, MainGoes
<1>2. ContainerTypeOK'
  BY <1>1 DEF ContainerInv, ContainerTypeOK
<1>3. LeavesOthers(l)
  BY <1>1 DEF ContainerInv, ContainerTypeOK, LeavesOthers, cgroupVars
<1>4. NotYetCloned(l)' /\ BehindIt(l)'
  BY <1>1 DEF ContainerInv, NotYetCloned, BehindIt, DirsOf, cgroupVars
<1>5. Mapped(l) /\ main'[l] = "wait"
  BY <1>1 DEF ContainerInv, ContainerTypeOK, Agreement
<1>6. child[l] \notin Outside \union Rooted \union {"tell"}
  BY <1>1 DEF ContainerInv, Agreement
<1>7. Agreement(l)'
  BY <1>1, <1>5, <1>6 DEF ContainerInv, Agreement, Mapped, BothMaps
<1>. QED
  BY <1>2, <1>3, <1>4, <1>7, StepKeepsContainerInv DEF LaunchConfined

\* The places of a child that is there.
ChildPlaces == (Outside \ {"none"}) \union Rooted \union {"tell"} \union Hearing \union Answered

\* A step of the child alone: it leaves the groups, main and the other launches as
\* they are.
LEMMA ChildGoesKeeps ==
    ASSUME ContainerInv, NEW l \in Launch, NEW from \in ChildPlaces, NEW to \in ChildPlaces, ChildGoes(l, from, to),
           \A m \in Launch \ {l} : up'[m] = up[m] /\ down'[m] = down[m] /\ jail'[m] = jail[m],
           up' \in [Launch -> Seq(BOOLEAN)], down' \in [Launch -> Seq({0})],
           jail' \in [Launch -> Jail]
    PROVE  /\ child[l] = from /\ child'[l] = to
           /\ main' = main /\ DirsOf(l)' = DirsOf(l)
           /\ \A d \in DirsOf(l) : <<l, "child">> \in tasks'[d]
           /\ BehindIt(l)' /\ Agreement(l)' => ContainerInv'
<1>1. /\ child[l] = from /\ child' = [child EXCEPT ![l] = to] /\ main' = main /\ end1' = end1
      /\ tasks' = tasks /\ pc' = pc
  BY DEF ChildGoes, cgroupVars
<1>2. child'[l] = to /\ ContainerTypeOK'
  BY <1>1 DEF ContainerInv, ContainerTypeOK, ChildPlaces
<1>3. LeavesOthers(l)
  BY <1>1 DEF ContainerInv, ContainerTypeOK, LeavesOthers
<1>4. NotYetCloned(l)'
  BY <1>1 DEF ContainerInv, NotYetCloned, ChildPlaces, Rooted, Hearing, Answered
<1>5. \A d \in DirsOf(l) : <<l, "child">> \in tasks'[d]
  BY <1>1 DEF ContainerInv, BehindIt, ChildPlaces, Outside, Rooted, Hearing, Answered
<1>. QED
  BY <1>1, <1>2, <1>3, <1>4, <1>5, StepKeepsContainerInv DEF LaunchConfined, DirsOf

\* A step that changes nothing but its place, from one place to the next of its kind, or
\* past a user namespace that is not to be had.
LEMMA QuietlyConfined ==
    ASSUME ContainerInv, NEW l \in Launch, NEW from, NEW to, Quietly(l, from, to),
           <<from, to>> \in {<<"hostname", "remount">>, <<"remount", "pivot">>, <<"pivot", "umount">>,
                            <<"proc", "unshare">>, <<"unshare", "tell">>, <<"exec", "payload">>}
    PROVE  ContainerInv'
<1>1. ChildGoes(l, from, to) /\ up' = up /\ down' = down /\ jail' = jail
  BY DEF Quietly
<1>2. /\ from \in {"hostname", "remount", "pivot", "proc", "unshare", "exec"}
      /\ to \in {"remount", "pivot", "umount", "unshare", "tell", "payload"}
      /\ from = "exec" <=> to = "payload"
      /\ from \in Rooted <=> to \in {"unshare", "tell"}
  BY DEF Rooted
<1>3. /\ child[l] = from /\ child'[l] = to /\ main' = main /\ DirsOf(l)' = DirsOf(l)
      /\ \A d \in DirsOf(l) : <<l, "child">> \in tasks'[d]
      /\ BehindIt(l)' /\ Agreement(l)' => ContainerInv'
  BY <1>1, <1>2, ChildGoesKeeps DEF ContainerInv, ContainerTypeOK, ChildPlaces, Outside, Rooted, Answered
<1>4. BehindIt(l)'
  BY <1>1, <1>2, <1>3 DEF ContainerInv, BehindIt, Rooted, Hearing, Answered
<1>5. Agreement(l)'
  BY <1>1, <1>2, <1>3 DEF ContainerInv, Agreement, Mapped, Outside, Rooted, Answered
<1>. QED
  BY <1>3, <1>4, <1>5

\* A step that puts one more thing between the child and the host.
LEMMA ConfineKeeps ==
    ASSUME ContainerInv, NEW l \in Launch, NEW from \in ChildPlaces, NEW to \in ChildPlaces,
           NEW field \in {"root", "old", "userns", "ids", "caps", "filter"}, NEW val,
           Confine(l, from, to, field, val),
           IF field = "root" THEN val = "container" ELSE val \in BOOLEAN
    PROVE  /\ child[l] = from /\ child'[l] = to
           /\ main' = main /\ DirsOf(l)' = DirsOf(l) /\ up' = up /\ down' = down
           /\ \A d \in DirsOf(l) : <<l, "child">> \in tasks'[d]
           /\ jail'[l] = [jail[l] EXCEPT ![field] = val]
           /\ BehindIt(l)' /\ Agreement(l)' => ContainerInv'
<1>1. /\ ChildGoes(l, from, to) /\ up' = up /\ down' = down
      /\ jail' = [jail EXCEPT ![l][field] = val]
  BY DEF Confine
<1>2. jail' \in [Launch -> Jail]
  BY <1>1 DEF ContainerInv, ContainerTypeOK, Jail
<1>3. jail'[l] = [jail[l] EXCEPT ![field] = val] /\ \A m \in Launch \ {l} : jail'[m] = jail[m]
  BY <1>1 DEF ContainerInv, ContainerTypeOK
<1>. QED
  BY <1>1, <1>2, <1>3, ChildGoesKeeps DEF ContainerInv, ContainerTypeOK

\* The root directory is changed.
LEMMA PivotConfined ==
    ASSUME ContainerInv, NEW l \in Launch, Confine(l, "pivot", "umount", "root", "container")
    PROVE  ContainerInv'
<1>1. /\ child[l] = "pivot" /\ child'[l] = "umount"
      /\ main' = main /\ DirsOf(l)' = DirsOf(l) /\ up' = up /\ down' = down
      /\ \A d \in DirsOf(l) : <<l, "child">> \in tasks'[d]
      /\ jail'[l] = [jail[l] EXCEPT !["root"] = "container"]
      /\ BehindIt(l)' /\ Agreement(l)' => ContainerInv'
  <2>1. /\ "pivot" \in ChildPlaces /\ "umount" \in ChildPlaces
        /\ "root" \in {"root", "old", "userns", "ids", "caps", "filter"}
        /\ IF "root" = "root" THEN "container" = "container" ELSE "container" \in BOOLEAN
    BY DEF ChildPlaces, Outside, Rooted, Answered
  <2>. QED
    BY <2>1, ConfineKeeps, Zenon
<1>2. jail[l] \in Jail
  BY DEF ContainerInv, ContainerTypeOK
<1>3. /\ jail'[l].root = "container"
      /\ jail'[l].old = jail[l].old
      /\ jail'[l].userns = jail[l].userns
      /\ jail'[l].maps = jail[l].maps
      /\ jail'[l].ids = jail[l].ids
      /\ jail'[l].caps = jail[l].caps
      /\ jail'[l].filter = jail[l].filter
  BY <1>1, <1>2 DEF Jail
<1>4. BehindIt(l)'
  BY <1>1, <1>3 DEF ContainerInv, BehindIt, Rooted, Hearing, Answered
<1>5. Agreement(l)'
  BY <1>1, <1>3 DEF ContainerInv, Agreement, Mapped, Outside, Rooted, Answered
<1>. QED
  BY <1>1, <1>4, <1>5

\* The old root goes only if the root was changed.
LEMMA UnmountConfined ==
    ASSUME ContainerInv, NEW l \in Launch, Confine(l, "umount", "proc", "old", FALSE), jail[l].root = "container"
    PROVE  ContainerInv'
<1>1. /\ child[l] = "umount" /\ child'[l] = "proc"
      /\ main' = main /\ DirsOf(l)' = DirsOf(l) /\ up' = up /\ down' = down
      /\ \A d \in DirsOf(l) : <<l, "child">> \in tasks'[d]
      /\ jail'[l] = [jail[l] EXCEPT !["old"] = FALSE]
      /\ BehindIt(l)' /\ Agreement(l)' => ContainerInv'
  <2>1. /\ "umount" \in ChildPlaces /\ "proc" \in ChildPlaces
        /\ "old" \in {"root", "old", "userns", "ids", "caps", "filter"}
        /\ IF "old" = "root" THEN FALSE = "container" ELSE FALSE \in BOOLEAN
    BY DEF ChildPlaces, Outside, Rooted, Answered
  <2>. QED
    BY <2>1, ConfineKeeps, Zenon
<1>2. jail[l] \in Jail
  BY DEF ContainerInv, ContainerTypeOK
<1>3. /\ jail'[l].old = FALSE
      /\ jail'[l].root = jail[l].root
      /\ jail'[l].userns = jail[l].userns
      /\ jail'[l].maps = jail[l].maps
      /\ jail'[l].ids = jail[l].ids
      /\ jail'[l].caps = jail[l].caps
      /\ jail'[l].filter = jail[l].filter
  BY <1>1, <1>2 DEF Jail
<1>4. BehindIt(l)'
  BY <1>1, <1>3 DEF ContainerInv, BehindIt, Rooted, Hearing, Answered
<1>5. Agreement(l)'
  BY <1>1, <1>3 DEF ContainerInv, Agreement, Mapped, Outside, Rooted, Answered
<1>. QED
  BY <1>1, <1>4, <1>5

\* The user namespace is made before main has heard or answered anything.
LEMMA UnshareConfined ==
    ASSUME ContainerInv, NEW l \in Launch, Confine(l, "unshare", "tell", "userns", TRUE)
    PROVE  ContainerInv'
<1>1. /\ child[l] = "unshare" /\ child'[l] = "tell"
      /\ main' = main /\ DirsOf(l)' = DirsOf(l) /\ up' = up /\ down' = down
      /\ \A d \in DirsOf(l) : <<l, "child">> \in tasks'[d]
      /\ jail'[l] = [jail[l] EXCEPT !["userns"] = TRUE]
      /\ BehindIt(l)' /\ Agreement(l)' => ContainerInv'
  <2>1. /\ "unshare" \in ChildPlaces /\ "tell" \in ChildPlaces
        /\ "userns" \in {"root", "old", "userns", "ids", "caps", "filter"}
        /\ IF "userns" = "root" THEN TRUE = "container" ELSE TRUE \in BOOLEAN
    BY DEF ChildPlaces, Outside, Rooted, Answered
  <2>. QED
    BY <2>1, ConfineKeeps, Zenon
<1>2. jail[l] \in Jail
  BY DEF ContainerInv, ContainerTypeOK
<1>3. /\ jail'[l].userns = TRUE
      /\ jail'[l].root = jail[l].root
      /\ jail'[l].old = jail[l].old
      /\ jail'[l].maps = jail[l].maps
      /\ jail'[l].ids = jail[l].ids
      /\ jail'[l].caps = jail[l].caps
      /\ jail'[l].filter = jail[l].filter
  BY <1>1, <1>2 DEF Jail
<1>4. BehindIt(l)'
  BY <1>1, <1>3 DEF ContainerInv, BehindIt, Rooted, Hearing, Answered
<1>5. Agreement(l)'
  BY <1>1, <1>3 DEF ContainerInv, Agreement, Mapped, Outside, Rooted, Answered
<1>. QED
  BY <1>1, <1>4, <1>5

\* The last three steps before the exec, each after the answer of main.
LEMMA SwitchIdsConfined ==
    ASSUME ContainerInv, NEW l \in Launch, Confine(l, "ids", "caps", "ids", TRUE)
    PROVE  ContainerInv'
<1>1. /\ child[l] = "ids" /\ child'[l] = "caps"
      /\ main' = main /\ DirsOf(l)' = DirsOf(l) /\ up' = up /\ down' = down
      /\ \A d \in DirsOf(l) : <<l, "child">> \in tasks'[d]
      /\ jail'[l] = [jail[l] EXCEPT !["ids"] = TRUE]
      /\ BehindIt(l)' /\ Agreement(l)' => ContainerInv'
  <2>1. /\ "ids" \in ChildPlaces /\ "caps" \in ChildPlaces
        /\ "ids" \in {"root", "old", "userns", "ids", "caps", "filter"}
        /\ IF "ids" = "root" THEN TRUE = "container" ELSE TRUE \in BOOLEAN
    BY DEF ChildPlaces, Outside, Rooted, Answered
  <2>. QED
    BY <2>1, ConfineKeeps, Zenon
<1>2. jail[l] \in Jail
  BY DEF ContainerInv, ContainerTypeOK
<1>3. /\ jail'[l].ids = TRUE
      /\ jail'[l].root = jail[l].root
      /\ jail'[l].old = jail[l].old
      /\ jail'[l].userns = jail[l].userns
      /\ jail'[l].maps = jail[l].maps
      /\ jail'[l].caps = jail[l].caps
      /\ jail'[l].filter = jail[l].filter
  BY <1>1, <1>2 DEF Jail
<1>4. BehindIt(l)'
  BY <1>1, <1>3 DEF ContainerInv, BehindIt, Rooted, Hearing, Answered
<1>5. Agreement(l)'
  BY <1>1, <1>3 DEF ContainerInv, Agreement, Mapped, Outside, Rooted, Answered
<1>. QED
  BY <1>1, <1>4, <1>5

\* (setup_child_capabilities)
LEMMA DropCapabilitiesConfined ==
    ASSUME ContainerInv, NEW l \in Launch, Confine(l, "caps", "filter", "caps", TRUE)
    PROVE  ContainerInv'
<1>1. /\ child[l] = "caps" /\ child'[l] = "filter"
      /\ main' = main /\ DirsOf(l)' = DirsOf(l) /\ up' = up /\ down' = down
      /\ \A d \in DirsOf(l) : <<l, "child">> \in tasks'[d]
      /\ jail'[l] = [jail[l] EXCEPT !["caps"] = TRUE]
      /\ BehindIt(l)' /\ Agreement(l)' => ContainerInv'
  <2>1. /\ "caps" \in ChildPlaces /\ "filter" \in ChildPlaces
        /\ "caps" \in {"root", "old", "userns", "ids", "caps", "filter"}
        /\ IF "caps" = "root" THEN TRUE = "container" ELSE TRUE \in BOOLEAN
    BY DEF ChildPlaces, Outside, Rooted, Answered
  <2>. QED
    BY <2>1, ConfineKeeps, Zenon
<1>2. jail[l] \in Jail
  BY DEF ContainerInv, ContainerTypeOK
<1>3. /\ jail'[l].caps = TRUE
      /\ jail'[l].root = jail[l].root
      /\ jail'[l].old = jail[l].old
      /\ jail'[l].userns = jail[l].userns
      /\ jail'[l].maps = jail[l].maps
      /\ jail'[l].ids = jail[l].ids
      /\ jail'[l].filter = jail[l].filter
  BY <1>1, <1>2 DEF Jail
<1>4. BehindIt(l)'
  BY <1>1, <1>3 DEF ContainerInv, BehindIt, Rooted, Hearing, Answered
<1>5. Agreement(l)'
  BY <1>1, <1>3 DEF ContainerInv, Agreement, Mapped, Outside, Rooted, Answered
<1>. QED
  BY <1>1, <1>4, <1>5

\* (setup_syscall_filters)
LEMMA LoadFilterConfined ==
    ASSUME ContainerInv, NEW l \in Launch, Confine(l, "filter", "exec", "filter", TRUE)
    PROVE  ContainerInv'
<1>1. /\ child[l] = "filter" /\ child'[l] = "exec"
      /\ main' = main /\ DirsOf(l)' = DirsOf(l) /\ up' = up /\ down' = down
      /\ \A d \in DirsOf(l) : <<l, "child">> \in tasks'[d]
      /\ jail'[l] = [jail[l] EXCEPT !["filter"] = TRUE]
      /\ BehindIt(l)' /\ Agreement(l)' => ContainerInv'
  <2>1. /\ "filter" \in ChildPlaces /\ "exec" \in ChildPlaces
        /\ "filter" \in {"root", "old", "userns", "ids", "caps", "filter"}
        /\ IF "filter" = "root" THEN TRUE = "container" ELSE TRUE \in BOOLEAN
    BY DEF ChildPlaces, Outside, Rooted, Answered
  <2>. QED
    BY <2>1, ConfineKeeps, Zenon
<1>2. jail[l] \in Jail
  BY DEF ContainerInv, ContainerTypeOK
<1>3. /\ jail'[l].filter = TRUE
      /\ jail'[l].root = jail[l].root
      /\ jail'[l].old = jail[l].old
      /\ jail'[l].userns = jail[l].userns
      /\ jail'[l].maps = jail[l].maps
      /\ jail'[l].ids = jail[l].ids
      /\ jail'[l].caps = jail[l].caps
  BY <1>1, <1>2 DEF Jail
<1>4. BehindIt(l)'
  BY <1>1, <1>3 DEF ContainerInv, BehindIt, Rooted, Hearing, Answered
<1>5. Agreement(l)'
  BY <1>1, <1>3 DEF ContainerInv, Agreement, Mapped, Outside, Rooted, Answered
<1>. QED
  BY <1>1, <1>4, <1>5

LEMMA TellMainConfined ==
    ASSUME ContainerInv, NEW l \in Launch, TellMain(l)
    PROVE  ContainerInv'
<1>1. /\ ChildGoes(l, "tell", "hear")
      /\ up' = [up EXCEPT ![l] = Append(@, jail[l].userns)] /\ down' = down /\ jail' = jail
  BY DEF TellMain
<1>2. up[l] = <<>> /\ jail[l].userns \in BOOLEAN
  BY <1>1 DEF ContainerInv, ContainerTypeOK, Agreement, ChildGoes, Jail
<1>3. up'[l] = <<jail[l].userns>>
  <2>1. up'[l] = Append(up[l], jail[l].userns)
    BY <1>1 DEF ContainerInv, ContainerTypeOK
  <2>. QED
    BY <1>2, <2>1
<1>4. up' \in [Launch -> Seq(BOOLEAN)] /\ \A m \in Launch \ {l} : up'[m] = up[m]
  BY <1>1, <1>2 DEF ContainerInv, ContainerTypeOK
<1>5. /\ child[l] = "tell" /\ child'[l] = "hear" /\ main' = main /\ DirsOf(l)' = DirsOf(l)
      /\ \A d \in DirsOf(l) : <<l, "child">> \in tasks'[d]
      /\ BehindIt(l)' /\ Agreement(l)' => ContainerInv'
  <2>1. "tell" \in ChildPlaces /\ "hear" \in ChildPlaces
    BY DEF ChildPlaces, Hearing
  <2>2. \A m \in Launch \ {l} : up'[m] = up[m] /\ down'[m] = down[m] /\ jail'[m] = jail[m]
    BY <1>1, <1>4
  <2>3. /\ up' \in [Launch -> Seq(BOOLEAN)] /\ down' \in [Launch -> Seq({0})]
        /\ jail' \in [Launch -> Jail]
    BY <1>1, <1>4 DEF ContainerInv, ContainerTypeOK
  <2>. QED
    BY <1>1, <2>1, <2>2, <2>3, ChildGoesKeeps
<1>6. BehindIt(l)'
  BY <1>1, <1>5 DEF ContainerInv, BehindIt, Rooted, Hearing, Answered
<1>7. Agreement(l)'
  BY <1>1, <1>3, <1>5 DEF ContainerInv, Agreement, Mapped, Outside, Rooted, Answered
<1>. QED
  BY <1>5, <1>6, <1>7

\* The answer of main lets the child past: by then its ids are mapped.
LEMMA HearMainConfined ==
    ASSUME ContainerInv, NEW l \in Launch, HearMain(l)
    PROVE  ContainerInv'
<1>1. /\ ChildGoes(l, "hear", "ids") /\ down[l] # <<>>
      /\ down' = [down EXCEPT ![l] = Tail(@)] /\ up' = up /\ jail' = jail
  BY DEF HearMain
<1>2. Tail(down[l]) \in Seq({0})
  BY <1>1 DEF ContainerInv, ContainerTypeOK
<1>3. down' \in [Launch -> Seq({0})] /\ \A m \in Launch \ {l} : down'[m] = down[m]
  BY <1>1, <1>2 DEF ContainerInv, ContainerTypeOK
<1>4. /\ child[l] = "hear" /\ child'[l] = "ids" /\ main' = main /\ DirsOf(l)' = DirsOf(l)
      /\ \A d \in DirsOf(l) : <<l, "child">> \in tasks'[d]
      /\ BehindIt(l)' /\ Agreement(l)' => ContainerInv'
  <2>1. "hear" \in ChildPlaces /\ "ids" \in ChildPlaces
    BY DEF ChildPlaces, Hearing, Answered
  <2>2. \A m \in Launch \ {l} : up'[m] = up[m] /\ down'[m] = down[m] /\ jail'[m] = jail[m]
    BY <1>1, <1>3
  <2>3. /\ up' \in [Launch -> Seq(BOOLEAN)] /\ down' \in [Launch -> Seq({0})]
        /\ jail' \in [Launch -> Jail]
    BY <1>1, <1>3 DEF ContainerInv, ContainerTypeOK
  <2>. QED
    BY <1>1, <2>1, <2>2, <2>3, ChildGoesKeeps
<1>5. BehindIt(l)'
  BY <1>1, <1>4 DEF ContainerInv, BehindIt, Rooted, Hearing, Answered
<1>6. Mapped(l)
  BY <1>1 DEF ContainerInv, Agreement
<1>7. Agreement(l)'
  BY <1>1, <1>4, <1>6 DEF ContainerInv, Agreement, Mapped, Outside, Rooted
<1>. QED
  BY <1>4, <1>5, <1>7

LEMMA KillChildConfined ==
    ASSUME CgroupInv, ContainerInv, NEW l \in Launch, KillChild(l)
    PROVE  ContainerInv'
<1>1. CASE child[l] = "dead"
  <2>1. /\ pc[l] = "parent" /\ main[l] = "kill" /\ main' = [main EXCEPT ![l] = "wait"]
        /\ UNCHANGED <<cgroupVars, child, end1, up, down, jail>>
    BY <1>1 DEF KillChild
  <2>2. end1' \subseteq Launch
    BY <2>1 DEF ContainerInv, ContainerTypeOK
  <2>. QED
    BY <1>1, <2>1, <2>2, MainGoesConfined
<1>2. CASE child[l] # "dead"
  BY <1>2, DiesConfined DEF KillChild
<1>. QED
  BY <1>1, <1>2

-----------------------------------------------------------------------------

LEMMA MainStepConfined ==
    ASSUME CgroupInv, ContainerInv, NEW l \in Launch, MainStep(l)
    PROVE  ContainerInv'
<1>1. end1 \subseteq Launch
  BY DEF ContainerInv, ContainerTypeOK
<1>2. CASE Groups(l) \/ WaitChild(l)
  BY <1>1, <1>2, GroupsStepConfined DEF Groups, WaitChild, childVars
<1>3. CASE CloseSocket(l)
  BY <1>1, <1>3, MainGoesConfined DEF CloseSocket, MainGoes
<1>4. CASE ReadEnds(l)
  BY <1>1, <1>4, MainGoesConfined DEF ReadEnds, MainGoes
<1>5. CASE MapFails(l)
  <2>1. PICK s \in {"uid_map", "gid_map", "ack"} : MainGoes(l, s, "kill")
    BY <1>5 DEF MapFails
  <2>2. UNCHANGED <<child, end1, up, down, jail>>
    BY <1>5 DEF MapFails
  <2>. QED
    BY <1>1, <2>1, <2>2, MainGoesConfined DEF MainGoes, BothMaps
<1>. QED
  BY <1>2, <1>3, <1>4, <1>5, StartChildConfined, ReadFlagConfined, WriteMapsConfined, WriteAckConfined,
     KillChildConfined DEF MainStep

LEMMA ChildStepConfined ==
    ASSUME CgroupInv, ContainerInv, NEW l \in Launch, ChildStep(l) \/ ChildExits(l)
    PROVE  ContainerInv'
<1>1. CASE UnmountFails(l) \/ ChildFails(l) \/ ChildExits(l)
  BY <1>1, DiesConfined DEF UnmountFails, ChildFails, ChildExits
<1>2. CASE SetHostname(l)
  BY <1>2, QuietlyConfined DEF SetHostname
<1>3. CASE Remount(l)
  BY <1>3, QuietlyConfined DEF Remount
<1>4. CASE PivotRoot(l)
  BY <1>4, QuietlyConfined, PivotConfined DEF PivotRoot
<1>5. CASE UnmountOld(l)
  BY <1>5, UnmountConfined DEF UnmountOld
<1>6. CASE MountProc(l)
  BY <1>6, QuietlyConfined DEF MountProc
<1>7. CASE Unshare(l)
  BY <1>7, QuietlyConfined, UnshareConfined DEF Unshare
<1>8. CASE SwitchIds(l)
  BY <1>8, SwitchIdsConfined DEF SwitchIds
<1>9. CASE DropCapabilities(l)
  BY <1>9, DropCapabilitiesConfined DEF DropCapabilities
<1>10. CASE LoadFilter(l)
  BY <1>10, LoadFilterConfined DEF LoadFilter
<1>11. CASE Exec(l)
  BY <1>11, QuietlyConfined DEF Exec
<1>. QED
  BY <1>1, <1>2, <1>3, <1>4, <1>5, <1>6, <1>7, <1>8, <1>9, <1>10, <1>11,
     TellMainConfined, HearMainConfined DEF ChildStep

LEMMA ContainerNextConfined ==
    ASSUME CgroupInv, ContainerInv, [ContainerNext]_vars
    PROVE  ContainerInv'
<1>1. CASE UNCHANGED vars
  BY <1>1 DEF vars, cgroupVars, childVars, ContainerInv, ContainerTypeOK, NotYetCloned, BehindIt, Agreement,
              Mapped, DirsOf
<1>2. CASE ContainerNext
  <2>. PICK l \in Launch : MainStep(l) \/ ChildStep(l) \/ ChildExits(l) \/ CrashMain(l)
    BY <1>2 DEF ContainerNext
  <2>1. CASE CrashMain(l)
    <3>1. end1' \subseteq Launch
      BY <2>1 DEF CrashMain, ContainerInv, ContainerTypeOK
    <3>. QED
      BY <2>1, <3>1, GroupsStepConfined DEF CrashMain
  <2>. QED
    BY <2>1, MainStepConfined, ChildStepConfined
<1>. QED
  BY <1>1, <1>2

LEMMA ContainerInitConfined == ContainerInit => ContainerInv
<1>. SUFFICES ASSUME ContainerInit PROVE ContainerInv
  OBVIOUS
<1>1. ContainerTypeOK
  BY DEF ContainerInit, ContainerTypeOK, Free0, Outside, Jail
<1>2. ASSUME NEW l \in Launch PROVE NotYetCloned(l) /\ BehindIt(l) /\ Agreement(l)
  BY DEF ContainerInit, NotYetCloned, BehindIt, Agreement, Rooted, Hearing, Answered, BothMaps, Free0
<1>. QED
  BY <1>1, <1>2 DEF ContainerInv

\* The inductive invariant of main and its child.
THEOREM ContainerInvariant == ContainerSpec => []ContainerInv
BY ContainerInitConfined, ContainerNextConfined, ContainerKeepsCgroups, PTL DEF ContainerSpec

\* The payload runs only behind all that child_function sets up, whatever failed on the
\* way: the root is not looked at when pivot_root fails, but then there is no old root
\* to unmount; and the answer of main comes only after both maps are written.
THEOREM PayloadStaysConfined == ContainerSpec => []PayloadIsConfined
<1>1. ContainerInv => PayloadIsConfined
  BY DEF ContainerInv, BehindIt, Agreement, Mapped, PayloadIsConfined, Answered, BothMaps
<1>. QED
  BY <1>1, ContainerInvariant, PTL

\* main writes maps only for a child that unshare has put into a new user namespace.
THEOREM MapsStayInNamespace == ContainerSpec => []MapsOnlyInNamespace
<1>1. ContainerInv => MapsOnlyInNamespace
  BY DEF ContainerInv, Agreement, MapsOnlyInNamespace
<1>. QED
  BY <1>1, ContainerInvariant, PTL

\* No step switches the ids of a child in a user namespace that main has not mapped.
THEOREM IdsComeAfterMaps == ContainerSpec => IdsAfterMaps
<1>. DEFINE A == \A l \in Launch : ~ jail[l].ids /\ jail'[l].ids /\ jail[l].userns =>
                    jail[l].maps = {"uid_map", "gid_map"}
<1>1. ContainerInv /\ [ContainerNext]_vars => A \/ UNCHANGED vars
  <2>. SUFFICES ASSUME ContainerInv, ContainerNext, NEW m \in Launch,
                       ~ jail[m].ids, jail'[m].ids, jail[m].userns
                PROVE  jail[m].maps = {"uid_map", "gid_map"}
    OBVIOUS
  <2>1. PICK l \in Launch : MainStep(l) \/ ChildStep(l) \/ ChildExits(l) \/ CrashMain(l)
    BY DEF ContainerNext
  <2>2. CASE SwitchIds(l)
    <3>1. child[l] = "ids" /\ jail' = [jail EXCEPT ![l]["ids"] = TRUE]
      BY <2>2 DEF SwitchIds, Confine, ChildGoes
    <3>2. l = m
      BY <3>1 DEF ContainerInv, ContainerTypeOK
    <3>. QED
      BY <3>1, <3>2 DEF ContainerInv, Agreement, Mapped, Answered, BothMaps
  <2>3. CASE PivotRoot(l) \/ UnmountOld(l) \/ Unshare(l) \/ DropCapabilities(l) \/ LoadFilter(l)
    <3>1. \/ jail' = jail
          \/ \E f \in {"root", "old", "userns", "caps", "filter"} : \E v :
                jail' = [jail EXCEPT ![l][f] = v]
      BY <2>3 DEF PivotRoot, UnmountOld, Unshare, DropCapabilities, LoadFilter, Confine, Quietly
    <3>. QED
      BY <3>1 DEF ContainerInv, ContainerTypeOK, Jail
  <2>4. CASE WriteMaps(l)
    <3>1. \E v : jail' = [jail EXCEPT ![l].maps = v]
      BY <2>4 DEF WriteMaps, WriteMap
    <3>. QED
      BY <3>1 DEF ContainerInv, ContainerTypeOK
  <2>5. jail' = jail \/ SwitchIds(l) \/ PivotRoot(l) \/ UnmountOld(l) \/ Unshare(l)
          \/ DropCapabilities(l) \/ LoadFilter(l) \/ WriteMaps(l)
    <3>1. CASE MainStep(l)
      BY <3>1 DEF MainStep, Groups, StartChild, CloseSocket, ReadFlag, ReadEnds, WriteAck, MapFails,
                  KillChild, WaitChild, childVars
    <3>2. CASE ChildStep(l)
      BY <3>2 DEF ChildStep, SetHostname, Remount, UnmountFails, MountProc, TellMain, HearMain, Exec,
                  ChildFails, Quietly
    <3>3. CASE ChildExits(l) \/ CrashMain(l)
      BY <3>3 DEF ChildExits, CrashMain
    <3>. QED
      BY <2>1, <3>1, <3>2, <3>3
  <2>. QED
    BY <2>2, <2>3, <2>4, <2>5
<1>. QED
  BY <1>1, ContainerInvariant, PTL DEF ContainerSpec, IdsAfterMaps
=============================================================================
