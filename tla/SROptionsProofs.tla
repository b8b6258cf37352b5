-------------------------- MODULE SROptionsProofs --------------------------
(***************************************************************************)
(* Proofs about SROptions, for any commands and any number of options, of  *)
(* uses of a flag and of words that are no options.                        *)
(***************************************************************************)
EXTENDS SROptions, SequenceTheorems, TLAPS

\* The bounds are numbers.
LEMMA BoundsAreNumbers ==
    /\ MaxOptions \in Nat /\ MaxUses \in Nat \ {0} /\ MaxStrays \in Nat
    /\ Padding \in Nat \ {0}
BY OptionsAssumption

\* What the settings of the first entry may be.
SettingSet == {weight, self_to_task, NULL} \union RateFlags \X (1 .. MaxUses)

\* What may be lost of the first entry.
Parts == {"name", "settings"}

\* What holds until a store is out of bounds.
AllAgree == OptionsTypeOK /\ ControlsAgree /\ RatesAgree /\ ArgumentsAgree

\* Every flag is one of nine.
LEMMA FlagSets ==
    /\ \A f : f \in LimitFlags <=> f \in ControlFlags \/ f \in RateFlags
    /\ \A f : f \in Flags <=> f \in LimitFlags \/ f \in FieldFlags
    /\ "m" \in FieldFlags /\ "m" \notin LimitFlags /\ "r" \in RateFlags /\ "w" \in RateFlags
    /\ \A f \in FieldFlags : f \notin LimitFlags
    /\ \A f \in ControlFlags : f \notin RateFlags /\ f # "blkio" /\ f # "NULL"
    /\ \A f \in RateFlags : (f = "r" \/ f = "w") /\ f # "NULL"
    /\ "C" \in ControlFlags /\ "s" \in ControlFlags /\ "p" \in ControlFlags /\ "M" \in ControlFlags
    /\ \A f \in ControlFlags : f = "C" \/ f = "s" \/ f = "p" \/ f = "M"
<1>1. \A f : f \in LimitFlags <=> f \in ControlFlags \/ f \in RateFlags
  BY DEF LimitFlags
<1>2. \A f : f \in Flags <=> f \in LimitFlags \/ f \in FieldFlags
  BY DEF Flags
<1>3. "m" \in FieldFlags /\ "r" \in RateFlags /\ "w" \in RateFlags
  BY DEF FieldFlags, RateFlags
<1>4. \A f \in FieldFlags : f \notin LimitFlags
  BY DEF FieldFlags, LimitFlags, ControlFlags, RateFlags
<1>5. \A f \in ControlFlags : f \notin RateFlags /\ f # "blkio" /\ f # "NULL"
  BY DEF ControlFlags, RateFlags
<1>6. \A f \in RateFlags : (f = "r" \/ f = "w") /\ f # "NULL"
  BY DEF RateFlags
<1>7. /\ "C" \in ControlFlags /\ "s" \in ControlFlags /\ "p" \in ControlFlags /\ "M" \in ControlFlags
      /\ \A f \in ControlFlags : f = "C" \/ f = "s" \/ f = "p" \/ f = "M"
  BY DEF ControlFlags
<1>. QED
  BY <1>1, <1>2, <1>3, <1>4, <1>5, <1>6, <1>7

\* An array of six places that is NULL from the c-th on is walked up to there.
LEMMA WalkOfArray ==
    ASSUME NEW s, NEW c \in 1 .. 6, DOMAIN s = 0 .. 5,
           \A i \in c .. 5 : s[i] = NULL,
           \A i \in 0 .. c - 1 : s[i] # NULL
    PROVE  /\ Walk(s) = 0 .. c - 1
           /\ (\E i \in DOMAIN s : s[i] = NULL) <=> c <= 5
<1>1. \A i \in 0 .. 5 : s[i] = NULL <=> i >= c
  OBVIOUS
<1>2. {i \in DOMAIN s : s[i] = NULL} = c .. 5
  BY <1>1
<1>3. \A i \in 0 .. 5 : (\A j \in c .. 5 : i < j) <=> i <= c - 1
  OBVIOUS
<1>. QED
  BY <1>1, <1>2, <1>3 DEF Walk

\* Up to place c an array holds its default and controls used as u says.
Filled(s, c, u) ==
    /\ DOMAIN s = 0 .. 5 /\ s[0] = Default
    /\ \A i \in c .. 5 : s[i] = NULL
    /\ \A i \in 1 .. c - 1 : \E f \in ControlFlags : \E n \in 1 .. u[f] : s[i] = <<f, n>>

\* The array cgroups is walked up to its counter.
LEMMA ControlsWalked ==
    ASSUME NEW s, NEW c \in 1 .. 6, NEW u, Filled(s, c, u)
    PROVE  /\ Walk(s) = 0 .. c - 1
           /\ (\E i \in DOMAIN s : s[i] = NULL) <=> c <= 5
<1>. USE DEF Filled
<1>1. \A i \in 1 .. c - 1 : s[i] # NULL
  BY FlagSets DEF NULL
<1>2. s[0] # NULL
  BY DEF Default, NULL
<1>3. \A i \in 0 .. c - 1 : s[i] # NULL
  BY <1>1, <1>2
<1>. QED
  BY <1>3, WalkOfArray

\* The settings of the first entry are walked up to self_to_task.
LEMMA SettingsWalked ==
    ASSUME NEW S, NEW s \in Seq(S), NEW n \in Nat, n + 1 <= Len(s),
           s[n + 1] = NULL, \A i \in 1 .. n : s[i] # NULL
    PROVE  Walk(s) = 1 .. n
<1>1. DOMAIN s = 1 .. Len(s) /\ Len(s) \in Nat
  OBVIOUS
<1>2. n + 1 \in {i \in DOMAIN s : s[i] = NULL}
  BY <1>1
<1>3. \A j \in {i \in DOMAIN s : s[i] = NULL} : j >= n + 1
  BY <1>1
<1>. QED
  BY <1>1, <1>2, <1>3 DEF Walk

-----------------------------------------------------------------------------
(* The invariant *)

\* At the start nothing has been given.
LEMMA InitSatisfies == Init => AllAgree
<1>. SUFFICES ASSUME Init PROVE AllAgree
  OBVIOUS
<1>. USE DEF Init
<1>1. \A f \in Flags : uses[f] = 0
  OBVIOUS
<1>2. uses["m"] = 0 /\ uses["r"] = 0 /\ uses["w"] = 0
  BY <1>1 DEF Flags, LimitFlags, ControlFlags, RateFlags, FieldFlags
<1>3. \A f \in ControlFlags : uses[f] = 0
  BY <1>1, FlagSets
<1>4. ControlsAgree
  <2>1. ControlsGiven = 0
    BY <1>3, FlagSets DEF ControlsGiven
  <2>. QED
    BY <1>3, <2>1 DEF ControlsAgree
<1>5. RatesAgree
  <2>1. weight \in SettingSet /\ self_to_task \in SettingSet /\ NULL \in SettingSet
    BY DEF SettingSet
  <2>2. settings \in Seq(SettingSet)
    BY <2>1
  <2>3. settings \in Seq({weight, self_to_task, NULL} \union RateFlags \X (1 .. MaxUses))
    BY <2>2 DEF SettingSet
  <2>. QED
    BY <1>2, <2>3 DEF RatesAgree
<1>6. ArgumentsAgree
  BY <1>2 DEF ArgumentsAgree
<1>7. Walk(cgroups) = 0 .. counter_cgroups - 1 /\ (Terminated <=> counter_cgroups <= 5)
  <2>1. Filled(cgroups, counter_cgroups, uses)
    BY <1>4 DEF ControlsAgree, Filled
  <2>. QED
    BY <2>1, ControlsWalked DEF Terminated
<1>8. uses \in [Flags -> 0 .. MaxUses]
  BY BoundsAreNumbers
<1>9. OptionsTypeOK
  BY <1>7, <1>8, BoundsAreNumbers DEF OptionsTypeOK
<1>. QED
  BY <1>4, <1>5, <1>6, <1>9 DEF AllAgree

\* An option counts one use of its own flag.
LEMMA TakeCounts ==
    ASSUME OptionsTypeOK, NEW f \in Flags, NEW skip \in 0 .. MaxStrays, Take(f, skip)
    PROVE  /\ uses' = [uses EXCEPT ![f] = uses[f] + 1]
           /\ uses' \in [Flags -> 0 .. MaxUses]
           /\ uses[f] \in Nat /\ uses'[f] = uses[f] + 1 /\ uses'[f] \in 1 .. MaxUses
           /\ \A g \in Flags : uses[g] \in Nat /\ (g # f => uses'[g] = uses[g])
<1>1. MaxUses \in Nat \ {0}
  BY BoundsAreNumbers
<1>2. uses \in [Flags -> 0 .. MaxUses] /\ uses[f] \in 0 .. MaxUses
  BY DEF OptionsTypeOK
<1>3. MayUse(f) /\ uses' = [uses EXCEPT ![f] = uses[f] + 1]
  BY DEF Take
<1>4. uses[f] < MaxUses
  <2>1. CASE f \in LimitFlags
    BY <1>3, <2>1 DEF MayUse
  <2>2. CASE f \notin LimitFlags
    BY <1>1, <1>2, <1>3, <2>2 DEF MayUse
  <2>. QED
    BY <2>1, <2>2
<1>. QED
  BY <1>1, <1>2, <1>3, <1>4

\* The controls given are those of four flags.
LEMMA ControlsCounted ==
    ASSUME OptionsTypeOK, NEW f \in Flags, NEW skip \in 0 .. MaxStrays, Take(f, skip)
    PROVE  /\ ControlsGiven \in Nat
           /\ ControlsGiven' = ControlsGiven + (IF f \in ControlFlags THEN 1 ELSE 0)
<1>1. /\ uses'[f] = uses[f] + 1
      /\ \A g \in ControlFlags : uses[g] \in Nat /\ (g # f => uses'[g] = uses[g])
  BY TakeCounts, FlagSets
<1>2. \A g \in ControlFlags : uses'[g] = uses[g] + (IF g = f THEN 1 ELSE 0)
  BY <1>1
<1>3. /\ "C" \in ControlFlags /\ "s" \in ControlFlags /\ "p" \in ControlFlags /\ "M" \in ControlFlags
      /\ f \in ControlFlags <=> (f = "C" \/ f = "s" \/ f = "p" \/ f = "M")
  BY FlagSets
<1>. QED
  BY <1>1, <1>2, <1>3 DEF ControlsGiven

\* The type invariant of a state, from what an option leaves in the arrays.
LEMMA TypesFollow ==
    ASSUME OptionsTypeOK, NEW f \in Flags, NEW skip \in 0 .. MaxStrays, Take(f, skip),
           DOMAIN cgroups' = 0 .. 5, counter_cgroups' \in 1 .. 6,
           ControlsAgree', RatesAgree', lost' \subseteq Parts,
           intact' \in BOOLEAN
    PROVE  OptionsTypeOK'
<1>1. uses' \in [Flags -> 0 .. MaxUses]
  BY TakeCounts
<1>2. strays' \in 0 .. MaxStrays
  <2>1. strays \in 0 .. MaxStrays /\ strays' = strays + skip /\ strays + skip <= MaxStrays
    BY DEF Take, OptionsTypeOK
  <2>. QED
    BY <2>1, BoundsAreNumbers
<1>3. last_optind' \in {0, optind'} /\ pc' = pc /\ sockets' = sockets
  BY DEF Take
<1>4. pc \in {"getopt", "arguments", "usage", "host", "fcntl", "setup", "exited", "undefined"}
      /\ sockets \in {"none", "open", "closed"}
  BY DEF OptionsTypeOK
<1>5. Filled(cgroups', counter_cgroups', uses')
  BY DEF ControlsAgree, Filled
<1>6. /\ Walk(cgroups') = 0 .. counter_cgroups' - 1
      /\ (\E i \in DOMAIN cgroups' : cgroups'[i] = NULL) <=> counter_cgroups' <= 5
  BY <1>5, ControlsWalked
<1>7. uses'["r"] \in 0 .. MaxUses /\ uses'["w"] \in 0 .. MaxUses
  BY <1>1, FlagSets
<1>8. counter_blkio_settings' \in 1 .. 1 + 10 * MaxUses
  <2>1. counter_blkio_settings' = 1 + 5 * (uses'["r"] + uses'["w"])
    BY DEF RatesAgree
  <2>. QED
    BY <1>7, <2>1, BoundsAreNumbers
<1>. QED
  BY <1>1, <1>2, <1>3, <1>4, <1>6, <1>8 DEF OptionsTypeOK, Terminated, Parts

\* After an option last_optind is not 0, and no command has been taken yet.
LEMMA TakeAgrees ==
    ASSUME OptionsTypeOK, ArgumentsAgree,
           NEW f \in Flags, NEW skip \in 0 .. MaxStrays, Take(f, skip)
    PROVE  ArgumentsAgree'
<1>1. pc' = "getopt" /\ optind' = optind + skip + 2 /\ last_optind' = optind'
  BY DEF Take
<1>2. optind' \in Nat \ {0} /\ last_optind' # 0
  BY <1>1, BoundsAreNumbers DEF ArgumentsAgree
<1>. QED
  BY <1>1, <1>2 DEF ArgumentsAgree

\* m, u and H leave the arrays alone.
LEMMA FieldKeeps ==
    ASSUME AllAgree, NEW f \in FieldFlags, NEW skip \in 0 .. MaxStrays, TakeField(f, skip)
    PROVE  AllAgree'
<1>1. f \in Flags /\ f \notin LimitFlags /\ OptionsTypeOK /\ Take(f, skip)
  BY FlagSets DEF TakeField, AllAgree
<1>2. \A g \in LimitFlags : uses'[g] = uses[g]
  BY <1>1, TakeCounts, FlagSets
<1>3. UNCHANGED arrays
  BY DEF TakeField
<1>4. ControlsAgree'
  <2>1. \A g \in ControlFlags : uses'[g] = uses[g]
    BY <1>2, FlagSets
  <2>2. ControlsGiven' = ControlsGiven
    BY <2>1, FlagSets DEF ControlsGiven
  <2>. QED
    BY <1>3, <2>1, <2>2 DEF arrays, AllAgree, ControlsAgree
<1>5. RatesAgree'
  <2>1. \A g \in RateFlags : uses'[g] = uses[g]
    BY <1>2, FlagSets
  <2>2. uses'["r"] = uses["r"] /\ uses'["w"] = uses["w"]
    BY <2>1, FlagSets
  <2>. QED
    BY <1>3, <2>1, <2>2 DEF arrays, AllAgree, RatesAgree
<1>6. ArgumentsAgree'
  BY <1>1, TakeAgrees DEF AllAgree
<1>7. OptionsTypeOK'
  <2>1. DOMAIN cgroups' = 0 .. 5 /\ counter_cgroups' \in 1 .. 6
    BY <1>1, <1>3 DEF arrays, OptionsTypeOK
  <2>2. lost' \subseteq Parts /\ intact' \in BOOLEAN
    BY <1>1, <1>3 DEF arrays, OptionsTypeOK, Parts
  <2>. QED
    BY <1>1, <1>4, <1>5, <2>1, <2>2, TypesFollow
<1>. QED
  BY <1>4, <1>5, <1>6, <1>7 DEF AllAgree

LEMMA LiteralsFollow ==
    ASSUME OptionsTypeOK, NewLiterals
    PROVE  intact' \in BOOLEAN
BY DEF NewLiterals, OptionsTypeOK

\* C, s, p and M: the control is stored where the counter says, and no use of a flag is
\* there already.
LEMMA ControlKeeps ==
    ASSUME AllAgree, NEW f \in ControlFlags, NEW skip \in 0 .. MaxStrays, TakeControl(f, skip)
    PROVE  AllAgree'
<1>1. f \in Flags /\ f \in LimitFlags /\ f \notin RateFlags /\ OptionsTypeOK /\ Take(f, skip)
  BY FlagSets DEF TakeControl, TakeControlAt, AllAgree
<1>. DEFINE c == counter_cgroups
            o == <<f, uses'[f]>>
<1>2. /\ c \in DOMAIN cgroups /\ cgroups' = [cgroups EXCEPT ![c] = o]
      /\ counter_cgroups' = c + 1 /\ NewLiterals
      /\ UNCHANGED <<settings, counter_blkio_settings, lost>>
  BY DEF TakeControl, TakeControlAt
<1>3. /\ uses[f] \in Nat /\ uses'[f] = uses[f] + 1
      /\ \A g \in Flags : uses[g] \in Nat /\ (g # f => uses'[g] = uses[g])
  BY <1>1, TakeCounts
<1>4. c \in 1 .. 5 /\ DOMAIN cgroups = 0 .. 5
  <2>1. c \in 1 .. 6 /\ DOMAIN cgroups = 0 .. 5
    BY <1>1 DEF OptionsTypeOK
  <2>. QED
    BY <1>2, <2>1
<1>5. \A i \in 0 .. 5 : cgroups'[i] = IF i = c THEN o ELSE cgroups[i]
  BY <1>2, <1>4
<1>6. ControlsAgree'
  <2>. USE DEF ControlsAgree, AllAgree
  <2>1. \A g \in ControlFlags : g \in Flags /\ 1 .. uses[g] \subseteq 1 .. uses'[g]
    <3>1. \A g \in ControlFlags : g \in Flags
      BY FlagSets
    <3>. QED
      BY <1>3, <3>1
  <2>2. cgroups'[0] = Default
    BY <1>4, <1>5
  <2>3. \A i \in counter_cgroups' .. 5 : cgroups'[i] = NULL
    BY <1>2, <1>4, <1>5
  <2>4. ASSUME NEW i \in 1 .. counter_cgroups' - 1
        PROVE  \E g \in ControlFlags : \E n \in 1 .. uses'[g] : cgroups'[i] = <<g, n>>
    <3>1. CASE i = c
      <4>1. cgroups'[i] = <<f, uses'[f]>> /\ uses'[f] \in 1 .. uses'[f]
        BY <1>3, <1>4, <1>5, <3>1
      <4>. QED
        BY <4>1
    <3>2. CASE i # c
      <4>1. i \in 1 .. c - 1 /\ cgroups'[i] = cgroups[i]
        BY <1>2, <1>4, <1>5, <3>2
      <4>2. PICK g \in ControlFlags : \E n \in 1 .. uses[g] : cgroups[i] = <<g, n>>
        BY <4>1
      <4>. QED
        BY <2>1, <4>1, <4>2
    <3>. QED
      BY <3>1, <3>2
  <2>5. ASSUME NEW g \in ControlFlags, NEW n \in 1 .. uses'[g]
        PROVE  \E i \in 1 .. counter_cgroups' - 1 : cgroups'[i] = <<g, n>>
    <3>1. CASE g = f /\ n = uses'[f]
      <4>1. cgroups'[c] = <<g, n>> /\ c \in 1 .. counter_cgroups' - 1
        BY <1>2, <1>4, <1>5, <3>1
      <4>. QED
        BY <4>1
    <3>2. CASE ~(g = f /\ n = uses'[f])
      <4>1. n \in 1 .. uses[g]
        BY <1>3, <2>1, <3>2
      <4>2. PICK i \in 1 .. c - 1 : cgroups[i] = <<g, n>>
        BY <4>1
      <4>3. i \in 1 .. counter_cgroups' - 1 /\ cgroups'[i] = cgroups[i]
        BY <1>2, <1>4, <1>5
      <4>. QED
        BY <4>2, <4>3
    <3>. QED
      BY <3>1, <3>2
  <2>6. \A i \in 1 .. c - 1 : cgroups[i] # o
    <3>1. ASSUME NEW i \in 1 .. c - 1, cgroups[i] = o PROVE FALSE
      <4>1. PICK g \in ControlFlags : \E n \in 1 .. uses[g] : cgroups[i] = <<g, n>>
        OBVIOUS
      <4>2. PICK n \in 1 .. uses[g] : cgroups[i] = <<g, n>>
        BY <4>1
      <4>3. g = f /\ n = uses'[f]
        BY <3>1, <4>2
      <4>. QED
        BY <1>3, <4>2, <4>3
    <3>. QED
      BY <3>1
  <2>7. ASSUME NEW i \in 1 .. counter_cgroups' - 1, NEW j \in 1 .. counter_cgroups' - 1,
               cgroups'[i] = cgroups'[j]
        PROVE  i = j
    <3>1. i \in 1 .. c /\ j \in 1 .. c
      BY <1>2, <1>4
    <3>2. /\ i # c => i \in 1 .. c - 1 /\ cgroups'[i] = cgroups[i]
          /\ j # c => j \in 1 .. c - 1 /\ cgroups'[j] = cgroups[j]
          /\ cgroups'[c] = o
      BY <1>4, <1>5, <3>1
    <3>. QED
      BY <2>6, <2>7, <3>2
  <2>8. counter_cgroups' = 1 + ControlsGiven'
    BY <1>1, <1>2, ControlsCounted
  <2>. QED
    BY <2>2, <2>3, <2>4, <2>5, <2>7, <2>8
<1>7. RatesAgree'
  <2>1. \A g \in RateFlags : uses'[g] = uses[g]
    BY <1>1, <1>3, FlagSets
  <2>2. uses'["r"] = uses["r"] /\ uses'["w"] = uses["w"]
    BY <2>1, FlagSets
  <2>. QED
    BY <1>2, <2>1, <2>2 DEF AllAgree, RatesAgree
<1>8. ArgumentsAgree'
  BY <1>1, TakeAgrees DEF AllAgree
<1>9. OptionsTypeOK'
  <2>1. DOMAIN cgroups' = 0 .. 5 /\ counter_cgroups' \in 1 .. 6
    BY <1>2, <1>4
  <2>2. lost' \subseteq Parts
    BY <1>1, <1>2 DEF OptionsTypeOK, Parts
  <2>3. intact' \in BOOLEAN
    BY <1>1, <1>2, LiteralsFollow
  <2>. QED
    BY <1>1, <1>6, <1>7, <2>1, <2>2, <2>3, TypesFollow
<1>. QED
  BY <1>6, <1>7, <1>8, <1>9 DEF AllAgree

\* A sequence whose end is replaced from place k + 1 on.
Grown(s, k, o, b) == SubSeq(s, 1, k) \o <<o>> \o b

\* What its places then hold.
HasGrown(t, S, s, k, o, b) ==
    /\ t \in Seq(S) /\ Len(t) = k + 1 + Len(b)
    /\ \A i \in 1 .. k : t[i] = s[i]
    /\ t[k + 1] = o
    /\ \A i \in 1 .. Len(b) : t[k + 1 + i] = b[i]

LEMMA SettingsGrow ==
    ASSUME NEW S, NEW s \in Seq(S), NEW k \in 1 .. Len(s), NEW o \in S, NEW b \in Seq(S)
    PROVE  HasGrown(Grown(s, k, o, b), S, s, k, o, b)
<1>. DEFINE h == SubSeq(s, 1, k)
            g == h \o <<o>>
<1>1. h \in Seq(S) /\ Len(h) = k /\ \A i \in 1 .. k : h[i] = s[i]
  OBVIOUS
<1>. HIDE DEF h
<1>2. g \in Seq(S) /\ Len(g) = k + 1 /\ g[k + 1] = o /\ \A i \in 1 .. k : g[i] = s[i]
  BY <1>1
<1>. HIDE DEF g
<1>3. /\ g \o b \in Seq(S) /\ Len(g \o b) = k + 1 + Len(b)
      /\ \A i \in 1 .. k + 1 : (g \o b)[i] = g[i]
      /\ \A i \in 1 .. Len(b) : (g \o b)[k + 1 + i] = b[i]
  BY <1>2
<1>4. \A i \in 1 .. k : i \in 1 .. k + 1 /\ k + 1 \in 1 .. k + 1
  OBVIOUS
<1>5. Grown(s, k, o, b) = g \o b
  BY DEF Grown, g, h
<1>. QED
  BY <1>2, <1>3, <1>4, <1>5 DEF HasGrown

\* r and w: the first rate comes between the weight and self_to_task, a later one behind
\* the NULL that ends them.
LEMMA RateKeeps ==
    ASSUME AllAgree, NEW f \in RateFlags, NEW skip \in 0 .. MaxStrays, TakeRate(f, skip)
    PROVE  AllAgree'
<1>1. f \in Flags /\ f \in LimitFlags /\ f \notin ControlFlags /\ OptionsTypeOK /\ Take(f, skip)
  BY FlagSets DEF TakeRate, TakeRateThen, AllAgree
<1>. DEFINE k == counter_blkio_settings
            o == <<f, uses'[f]>>
            b == <<self_to_task, NULL, NULL, NULL>>
<1>2. /\ settings' = SubSeq(settings, 1, k) \o <<o>> \o b
      /\ counter_blkio_settings' = k + 1 + Len(b)
      /\ NewLiterals
      /\ UNCHANGED <<cgroups, counter_cgroups>>
  BY DEF TakeRate, TakeRateThen
<1>3. /\ uses[f] \in Nat /\ uses'[f] = uses[f] + 1 /\ uses'[f] \in 1 .. MaxUses
      /\ \A g \in Flags : uses[g] \in Nat /\ (g # f => uses'[g] = uses[g])
  BY <1>1, TakeCounts
<1>8. \E hit \in SUBSET Parts :
        (hit # {} => PastPadding(counter_blkio_settings')) /\ lost' = lost \union hit
  BY DEF TakeRate, TakeRateThen, Parts
<1>4. ControlsAgree'
  <2>1. \A g \in ControlFlags : uses'[g] = uses[g]
    BY <1>1, <1>3, FlagSets
  <2>2. ControlsGiven' = ControlsGiven
    BY <2>1, FlagSets DEF ControlsGiven
  <2>3. cgroups' = cgroups /\ counter_cgroups' = counter_cgroups
    BY <1>2
  <2>4. ControlsAgree
    BY DEF AllAgree
  <2>. QED
    BY <2>1, <2>2, <2>3, <2>4 DEF ControlsAgree
<1>5. RatesAgree'
  <2>1. /\ settings \in Seq(SettingSet)
        /\ k = 1 + 5 * (uses["r"] + uses["w"])
        /\ k = 1 => settings = <<weight, self_to_task, NULL, NULL, NULL>>
        /\ k > 1 => /\ Len(settings) = k
                    /\ settings[1] = weight /\ settings[3] = self_to_task /\ settings[4] = NULL
                    /\ \E g \in RateFlags : \E n \in 1 .. uses[g] : settings[2] = <<g, n>>
    BY DEF AllAgree, RatesAgree, SettingSet
  <2>2. uses["r"] \in Nat /\ uses["w"] \in Nat /\ "r" # "w"
    BY <1>3, FlagSets
  <2>3. uses'["r"] + uses'["w"] = uses["r"] + uses["w"] + 1
    <3>1. CASE f = "r"
      BY <1>3, <2>2, <3>1, FlagSets
    <3>2. CASE f = "w"
      BY <1>3, <2>2, <3>2, FlagSets
    <3>. QED
      BY <3>1, <3>2, FlagSets
  <2>4. o \in SettingSet /\ b \in Seq(SettingSet)
    <3>1. o \in SettingSet
      BY <1>3 DEF SettingSet
    <3>2. self_to_task \in SettingSet /\ NULL \in SettingSet
      BY DEF SettingSet
    <3>. QED
      BY <3>1, <3>2
  <2>5. k \in 1 .. Len(settings)
    <3>1. CASE k = 1
      <4>1. settings = <<weight, self_to_task, NULL, NULL, NULL>>
        BY <2>1, <3>1
      <4>. HIDE DEF k
      <4>2. Len(settings) = 5
        BY <4>1
      <4>. QED
        BY <3>1, <4>2
    <3>2. CASE k # 1
      BY <2>1, <2>2, <3>2
    <3>. QED
      BY <3>1, <3>2
  <2>6. Len(b) = 4 /\ b[1] = self_to_task /\ b[2] = NULL
    OBVIOUS
  <2>. HIDE DEF b, o
  <2>7. /\ settings' \in Seq(SettingSet) /\ Len(settings') = k + 5
        /\ \A i \in 1 .. k : settings'[i] = settings[i]
        /\ settings'[k + 1] = o
        /\ \A i \in 1 .. 4 : settings'[k + 1 + i] = b[i]
    <3>1. /\ settings' \in Seq(SettingSet) /\ Len(settings') = k + 1 + Len(b)
          /\ \A i \in 1 .. k : settings'[i] = settings[i]
          /\ settings'[k + 1] = o
          /\ \A i \in 1 .. Len(b) : settings'[k + 1 + i] = b[i]
      <4>1. settings \in Seq(SettingSet)
        BY <2>1
      <4>2. settings' = Grown(settings, k, o, b)
        BY <1>2 DEF Grown
      <4>. HIDE DEF k
      <4>3. HasGrown(Grown(settings, k, o, b), SettingSet, settings, k, o, b)
        BY <4>1, <2>4, <2>5, SettingsGrow
      <4>. QED
        BY <4>2, <4>3 DEF HasGrown
    <3>. QED
      BY <2>5, <2>6, <3>1
  <2>8. counter_blkio_settings' = k + 5 /\ k + 5 > 1
    BY <1>2, <2>5, <2>6
  <2>9. /\ settings'[1] = weight /\ settings'[3] = self_to_task /\ settings'[4] = NULL
        /\ \E g \in RateFlags : \E n \in 1 .. uses'[g] : settings'[2] = <<g, n>>
    <3>1. CASE k = 1
      <4>1. settings'[1] = settings[1] /\ settings[1] = weight
        <5>1. 1 \in 1 .. k
          BY <3>1
        <5>2. settings = <<weight, self_to_task, NULL, NULL, NULL>>
          BY <2>1, <3>1
        <5>. QED
          BY <2>7, <5>1, <5>2
      <4>2. settings'[2] = o /\ settings'[3] = self_to_task /\ settings'[4] = NULL
        BY <2>6, <2>7, <3>1
      <4>3. uses'[f] \in 1 .. uses'[f]
        BY <1>3
      <4>. QED
        BY <4>1, <4>2, <4>3 DEF o
    <3>2. CASE k > 1
      <4>1. k >= 6
        BY <2>1, <2>2, <3>2
      <4>2. \A i \in 1 .. 4 : settings'[i] = settings[i]
        BY <2>7, <4>1, <2>5
      <4>3. PICK g \in RateFlags : \E n \in 1 .. uses[g] : settings[2] = <<g, n>>
        BY <2>1, <3>2
      <4>4. g \in Flags
        BY FlagSets
      <4>5. 1 .. uses[g] \subseteq 1 .. uses'[g]
        BY <1>3, <4>4
      <4>. QED
        BY <2>1, <3>2, <4>2, <4>3, <4>5
    <3>. QED
      BY <2>5, <3>1, <3>2
  <2>10. counter_blkio_settings' <= 6 => lost' = {}
    <3>1. SUFFICES ASSUME counter_blkio_settings' <= 6 PROVE lost' = {}
      OBVIOUS
    <3>2. k = 1
      BY <2>5, <2>8, <3>1
    <3>3. lost = {}
      BY <3>2 DEF AllAgree, RatesAgree
    <3>4. ~ PastPadding(counter_blkio_settings')
      BY <3>1, <2>5, <2>8, BoundsAreNumbers DEF PastPadding
    <3>5. lost' = lost
      BY <1>8, <3>4
    <3>. QED
      BY <3>3, <3>5
  <2>11. counter_blkio_settings' = 1 + 5 * (uses'["r"] + uses'["w"])
    BY <2>1, <2>2, <2>3, <2>8
  <2>12. settings' \in Seq({weight, self_to_task, NULL} \union RateFlags \X (1 .. MaxUses))
    BY <2>7 DEF SettingSet
  <2>13. Len(settings') = counter_blkio_settings' /\ counter_blkio_settings' # 1
    BY <2>5, <2>7, <2>8
  <2>. QED
    BY <2>9, <2>10, <2>11, <2>12, <2>13 DEF RatesAgree
<1>6. ArgumentsAgree'
  BY <1>1, TakeAgrees DEF AllAgree
<1>7. OptionsTypeOK'
  <2>1. DOMAIN cgroups' = 0 .. 5 /\ counter_cgroups' \in 1 .. 6
    BY <1>1, <1>2 DEF OptionsTypeOK
  <2>2. lost' \subseteq Parts
    BY <1>1, <1>8 DEF OptionsTypeOK, Parts
  <2>3. intact' \in BOOLEAN
    BY <1>1, <1>2, LiteralsFollow
  <2>. QED
    BY <1>1, <1>4, <1>5, <2>1, <2>2, <2>3, TypesFollow
<1>. QED
  BY <1>4, <1>5, <1>6, <1>7 DEF AllAgree

\* Without skipped words and without "--", getopt leaves the words behind -c where they are.
LEMMA PermutedAlone ==
    ASSUME NEW S, NEW words \in Seq(S), \A i \in DOMAIN words : words[i] # "--"
    PROVE  Permuted(<<>>, words) = words
<1>1. {i \in DOMAIN words : words[i] = "--" /\ \A j \in 1 .. i - 1 : words[j] # "-l"} = {}
  OBVIOUS
<1>2. Permuted(<<>>, words) = <<>> \o words
  BY <1>1 DEF Permuted
<1>. QED
  BY <1>2

\* The last words of argv, as many as the command has, are the command.
LEMMA LastWords ==
    ASSUME NEW S, NEW cmd \in Seq(S), cmd # <<>>, NEW x \in S
    PROVE  LET argv == <<x, cmd[1]>> \o Tail(cmd)
           IN  Len(argv) = Len(cmd) + 1 /\ SubSeq(argv, 2, Len(argv)) = cmd
<1>. DEFINE opt == <<x, cmd[1]>>
            argv == opt \o Tail(cmd)
            last == SubSeq(argv, 2, Len(argv))
<1>1. Len(cmd) \in Nat /\ Len(cmd) >= 1 /\ cmd[1] \in S
  OBVIOUS
<1>2. /\ Tail(cmd) \in Seq(S) /\ Len(Tail(cmd)) = Len(cmd) - 1
      /\ \A i \in 1 .. Len(cmd) - 1 : Tail(cmd)[i] = cmd[i + 1]
  BY <1>1, HeadTailProperties
<1>3. opt \in Seq(S) /\ Len(opt) = 2 /\ opt[2] = cmd[1]
  BY <1>1
<1>. HIDE DEF opt
<1>4. /\ argv \in Seq(S) /\ Len(argv) = 2 + Len(Tail(cmd))
      /\ \A i \in 1 .. 2 + Len(Tail(cmd)) : argv[i] = IF i <= 2 THEN opt[i] ELSE Tail(cmd)[i - 2]
  <2>. DEFINE t == Tail(cmd)
  <2>1. t \in Seq(S)
    BY <1>2
  <2>. HIDE DEF t
  <2>2. opt \in Seq(S)
    BY <1>3
  <2>3. /\ opt \o t \in Seq(S) /\ Len(opt \o t) = Len(opt) + Len(t)
        /\ \A i \in 1 .. Len(opt) + Len(t) :
              (opt \o t)[i] = IF i <= Len(opt) THEN opt[i] ELSE t[i - Len(opt)]
    BY <2>1, <2>2, ConcatProperties, Zenon
  <2>. QED
    BY <1>3, <2>3 DEF t
<1>. HIDE DEF argv
<1>5. argv \in Seq(S) /\ Len(argv) = Len(cmd) + 1
  BY <1>1, <1>2, <1>4
<1>6. argv[2] = opt[2]
  BY <1>1, <1>2, <1>4
<1>7. \A i \in 1 .. Len(cmd) - 1 : argv[2 + i] = Tail(cmd)[i]
  BY <1>1, <1>2, <1>4
<1>8. last \in Seq(S) /\ Len(last) = Len(cmd) /\ \A i \in 1 .. Len(cmd) : last[i] = argv[i + 1]
  BY <1>1, <1>5
<1>9. ASSUME NEW i \in 1 .. Len(cmd) PROVE last[i] = cmd[i]
  <2>1. CASE i = 1
    BY <1>1, <1>3, <1>6, <1>8, <2>1
  <2>2. CASE i # 1
    <3>1. i - 1 \in 1 .. Len(cmd) - 1 /\ 2 + (i - 1) = i + 1 /\ (i - 1) + 1 = i
      BY <2>2
    <3>2. argv[i + 1] = cmd[i]
      BY <1>2, <1>7, <3>1
    <3>. QED
      BY <1>8, <3>2
  <2>. QED
    BY <2>1, <2>2
<1>. HIDE DEF last
<1>10. last = cmd
  BY <1>8, <1>9
<1>. QED
  BY <1>5, <1>10 DEF last, argv, opt

\* The counts of the options are numbers.
LEMMA CountsAreNumbers ==
    ASSUME OptionsTypeOK
    PROVE  /\ \A f \in Flags : uses[f] \in Nat
           /\ uses["m"] \in Nat /\ uses["r"] \in Nat /\ uses["w"] \in Nat
           /\ strays \in Nat /\ strays \in 0 .. MaxStrays
           /\ last_optind = 0 \/ last_optind = optind
<1>1. uses \in [Flags -> 0 .. MaxUses] /\ strays \in 0 .. MaxStrays /\ last_optind \in {0, optind}
  BY DEF OptionsTypeOK
<1>2. \A f \in Flags : uses[f] \in Nat
  BY <1>1, BoundsAreNumbers
<1>. QED
  BY <1>1, <1>2, FlagSets, BoundsAreNumbers

\* What does not touch the arrays keeps what they say.
LEMMA ArraysKeep ==
    ASSUME AllAgree, UNCHANGED <<uses, arrays>>
    PROVE  /\ ControlsAgree' /\ RatesAgree'
           /\ pc' \in {"getopt", "arguments", "usage", "host", "fcntl", "setup", "exited", "undefined"}
              /\ strays' \in 0 .. MaxStrays /\ last_optind' \in {0, optind'}
              /\ sockets' \in {"none", "open", "closed"}
              => OptionsTypeOK'
<1>1. ControlsAgree'
  BY DEF AllAgree, ControlsAgree, ControlsGiven, arrays
<1>2. RatesAgree'
  BY DEF AllAgree, RatesAgree, arrays
<1>3. Walk(cgroups)' = Walk(cgroups) /\ Terminated' = Terminated
  BY DEF Walk, Terminated, arrays
<1>. QED
  BY <1>1, <1>2, <1>3 DEF AllAgree, OptionsTypeOK, arrays

\* -c: with -m before it, last_optind is where getopt stood, and the words that are counted
\* from there are the command.
LEMMA CommandKeeps ==
    ASSUME AllAgree, NEW skip \in 0 .. MaxStrays, NEW cmd \in Commands,
           NEW sameWord \in BOOLEAN, TakeCommand(cmd, skip, sameWord)
    PROVE  AllAgree'
<1>1. /\ pc' = "arguments" /\ strays' = strays + skip /\ strays + skip <= MaxStrays
      /\ UNCHANGED <<uses, optind, last_optind, arrays, sockets>>
      /\ command' = IF sameWord THEN <<>> ELSE cmd
  BY DEF TakeCommand
<1>2. strays \in 0 .. MaxStrays /\ strays' \in 0 .. MaxStrays
  <2>1. strays \in 0 .. MaxStrays
    BY CountsAreNumbers DEF AllAgree
  <2>. QED
    BY <1>1, <2>1, BoundsAreNumbers
<1>3. ControlsAgree' /\ RatesAgree'
  BY <1>1, ArraysKeep
<1>4. OptionsTypeOK'
  <2>1. last_optind' \in {0, optind'} /\ sockets' \in {"none", "open", "closed"}
    BY <1>1 DEF AllAgree, OptionsTypeOK
  <2>. QED
    BY <1>1, <1>2, <2>1, ArraysKeep
<1>5. optind' \in Nat \ {0} /\ (last_optind' = 0 => uses'["m"] = 0)
  BY <1>1 DEF AllAgree, ArgumentsAgree
<1>6. ASSUME uses["m"] > 0, strays' = 0, command' # <<>>,
             \A i \in DOMAIN command' : command'[i] # "--"
      PROVE  config_argv' = command'
  <2>. DEFINE S == STRING \union {"-c"}
              opt == <<"-c", cmd[1]>>
              argv == opt \o Tail(cmd)
  <2>1. ~sameWord /\ command' = cmd /\ strays + skip = 0
    BY <1>1, <1>6
  <2>2. cmd \in Seq(STRING) /\ cmd # <<>>
    BY OptionsAssumption
  <2>3. cmd \in Seq(S) /\ Tail(cmd) \in Seq(S) /\ Len(cmd) \in Nat /\ Len(cmd) >= 1
    <3>1. cmd \in Seq(S) /\ Len(cmd) \in Nat /\ Len(cmd) >= 1
      BY <2>2
    <3>. QED
      BY <2>2, <3>1
  <2>4. \A i \in DOMAIN Tail(cmd) : Tail(cmd)[i] # "--"
    <3>1. \A i \in 1 .. Len(cmd) : cmd[i] # "--"
      BY <1>6, <2>1, <2>3
    <3>2. DOMAIN Tail(cmd) = 1 .. Len(cmd) - 1
          /\ \A i \in 1 .. Len(cmd) - 1 : Tail(cmd)[i] = cmd[i + 1]
      BY <2>2, <2>3
    <3>. QED
      BY <3>1, <3>2, <2>3
  <2>5. [i \in 1 .. strays + skip |-> "stray"] = <<>>
    BY <2>1
  <2>6. Permuted(<<>>, Tail(cmd)) = Tail(cmd)
    BY <2>3, <2>4, PermutedAlone
  <2>7. Len(opt) = 2
    OBVIOUS
  <2>. DEFINE first == Len(argv) - ((optind + skip + Len(opt) + Len(cmd) - 1) - last_optind - 1) + 1
  <2>8. config_argv' = SubSeq(argv, first, Len(argv))
    <3>1. config_argv' =
            LET words == opt \o Permuted([i \in 1 .. strays + skip |-> "stray"], Tail(cmd))
                argc == optind + skip + Len(opt) + Len(cmd) - 1
            IN  SubSeq(words, Len(words) - (argc - last_optind - 1) + 1, Len(words))
      BY <2>1 DEF TakeCommand
    <3>2. Permuted([i \in 1 .. strays + skip |-> "stray"], Tail(cmd)) = Tail(cmd)
      BY <2>5, <2>6
    <3>. QED
      BY <3>1, <3>2
  <2>9. last_optind = optind /\ optind \in Nat /\ skip = 0
    <3>1. last_optind = optind /\ optind \in Nat
      BY <1>6, CountsAreNumbers DEF AllAgree, ArgumentsAgree
    <3>2. skip = 0
      BY <1>2, <2>1, BoundsAreNumbers
    <3>. QED
      BY <3>1, <3>2
  <2>10. Len(argv) = Len(cmd) + 1 /\ SubSeq(argv, 2, Len(argv)) = cmd
    BY <2>2, <2>3, LastWords
  <2>. HIDE DEF argv, opt
  <2>11. first = 2
    BY <2>3, <2>7, <2>9, <2>10
  <2>. HIDE DEF first
  <2>. QED
    BY <2>1, <2>8, <2>10, <2>11
<1>7. ArgumentsAgree'
  BY <1>1, <1>5, <1>6 DEF ArgumentsAgree
<1>. QED
  BY <1>3, <1>4, <1>7 DEF AllAgree

\* What main does after the loop changes only where it stands, and sockets.
LEMMA RestKeeps ==
    ASSUME AllAgree, Reject \/ CheckArguments \/ CheckHost \/ SetCloexec
    PROVE  AllAgree'
<1>1. UNCHANGED <<uses, parsed, command, config_argv, arrays>>
  BY DEF Reject, CheckArguments, CheckHost, SetCloexec
<1>2. ControlsAgree' /\ RatesAgree'
  BY <1>1, ArraysKeep
<1>3. pc' \in {"usage", "host", "fcntl", "setup", "exited", "undefined"}
      /\ sockets' \in {"none", "open", "closed"}
  BY DEF Reject, CheckArguments, CheckHost, SetCloexec, AllAgree, OptionsTypeOK
<1>4. OptionsTypeOK'
  <2>1. strays' \in 0 .. MaxStrays /\ last_optind' \in {0, optind'}
    BY <1>1 DEF parsed, AllAgree, OptionsTypeOK
  <2>. QED
    BY <1>1, <1>3, <2>1, ArraysKeep
<1>5. uses["m"] \in Nat
  BY CountsAreNumbers DEF AllAgree
<1>6. pc' \in {"host", "fcntl", "setup"} => uses["m"] > 0
                                           /\ pc \in {"arguments", "host", "fcntl", "setup"}
  <2>1. CASE Reject
    BY <2>1 DEF Reject
  <2>2. CASE CheckArguments
    BY <1>5, <2>2 DEF CheckArguments
  <2>3. CASE CheckHost
    BY <2>3 DEF CheckHost, AllAgree, ArgumentsAgree
  <2>4. CASE SetCloexec
    BY <2>4 DEF SetCloexec, AllAgree, ArgumentsAgree
  <2>. QED
    BY <2>1, <2>2, <2>3, <2>4
<1>7. ArgumentsAgree'
  BY <1>1, <1>3, <1>6 DEF parsed, AllAgree, ArgumentsAgree
<1>. QED
  BY <1>2, <1>4, <1>7 DEF AllAgree

\* A store out of bounds takes a sixth control or a second rate: five controls fill the
\* array, and the padding takes what one rate writes past its settings.
LEMMA OverrunKeeps ==
    ASSUME AllAgree, NEW f \in LimitFlags, Overrun(f)
    PROVE  OptionsInv'
<1>1. /\ pc' = "undefined" /\ uses' = [uses EXCEPT ![f] = uses[f] + 1] /\ MayUse(f)
      /\ UNCHANGED <<parsed, arrays, sockets>>
  BY DEF Overrun
<1>2. /\ f \in Flags /\ \A g \in Flags : uses[g] \in Nat
      /\ \A g \in Flags : uses'[g] = uses[g] + (IF g = f THEN 1 ELSE 0)
  BY <1>1, FlagSets, CountsAreNumbers DEF AllAgree, OptionsTypeOK
<1>3. OptionsTypeOK'
  <2>1. uses' \in [Flags -> 0 .. MaxUses]
    <3>1. uses[f] + 1 \in 0 .. MaxUses
      BY <1>1, <1>2, BoundsAreNumbers DEF MayUse
    <3>. QED
      BY <1>1, <3>1 DEF AllAgree, OptionsTypeOK
  <2>2. Walk(cgroups)' = Walk(cgroups) /\ Terminated' = Terminated
    BY <1>1 DEF Walk, Terminated, arrays
  <2>. QED
    BY <1>1, <2>1, <2>2 DEF AllAgree, OptionsTypeOK, parsed, arrays
<1>4. CASE f \in ControlFlags
  <2>1. counter_cgroups \notin DOMAIN cgroups
    BY <1>4, FlagSets DEF Overrun
  <2>2. counter_cgroups = 6 /\ counter_cgroups = 1 + ControlsGiven
    BY <2>1 DEF AllAgree, OptionsTypeOK, ControlsAgree
  <2>3. ControlsGiven' = ControlsGiven + 1
    <3>1. \A g \in ControlFlags : uses[g] \in Nat /\ uses'[g] = uses[g] + (IF g = f THEN 1 ELSE 0)
      BY <1>2, FlagSets
    <3>. QED
      BY <1>4, <3>1, FlagSets DEF ControlsGiven
  <2>4. ControlsGiven \in Nat
    BY <1>2, FlagSets DEF ControlsGiven
  <2>. QED
    BY <1>1, <1>3, <2>2, <2>3, <2>4 DEF OptionsInv, OverrunsNeedMore
<1>5. CASE f \in RateFlags
  <2>1. PastPadding(counter_blkio_settings + 5)
    BY <1>5, FlagSets DEF Overrun
  <2>2. counter_blkio_settings = 1 + 5 * (uses["r"] + uses["w"])
    BY DEF AllAgree, RatesAgree
  <2>3. uses["r"] \in Nat /\ uses["w"] \in Nat
    BY CountsAreNumbers DEF AllAgree
  <2>4. uses["r"] + uses["w"] > 0
    BY <2>1, <2>2, <2>3, BoundsAreNumbers DEF PastPadding
  <2>5. /\ uses'["r"] = uses["r"] + (IF "r" = f THEN 1 ELSE 0)
        /\ uses'["w"] = uses["w"] + (IF "w" = f THEN 1 ELSE 0)
        /\ f = "r" \/ f = "w"
    BY <1>2, <1>5, FlagSets
  <2>. QED
    BY <1>1, <1>3, <2>3, <2>4, <2>5 DEF OptionsInv, OverrunsNeedMore
<1>. QED
  BY <1>4, <1>5, FlagSets

\* Every step keeps the invariant.
LEMMA NextKeeps == OptionsInv /\ [Next]_vars => OptionsInv'
<1>. SUFFICES ASSUME OptionsInv, [Next]_vars PROVE OptionsInv'
  OBVIOUS
<1>0. /\ pc # "undefined" => AllAgree
      /\ AllAgree' /\ pc' # "undefined" => OptionsInv'
  BY DEF OptionsInv, AllAgree, OverrunsNeedMore
<1>1. ASSUME NEW skip \in 0 .. MaxStrays, NEW f \in FieldFlags, TakeField(f, skip)
      PROVE  OptionsInv'
  BY <1>0, <1>1, FieldKeeps DEF TakeField, Take
<1>2. ASSUME NEW skip \in 0 .. MaxStrays, NEW f \in ControlFlags, TakeControl(f, skip)
      PROVE  OptionsInv'
  BY <1>0, <1>2, ControlKeeps DEF TakeControl, TakeControlAt, Take
<1>3. ASSUME NEW skip \in 0 .. MaxStrays, NEW f \in RateFlags, TakeRate(f, skip)
      PROVE  OptionsInv'
  <2>1. pc = "getopt" /\ pc' = "getopt"
    BY <1>3 DEF TakeRate, TakeRateThen, Take
  <2>. QED
    BY <1>0, <1>3, <2>1, RateKeeps
<1>4. ASSUME NEW skip \in 0 .. MaxStrays, NEW cmd \in Commands, NEW sameWord \in BOOLEAN,
             TakeCommand(cmd, skip, sameWord)
      PROVE  OptionsInv'
  <2>1. pc = "getopt" /\ pc' = "arguments"
    BY <1>4 DEF TakeCommand
  <2>. QED
    BY <1>0, <1>4, <2>1, CommandKeeps
<1>5. CASE Reject \/ CheckArguments \/ CheckHost \/ SetCloexec
  <2>1. pc # "undefined" /\ pc' # "undefined"
    BY <1>5 DEF Reject, CheckArguments, CheckHost, SetCloexec
  <2>. QED
    BY <1>0, <1>5, <2>1, RestKeeps
<1>6. ASSUME NEW f \in LimitFlags, Overrun(f)
      PROVE  OptionsInv'
  <2>1. pc = "getopt"
    BY <1>6 DEF Overrun
  <2>. QED
    BY <1>0, <1>6, <2>1, OverrunKeeps
<1>7. CASE UNCHANGED vars
  <2>1. UNCHANGED <<uses, parsed, command, config_argv, arrays, pc, sockets>>
    BY <1>7 DEF vars
  <2>2. OptionsTypeOK'
    <3>1. Walk(cgroups)' = Walk(cgroups) /\ Terminated' = Terminated
      BY <2>1 DEF Walk, Terminated, arrays
    <3>. QED
      BY <2>1, <3>1 DEF OptionsInv, OptionsTypeOK, parsed, arrays
  <2>3. OverrunsNeedMore'
    BY <2>1 DEF OptionsInv, OverrunsNeedMore, ControlsGiven
  <2>4. CASE pc = "undefined"
    BY <2>1, <2>2, <2>3, <2>4 DEF OptionsInv
  <2>5. CASE pc # "undefined"
    <3>1. ControlsAgree' /\ RatesAgree'
      BY <1>0, <2>1, <2>5, ArraysKeep
    <3>2. ArgumentsAgree'
      BY <1>0, <2>1, <2>5 DEF parsed, AllAgree, ArgumentsAgree
    <3>. QED
      BY <2>2, <2>3, <3>1, <3>2 DEF OptionsInv
  <2>. QED
    BY <2>4, <2>5
<1>. QED
  BY <1>1, <1>2, <1>3, <1>4, <1>5, <1>6, <1>7 DEF Next

\* What the arrays of the option loop, their counters and the word counts say of each
\* other, for every command line, until a store is out of bounds; which takes a sixth
\* control or a second rate.
THEOREM OptionsInvariant == Spec => []OptionsInv
<1>1. Init => OptionsInv
  <2>1. Init => pc # "undefined"
    BY DEF Init
  <2>. QED
    BY <2>1, InitSatisfies DEF OptionsInv, AllAgree, OverrunsNeedMore
<1>. QED
  BY <1>1, NextKeeps, PTL DEF Spec

-----------------------------------------------------------------------------
(* What it gives *)

\* The variables keep their types, and the array of controls its end.
THEOREM OptionsTypesCorrect == Spec => []OptionsTypeOK
<1>1. OptionsInv => OptionsTypeOK
  BY DEF OptionsInv
<1>. QED
  BY <1>1, OptionsInvariant, PTL

\* The first entry is walked up to self_to_task, over its weight and at most one rate.
LEMMA FirstEntryWalked ==
    ASSUME AllAgree
    PROVE  /\ counter_blkio_settings = 1 =>
                /\ Walk(settings) = 1 .. 2
                /\ settings[1] = weight /\ settings[2] = self_to_task
           /\ counter_blkio_settings > 1 =>
                /\ Walk(settings) = 1 .. 3
                /\ settings[1] = weight /\ settings[3] = self_to_task
                /\ \E f \in RateFlags : \E n \in 1 .. uses[f] : settings[2] = <<f, n>>
<1>1. settings \in Seq(SettingSet)
  BY DEF AllAgree, RatesAgree, SettingSet
<1>2. weight # NULL /\ self_to_task # NULL
  BY DEF weight, self_to_task, NULL
<1>3. ASSUME counter_blkio_settings = 1
      PROVE  Walk(settings) = 1 .. 2 /\ settings[1] = weight /\ settings[2] = self_to_task
  <2>1. settings = <<weight, self_to_task, NULL, NULL, NULL>>
    BY <1>3 DEF AllAgree, RatesAgree
  <2>2. /\ Len(settings) = 5 /\ settings[1] = weight /\ settings[2] = self_to_task
        /\ settings[3] = NULL
    BY <2>1
  <2>3. \A i \in 1 .. 2 : settings[i] # NULL
    BY <1>2, <2>2
  <2>4. 2 \in Nat /\ 2 + 1 <= Len(settings) /\ settings[2 + 1] = NULL
    BY <2>2
  <2>. QED
    BY <1>1, <2>2, <2>3, <2>4, SettingsWalked
<1>4. ASSUME counter_blkio_settings > 1
      PROVE  /\ Walk(settings) = 1 .. 3
             /\ settings[1] = weight /\ settings[3] = self_to_task
             /\ \E f \in RateFlags : \E n \in 1 .. uses[f] : settings[2] = <<f, n>>
  <2>1. /\ Len(settings) = counter_blkio_settings
        /\ counter_blkio_settings = 1 + 5 * (uses["r"] + uses["w"])
        /\ settings[1] = weight /\ settings[3] = self_to_task /\ settings[4] = NULL
    BY <1>4 DEF AllAgree, RatesAgree
  <2>2. uses["r"] \in Nat /\ uses["w"] \in Nat
    BY CountsAreNumbers DEF AllAgree
  <2>3. Len(settings) >= 6
    BY <1>4, <2>1, <2>2
  <2>4. PICK f \in RateFlags : \E n \in 1 .. uses[f] : settings[2] = <<f, n>>
    BY <1>4 DEF AllAgree, RatesAgree
  <2>5. settings[2] # NULL
    BY <2>4, FlagSets DEF NULL
  <2>6. \A i \in 1 .. 3 : settings[i] # NULL
    BY <1>2, <2>1, <2>5
  <2>7. 3 \in Nat /\ 3 + 1 <= Len(settings) /\ settings[3 + 1] = NULL
    BY <2>1, <2>3
  <2>8. Walk(settings) = 1 .. 3
    BY <1>1, <2>6, <2>7, SettingsWalked
  <2>. QED
    BY <2>1, <2>4, <2>8
<1>. QED
  BY <1>3, <1>4

\* With at most one rate the first entry is intact, and main joins its group as the last of
\* its settings; with more of them main does so still, as long as what they overwrite is
\* neither the name of the entry nor its pointer.
THEOREM FirstGroupIsJoined == Spec => []BlkioIsJoined
<1>1. OptionsInv => BlkioIsJoined
  <2>. SUFFICES ASSUME AllAgree PROVE BlkioIsJoined
    BY DEF OptionsInv, AllAgree, BlkioIsJoined
  <2>1. uses["r"] \in Nat /\ uses["w"] \in Nat
    BY CountsAreNumbers DEF AllAgree
  <2>2. counter_blkio_settings = 1 + 5 * (uses["r"] + uses["w"])
    BY DEF AllAgree, RatesAgree
  <2>6. uses["r"] + uses["w"] <= 1 => lost = {}
    BY <2>1, <2>2 DEF AllAgree, RatesAgree
  <2>3. \A n \in Nat \ {0} : (CHOOSE i \in 1 .. n : \A j \in 1 .. n : j <= i) = n
    OBVIOUS
  <2>4. CASE uses["r"] + uses["w"] = 0
    <3>1. Walk(settings) = 1 .. 2 /\ settings[1] = weight /\ settings[2] = self_to_task
      BY <2>2, <2>4, FirstEntryWalked
    <3>2. (CHOOSE i \in 1 .. 2 : \A j \in 1 .. 2 : j <= i) = 2
      BY <2>3
    <3>. QED
      BY <2>4, <2>6, <3>1, <3>2 DEF BlkioIsJoined
  <2>5. CASE uses["r"] + uses["w"] # 0
    <3>1. Walk(settings) = 1 .. 3 /\ settings[1] = weight /\ settings[3] = self_to_task
      BY <2>1, <2>2, <2>5, FirstEntryWalked
    <3>2. (CHOOSE i \in 1 .. 3 : \A j \in 1 .. 3 : j <= i) = 3
      BY <2>3
    <3>. QED
      BY <2>5, <2>6, <3>1, <3>2 DEF BlkioIsJoined
  <2>. QED
    BY <2>4, <2>5
<1>. QED
  BY <1>1, OptionsInvariant, PTL

\* The container runs the words after -c.
THEOREM CommandIsRun == Spec => []PayloadIsCommand
<1>1. OptionsInv => PayloadIsCommand
  BY DEF OptionsInv, ArgumentsAgree, PayloadIsCommand
<1>. QED
  BY <1>1, OptionsInvariant, PTL

\* The names among the settings are not flags.
LEMMA NamesAreNoFlags ==
    /\ weight[1] \notin LimitFlags /\ self_to_task[1] \notin LimitFlags
    /\ mems[1] \notin LimitFlags
    /\ self_to_task # NULL /\ mems # NULL /\ weight # NULL
BY DEF weight, self_to_task, mems, NULL, LimitFlags, ControlFlags, RateFlags

\* An entry for an option holds that option, and no other.
LEMMA EntryWalked ==
    ASSUME NEW f \in ControlFlags, NEW n \in Nat
    PROVE  /\ <<f, n>> \in Walked(<<f, n>>)
           /\ \A x \in Walked(<<f, n>>) : x[1] \in LimitFlags => x = <<f, n>>
<1>. DEFINE o == <<f, n>>
            S == {o, mems, self_to_task, NULL}
            s == SettingsOf(o)
<1>1. o # Default /\ o # NULL /\ o[1] = f
  BY FlagSets DEF Default, NULL
<1>2. Walked(o) = {s[i] : i \in Walk(s)}
  BY <1>1 DEF Walked
<1>3. \A x \in {o, mems, self_to_task} : x # NULL /\ (x[1] \in LimitFlags => x = o)
  BY <1>1, NamesAreNoFlags
<1>. HIDE DEF o
<1>4. CASE f = "s"
  <2>1. s = <<o, mems, self_to_task, NULL, NULL>>
    BY <1>1, <1>4 DEF SettingsOf
  <2>. HIDE DEF s
  <2>2. /\ s \in Seq(S) /\ Len(s) = 5
        /\ s[1] = o /\ s[2] = mems /\ s[3] = self_to_task /\ s[4] = NULL
    BY <2>1
  <2>3. \A i \in 1 .. 3 : s[i] # NULL
    BY <1>3, <2>2
  <2>4. 3 \in Nat /\ 3 + 1 <= Len(s) /\ s[3 + 1] = NULL
    BY <2>2
  <2>. HIDE DEF S
  <2>5. Walk(s) = 1 .. 3
    BY <2>2, <2>3, <2>4, SettingsWalked
  <2>6. \A i \in 1 .. 3 : s[i] \in {o, mems, self_to_task}
    BY <2>2
  <2>7. 1 \in 1 .. 3
    OBVIOUS
  <2>. QED
    BY <1>2, <1>3, <2>2, <2>5, <2>6, <2>7 DEF o
<1>5. CASE f # "s"
  <2>1. s = <<o, self_to_task, NULL, NULL, NULL>>
    BY <1>1, <1>5 DEF SettingsOf
  <2>. HIDE DEF s
  <2>2. /\ s \in Seq(S) /\ Len(s) = 5
        /\ s[1] = o /\ s[2] = self_to_task /\ s[3] = NULL
    BY <2>1
  <2>3. \A i \in 1 .. 2 : s[i] # NULL
    BY <1>3, <2>2
  <2>4. 2 \in Nat /\ 2 + 1 <= Len(s) /\ s[2 + 1] = NULL
    BY <2>2
  <2>. HIDE DEF S
  <2>5. Walk(s) = 1 .. 2
    BY <2>2, <2>3, <2>4, SettingsWalked
  <2>6. \A i \in 1 .. 2 : s[i] \in {o, mems, self_to_task}
    BY <2>2
  <2>7. 1 \in 1 .. 2
    OBVIOUS
  <2>. QED
    BY <1>2, <1>3, <2>2, <2>5, <2>6, <2>7 DEF o
<1>. QED
  BY <1>4, <1>5

\* The first entry holds a rate once one was given, and no other limit.
LEMMA DefaultWalked ==
    ASSUME AllAgree, lost = {}
    PROVE  /\ \A x \in Walked(Default) : x[1] \in LimitFlags =>
                 \E f \in RateFlags : \E n \in 1 .. uses[f] : x = <<f, n>>
           /\ uses["r"] + uses["w"] > 0 =>
                 \E f \in RateFlags : \E n \in 1 .. uses[f] : <<f, n>> \in Walked(Default)
<1>1. Walked(Default) = {settings[i] : i \in Walk(settings)}
  BY DEF Walked
<1>2. uses["r"] \in Nat /\ uses["w"] \in Nat
      /\ counter_blkio_settings = 1 + 5 * (uses["r"] + uses["w"])
  BY CountsAreNumbers DEF AllAgree, RatesAgree
<1>3. CASE counter_blkio_settings = 1
  <2>1. Walk(settings) = 1 .. 2 /\ settings[1] = weight /\ settings[2] = self_to_task
    BY <1>3, FirstEntryWalked
  <2>2. \A i \in 1 .. 2 : settings[i][1] \notin LimitFlags
    BY <2>1, NamesAreNoFlags
  <2>3. uses["r"] + uses["w"] = 0
    BY <1>2, <1>3
  <2>. QED
    BY <1>1, <2>1, <2>2, <2>3
<1>4. CASE counter_blkio_settings > 1
  <2>1. /\ Walk(settings) = 1 .. 3 /\ settings[1] = weight /\ settings[3] = self_to_task
        /\ \E f \in RateFlags : \E n \in 1 .. uses[f] : settings[2] = <<f, n>>
    BY <1>4, FirstEntryWalked
  <2>2. \A i \in 1 .. 3 : settings[i][1] \in LimitFlags => i = 2
    BY <2>1, NamesAreNoFlags
  <2>3. 2 \in 1 .. 3
    OBVIOUS
  <2>. QED
    BY <1>1, <2>1, <2>2, <2>3
<1>. QED
  BY <1>2, <1>3, <1>4

\* A command line with no limit twice and one rate at most reaches the set-up with every
\* limit it gives, where the build keeps the literals.
THEOREM LimitsArrive == Spec => []LimitsReachTheGroups
<1>1. OptionsInv => LimitsReachTheGroups
  <2>. SUFFICES ASSUME AllAgree,
                       \A f \in LimitFlags : uses[f] <= 1,
                       uses["r"] + uses["w"] <= 1
                PROVE  /\ Given = Applied /\ lost = {}
                       /\ \A i, j \in Walk(cgroups) \ {0} :
                             Controller(cgroups[i][1]) = Controller(cgroups[j][1]) => i = j
    BY DEF LimitsReachTheGroups, OptionsInv, AllAgree
  <2>1. /\ \A f \in Flags : uses[f] \in Nat
        /\ uses["r"] \in Nat /\ uses["w"] \in Nat
    BY CountsAreNumbers DEF AllAgree
  <2>2. \A f \in LimitFlags : \A n \in 1 .. uses[f] : n = 1 /\ uses[f] = 1
    BY <2>1, FlagSets
  <2>3. \A o : o \in Given <=> \E f \in LimitFlags : uses[f] = 1 /\ o = <<f, 1>>
    <3>1. \A f \in LimitFlags : uses[f] > 0 <=> uses[f] = 1
      BY <2>1, FlagSets
    <3>. QED
      BY <3>1 DEF Given
  <2>4. counter_cgroups \in 1 .. 6 /\ Walk(cgroups) = 0 .. counter_cgroups - 1
    BY DEF AllAgree, OptionsTypeOK
  <2>5. /\ cgroups[0] = Default
        /\ \A i \in 1 .. counter_cgroups - 1 : \E f \in ControlFlags :
              uses[f] = 1 /\ cgroups[i] = <<f, 1>>
        /\ \A f \in ControlFlags : uses[f] = 1 =>
              \E i \in 1 .. counter_cgroups - 1 : cgroups[i] = <<f, 1>>
        /\ \A i, j \in 1 .. counter_cgroups - 1 : cgroups[i] = cgroups[j] => i = j
    <3>1. ASSUME NEW i \in 1 .. counter_cgroups - 1
          PROVE  \E f \in ControlFlags : uses[f] = 1 /\ cgroups[i] = <<f, 1>>
      <4>1. PICK f \in ControlFlags : \E n \in 1 .. uses[f] : cgroups[i] = <<f, n>>
        BY DEF AllAgree, ControlsAgree
      <4>. QED
        BY <2>2, <4>1, FlagSets
    <3>2. ASSUME NEW f \in ControlFlags, uses[f] = 1
          PROVE  \E i \in 1 .. counter_cgroups - 1 : cgroups[i] = <<f, 1>>
      <4>1. 1 \in 1 .. uses[f]
        BY <3>2
      <4>. QED
        BY <4>1 DEF AllAgree, ControlsAgree
    <3>. QED
      BY <3>1, <3>2 DEF AllAgree, ControlsAgree
  <2>6. ASSUME NEW f \in RateFlags, NEW g \in RateFlags, uses[f] = 1, uses[g] = 1
        PROVE  f = g
    <3>1. (f = "r" \/ f = "w") /\ (g = "r" \/ g = "w")
      BY FlagSets
    <3>. QED
      BY <2>1, <2>6, <3>1
  <2>9. lost = {}
    <3>1. counter_blkio_settings <= 6
      BY <2>1 DEF AllAgree, RatesAgree
    <3>. QED
      BY <3>1 DEF AllAgree, RatesAgree
  <2>7. ASSUME NEW o \in Given PROVE o \in Applied
    <3>1. PICK f \in LimitFlags : uses[f] = 1 /\ o = <<f, 1>>
      BY <2>3
    <3>2. o[1] \in LimitFlags
      BY <3>1
    <3>3. CASE f \in ControlFlags
      <4>1. PICK i \in 1 .. counter_cgroups - 1 : cgroups[i] = o
        BY <2>5, <3>1, <3>3
      <4>2. o \in Entries
        BY <2>4, <4>1 DEF Entries
      <4>3. o \in Walked(o)
        BY <3>1, <3>3, EntryWalked
      <4>. QED
        BY <3>2, <4>2, <4>3 DEF Applied
    <3>4. CASE f \in RateFlags
      <4>1. uses["r"] + uses["w"] > 0
        BY <2>1, <3>1, <3>4, FlagSets
      <4>2. PICK g \in RateFlags : \E n \in 1 .. uses[g] : <<g, n>> \in Walked(Default)
        BY <2>9, <4>1, DefaultWalked
      <4>3. uses[g] = 1 /\ <<g, 1>> \in Walked(Default)
        BY <2>2, <4>2, FlagSets
      <4>4. o \in Walked(Default)
        BY <2>6, <3>1, <3>4, <4>3
      <4>5. Default \in Entries
        <5>1. 0 \in 0 .. counter_cgroups - 1
          BY <2>4
        <5>. QED
          BY <2>4, <2>5, <5>1 DEF Entries
      <4>. QED
        BY <3>2, <4>4, <4>5 DEF Applied
    <3>. QED
      BY <3>3, <3>4, FlagSets
  <2>8. ASSUME NEW o \in Applied PROVE o \in Given
    <3>1. PICK e \in Entries : o \in Walked(e) /\ o[1] \in LimitFlags
      BY DEF Applied
    <3>2. PICK i \in 0 .. counter_cgroups - 1 : e = cgroups[i]
      BY <2>4 DEF Entries
    <3>3. CASE i = 0
      <4>1. PICK f \in RateFlags : \E n \in 1 .. uses[f] : o = <<f, n>>
        BY <2>5, <2>9, <3>1, <3>2, <3>3, DefaultWalked
      <4>2. f \in LimitFlags
        BY FlagSets
      <4>. QED
        BY <2>2, <2>3, <4>1, <4>2
    <3>4. CASE i # 0
      <4>1. i \in 1 .. counter_cgroups - 1
        BY <2>4, <3>4
      <4>2. PICK f \in ControlFlags : uses[f] = 1 /\ e = <<f, 1>>
        BY <2>5, <3>2, <4>1
      <4>3. o = <<f, 1>> /\ f \in LimitFlags
        BY <3>1, <4>2, EntryWalked, FlagSets
      <4>. QED
        BY <2>3, <4>2, <4>3
    <3>. QED
      BY <3>3, <3>4
  <2>10. ASSUME NEW i \in Walk(cgroups) \ {0}, NEW j \in Walk(cgroups) \ {0},
                Controller(cgroups[i][1]) = Controller(cgroups[j][1])
         PROVE  i = j
    <3>1. i \in 1 .. counter_cgroups - 1 /\ j \in 1 .. counter_cgroups - 1
      BY <2>4
    <3>2. PICK f \in ControlFlags : cgroups[i] = <<f, 1>>
      BY <2>5, <3>1
    <3>3. PICK g \in ControlFlags : cgroups[j] = <<g, 1>>
      BY <2>5, <3>1
    <3>4. Controller(f) = Controller(g)
      BY <2>10, <3>2, <3>3
    <3>5. f = g
      BY <3>4 DEF Controller, ControlFlags
    <3>. QED
      BY <2>5, <3>1, <3>2, <3>3, <3>5
  <2>. QED
    BY <2>7, <2>8, <2>9, <2>10
<1>. QED
  BY <1>1, OptionsInvariant, PTL
=============================================================================
