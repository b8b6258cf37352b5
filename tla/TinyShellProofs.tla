-------------------------- MODULE TinyShellProofs ---------------------------
(***************************************************************************)
(* Proofs about TinyShell, for any inputs, shells, lines, slots, failures  *)
(* and any size of the pipe.                                               *)
(***************************************************************************)
EXTENDS TinyShell, FiniteSetTheorems, TLAPS

Stage == {"free", "reading", "system", "waiting", "open", "opening", "exec", "command",
          "exited", "undefined"}
HasLineTaken == {"system", "waiting", "open", "opening", "exec", "command"}
Running == {"open", "opening", "exec", "command"}
Shelling == {"reading", "system", "waiting"}

LEMMA Bounds ==
    /\ Lines \in Nat /\ Slots \in Nat \ {0} /\ MaxFailures \in Nat /\ Capacity \in Nat /\ Output \in Nat
    /\ 1 \in Slot /\ Slot \subseteq Nat \ {0} /\ Line \subseteq 0 .. Lines /\ Line \subseteq Nat
BY ShellAssumption DEF Slot, Line

Record == [st : Stage, up : 0 .. Slots, line : 0 .. Lines, left : 0 .. Output, stdin : BOOLEAN]

LEMMA ShellTypes ==
    ASSUME ShellInv
    PROVE  /\ proc \in [Input -> [Slot -> Record]] /\ next \in [Input -> [Slot -> 1 .. Lines + 1]]
           /\ ends \subseteq Input \X Slot
           /\ \A i \in Input, s \in Slot : <<i, s>> \in ends => St(i, s) \in {"exec", "command"}
           /\ pipe \in 0 .. Capacity /\ taken \in [Input -> [Line -> Nat]]
           /\ failures \in 0 .. MaxFailures /\ forgotten \in [Input -> SUBSET (0 .. Lines)]
BY DEF ShellInv, ShellTypeOK, Record, Stage

LEMMA InitInv == Init => ShellInv
<1>. SUFFICES ASSUME Init PROVE ShellInv
  OBVIOUS
<1>. USE Bounds
<1>1. PICK together \in Together :
          proc = [i \in Input |-> [s \in Slot |->
                     IF i \in together /\ s = 1 THEN [Free EXCEPT !.st = "reading"] ELSE Free]]
  BY DEF Init
<1>2. PICK fresh : fresh = [Free EXCEPT !.st = "reading"]
  OBVIOUS
<1>a. fresh = [st |-> "reading", up |-> 0, line |-> 0, left |-> 0, stdin |-> TRUE]
  BY <1>2 DEF Free
<1>b. /\ Free \in Record /\ fresh \in Record
      /\ Free.st = "free" /\ fresh.st = "reading" /\ Free.up = 0 /\ fresh.up = 0
  BY <1>a DEF Free, Record, Stage
<1>c. proc = [i \in Input |-> [s \in Slot |-> IF i \in together /\ s = 1 THEN fresh ELSE Free]]
  BY <1>1, <1>2
<1>3. proc \in [Input -> [Slot -> Record]]
  BY <1>b, <1>c
<1>4. \A i \in Input, s \in Slot : /\ proc[i][s].up = 0
                                   /\ St(i, s) = IF i \in together /\ s = 1 THEN "reading" ELSE "free"
  BY <1>b, <1>c DEF St
<1>5. ShellTypeOK
  <2>1. next \in [Input -> [Slot -> 1 .. Lines + 1]] /\ taken \in [Input -> [Line -> Nat]]
    BY DEF Init
  <2>2. ends = {} /\ pipe \in 0 .. Capacity /\ failures \in 0 .. MaxFailures
    BY DEF Init
  <2>3. forgotten \in [Input -> SUBSET (0 .. Lines)]
    BY DEF Init
  <2>. QED
    BY <1>3, <2>1, <2>2, <2>3 DEF ShellTypeOK, Record, Stage
<1>6. OneIsAwake /\ FirstStays
  BY <1>4 DEF OneIsAwake, Awake, FirstStays
<1>7. PastItsLine
  BY <1>4 DEF PastItsLine
<1>8. LinesAgree
  BY DEF LinesAgree, Init, Line
<1>. QED
  BY <1>5, <1>6, <1>7, <1>8 DEF ShellInv

\* Only the stage of one process changes, and it was awake and stays so.  No line is
\* taken, and a line whose exec has failed may be remembered.
StageMoves(i, s, to) ==
    /\ i \in Input /\ s \in Slot
    /\ proc' = [proc EXCEPT ![i][s].st = to] /\ to \in Stage \ {"free", "waiting"}
    /\ Awake(i, s)
    /\ s = 1 => to \notin Running
    /\ to \in HasLineTaken => St(i, s) \in HasLineTaken
    /\ to \in Shelling => \/ St(i, s) \in Shelling
                          \/ \E k \in forgotten'[i] : k < next[i][s]
    /\ UNCHANGED <<next, taken>>
    /\ forgotten' \in [Input -> SUBSET (0 .. Lines)]
    /\ \A j \in Input : forgotten[j] \subseteq forgotten'[j]
    /\ failures' \in 0 .. MaxFailures /\ pipe' \in 0 .. Capacity
    /\ ends' \subseteq ends
    /\ <<i, s>> \in ends' => to \in {"exec", "command"}

LEMMA StageMovesKeep ==
    ASSUME ShellInv, NEW i, NEW s, NEW to, StageMoves(i, s, to)
    PROVE  ShellInv'
<1>. USE Bounds
<1>1. /\ i \in Input /\ s \in Slot /\ proc' = [proc EXCEPT ![i][s].st = to]
      /\ to \in Stage \ {"free", "waiting"} /\ Awake(i, s) /\ UNCHANGED <<next, taken>>
      /\ \A j \in Input : forgotten[j] \subseteq forgotten'[j]
  BY DEF StageMoves
<1>2. proc \in [Input -> [Slot -> Record]]
  BY ShellTypes
<1>3. /\ proc' \in [Input -> [Slot -> Record]]
      /\ St(i, s)' = to /\ proc'[i][s].up = proc[i][s].up /\ proc'[i][s].line = proc[i][s].line
      /\ \A j \in Input, t \in Slot : (j # i \/ t # s) => proc'[j][t] = proc[j][t]
  BY <1>1, <1>2 DEF Record, St
<1>4. \A j \in Input, t \in Slot : /\ (j # i \/ t # s) => St(j, t)' = St(j, t)
                                   /\ proc'[j][t].up = proc[j][t].up
                                   /\ proc'[j][t].line = proc[j][t].line
                                   /\ Awake(j, t)' = Awake(j, t)
  BY <1>1, <1>3 DEF St, Awake
<1>5. ShellTypeOK'
  <2>1. ends' \subseteq {e \in Input \X Slot : St(e[1], e[2])' \in {"exec", "command"}}
    <3>1. ASSUME NEW e \in ends' PROVE e \in Input \X Slot /\ St(e[1], e[2])' \in {"exec", "command"}
      <4>1. e \in ends /\ e \in Input \X Slot /\ St(e[1], e[2]) \in {"exec", "command"}
        BY DEF ShellInv, ShellTypeOK, StageMoves
      <4>2. e[1] \in Input /\ e[2] \in Slot /\ e = <<e[1], e[2]>>
        BY <4>1
      <4>3. CASE e[1] = i /\ e[2] = s
        BY <1>3, <4>1, <4>2, <4>3 DEF StageMoves
      <4>4. CASE e[1] # i \/ e[2] # s
        BY <1>4, <4>1, <4>2, <4>4
      <4>. QED
        BY <4>1, <4>3, <4>4
    <3>. QED
      BY <3>1
  <2>2. /\ next' \in [Input -> [Slot -> 1 .. Lines + 1]] /\ pipe' \in 0 .. Capacity
        /\ taken' \in [Input -> [Line -> Nat]] /\ failures' \in 0 .. MaxFailures
        /\ forgotten' \in [Input -> SUBSET (0 .. Lines)]
    BY <1>1, ShellTypes DEF StageMoves
  <2>. QED
    BY <1>3, <2>1, <2>2 DEF ShellTypeOK, Record, Stage
<1>6. OneIsAwake'
  BY <1>4 DEF ShellInv, OneIsAwake
<1>7. FirstStays'
  <2>1. ASSUME NEW j \in Input
        PROVE  /\ proc'[j][1].up = 0 /\ St(j, 1)' \notin {"open", "opening", "exec", "command"}
               /\ St(j, 1)' = "free" => \A t \in Slot : St(j, t)' = "free"
    <3>1. /\ proc[j][1].up = 0 /\ St(j, 1) \notin {"open", "opening", "exec", "command"}
          /\ St(j, 1) = "free" => \A t \in Slot : St(j, t) = "free"
      BY DEF ShellInv, FirstStays
    <3>2. CASE j = i
      BY <1>1, <1>3, <1>4, <3>1, <3>2 DEF StageMoves, Running, Awake
    <3>3. CASE j # i
      BY <1>4, <3>1, <3>3
    <3>. QED
      BY <3>2, <3>3
  <2>. QED
    BY <2>1 DEF FirstStays
<1>8. PastItsLine'
  <2>1. ASSUME NEW j \in Input, NEW t \in Slot
        PROVE  /\ St(j, t)' \in HasLineTaken => proc'[j][t].line < next'[j][t]
               /\ (t # 1 /\ St(j, t)' \in Shelling) => \E k \in forgotten'[j] : k < next'[j][t]
    <3>1. /\ St(j, t) \in HasLineTaken => proc[j][t].line < next[j][t]
          /\ (t # 1 /\ St(j, t) \in Shelling) => \E k \in forgotten[j] : k < next[j][t]
      BY DEF ShellInv, PastItsLine, HasLineTaken, Shelling
    <3>2. CASE j = i /\ t = s
      BY <1>1, <1>3, <3>1, <3>2 DEF StageMoves
    <3>3. CASE j # i \/ t # s
      BY <1>1, <1>4, <3>1, <3>3
    <3>. QED
      BY <3>2, <3>3
  <2>. QED
    BY <2>1 DEF PastItsLine, HasLineTaken, Shelling
<1>9. LinesAgree'
  BY <1>1 DEF ShellInv, LinesAgree
<1>. QED
  BY <1>5, <1>6, <1>7, <1>8, <1>9 DEF ShellInv

\* What Become and Close do.
LEMMA Becomes ==
    ASSUME NEW i, NEW s, NEW from, NEW to, Goto(i, s, from, to)
    PROVE  St(i, s) = from /\ proc' = [proc EXCEPT ![i][s].st = to]
BY DEF Goto, Become

LEMMA Fails ==
    ASSUME ShellInv, Fail
    PROVE  failures' \in 0 .. MaxFailures
BY ShellTypes, Bounds DEF Fail

LEMMA Closes ==
    ASSUME ShellInv, NEW i, NEW s, Close(i, s)
    PROVE  ends' \subseteq ends /\ <<i, s>> \notin ends' /\ pipe' \in 0 .. Capacity
BY ShellTypes, Bounds DEF Close

LEMMA ReadNothingKeeps ==
    ASSUME ShellInv, NEW i \in Input, NEW s \in Slot, ReadNothing(i, s) PROVE ShellInv'
<1>1. St(i, s) = "reading" /\ proc' = [proc EXCEPT ![i][s].st = "exited"]
  BY Becomes DEF ReadNothing
<1>2. <<i, s>> \notin ends
  BY <1>1, ShellTypes
<1>3. UNCHANGED <<next, ends, pipe, taken, failures, forgotten>>
  BY DEF ReadNothing
<1>4. /\ forgotten \in [Input -> SUBSET (0 .. Lines)] /\ failures \in 0 .. MaxFailures
      /\ pipe \in 0 .. Capacity
  BY ShellTypes
<1>5. StageMoves(i, s, "exited")
  BY <1>1, <1>2, <1>3, <1>4 DEF StageMoves, Stage, Running, HasLineTaken, Shelling, Awake
<1>. QED
  BY <1>5, StageMovesKeep

LEMMA ForkFailsKeeps ==
    ASSUME ShellInv, NEW i \in Input, NEW s \in Slot, ForkFails(i, s) PROVE ShellInv'
<1>1. PICK to \in {"exited", "reading"} : St(i, s) = "system" /\ proc' = [proc EXCEPT ![i][s].st = to]
  BY Becomes DEF ForkFails
<1>2. <<i, s>> \notin ends
  BY <1>1, ShellTypes
<1>3. UNCHANGED <<next, ends, pipe, taken, forgotten>> /\ failures' \in 0 .. MaxFailures
  BY Fails DEF ForkFails
<1>4. /\ forgotten \in [Input -> SUBSET (0 .. Lines)] /\ failures \in 0 .. MaxFailures
      /\ pipe \in 0 .. Capacity
  BY ShellTypes
<1>5. StageMoves(i, s, to)
  BY <1>1, <1>2, <1>3, <1>4 DEF StageMoves, Stage, Running, HasLineTaken, Shelling, Awake
<1>. QED
  BY <1>5, StageMovesKeep

\* A process on its way to its command is not the first shell.
LEMMA RunningIsLater ==
    ASSUME ShellInv, NEW i \in Input, NEW s \in Slot, St(i, s) \in Running
    PROVE  s # 1
BY DEF ShellInv, FirstStays, Running

LEMMA OpenFailsKeeps ==
    ASSUME ShellInv, NEW i \in Input, NEW s \in Slot, OpenFails(i, s) PROVE ShellInv'
<1>1. St(i, s) = "open" /\ proc' = [proc EXCEPT ![i][s].st = "exec"]
  BY Becomes DEF OpenFails
<1>2. s # 1
  BY <1>1, RunningIsLater DEF Running
<1>3. UNCHANGED <<next, ends, pipe, taken, forgotten>> /\ failures' \in 0 .. MaxFailures
  BY Fails DEF OpenFails
<1>. QED
  BY <1>1, <1>2, <1>3, ShellTypes, StageMovesKeep
     DEF StageMoves, Stage, Running, HasLineTaken, Shelling, Awake

LEMMA ExecKeeps ==
    ASSUME ShellInv, NEW i \in Input, NEW s \in Slot, Exec(i, s) PROVE ShellInv'
<1>1. St(i, s) = "exec" /\ proc' = [proc EXCEPT ![i][s].st = "command"]
  BY Becomes DEF Exec
<1>2. s # 1
  BY <1>1, RunningIsLater DEF Running
<1>3. UNCHANGED <<next, ends, pipe, taken, failures, forgotten>>
  BY DEF Exec
<1>. QED
  BY <1>1, <1>2, <1>3, ShellTypes, StageMovesKeep
     DEF StageMoves, Stage, Running, HasLineTaken, Shelling, Awake

LEMMA ExecFailsKeeps ==
    ASSUME ShellInv, NEW i \in Input, NEW s \in Slot, ExecFails(i, s) PROVE ShellInv'
<1>1. PICK to \in {"exited", "reading"} : St(i, s) = "exec" /\ proc' = [proc EXCEPT ![i][s].st = to]
  BY Becomes DEF ExecFails, GoBack
<1>2. s # 1
  BY <1>1, RunningIsLater DEF Running
<1>3. UNCHANGED <<next, taken>> /\ failures' \in 0 .. MaxFailures
  BY Fails DEF ExecFails, GoBack
<1>4. ends' \subseteq ends /\ <<i, s>> \notin ends' /\ pipe' \in 0 .. Capacity
  BY Closes DEF ExecFails
<1>5. forgotten' = [forgotten EXCEPT ![i] = @ \union {proc[i][s].line}]
  BY DEF ExecFails, GoBack
<1>6. proc[i][s].line \in 0 .. Lines /\ proc[i][s].line < next[i][s]
  <2>1. proc[i][s] \in Record
    BY ShellTypes
  <2>. QED
    BY <2>1, <1>1 DEF ShellInv, PastItsLine, Record
<1>7. /\ forgotten' \in [Input -> SUBSET (0 .. Lines)]
      /\ \A j \in Input : forgotten[j] \subseteq forgotten'[j]
      /\ proc[i][s].line \in forgotten'[i]
  BY <1>5, <1>6, ShellTypes
<1>. QED
  BY <1>1, <1>2, <1>3, <1>4, <1>6, <1>7, StageMovesKeep
     DEF StageMoves, Stage, Running, HasLineTaken, Shelling, Awake

LEMMA CommandEndsKeeps ==
    ASSUME ShellInv, NEW i \in Input, NEW s \in Slot, CommandEnds(i, s) \/ ReaderLeaves(i, s)
    PROVE  ShellInv'
<1>1. St(i, s) = "command" /\ proc' = [proc EXCEPT ![i][s].st = "exited"]
  BY Becomes DEF CommandEnds, ReaderLeaves
<1>2. ends' \subseteq ends /\ <<i, s>> \notin ends' /\ pipe' \in 0 .. Capacity
  BY Closes DEF CommandEnds, ReaderLeaves
<1>3. UNCHANGED <<next, taken, failures, forgotten>>
  BY DEF CommandEnds, ReaderLeaves
<1>4. /\ forgotten \in [Input -> SUBSET (0 .. Lines)] /\ failures \in 0 .. MaxFailures
      /\ pipe \in 0 .. Capacity
  BY ShellTypes
<1>5. StageMoves(i, s, "exited")
  BY <1>1, <1>2, <1>3, <1>4 DEF StageMoves, Stage, Running, HasLineTaken, Shelling, Awake
<1>. QED
  BY <1>5, StageMovesKeep

\* The fields the invariant looks at, process by process.
LEMMA Fields ==
    ASSUME ShellInv, NEW i \in Input, NEW s \in Slot
    PROVE  /\ proc[i][s] \in Record /\ St(i, s) \in Stage /\ proc[i][s].line \in 0 .. Lines
           /\ proc[i][s].left \in 0 .. Output /\ next[i][s] \in 1 .. Lines + 1
           /\ St(i, s) \in HasLineTaken => proc[i][s].line < next[i][s]
           /\ (s # 1 /\ St(i, s) \in Shelling) => \E k \in forgotten[i] : k < next[i][s]
           /\ forgotten[i] \subseteq Int
<1>1. proc[i][s] \in Record /\ next[i][s] \in 1 .. Lines + 1 /\ forgotten[i] \subseteq 0 .. Lines
  BY ShellTypes
<1>. QED
  BY <1>1 DEF Record, St, ShellInv, PastItsLine, HasLineTaken, Shelling

\* Only what a process has left to write changes, or what the pipe holds.
StagesStay ==
    /\ proc' \in [Input -> [Slot -> Record]]
    /\ \A i \in Input, s \in Slot : /\ proc'[i][s].st = proc[i][s].st
                                    /\ proc'[i][s].up = proc[i][s].up
                                    /\ proc'[i][s].line = proc[i][s].line
    /\ pipe' \in 0 .. Capacity
    /\ UNCHANGED <<next, ends, taken, failures, forgotten>>

LEMMA StagesStayKeep ==
    ASSUME ShellInv, StagesStay
    PROVE  ShellInv'
<1>. USE Bounds
<1>1. \A i \in Input, s \in Slot : /\ St(i, s)' = St(i, s) /\ proc'[i][s].up = proc[i][s].up
                                   /\ proc'[i][s].line = proc[i][s].line
                                   /\ Awake(i, s)' = Awake(i, s)
  BY DEF StagesStay, St, Awake
<1>2. UNCHANGED <<next, ends, taken, failures, forgotten>> /\ proc' \in [Input -> [Slot -> Record]]
      /\ pipe' \in 0 .. Capacity
  BY DEF StagesStay
<1>3. ShellTypeOK'
  <2>1. ends' \subseteq {e \in Input \X Slot : St(e[1], e[2])' \in {"exec", "command"}}
    <3>1. ASSUME NEW e \in ends PROVE e \in Input \X Slot /\ St(e[1], e[2])' \in {"exec", "command"}
      <4>1. e \in Input \X Slot /\ St(e[1], e[2]) \in {"exec", "command"}
        BY DEF ShellInv, ShellTypeOK
      <4>2. e[1] \in Input /\ e[2] \in Slot
        BY <4>1
      <4>. QED
        BY <4>1, <4>2, <1>1
    <3>. QED
      BY <3>1, <1>2
  <2>. QED
    BY <1>2, <2>1, ShellTypes DEF ShellTypeOK, Record, Stage
<1>4. OneIsAwake'
  BY <1>1 DEF ShellInv, OneIsAwake
<1>5. FirstStays'
  BY <1>1 DEF ShellInv, FirstStays
<1>6. PastItsLine'
  BY <1>1, <1>2 DEF ShellInv, PastItsLine
<1>7. LinesAgree'
  BY <1>2 DEF ShellInv, LinesAgree
<1>. QED
  BY <1>3, <1>4, <1>5, <1>6, <1>7 DEF ShellInv

LEMMA WriteOutputKeeps ==
    ASSUME ShellInv, NEW i \in Input, NEW s \in Slot, WriteOutput(i, s) PROVE ShellInv'
<1>1. /\ proc' = [proc EXCEPT ![i][s].left = proc[i][s].left - 1] /\ proc[i][s].left > 0
      /\ pipe' = pipe + 1 /\ pipe < Capacity
      /\ UNCHANGED <<next, ends, taken, failures, forgotten>>
  BY DEF WriteOutput
<1>2. pipe' \in 0 .. Capacity
  BY <1>1, ShellTypes, Bounds
<1>3. proc[i][s].left - 1 \in 0 .. Output /\ proc \in [Input -> [Slot -> Record]]
  BY <1>1, Fields, ShellTypes, Bounds
<1>4. proc' \in [Input -> [Slot -> Record]]
  <2>1. PICK r : r = [proc[i][s] EXCEPT !.left = proc[i][s].left - 1]
    OBVIOUS
  <2>2. r \in Record
    BY <2>1, <1>3 DEF Record
  <2>3. proc' = [proc EXCEPT ![i][s] = r]
    BY <1>1, <1>3, <2>1
  <2>. QED
    BY <2>2, <2>3, <1>3
<1>5. \A j \in Input, t \in Slot : /\ proc'[j][t].st = proc[j][t].st
                                   /\ proc'[j][t].up = proc[j][t].up
                                   /\ proc'[j][t].line = proc[j][t].line
  BY <1>1, <1>3 DEF Record
<1>. QED
  BY <1>1, <1>2, <1>4, <1>5, StagesStayKeep DEF StagesStay

LEMMA ReadInputKeeps ==
    ASSUME ShellInv, NEW i \in Input, NEW s \in Slot, ReadInput(i, s) PROVE ShellInv'
<1>1. pipe' \in 0 .. Capacity
  BY ShellTypes, Bounds DEF ReadInput
<1>. QED
  BY <1>1, ShellTypes, StagesStayKeep DEF ReadInput, StagesStay

LEMMA StutterKeeps ==
    ASSUME ShellInv, UNCHANGED vars PROVE ShellInv'
BY ShellTypes, StagesStayKeep DEF StagesStay, vars

\* A reader of the input that others share is at the line they all are at.
LEMMA Shared ==
    ASSUME ShellInv, NEW i \in Input, NEW s \in Slot, NEW t \in Slot,
           i \notin Buffered \/ Variant[i] # "fork"
    PROVE  next[i][t] = next[i][s]
BY DEF ShellInv, LinesAgree

LEMMA ReadLineKeeps ==
    ASSUME ShellInv, NEW i \in Input, NEW s \in Slot, ReadLine(i, s) PROVE ShellInv'
<1>. USE Bounds
<1>1. PICK l \in Line : l = next[i][s]
  BY DEF ReadLine, HasLine
<1>2. /\ St(i, s) = "reading" /\ proc' = [proc EXCEPT ![i][s].st = "system", ![i][s].line = l]
      /\ taken' = [taken EXCEPT ![i][l] = @ + 1]
      /\ UNCHANGED <<ends, pipe, failures, forgotten>>
  BY <1>1 DEF ReadLine
<1>3. \A j \in Input, t \in Slot :
         next'[j][t] = IF j = i /\ t \in Sharing(i, s) THEN l + 1 ELSE next[j][t]
  BY <1>1, ShellTypes DEF ReadLine, Advance
<1>4. next' \in [Input -> [Slot -> 1 .. Lines + 1]]
  <2>1. next \in [Input -> [Slot -> 1 .. Lines + 1]] /\ l + 1 \in 1 .. Lines + 1
    BY ShellTypes DEF Line
  <2>2. next' = [next EXCEPT ![i] = [t \in Slot |-> IF t \in Sharing(i, s) THEN l + 1 ELSE next[i][t]]]
    BY <1>1 DEF ReadLine, Advance
  <2>3. [t \in Slot |-> IF t \in Sharing(i, s) THEN l + 1 ELSE next[i][t]]
           \in [Slot -> 1 .. Lines + 1]
    BY <2>1
  <2>. QED
    BY <2>1, <2>2, <2>3
<1>5. proc \in [Input -> [Slot -> Record]]
  BY ShellTypes
<1>6. /\ proc' \in [Input -> [Slot -> Record]]
      /\ St(i, s)' = "system" /\ proc'[i][s].up = proc[i][s].up /\ proc'[i][s].line = l
      /\ \A j \in Input, t \in Slot : (j # i \/ t # s) => proc'[j][t] = proc[j][t]
  <2>1. PICK r : r = [proc[i][s] EXCEPT !.st = "system", !.line = l]
    OBVIOUS
  <2>2. proc[i][s] \in Record /\ l \in 0 .. Lines
    BY <1>5
  <2>3. r \in Record /\ r.st = "system" /\ r.up = proc[i][s].up /\ r.line = l
    BY <2>1, <2>2 DEF Record, Stage
  <2>4. proc' = [proc EXCEPT ![i][s] = r]
    BY <1>2, <1>5, <2>1
  <2>. QED
    BY <2>3, <2>4, <1>5 DEF St
<1>7. \A j \in Input, t \in Slot : /\ (j # i \/ t # s) => /\ St(j, t)' = St(j, t)
                                                        /\ proc'[j][t].line = proc[j][t].line
                                   /\ proc'[j][t].up = proc[j][t].up
                                   /\ Awake(j, t)' = Awake(j, t)
                                   /\ St(j, t)' = "free" <=> St(j, t) = "free"
  BY <1>2, <1>6 DEF St, Awake
<1>8. \A j \in Input, t \in Slot : next[j][t] <= next'[j][t]
  <2>1. ASSUME NEW t \in Slot, t \in Sharing(i, s) PROVE next[i][t] = l
    BY <1>1, <2>1, Shared DEF Sharing
  <2>. QED
    BY <1>3, <2>1, ShellTypes
<1>9. ShellTypeOK'
  <2>1. ends' \subseteq {e \in Input \X Slot : St(e[1], e[2])' \in {"exec", "command"}}
    <3>1. ASSUME NEW e \in ends PROVE e \in Input \X Slot /\ St(e[1], e[2])' \in {"exec", "command"}
      <4>1. e \in Input \X Slot /\ St(e[1], e[2]) \in {"exec", "command"}
        BY DEF ShellInv, ShellTypeOK
      <4>2. e[1] \in Input /\ e[2] \in Slot /\ (e[1] # i \/ e[2] # s)
        BY <4>1, <1>2
      <4>. QED
        BY <4>1, <4>2, <1>7
    <3>. QED
      BY <3>1, <1>2
  <2>2. taken' \in [Input -> [Line -> Nat]]
    BY <1>2, ShellTypes
  <2>. QED
    BY <1>2, <1>4, <1>6, <2>1, <2>2, ShellTypes DEF ShellTypeOK, Record, Stage
<1>a. OneIsAwake'
  BY <1>7 DEF ShellInv, OneIsAwake
<1>b. FirstStays'
  <2>1. ASSUME NEW j \in Input
        PROVE  /\ proc'[j][1].up = 0 /\ St(j, 1)' \notin {"open", "opening", "exec", "command"}
               /\ St(j, 1)' = "free" => \A t \in Slot : St(j, t)' = "free"
    <3>1. /\ proc[j][1].up = 0 /\ St(j, 1) \notin {"open", "opening", "exec", "command"}
          /\ St(j, 1) = "free" => \A t \in Slot : St(j, t) = "free"
      BY DEF ShellInv, FirstStays
    <3>. QED
      BY <1>6, <1>7, <3>1
  <2>. QED
    BY <2>1 DEF FirstStays
<1>c. PastItsLine'
  <2>1. ASSUME NEW j \in Input, NEW t \in Slot
        PROVE  /\ St(j, t)' \in HasLineTaken => proc'[j][t].line < next'[j][t]
               /\ (t # 1 /\ St(j, t)' \in Shelling) => \E k \in forgotten'[j] : k < next'[j][t]
    <3>1. next[j][t] <= next'[j][t] /\ next[j][t] \in Int /\ next'[j][t] \in Int
      BY <1>4, <1>8, Fields
    <3>2. (t # 1 /\ St(j, t) \in Shelling) => \E k \in forgotten'[j] : k < next'[j][t]
      <4>1. (t # 1 /\ St(j, t) \in Shelling) =>
               \E k \in forgotten[j] : k \in Int /\ k < next[j][t]
        BY Fields
      <4>. QED
        BY <4>1, <3>1, <1>2
    <3>3. CASE j = i /\ t = s
      <4>1. next'[i][s] = l + 1
        BY <1>3 DEF Sharing
      <4>. QED
        BY <1>2, <1>6, <3>2, <3>3, <4>1 DEF Shelling
    <3>4. CASE j # i \/ t # s
      <4>1. St(j, t) \in HasLineTaken => proc[j][t].line \in Int /\ proc[j][t].line < next[j][t]
        BY Fields
      <4>. QED
        BY <1>7, <3>1, <3>2, <3>4, <4>1
    <3>. QED
      BY <3>3, <3>4
  <2>. QED
    BY <2>1 DEF PastItsLine, HasLineTaken, Shelling
<1>d. LinesAgree'
  <2>1. ASSUME NEW j \in Input
        PROVE  LET readOn == j \notin Buffered \/ Variant[j] # "fork"
               IN  /\ readOn => \A t \in Slot : next'[j][t] = next'[j][1]
                   /\ \A m \in Line : (readOn \/ \A k \in forgotten'[j] : k >= m) =>
                          taken'[j][m] <= IF m < next'[j][1] THEN 1 ELSE 0
    <3>. DEFINE readOn == j \notin Buffered \/ Variant[j] # "fork"
    <3>1. /\ readOn => \A t \in Slot : next[j][t] = next[j][1]
          /\ \A m \in Line : (readOn \/ \A k \in forgotten[j] : k >= m) =>
                 taken[j][m] <= IF m < next[j][1] THEN 1 ELSE 0
      BY DEF ShellInv, LinesAgree
    <3>2. CASE j # i
      <4>1. next'[j] = next[j] /\ taken'[j] = taken[j] /\ forgotten'[j] = forgotten[j]
        BY <1>2, <3>2, ShellTypes DEF ReadLine, Advance
      <4>. QED
        BY <3>1, <4>1
    <3>3. CASE j = i
      <4>1. /\ \A m \in Line : taken'[i][m] = IF m = l THEN taken[i][m] + 1 ELSE taken[i][m]
            /\ \A m \in Line : taken[i][m] \in Nat /\ m \in Nat
            /\ next[i][1] \in Nat /\ l \in Nat
        BY <1>2, ShellTypes
      <4>2. CASE readOn
        <5>1. Sharing(i, s) = Slot
          BY <3>3, <4>2 DEF Sharing
        <5>2. \A t \in Slot : next'[i][t] = l + 1
          BY <1>3, <5>1
        <5>3. next[i][1] = l
          BY <1>1, <3>1, <3>3, <4>2
        <5>4. ASSUME NEW m \in Line PROVE taken'[i][m] <= IF m < l + 1 THEN 1 ELSE 0
          <6>1. taken[i][m] <= IF m < l THEN 1 ELSE 0
            BY <3>1, <3>3, <4>2, <5>3
          <6>. QED
            BY <4>1, <6>1
        <5>. QED
          BY <3>3, <5>2, <5>4
      <4>3. CASE ~ readOn /\ s = 1
        <5>1. next'[i][1] = l + 1 /\ next[i][1] = l
          BY <1>1, <1>3, <4>3 DEF Sharing
        <5>. QED
          BY <1>2, <3>1, <3>3, <4>1, <4>3, <5>1
      <4>4. CASE ~ readOn /\ s # 1
        <5>1. next'[i][1] = next[i][1]
          BY <1>3, <3>3, <4>4 DEF Sharing
        <5>2. PICK k \in forgotten[i] : k < l
          BY <1>1, <1>2, <4>4, Fields DEF Shelling
        <5>3. k \in Int /\ ~ (k >= l)
          BY <5>2, <4>1, Fields
        <5>. QED
          BY <1>2, <3>1, <3>3, <4>1, <4>4, <5>1, <5>2, <5>3
      <4>. QED
        BY <4>2, <4>3, <4>4
    <3>. QED
      BY <3>2, <3>3
  <2>. QED
    BY <2>1 DEF LinesAgree
<1>. QED
  BY <1>9, <1>a, <1>b, <1>c, <1>d DEF ShellInv

\* The one process of an input that was awake passes its turn on to another: to its
\* child, or to its parent.
TurnPasses(i, a, b, line) ==
    /\ i \in Input /\ a \in Slot /\ b \in Slot /\ a # b
    /\ proc' \in [Input -> [Slot -> Record]]
    /\ \A j \in Input, u \in Slot : (j # i \/ (u # a /\ u # b)) => proc'[j][u] = proc[j][u]
    /\ Awake(i, a) /\ ~ Awake(i, a)'
    /\ proc'[i][1].up = 0 /\ St(i, 1)' \notin Running \union {"free"}
    /\ next' = [next EXCEPT ![i][b] = line] /\ line \in 1 .. Lines + 1
    /\ (i \notin Buffered \/ Variant[i] # "fork" \/ b = 1) => line = next[i][1]
    /\ \A u \in {a, b} :
          /\ St(i, u)' \in HasLineTaken => proc'[i][u].line < next'[i][u]
          /\ (u # 1 /\ St(i, u)' \in Shelling) => \E k \in forgotten[i] : k < next'[i][u]
          /\ <<i, u>> \notin ends
    /\ UNCHANGED <<ends, pipe, taken, failures, forgotten>>

LEMMA TurnPassesKeeps ==
    ASSUME ShellInv, NEW i, NEW a, NEW b, NEW line, TurnPasses(i, a, b, line)
    PROVE  ShellInv'
<1>. USE Bounds
<1>1. /\ i \in Input /\ a \in Slot /\ b \in Slot /\ a # b
      /\ proc' \in [Input -> [Slot -> Record]]
      /\ \A j \in Input, u \in Slot : (j # i \/ (u # a /\ u # b)) => proc'[j][u] = proc[j][u]
      /\ Awake(i, a) /\ ~ Awake(i, a)'
      /\ next' = [next EXCEPT ![i][b] = line] /\ line \in 1 .. Lines + 1
      /\ UNCHANGED <<ends, pipe, taken, failures, forgotten>>
  BY DEF TurnPasses
<1>2. \A j \in Input, u \in Slot : (j # i \/ (u # a /\ u # b)) =>
         /\ St(j, u)' = St(j, u) /\ proc'[j][u].up = proc[j][u].up
         /\ proc'[j][u].line = proc[j][u].line /\ Awake(j, u)' = Awake(j, u)
  BY <1>1 DEF St, Awake
<1>3. \A j \in Input, u \in Slot : next'[j][u] = IF j = i /\ u = b THEN line ELSE next[j][u]
  BY <1>1, ShellTypes
<1>4. ShellTypeOK'
  <2>1. ends' \subseteq {e \in Input \X Slot : St(e[1], e[2])' \in {"exec", "command"}}
    <3>1. ASSUME NEW e \in ends PROVE e \in Input \X Slot /\ St(e[1], e[2])' \in {"exec", "command"}
      <4>1. e \in Input \X Slot /\ St(e[1], e[2]) \in {"exec", "command"}
        BY DEF ShellInv, ShellTypeOK
      <4>2. e[1] \in Input /\ e[2] \in Slot /\ e = <<e[1], e[2]>>
        BY <4>1
      <4>3. e[1] # i \/ (e[2] # a /\ e[2] # b)
        BY <4>2 DEF TurnPasses
      <4>. QED
        BY <4>1, <4>2, <4>3, <1>2
    <3>. QED
      BY <3>1, <1>1
  <2>2. next' \in [Input -> [Slot -> 1 .. Lines + 1]]
    BY <1>1, ShellTypes
  <2>. QED
    BY <1>1, <2>1, <2>2, ShellTypes DEF ShellTypeOK, Record, Stage
<1>5. OneIsAwake'
  <2>1. \A u \in Slot : Awake(i, u)' => u = b
    BY <1>1, <1>2 DEF ShellInv, OneIsAwake
  <2>. QED
    BY <2>1, <1>2 DEF ShellInv, OneIsAwake
<1>6. FirstStays'
  <2>1. ASSUME NEW j \in Input
        PROVE  /\ proc'[j][1].up = 0 /\ St(j, 1)' \notin {"open", "opening", "exec", "command"}
               /\ St(j, 1)' = "free" => \A t \in Slot : St(j, t)' = "free"
    <3>1. CASE j = i
      BY <3>1 DEF TurnPasses, Running
    <3>2. CASE j # i
      BY <3>2, <1>2 DEF ShellInv, FirstStays
    <3>. QED
      BY <3>1, <3>2
  <2>. QED
    BY <2>1 DEF FirstStays
<1>7. PastItsLine'
  <2>1. ASSUME NEW j \in Input, NEW t \in Slot
        PROVE  /\ St(j, t)' \in HasLineTaken => proc'[j][t].line < next'[j][t]
               /\ (t # 1 /\ St(j, t)' \in Shelling) => \E k \in forgotten'[j] : k < next'[j][t]
    <3>1. CASE j = i /\ t \in {a, b}
      BY <3>1 DEF TurnPasses
    <3>2. CASE j # i \/ (t # a /\ t # b)
      BY <3>2, <1>1, <1>2, <1>3, Fields
    <3>. QED
      BY <3>1, <3>2
  <2>. QED
    BY <2>1 DEF PastItsLine, HasLineTaken, Shelling
<1>8. LinesAgree'
  <2>1. \A j \in Input : next'[j][1] = next[j][1]
    BY <1>3 DEF TurnPasses
  <2>2. ASSUME NEW j \in Input, j \notin Buffered \/ Variant[j] # "fork", NEW t \in Slot
        PROVE  next'[j][t] = next'[j][1]
    <3>1. next[j][t] = next[j][1]
      BY <2>2, Shared
    <3>. QED
      BY <1>3, <2>1, <2>2, <3>1 DEF TurnPasses
  <2>. QED
    BY <1>1, <2>1, <2>2 DEF ShellInv, LinesAgree
<1>. QED
  BY <1>4, <1>5, <1>6, <1>7, <1>8 DEF ShellInv

LEMMA ForkKeeps ==
    ASSUME ShellInv, NEW i \in Input, NEW s \in Slot, Fork(i, s) PROVE ShellInv'
<1>. USE Bounds
<1>1. St(i, s) = "system" /\ UNCHANGED <<ends, pipe, taken, failures, forgotten>>
  BY DEF Fork, ForkAt
<1>2. PICK t \in Slot :
         /\ St(i, t) = "free" /\ proc' = [proc EXCEPT ![i][s].st = "waiting", ![i][t] = Child(i, s)]
         /\ next' = [next EXCEPT ![i][t] = next[i][s]]
  BY DEF Fork, ForkAt, FreeSlot
<1>3. s # t /\ t # 1 /\ St(i, 1) # "free"
  BY <1>1, <1>2 DEF ShellInv, FirstStays
<1>4. /\ Child(i, s) \in Record /\ Child(i, s).st \in {"exec", "open"}
      /\ Child(i, s).line = proc[i][s].line
  <2>1. PICK stage \in {"exec", "open"} : stage = IF PipeEnd[i] = "none" THEN "exec" ELSE "open"
    OBVIOUS
  <2>2. PICK stdin \in BOOLEAN : stdin = (proc[i][s].stdin /\ PipeEnd[i] # "read")
    OBVIOUS
  <2>3. Child(i, s) = [st |-> stage, up |-> s, line |-> proc[i][s].line, left |-> Output,
                       stdin |-> stdin]
    BY <2>1, <2>2 DEF Child
  <2>4. s \in 0 .. Slots /\ proc[i][s].line \in 0 .. Lines /\ Output \in 0 .. Output
    BY Fields DEF Slot
  <2>. QED
    BY <2>3, <2>4 DEF Record, Stage
<1>5. proc \in [Input -> [Slot -> Record]]
  BY ShellTypes
<1>6. PICK r : r = [proc[i][s] EXCEPT !.st = "waiting"]
  OBVIOUS
<1>7. r \in Record /\ r.st = "waiting" /\ r.up = proc[i][s].up /\ r.line = proc[i][s].line
  BY <1>5, <1>6 DEF Record, Stage
<1>8. proc' = [proc EXCEPT ![i][s] = r, ![i][t] = Child(i, s)]
  BY <1>2, <1>5, <1>6
<1>9. /\ proc' \in [Input -> [Slot -> Record]]
      /\ proc'[i][s] = r /\ proc'[i][t] = Child(i, s)
      /\ \A j \in Input, u \in Slot : (j # i \/ (u # s /\ u # t)) => proc'[j][u] = proc[j][u]
  BY <1>3, <1>4, <1>5, <1>7, <1>8
<1>a. Awake(i, s) /\ ~ Awake(i, s)'
  BY <1>1, <1>7, <1>9 DEF Awake, St
<1>b. proc'[i][1].up = 0 /\ St(i, 1)' \notin Running \union {"free"}
  <2>1. proc[i][1].up = 0 /\ St(i, 1) \notin Running
    BY DEF ShellInv, FirstStays, Running
  <2>2. CASE s = 1
    BY <1>7, <1>9, <2>1, <2>2 DEF St, Running
  <2>3. CASE s # 1
    BY <1>3, <1>9, <2>1, <2>3 DEF St
  <2>. QED
    BY <2>2, <2>3
<1>c. next[i][s] \in 1 .. Lines + 1 /\ next'[i][s] = next[i][s] /\ next'[i][t] = next[i][s]
  BY <1>2, <1>3, ShellTypes
<1>d. (i \notin Buffered \/ Variant[i] # "fork") => next[i][s] = next[i][1]
  BY Shared
<1>e. /\ proc[i][s].line < next[i][s]
      /\ s # 1 => \E k \in forgotten[i] : k < next[i][s]
  BY <1>1, Fields DEF HasLineTaken, Shelling
<1>f. <<i, s>> \notin ends /\ <<i, t>> \notin ends
  BY <1>1, <1>2, ShellTypes
<1>g. ASSUME NEW u \in {s, t}
      PROVE  /\ St(i, u)' \in HasLineTaken => proc'[i][u].line < next'[i][u]
             /\ (u # 1 /\ St(i, u)' \in Shelling) => \E k \in forgotten[i] : k < next'[i][u]
  <2>1. CASE u = s
    BY <1>7, <1>9, <1>c, <1>e, <2>1
  <2>2. CASE u = t
    BY <1>4, <1>9, <1>c, <1>e, <2>2 DEF St, Shelling
  <2>. QED
    BY <2>1, <2>2
<1>h. TurnPasses(i, s, t, next[i][s])
  BY <1>1, <1>2, <1>3, <1>9, <1>a, <1>b, <1>c, <1>d, <1>f, <1>g DEF TurnPasses
<1>. QED
  BY <1>h, TurnPassesKeeps

LEMMA WaitKeeps ==
    ASSUME ShellInv, NEW i \in Input, NEW s \in Slot, Wait(i, s) PROVE ShellInv'
<1>. USE Bounds
<1>1. PICK t \in Slot, to \in {"undefined", "reading"} :
         /\ St(i, t) = "exited" /\ proc[i][t].up = s
         /\ proc' = [proc EXCEPT ![i][t] = Free, ![i][s].st = to]
  BY DEF Wait
<1>2. St(i, s) = "waiting" /\ UNCHANGED <<next, ends, pipe, taken, failures, forgotten>>
  BY DEF Wait
<1>3. s # t /\ t # 1 /\ St(i, 1) # "free" /\ s # 0
  BY <1>1, <1>2 DEF ShellInv, FirstStays
<1>4. proc \in [Input -> [Slot -> Record]]
  BY ShellTypes
<1>5. PICK r : r = [proc[i][s] EXCEPT !.st = to]
  OBVIOUS
<1>6. r \in Record /\ r.st = to /\ r.up = proc[i][s].up
  <2>1. proc[i][s] \in Record /\ to \in Stage
    BY <1>4 DEF Stage
  <2>. QED
    BY <2>1, <1>5 DEF Record
<1>7. Free \in Record /\ Free.st = "free"
  BY DEF Free, Record, Stage
<1>8. proc' = [proc EXCEPT ![i][t] = Free, ![i][s] = r]
  BY <1>1, <1>3, <1>4, <1>5
<1>9. /\ proc' \in [Input -> [Slot -> Record]]
      /\ proc'[i][s] = r /\ proc'[i][t] = Free
      /\ \A j \in Input, u \in Slot : (j # i \/ (u # t /\ u # s)) => proc'[j][u] = proc[j][u]
  BY <1>3, <1>4, <1>6, <1>7, <1>8
<1>a. Awake(i, t) /\ ~ Awake(i, t)'
  BY <1>1, <1>7, <1>9 DEF Awake, St
<1>b. proc'[i][1].up = 0 /\ St(i, 1)' \notin Running \union {"free"}
  <2>1. proc[i][1].up = 0 /\ St(i, 1) \notin Running
    BY DEF ShellInv, FirstStays, Running
  <2>2. CASE s = 1
    BY <1>6, <1>9, <2>1, <2>2 DEF St, Running
  <2>3. CASE s # 1
    BY <1>3, <1>9, <2>1, <2>3 DEF St
  <2>. QED
    BY <2>2, <2>3
<1>c. next[i][s] \in 1 .. Lines + 1 /\ next' = [next EXCEPT ![i][s] = next[i][s]]
  BY <1>2, ShellTypes
<1>d. (i \notin Buffered \/ Variant[i] # "fork") => next[i][s] = next[i][1]
  BY Shared
<1>e. s # 1 => \E k \in forgotten[i] : k < next[i][s]
  BY <1>2, Fields DEF Shelling
<1>f. <<i, s>> \notin ends /\ <<i, t>> \notin ends
  BY <1>1, <1>2, ShellTypes
<1>g. ASSUME NEW u \in {t, s}
      PROVE  /\ St(i, u)' \in HasLineTaken => proc'[i][u].line < next'[i][u]
             /\ (u # 1 /\ St(i, u)' \in Shelling) => \E k \in forgotten[i] : k < next'[i][u]
  <2>1. CASE u = s
    BY <1>2, <1>6, <1>9, <1>e, <2>1 DEF St, HasLineTaken
  <2>2. CASE u = t
    BY <1>7, <1>9, <2>2 DEF St, Shelling, HasLineTaken
  <2>. QED
    BY <2>1, <2>2
<1>h. TurnPasses(i, t, s, next[i][s])
  BY <1>1, <1>2, <1>3, <1>9, <1>a, <1>b, <1>c, <1>d, <1>f, <1>g DEF TurnPasses
<1>. QED
  BY <1>h, TurnPassesKeeps

\* When the two ends of the pipe meet, all who wait at the other one go on.
LEMMA MeetingKeeps ==
    ASSUME ShellInv, NEW meet \in SUBSET (Input \X Slot),
           \A j \in Input, t \in Slot : <<j, t>> \in meet => St(j, t) \in {"open", "opening"},
           ends' = ends \union meet,
           proc' = [j \in Input |-> [t \in Slot |->
                      IF <<j, t>> \in meet THEN [proc[j][t] EXCEPT !.st = "exec"] ELSE proc[j][t]]],
           UNCHANGED <<next, pipe, taken, failures, forgotten>>
    PROVE  ShellInv'
<1>. USE Bounds
<1>1. ASSUME NEW j \in Input, NEW t \in Slot
      PROVE  /\ proc'[j][t] \in Record /\ proc'[j][t].up = proc[j][t].up
             /\ proc'[j][t].line = proc[j][t].line
             /\ St(j, t)' = IF <<j, t>> \in meet THEN "exec" ELSE St(j, t)
  <2>1. proc[j][t] \in Record
    BY ShellTypes
  <2>2. proc'[j][t] = IF <<j, t>> \in meet THEN [proc[j][t] EXCEPT !.st = "exec"] ELSE proc[j][t]
    OBVIOUS
  <2>. QED
    BY <2>1, <2>2 DEF Record, Stage, St
<1>2. proc' \in [Input -> [Slot -> Record]]
  <2>1. ASSUME NEW j \in Input PROVE proc'[j] \in [Slot -> Record]
    BY <1>1
  <2>. QED
    BY <2>1
<1>3. \A j \in Input, t \in Slot : Awake(j, t)' = Awake(j, t)
  BY <1>1 DEF Awake
<1>4. \A j \in Input : <<j, 1>> \notin meet
  BY DEF ShellInv, FirstStays
<1>5. ShellTypeOK'
  <2>1. ends' \subseteq {e \in Input \X Slot : St(e[1], e[2])' \in {"exec", "command"}}
    <3>1. ASSUME NEW e \in ends' PROVE e \in Input \X Slot /\ St(e[1], e[2])' \in {"exec", "command"}
      <4>1. e \in Input \X Slot /\ (e \notin meet => St(e[1], e[2]) \in {"exec", "command"})
        BY DEF ShellInv, ShellTypeOK
      <4>2. e[1] \in Input /\ e[2] \in Slot /\ e = <<e[1], e[2]>>
        BY <4>1
      <4>. QED
        BY <4>1, <4>2, <1>1
    <3>. QED
      BY <3>1
  <2>. QED
    BY <1>2, <2>1, ShellTypes DEF ShellTypeOK, Record, Stage
<1>6. OneIsAwake'
  BY <1>3 DEF ShellInv, OneIsAwake
<1>7. FirstStays'
  <2>1. ASSUME NEW j \in Input
        PROVE  /\ proc'[j][1].up = 0 /\ St(j, 1)' \notin {"open", "opening", "exec", "command"}
               /\ St(j, 1)' = "free" => \A t \in Slot : St(j, t)' = "free"
    <3>1. /\ proc[j][1].up = 0 /\ St(j, 1) \notin {"open", "opening", "exec", "command"}
          /\ St(j, 1) = "free" => \A t \in Slot : St(j, t) = "free"
      BY DEF ShellInv, FirstStays
    <3>2. St(j, 1)' = St(j, 1) /\ proc'[j][1].up = proc[j][1].up
      BY <1>1, <1>4
    <3>3. St(j, 1)' = "free" => \A t \in Slot : St(j, t)' = "free"
      BY <1>1, <3>1, <3>2
    <3>. QED
      BY <3>1, <3>2, <3>3
  <2>. QED
    BY <2>1 DEF FirstStays
<1>8. PastItsLine'
  <2>1. ASSUME NEW j \in Input, NEW t \in Slot
        PROVE  /\ St(j, t)' \in HasLineTaken => proc'[j][t].line < next'[j][t]
               /\ (t # 1 /\ St(j, t)' \in Shelling) => \E k \in forgotten'[j] : k < next'[j][t]
    <3>1. CASE <<j, t>> \in meet
      BY <1>1, <3>1, Fields DEF HasLineTaken, Shelling
    <3>2. CASE <<j, t>> \notin meet
      BY <1>1, <3>2, Fields
    <3>. QED
      BY <3>1, <3>2
  <2>. QED
    BY <2>1 DEF PastItsLine, HasLineTaken, Shelling
<1>9. LinesAgree'
  BY DEF ShellInv, LinesAgree
<1>. QED
  BY <1>5, <1>6, <1>7, <1>8, <1>9 DEF ShellInv

LEMMA OpenKeeps ==
    ASSUME ShellInv, NEW i \in Input, NEW s \in Slot, Open(i, s) PROVE ShellInv'
<1>1. St(i, s) = "open" /\ UNCHANGED <<next, pipe, taken, failures, forgotten>>
  BY DEF Open
<1>2. PICK waiting : waiting = {e \in Input \X Slot :
         St(e[1], e[2]) = "opening" /\ PipeEnd[e[1]] = Other(PipeEnd[i])}
  OBVIOUS
<1>3. CASE Become(i, s, "opening") /\ UNCHANGED ends
  <2>1. <<i, s>> \notin ends /\ s # 1
    BY <1>1, ShellTypes, RunningIsLater DEF Running
  <2>2. /\ forgotten \in [Input -> SUBSET (0 .. Lines)] /\ failures \in 0 .. MaxFailures
        /\ pipe \in 0 .. Capacity
    BY ShellTypes
  <2>3. StageMoves(i, s, "opening")
    BY <1>1, <1>3, <2>1, <2>2
       DEF StageMoves, Become, Stage, Running, HasLineTaken, Shelling, Awake
  <2>. QED
    BY <2>3, StageMovesKeep
<1>4. CASE /\ ends' = ends \union waiting \union {<<i, s>>}
           /\ proc' = [j \in Input |-> [t \in Slot |->
                          IF <<j, t>> \in waiting \union {<<i, s>>}
                          THEN [proc[j][t] EXCEPT !.st = "exec"] ELSE proc[j][t]]]
  <2>1. PICK meet : meet = waiting \union {<<i, s>>}
    OBVIOUS
  <2>2. meet \in SUBSET (Input \X Slot)
    BY <1>2, <2>1
  <2>3. \A j \in Input, t \in Slot : <<j, t>> \in meet => St(j, t) \in {"open", "opening"}
    BY <1>1, <1>2, <2>1
  <2>4. ends' = ends \union meet
    BY <1>4, <2>1
  <2>5. proc' = [j \in Input |-> [t \in Slot |->
                    IF <<j, t>> \in meet THEN [proc[j][t] EXCEPT !.st = "exec"] ELSE proc[j][t]]]
    BY <1>4, <2>1
  <2>. QED
    BY <1>1, <2>2, <2>3, <2>4, <2>5, MeetingKeeps
<1>. QED
  BY <1>2, <1>3, <1>4 DEF Open

LEMMA NextKeeps == ShellInv /\ [Next]_vars => ShellInv'
<1>. SUFFICES ASSUME ShellInv, [Next]_vars PROVE ShellInv'
  OBVIOUS
<1>1. ASSUME NEW i \in Input, NEW s \in Slot, SystemStep(i, s) PROVE ShellInv'
  BY <1>1, ForkKeeps, ForkFailsKeeps, OpenKeeps, OpenFailsKeeps, ExecKeeps, ExecFailsKeeps,
     WaitKeeps, WriteOutputKeeps, ReadInputKeeps, CommandEndsKeeps DEF SystemStep
<1>2. ASSUME NEW i \in Input, NEW s \in Slot, Read(i, s) PROVE ShellInv'
  BY <1>2, ReadLineKeeps, ReadNothingKeeps DEF Read
<1>3. ASSUME NEW i \in Input, NEW s \in Slot, ReaderLeaves(i, s) PROVE ShellInv'
  BY <1>3, CommandEndsKeeps
<1>. QED
  BY <1>1, <1>2, <1>3, StutterKeeps DEF Next

-----------------------------------------------------------------------------
\* The inductive invariant of the shells: one process of an input is awake, the first
\* shell stays, every process is past the line it runs, and what was taken agrees with
\* where the first shell is.
THEOREM ShellInvariant == Spec => []ShellInv
<1>. QED
  BY InitInv, NextKeeps, PTL DEF Spec

\* The types; and a process that holds an end of the pipe runs a command, or is about to.
THEOREM ShellTypeCorrect == Spec => []ShellTypeOK
<1>1. ShellInv => ShellTypeOK
  BY DEF ShellInv
<1>. QED
  BY <1>1, ShellInvariant, PTL

\* However many shells forked out of each other, one process of an input is active at a
\* time: my_system of every other one is in its wait.
THEOREM OneAtATime == Spec => []OneIsActive
<1>1. ASSUME ShellInv PROVE OneIsActive
  <2>1. ASSUME NEW i \in Input
        PROVE  Cardinality({s \in Slot : St(i, s) \notin {"free", "waiting", "exited", "undefined"}}) <= 1
    <3>1. PICK A : A = {s \in Slot : St(i, s) \notin {"free", "waiting", "exited", "undefined"}}
      OBVIOUS
    <3>2. CASE A = {}
      BY <3>1, <3>2, FS_EmptySet
    <3>3. CASE A # {}
      <4>1. PICK s : s \in A
        BY <3>3
      <4>2. A = {s}
        BY <1>1, <3>1, <4>1 DEF ShellInv, OneIsAwake, Awake
      <4>. QED
        BY <3>1, <4>2, FS_Singleton
    <3>. QED
      BY <3>2, <3>3
  <2>. QED
    BY <2>1 DEF OneIsActive
<1>. QED
  BY <1>1, ShellInvariant, PTL

\* Without a failed exec before it no line is taken twice; with one, only from a file, by
\* shells with fork, whose buffers both have the rest of the file.
THEOREM NoLineTwice == Spec => []LinesAreTakenOnce
<1>1. ASSUME ShellInv PROVE LinesAreTakenOnce
  <2>1. ASSUME NEW i \in Input, NEW l \in Line, taken[i][l] > 1
        PROVE  /\ i \in Buffered /\ Variant[i] = "fork"
               /\ \E k \in forgotten[i] : k < l
    <3>1. taken[i][l] \in Nat /\ l \in Int /\ forgotten[i] \subseteq Int
      BY <1>1, ShellTypes, Fields, Bounds
    <3>2. ~ (i \notin Buffered \/ Variant[i] # "fork" \/ \A k \in forgotten[i] : k >= l)
      BY <1>1, <2>1, <3>1 DEF ShellInv, LinesAgree
    <3>. QED
      BY <3>1, <3>2
  <2>. QED
    BY <2>1 DEF LinesAreTakenOnce
<1>. QED
  BY <1>1, ShellInvariant, PTL
=============================================================================
