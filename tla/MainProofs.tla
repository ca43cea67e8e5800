----------------------------- MODULE MainProofs -----------------------------
(***************************************************************************)
(* Theorems about main.c, first the compilations of Driver, for every      *)
(* number of them, of process numbers and for both builds: a compilation   *)
(* that reports success has written its own program, and none fails        *)
(* because of another. Then the command line of Options, for every set of  *)
(* words and every length: what main goes on with is what the words say.   *)
(***************************************************************************)
EXTENDS Driver, Options, WellFoundedInduction, TLAPS

-----------------------------------------------------------------------------
(* The inductive invariant. Two live processes have different numbers, so  *)
(* the temporary file of a process holds its own text from the moment it   *)
(* was written to the moment it is removed; what its child builds from it  *)
(* is therefore its own program. Of a process that was killed nothing is   *)
(* claimed: its child may find the file of a later process of that number. *)

LivePids == \A p, q \in Procs : Live(p) /\ Live(q) /\ pid[p] = pid[q] => p = q

\* The text in f is that of p, whole unless a write of p was cut short.
Holds(p, f) == disk[f].of = p /\ (disk[f].whole \/ (fault[p] /\ WritesText(p)))

Handing(p)  == pc[p] \in {"fork", "wait"}

Own(p) ==
    /\ Handing(p) => Holds(p, TempPath(p))
    /\ pc[p] = "wait" /\ child[p] = "ok" => Holds(p, OutPath(p))
    /\ pc[p] = "wait" /\ child[p] = "failed" => fault[p]
    /\ pc[p] = "wait" => child[p] # "none"
    /\ pc[p] = "write" => WritesText(p)
    /\ pc[p] \in {"emit", "write", "fork", "wait"} => mode[p] # "list"
    /\ status[p] = "0" /\ mode[p] # "list" => Holds(p, OutPath(p))
    /\ status[p] = "1" => fault[p]

IInv == TypeOK /\ LivePids /\ \A p \in Procs : Own(p)

\* What the steps of another process leave alone of q.
Untouched(q) ==
    /\ pc'[q] = pc[q] /\ mode'[q] = mode[q] /\ pid'[q] = pid[q]
    /\ status'[q] = status[q] /\ child'[q] = child[q] /\ fault'[q] = fault[q]
    /\ disk'[OutPath(q)] = disk[OutPath(q)]
    /\ Handing(q) => disk'[TempPath(q)] = disk[TempPath(q)]

\* The files p may write while it lives.
OnlyFilesOf(p) == \A f \in Paths : f # OutPath(p) /\ f # TempPath(p) => disk'[f] = disk[f]

\* The process p makes a step, and the others stand still.
OthersStand(p) ==
    \A q \in Procs \ {p} :
        /\ pc'[q] = pc[q] /\ mode'[q] = mode[q] /\ pid'[q] = pid[q]
        /\ status'[q] = status[q] /\ child'[q] = child[q] /\ fault'[q] = fault[q]

-----------------------------------------------------------------------------
LEMMA PathsDisjoint ==
    /\ \A p \in Procs : OutPath(p) \in Paths
    /\ \A p \in Procs, n \in Pids : OutPath(p) # <<"tmp", n>>
    /\ \A p, q \in Procs : OutPath(p) = OutPath(q) => p = q
    /\ \A n \in Pids : <<"tmp", n>> \in Paths
  BY DEF OutPath, Paths

LEMMA InitInv == Init => IInv
<1> SUFFICES ASSUME Init PROVE IInv
  OBVIOUS
<1>1. TypeOK
  BY DEF Init, TypeOK, Contents, Absent
<1>2. LivePids
  BY DEF Init, LivePids, Live
<1>3. \A p \in Procs : Own(p)
  BY DEF Init, Own, Handing
<1> QED
  BY <1>1, <1>2, <1>3 DEF IInv

\* Where a process writes, and what it puts there, are in range.
LEMMA WritesTyped ==
  ASSUME TypeOK, NEW p \in Procs, NEW whole \in BOOLEAN
  PROVE  /\ Target(p) \in Paths /\ TempPath(p) \in Paths /\ OutPath(p) \in Paths
         /\ Target(p) = OutPath(p) \/ Target(p) = TempPath(p)
         /\ [of |-> p, whole |-> whole] \in Contents /\ Absent \in Contents
         /\ [disk EXCEPT ![Target(p)] = [of |-> p, whole |-> whole]] \in [Paths -> Contents]
         /\ [disk EXCEPT ![TempPath(p)] = Absent] \in [Paths -> Contents]
<1>1. /\ Target(p) \in Paths /\ TempPath(p) \in Paths /\ OutPath(p) \in Paths
      /\ Target(p) = OutPath(p) \/ Target(p) = TempPath(p)
  BY PathsDisjoint DEF TypeOK, TempPath, Target
<1>2. [of |-> p, whole |-> whole] \in Contents /\ Absent \in Contents
  BY DEF Contents, Absent
<1>3. disk \in [Paths -> Contents]
  BY DEF TypeOK
<1> QED
  BY <1>1, <1>2, <1>3

\* A process nothing happened to keeps what was known of it.
LEMMA OwnFrame == ASSUME NEW q \in Procs, Own(q), Untouched(q) PROVE Own(q)'
  BY DEF Own, Untouched, Handing, Holds, TempPath, OutPath, WritesText

\* A live process writes only files that no other hands on.
LEMMA OthersUntouched ==
  ASSUME IInv, NEW p \in Procs, OthersStand(p), OnlyFilesOf(p), Live(p),
         NEW q \in Procs \ {p}
  PROVE  Untouched(q)
<1>1. disk'[OutPath(q)] = disk[OutPath(q)]
  <2>1. OutPath(q) \in Paths /\ OutPath(q) # OutPath(p)
    BY PathsDisjoint
  <2>2. pid[p] \in Pids /\ TempPath(p) = <<"tmp", pid[p]>>
    BY DEF IInv, TypeOK, TempPath
  <2>3. OutPath(q) # TempPath(p)
    BY <2>2, PathsDisjoint
  <2> QED
    BY <2>1, <2>3 DEF OnlyFilesOf
<1>2. ASSUME Handing(q) PROVE disk'[TempPath(q)] = disk[TempPath(q)]
  <2>1. Live(q)
    BY <1>2 DEF Handing, Live
  <2>2. pid[q] # pid[p] /\ pid[p] \in Pids /\ pid[q] \in Pids
    BY <2>1 DEF IInv, LivePids, TypeOK
  <2>3. TempPath(q) # TempPath(p) /\ TempPath(q) \in Paths /\ TempPath(q) # OutPath(p)
    BY <2>2, PathsDisjoint DEF TempPath
  <2> QED
    BY <2>3 DEF OnlyFilesOf
<1> QED
  BY <1>1, <1>2 DEF Untouched, OthersStand

\* A live process that steps without taking a new number keeps numbers apart.
LEMMA PidsKept ==
  ASSUME IInv, NEW p \in Procs, OthersStand(p), Live(p), pid'[p] = pid[p]
  PROVE  LivePids'
  BY DEF IInv, LivePids, Live, OthersStand

\* It is enough to look at the process that steps.
LEMMA StepOfOne ==
  ASSUME IInv, NEW p \in Procs, OthersStand(p), OnlyFilesOf(p), Live(p), pid'[p] = pid[p],
         TypeOK', Own(p)'
  PROVE  IInv'
<1>1. ASSUME NEW q \in Procs \ {p} PROVE Own(q)'
  BY OthersUntouched, OwnFrame DEF IInv
<1>2. LivePids'
  BY PidsKept
<1> QED
  BY <1>1, <1>2 DEF IInv

LEMMA CompileInv == ASSUME IInv, NEW p \in Procs, Compile(p) PROVE IInv'
<1> USE DEF Exit, GoTo, Fault
<1>1. Live(p) /\ pid'[p] = pid[p] /\ OthersStand(p)
  BY DEF Compile, Live, OthersStand, IInv, TypeOK
<1>2. OnlyFilesOf(p)
  BY DEF Compile, OnlyFilesOf
<1>3. TypeOK'
  <2>1. CASE mode[p] = "list"
    BY <2>1 DEF Compile, IInv, TypeOK
  <2>2. CASE mode[p] # "list"
    BY <2>2 DEF Compile, IInv, TypeOK
  <2> QED
    BY <2>1, <2>2
<1>4. Own(p)'
  BY DEF Compile, IInv, TypeOK, Own, Handing, Holds, TempPath, OutPath, WritesText, Direct, Modes
<1> QED
  BY <1>1, <1>2, <1>3, <1>4, StepOfOne

LEMMA DieInv == ASSUME IInv, NEW p \in Procs, Die(p) PROVE IInv'
<1> USE DEF Exit, GoTo, Fault
<1>1. Live(p) /\ pid'[p] = pid[p] /\ OthersStand(p)
  BY DEF Die, Live, OthersStand, IInv, TypeOK
<1>2. OnlyFilesOf(p)
  BY DEF Die, OnlyFilesOf
<1>3. TypeOK'
  BY DEF Die, IInv, TypeOK
<1>4. Own(p)'
  BY DEF Die, IInv, TypeOK, Own, Handing, Holds, TempPath, OutPath, WritesText, Direct, Modes
<1> QED
  BY <1>1, <1>2, <1>3, <1>4, StepOfOne

LEMMA OpenTextInv == ASSUME IInv, NEW p \in Procs, OpenText(p) PROVE IInv'
<1> USE DEF Exit, GoTo, Fault
<1>1. Live(p) /\ pid'[p] = pid[p] /\ OthersStand(p)
  BY DEF OpenText, Live, OthersStand, IInv, TypeOK
<1>2. OnlyFilesOf(p)
  BY PathsDisjoint DEF OpenText, OnlyFilesOf, IInv, TypeOK, Target
<1>3. TypeOK'
  <2>1. disk' \in [Paths -> Contents]
    BY WritesTyped DEF OpenText, IInv, TypeOK
  <2> QED
    BY <2>1 DEF OpenText, IInv, TypeOK
<1>4. Own(p)'
  BY PathsDisjoint DEF OpenText, IInv, TypeOK, Own, Handing, Holds, TempPath, WritesText, Target, Direct, Modes
<1> QED
  BY <1>1, <1>2, <1>3, <1>4, StepOfOne

LEMMA OpenFailsInv == ASSUME IInv, NEW p \in Procs, OpenFails(p) PROVE IInv'
<1> USE DEF Exit, GoTo, Fault
<1>1. Live(p) /\ pid'[p] = pid[p] /\ OthersStand(p)
  BY DEF OpenFails, Live, OthersStand, IInv, TypeOK
<1>2. OnlyFilesOf(p)
  BY DEF OpenFails, OnlyFilesOf
<1>3. TypeOK'
  BY DEF OpenFails, IInv, TypeOK
<1>4. Own(p)'
  BY DEF OpenFails, IInv, TypeOK, Own, Handing, Holds, TempPath, OutPath, WritesText, Direct, Modes
<1> QED
  BY <1>1, <1>2, <1>3, <1>4, StepOfOne

LEMMA WriteTextInv == ASSUME IInv, NEW p \in Procs, WriteText(p) PROVE IInv'
<1> USE DEF Exit, GoTo, Fault
<1>1. Live(p) /\ pid'[p] = pid[p] /\ OthersStand(p)
  BY DEF WriteText, Live, OthersStand, IInv, TypeOK
<1>2. OnlyFilesOf(p)
  BY PathsDisjoint DEF WriteText, OnlyFilesOf, IInv, TypeOK, Target
<1>3. PICK whole \in BOOLEAN :
         /\ disk' = [disk EXCEPT ![Target(p)] = [of |-> p, whole |-> whole]]
         /\ fault' = [fault EXCEPT ![p] = ~whole]
  BY DEF WriteText
<1>5. TypeOK'
  <2>1. disk' \in [Paths -> Contents]
    BY <1>3, WritesTyped DEF IInv
  <2>2. fault' \in [Procs -> BOOLEAN]
    BY <1>3 DEF IInv, TypeOK
  <2>3. CASE mode[p] = "ir"
    BY <2>1, <2>2, <2>3 DEF WriteText, IInv, TypeOK
  <2>4. CASE mode[p] # "ir"
    BY <2>1, <2>2, <2>4 DEF WriteText, IInv, TypeOK
  <2> QED
    BY <2>3, <2>4
<1>4. Own(p)'
  <2>1. disk'[Target(p)].of = p /\ (disk'[Target(p)].whole \/ fault'[p])
    <3>1. disk'[Target(p)] = [of |-> p, whole |-> whole] /\ fault'[p] = ~whole
      BY <1>3, WritesTyped DEF IInv, TypeOK
    <3>2. disk'[Target(p)].of = p /\ disk'[Target(p)].whole = whole
      BY <3>1
    <3> QED
      BY <3>1, <3>2, Zenon
  <2>2. WritesText(p) /\ pc[p] = "write" /\ status[p] = "none" /\ child[p] = "none"
    BY DEF WriteText, IInv, TypeOK, Own
  <2>3. CASE mode[p] = "ir"
    <3>1. Target(p) = OutPath(p) /\ OutPath(p)' = OutPath(p)
      BY <2>3 DEF Target, Direct, OutPath
    <3>2. pc'[p] = "done" /\ status'[p] = "0"
      BY <2>3 DEF WriteText, IInv, TypeOK
    <3>4. WritesText(p)'
      BY <2>2 DEF WritesText, WriteText
    <3>3. Holds(p, OutPath(p))'
      BY <2>1, <3>1, <3>4 DEF Holds, OutPath
    <3> QED
      BY <3>2, <3>3 DEF Own, Handing
  <2>4. CASE mode[p] # "ir"
    <3>1. Target(p) = TempPath(p) /\ TempPath(p)' = TempPath(p)
      BY <2>2, <2>4 DEF Target, Direct, TempPath, WriteText, WritesText
    <3>2. pc'[p] = "fork" /\ status'[p] = "none"
      BY <2>2, <2>4 DEF WriteText, IInv, TypeOK
    <3>4. WritesText(p)'
      BY <2>2 DEF WritesText, WriteText
    <3>3. Holds(p, TempPath(p))'
      BY <2>1, <3>1, <3>4 DEF Holds
    <3>5. mode'[p] # "list" /\ child'[p] = "none"
      BY <2>2 DEF WriteText, IInv, Own
    <3> QED
      BY <3>2, <3>3, <3>5 DEF Own, Handing
  <2> QED
    BY <2>3, <2>4
<1> QED
  BY <1>1, <1>2, <1>5, <1>4, StepOfOne

LEMMA EmitObjectInv == ASSUME IInv, NEW p \in Procs, EmitObject(p) PROVE IInv'
<1> USE DEF Exit, GoTo, Fault
<1>1. Live(p) /\ pid'[p] = pid[p] /\ OthersStand(p)
  BY DEF EmitObject, Live, OthersStand, IInv, TypeOK
<1>2. OnlyFilesOf(p)
  BY PathsDisjoint DEF EmitObject, OnlyFilesOf, IInv, TypeOK, Target
<1>3. TypeOK'
  <2>1. disk' \in [Paths -> Contents]
    BY WritesTyped DEF EmitObject, IInv
  <2>2. CASE mode[p] = "object"
    BY <2>1, <2>2 DEF EmitObject, IInv, TypeOK
  <2>3. CASE mode[p] # "object"
    BY <2>1, <2>3 DEF EmitObject, IInv, TypeOK
  <2> QED
    BY <2>2, <2>3
<1>4. Own(p)'
  BY PathsDisjoint DEF EmitObject, IInv, TypeOK, Own, Handing, Holds, TempPath, WritesText, Target, Direct, Modes
<1> QED
  BY <1>1, <1>2, <1>3, <1>4, StepOfOne

LEMMA EmitFailsInv == ASSUME IInv, NEW p \in Procs, EmitFails(p) PROVE IInv'
<1> USE DEF Exit, GoTo, Fault
<1>1. Live(p) /\ pid'[p] = pid[p] /\ OthersStand(p)
  BY DEF EmitFails, Live, OthersStand, IInv, TypeOK
<1>2. OnlyFilesOf(p)
  BY PathsDisjoint DEF EmitFails, OnlyFilesOf, IInv, TypeOK, Target
<1>3. TypeOK'
  <2>1. disk' \in [Paths -> Contents]
    BY WritesTyped DEF EmitFails, IInv, TypeOK
  <2> QED
    BY <2>1 DEF EmitFails, IInv, TypeOK
<1>4. Own(p)'
  BY PathsDisjoint DEF EmitFails, IInv, TypeOK, Own, Handing, Holds, TempPath, WritesText, Target, Direct, Modes
<1> QED
  BY <1>1, <1>2, <1>3, <1>4, StepOfOne

LEMMA ForkInv == ASSUME IInv, NEW p \in Procs, Fork(p) PROVE IInv'
<1> USE DEF Exit, GoTo, Fault
<1>1. Live(p) /\ pid'[p] = pid[p] /\ OthersStand(p)
  BY DEF Fork, Live, OthersStand, IInv, TypeOK
<1>2. OnlyFilesOf(p)
  BY DEF Fork, OnlyFilesOf
<1>3. TypeOK'
  BY DEF Fork, IInv, TypeOK
<1>4. Own(p)'
  BY DEF Fork, IInv, TypeOK, Own, Handing, Holds, TempPath, OutPath, WritesText, Direct, Modes
<1> QED
  BY <1>1, <1>2, <1>3, <1>4, StepOfOne

LEMMA ForkFailsInv == ASSUME IInv, NEW p \in Procs, ForkFails(p) PROVE IInv'
<1> USE DEF Exit, GoTo, Fault, Unlinked, AfterForkFailed
<1>1. Live(p) /\ pid'[p] = pid[p] /\ OthersStand(p)
  BY DEF ForkFails, Live, OthersStand, IInv, TypeOK
<1>2. OnlyFilesOf(p)
  BY PathsDisjoint DEF ForkFails, OnlyFilesOf, IInv, TypeOK, Target
<1>3. TypeOK'
  <2>1. disk' \in [Paths -> Contents]
    BY WritesTyped DEF ForkFails, IInv, TypeOK
  <2> QED
    BY <2>1 DEF ForkFails, IInv, TypeOK
<1>4. Own(p)'
  BY PathsDisjoint DEF ForkFails, IInv, TypeOK, Own, Handing, Holds, TempPath, WritesText, Target, Direct, Modes
<1> QED
  BY <1>1, <1>2, <1>3, <1>4, StepOfOne

LEMMA WaitInv == ASSUME IInv, NEW p \in Procs, Wait(p) PROVE IInv'
<1> USE DEF Exit, GoTo, Fault, Unlinked, AfterForkFailed
<1>1. Live(p) /\ pid'[p] = pid[p] /\ OthersStand(p)
  BY DEF Wait, Live, OthersStand, IInv, TypeOK
<1>2. OnlyFilesOf(p)
  BY PathsDisjoint DEF Wait, OnlyFilesOf, IInv, TypeOK, Target
<1>3. TypeOK'
  <2>1. disk' \in [Paths -> Contents]
    BY WritesTyped DEF Wait, IInv
  <2>2. child[p] # "running"
    BY DEF Wait, ChildEnded
  <2>3. CASE child[p] = "failed"
    BY <2>1, <2>2, <2>3 DEF Wait, IInv, TypeOK
  <2>4. CASE child[p] # "failed"
    BY <2>1, <2>2, <2>4 DEF Wait, IInv, TypeOK
  <2> QED
    BY <2>3, <2>4
<1>4. Own(p)'
  <2>1. pc[p] = "wait" /\ Own(p) /\ child[p] \in {"ok", "failed"}
    BY DEF Wait, ChildEnded, IInv, TypeOK, Own
  <2>2. pc'[p] = "done" /\ fault'[p] = fault[p]
    BY DEF Wait, IInv, TypeOK
  <2>3. CASE child[p] = "failed"
    <3>1. status'[p] = "1"
      BY <2>3 DEF Wait, IInv, TypeOK
    <3> QED
      BY <2>1, <2>2, <2>3, <3>1 DEF Own, Handing
  <2>4. CASE child[p] = "ok"
    <3>1. status'[p] = "0"
      BY <2>4 DEF Wait, IInv, TypeOK
    <3>2. OutPath(p) # TempPath(p) /\ OutPath(p) \in Paths
      BY PathsDisjoint DEF TempPath, IInv, TypeOK
    <3>3. disk'[OutPath(p)] = disk[OutPath(p)]
      BY <3>2 DEF Wait, IInv, TypeOK
    <3>4. Holds(p, OutPath(p))'
      BY <2>1, <2>4, <3>3 DEF Own, Holds, OutPath, WritesText, Wait
    <3> QED
      BY <2>2, <3>1, <3>4 DEF Own, Handing
  <2> QED
    BY <2>1, <2>3, <2>4
<1> QED
  BY <1>1, <1>2, <1>3, <1>4, StepOfOne

LEMMA KillInv == ASSUME IInv, NEW p \in Procs, Kill(p) PROVE IInv'
<1> USE DEF Exit, GoTo, Fault
<1>1. Live(p) /\ pid'[p] = pid[p] /\ OthersStand(p)
  BY DEF Kill, Live, OthersStand, IInv, TypeOK
<1>2. OnlyFilesOf(p)
  BY DEF Kill, OnlyFilesOf
<1>3. TypeOK'
  BY DEF Kill, IInv, TypeOK
<1>4. Own(p)'
  BY DEF Kill, IInv, TypeOK, Own, Handing, Holds, TempPath, OutPath, WritesText, Direct, Modes
<1> QED
  BY <1>1, <1>2, <1>3, <1>4, StepOfOne

\* The start takes a number that no live process has.
LEMMA StartInv == ASSUME IInv, NEW p \in Procs, Start(p) PROVE IInv'
<1> USE DEF GoTo
<1>1. TypeOK'
  BY DEF Start, IInv, TypeOK
<1>2. LivePids'
  BY DEF Start, IInv, TypeOK, LivePids, Live
<1>3. ASSUME NEW q \in Procs PROVE Own(q)'
  <2>1. CASE q = p
    BY <2>1 DEF Start, IInv, TypeOK, Own, Handing
  <2>2. CASE q # p
    <3>1. Untouched(q)
      BY <2>2 DEF Start, Untouched, IInv, TypeOK
    <3> QED
      BY <3>1, OwnFrame DEF IInv
  <2> QED
    BY <2>1, <2>2
<1> QED
  BY <1>1, <1>2, <1>3 DEF IInv

\* What the child of p builds concerns p alone: it writes the output of p.
LEMMA ChildBuildsInv == ASSUME IInv, NEW p \in Procs, ChildBuilds(p) PROVE IInv'
<1>1. TypeOK'
  <2>1. disk[TempPath(p)] \in Contents /\ OutPath(p) \in Paths
    BY WritesTyped DEF IInv, TypeOK
  <2> QED
    BY <2>1 DEF ChildBuilds, IInv, TypeOK
<1>2. LivePids'
  BY DEF ChildBuilds, IInv, LivePids, Live
<1>3. ASSUME NEW q \in Procs, q # p PROVE Own(q)'
  <2>1. OutPath(q) # OutPath(p) /\ TempPath(q) # OutPath(p)
    BY <1>3, PathsDisjoint DEF TempPath, IInv, TypeOK
  <2>2. Untouched(q)
    BY <1>3, <2>1, WritesTyped DEF ChildBuilds, Untouched, IInv, TypeOK
  <2> QED
    BY <2>2, OwnFrame DEF IInv
<1>4. Own(p)'
  <2>1. disk'[OutPath(p)] = disk[TempPath(p)] /\ disk'[TempPath(p)] = disk[TempPath(p)]
    <3>1. OutPath(p) \in Paths /\ TempPath(p) # OutPath(p)
      BY PathsDisjoint DEF TempPath, IInv, TypeOK
    <3> QED
      BY <3>1 DEF ChildBuilds, IInv, TypeOK
  <2>2. pc[p] = "wait" \/ (pc[p] = "done" /\ status[p] = "killed")
    BY DEF ChildBuilds, IInv, TypeOK
  <2>3. pc'[p] = pc[p] /\ status'[p] = status[p] /\ child'[p] = "ok"
    BY DEF ChildBuilds, IInv, TypeOK
  <2>4. CASE pc[p] = "wait"
    <3>1. Holds(p, TempPath(p)) /\ status[p] = "none" /\ mode[p] # "list"
      BY <2>4 DEF IInv, Own, Handing, TypeOK
    <3>2. Holds(p, TempPath(p))' /\ Holds(p, OutPath(p))'
      BY <2>1, <3>1 DEF Holds, TempPath, OutPath, WritesText, ChildBuilds
    <3> QED
      BY <2>3, <2>4, <3>1, <3>2 DEF Own, ChildBuilds
  <2>5. CASE pc[p] = "done" /\ status[p] = "killed"
    BY <2>3, <2>5 DEF Own, Handing
  <2> QED
    BY <2>2, <2>4, <2>5
<1>5. \A q \in Procs : Own(q)'
  BY <1>3, <1>4
<1> QED
  BY <1>1, <1>2, <1>5 DEF IInv

\* While its parent waits, the child finds the file: it cannot fail for want of it.
LEMMA ChildFailsInv ==
  ASSUME IInv, NEW p \in Procs, ChildFails(p) \/ ChildFindsNothing(p) PROVE IInv'
<1> USE DEF Fault
<1>1. TypeOK'
  BY DEF ChildFails, ChildFindsNothing, IInv, TypeOK
<1>2. LivePids'
  BY DEF ChildFails, ChildFindsNothing, IInv, LivePids, Live
<1>3. ASSUME NEW q \in Procs, q # p PROVE Own(q)'
  <2>1. Untouched(q)
    BY <1>3 DEF ChildFails, ChildFindsNothing, Untouched, IInv, TypeOK
  <2> QED
    BY <2>1, OwnFrame DEF IInv
<1>4. Own(p)'
  <2>1. pc[p] = "wait" \/ (pc[p] = "done" /\ status[p] = "killed")
    BY DEF ChildFails, ChildFindsNothing, IInv, TypeOK
  <2>2. pc'[p] = pc[p] /\ status'[p] = status[p] /\ child'[p] = "failed" /\ disk' = disk
    BY DEF ChildFails, ChildFindsNothing, IInv, TypeOK
  <2>3. CASE pc[p] = "wait"
    <3>1. Holds(p, TempPath(p)) /\ status[p] = "none" /\ mode[p] # "list"
      BY <2>3 DEF IInv, Own, Handing, TypeOK
    <3>2. disk[TempPath(p)] # Absent
      BY <3>1, DriverAssumption DEF Holds, Absent
    <3>3. fault'[p] = TRUE
      BY <3>2 DEF ChildFails, ChildFindsNothing, IInv, TypeOK
    <3>4. Holds(p, TempPath(p))'
      BY <2>2, <3>1, <3>3 DEF Holds, TempPath, WritesText, ChildFails, ChildFindsNothing
    <3> QED
      BY <2>2, <2>3, <3>1, <3>3, <3>4 DEF Own, ChildFails, ChildFindsNothing
  <2>4. CASE pc[p] = "done" /\ status[p] = "killed"
    BY <2>2, <2>4 DEF Own, Handing
  <2> QED
    BY <2>1, <2>3, <2>4
<1>5. \A q \in Procs : Own(q)'
  BY <1>3, <1>4
<1> QED
  BY <1>1, <1>2, <1>5 DEF IInv

LEMMA NextInv == IInv /\ [Next]_vars => IInv'
<1> SUFFICES ASSUME IInv, [Next]_vars PROVE IInv'
  OBVIOUS
<1>1. CASE Next
  <2>1. PICK p \in Procs : Start(p) \/ Main(p) \/ Child(p) \/ Kill(p)
    BY <1>1 DEF Next
  <2>2. CASE Main(p)
    BY <2>2, CompileInv, DieInv, OpenTextInv, OpenFailsInv, WriteTextInv, EmitObjectInv,
       EmitFailsInv, ForkInv, ForkFailsInv, WaitInv DEF Main
  <2>3. CASE Child(p)
    BY <2>3, ChildBuildsInv, ChildFailsInv DEF Child
  <2> QED
    BY <2>1, <2>2, <2>3, StartInv, KillInv
<1>2. CASE UNCHANGED vars
  <2>1. TypeOK' /\ LivePids'
    BY <1>2 DEF vars, IInv, TypeOK, LivePids, Live
  <2>2. ASSUME NEW q \in Procs PROVE Own(q)'
    <3>1. Untouched(q)
      BY <1>2 DEF vars, Untouched
    <3> QED
      BY <3>1, OwnFrame DEF IInv
  <2> QED
    BY <2>1, <2>2 DEF IInv
<1> QED
  BY <1>1, <1>2

\* The inductive invariant holds in every behaviour.
LEMMA InvHolds == Spec => []IInv
  BY InitInv, NextInv, PTL DEF Spec

\* Type correctness of the driver: also, a child that outlives main outlives a kill.
THEOREM DriverTyped == Spec => []TypeOK
<1>1. IInv => TypeOK
  BY DEF IInv
<1> QED
  BY <1>1, InvHolds, PTL

\* However many compilations run at once, and however process numbers come back, one
\* that reports success has put its own program into its output.
THEOREM SuccessIsOwn == Spec => []OwnText
<1>1. IInv => OwnText
  BY DEF IInv, Own, OwnText, Holds
<1> QED
  BY <1>1, InvHolds, PTL

\* No compilation fails because of another, or of how it and its child are scheduled.
THEOREM NoFalseFailure == Spec => []FailureHasCause
<1>1. IInv => FailureHasCause
  BY DEF IInv, Own, FailureHasCause
<1> QED
  BY <1>1, InvHolds, PTL

-----------------------------------------------------------------------------
(* What stays in /tmp. A temporary file is only ever its owner's, and the  *)
(* owner has come as far as writing it; with IInv this is inductive.       *)

Excused(p, n) ==
    \/ status[p] = "killed"
    \/ status[p] = "1" /\ child[p] = "none" /\ (UseLLVM(p) => ~disk[<<"tmp", n>>].whole)

Traced(n, p) ==
    disk[<<"tmp", n>>].of = p =>
        /\ pid[p] = n /\ ~Direct(p) /\ mode[p] # "list"
        /\ pc[p] \in {"write", "fork", "wait", "done"}
        /\ pc[p] = "done" => Excused(p, n)

Leftovers == \A n \in Pids, p \in Procs : Traced(n, p)

\* A process keeps its traces where it stands still and the file is as it was.
LEMMA TraceFrame ==
  ASSUME NEW n \in Pids, NEW q \in Procs, Traced(n, q),
         disk'[<<"tmp", n>>] = disk[<<"tmp", n>>],
         pc'[q] = pc[q], mode'[q] = mode[q], pid'[q] = pid[q], status'[q] = status[q],
         child'[q] = child[q]
  PROVE  Traced(n, q)'
  BY DEF Traced, Excused, Direct

\* A write to its target leaves a trace of p in its own temporary file only, and only
\* when the target is that file.
LEMMA WrittenWhere ==
  ASSUME TypeOK, NEW p \in Procs, NEW n \in Pids, NEW c \in Contents,
         disk' = [disk EXCEPT ![Target(p)] = c],
         disk[<<"tmp", n>>].of = p => pid[p] = n /\ ~Direct(p),
         disk'[<<"tmp", n>>].of = p
  PROVE  pid[p] = n /\ ~Direct(p) /\ disk'[<<"tmp", n>>] = c
<1>1. <<"tmp", n>> \in Paths /\ OutPath(p) # <<"tmp", n>> /\ disk \in [Paths -> Contents]
  BY PathsDisjoint DEF TypeOK
<1>2. CASE Direct(p)
  <2>1. disk'[<<"tmp", n>>] = disk[<<"tmp", n>>]
    BY <1>1, <1>2 DEF Target
  <2> QED
    BY <1>2, <2>1
<1>3. CASE ~Direct(p) /\ pid[p] = n
  BY <1>1, <1>3 DEF Target, TempPath
<1>4. CASE ~Direct(p) /\ pid[p] # n
  <2>1. TempPath(p) # <<"tmp", n>>
    BY <1>4 DEF TempPath
  <2>2. disk'[<<"tmp", n>>] = disk[<<"tmp", n>>]
    BY <1>1, <1>4, <2>1 DEF Target
  <2> QED
    BY <1>4, <2>2
<1> QED
  BY <1>2, <1>3, <1>4

\* Of the process that steps, the traces of the step; of the others, those there were: a
\* file that changed hands is no longer theirs.
LEMMA TraceStep ==
  ASSUME Leftovers, NEW p \in Procs, OthersStand(p), NEW n \in Pids,
         disk'[<<"tmp", n>>] = disk[<<"tmp", n>>] \/ disk'[<<"tmp", n>>].of \in {p, Nobody},
         Traced(n, p)'
  PROVE  \A q \in Procs : Traced(n, q)'
<1> SUFFICES ASSUME NEW q \in Procs, q # p PROVE Traced(n, q)'
  OBVIOUS
<1>1. CASE disk'[<<"tmp", n>>] = disk[<<"tmp", n>>]
  BY <1>1, TraceFrame DEF Leftovers, OthersStand
<1>2. CASE disk'[<<"tmp", n>>].of \in {p, Nobody}
  BY <1>2, DriverAssumption DEF Traced
<1> QED
  BY <1>1, <1>2

LEMMA CompileTraces ==
  ASSUME IInv, Leftovers, NEW p \in Procs, Compile(p), NEW n \in Pids
  PROVE  \A q \in Procs : Traced(n, q)'
<1> USE DEF Exit, GoTo, Fault
<1>1. OthersStand(p) /\ Traced(n, p) /\ Own(p)
  BY DEF Compile, OthersStand, IInv, TypeOK, Leftovers
<1>2. disk'[<<"tmp", n>>] = disk[<<"tmp", n>>] \/ disk'[<<"tmp", n>>].of \in {p, Nobody}
  BY PathsDisjoint DEF Compile, IInv, TypeOK, Target, Unlinked, AfterForkFailed, Absent, TempPath
<1>3. Traced(n, p)'
  BY <1>1, PathsDisjoint, DriverAssumption
     DEF Compile, Traced, Excused, Direct, IInv, TypeOK, Target, TempPath, WritesText, Own,
         Unlinked, AfterForkFailed, Absent, Modes
<1> QED
  BY <1>1, <1>2, <1>3, TraceStep

LEMMA DieTraces ==
  ASSUME IInv, Leftovers, NEW p \in Procs, Die(p), NEW n \in Pids
  PROVE  \A q \in Procs : Traced(n, q)'
<1> USE DEF Exit, GoTo, Fault
<1>1. OthersStand(p) /\ Traced(n, p) /\ Own(p)
  BY DEF Die, OthersStand, IInv, TypeOK, Leftovers
<1>2. disk'[<<"tmp", n>>] = disk[<<"tmp", n>>] \/ disk'[<<"tmp", n>>].of \in {p, Nobody}
  BY PathsDisjoint DEF Die, IInv, TypeOK, Target, Unlinked, AfterForkFailed, Absent, TempPath
<1>3. Traced(n, p)'
  BY <1>1, PathsDisjoint, DriverAssumption
     DEF Die, Traced, Excused, Direct, IInv, TypeOK, Target, TempPath, WritesText, Own,
         Unlinked, AfterForkFailed, Absent, Modes
<1> QED
  BY <1>1, <1>2, <1>3, TraceStep

LEMMA OpenTextTraces ==
  ASSUME IInv, Leftovers, NEW p \in Procs, OpenText(p), NEW n \in Pids
  PROVE  \A q \in Procs : Traced(n, q)'
<1> USE DEF Exit, GoTo, Fault
<1>1. OthersStand(p) /\ Traced(n, p) /\ Own(p)
  BY DEF OpenText, OthersStand, IInv, TypeOK, Leftovers
<1>2. disk'[<<"tmp", n>>] = disk[<<"tmp", n>>] \/ disk'[<<"tmp", n>>].of \in {p, Nobody}
  BY PathsDisjoint DEF OpenText, IInv, TypeOK, Target, Unlinked, AfterForkFailed, Absent, TempPath
<1>3. Traced(n, p)'
  <2>1. SUFFICES ASSUME disk'[<<"tmp", n>>].of = p PROVE Traced(n, p)'
    BY DEF Traced
  <2>2. [of |-> p, whole |-> FALSE] \in Contents
    BY DEF Contents
  <2>3. pid[p] = n /\ ~Direct(p)
    BY <1>1, <2>1, <2>2, WrittenWhere DEF OpenText, IInv, Traced
  <2>4. pc'[p] = "write" /\ mode[p] # "list"
    BY <1>1 DEF OpenText, IInv, TypeOK, Own
  <2> QED
    BY <2>3, <2>4 DEF Traced, Direct, OpenText
<1> QED
  BY <1>1, <1>2, <1>3, TraceStep

LEMMA OpenFailsTraces ==
  ASSUME IInv, Leftovers, NEW p \in Procs, OpenFails(p), NEW n \in Pids
  PROVE  \A q \in Procs : Traced(n, q)'
<1> USE DEF Exit, GoTo, Fault
<1>1. OthersStand(p) /\ Traced(n, p) /\ Own(p)
  BY DEF OpenFails, OthersStand, IInv, TypeOK, Leftovers
<1>2. disk'[<<"tmp", n>>] = disk[<<"tmp", n>>] \/ disk'[<<"tmp", n>>].of \in {p, Nobody}
  BY PathsDisjoint DEF OpenFails, IInv, TypeOK, Target, Unlinked, AfterForkFailed, Absent, TempPath
<1>3. Traced(n, p)'
  BY <1>1, PathsDisjoint, DriverAssumption
     DEF OpenFails, Traced, Excused, Direct, IInv, TypeOK, Target, TempPath, WritesText, Own,
         Unlinked, AfterForkFailed, Absent, Modes
<1> QED
  BY <1>1, <1>2, <1>3, TraceStep

LEMMA WriteTextTraces ==
  ASSUME IInv, Leftovers, NEW p \in Procs, WriteText(p), NEW n \in Pids
  PROVE  \A q \in Procs : Traced(n, q)'
<1> USE DEF Exit, GoTo, Fault
<1>1. OthersStand(p) /\ Traced(n, p) /\ Own(p)
  BY DEF WriteText, OthersStand, IInv, TypeOK, Leftovers
<1>2. disk'[<<"tmp", n>>] = disk[<<"tmp", n>>] \/ disk'[<<"tmp", n>>].of \in {p, Nobody}
  BY PathsDisjoint DEF WriteText, IInv, TypeOK, Target, Unlinked, AfterForkFailed, Absent, TempPath
<1>3. Traced(n, p)'
  <2>1. SUFFICES ASSUME disk'[<<"tmp", n>>].of = p PROVE Traced(n, p)'
    BY DEF Traced
  <2>2. PICK c \in Contents : disk' = [disk EXCEPT ![Target(p)] = c]
    <3>1. PICK whole \in BOOLEAN : disk' = [disk EXCEPT ![Target(p)] = [of |-> p, whole |-> whole]]
      BY DEF WriteText
    <3>2. [of |-> p, whole |-> whole] \in Contents
      BY DEF Contents
    <3> QED
      BY <3>1, <3>2
  <2>3. TypeOK /\ (disk[<<"tmp", n>>].of = p => pid[p] = n /\ ~Direct(p))
    BY <1>1 DEF IInv, Traced
  <2>4. pid[p] = n /\ ~Direct(p) /\ disk'[<<"tmp", n>>] = c
    BY <2>1, <2>2, <2>3, WrittenWhere, ZenonT(40)
  <2>5. mode[p] # "ir"
    BY <2>4 DEF Direct
  <2>6. pc'[p] = "fork"
    BY <2>5 DEF WriteText, IInv, TypeOK
  <2>7. pid'[p] = n /\ mode'[p] = mode[p] /\ mode[p] # "list"
    BY <1>1, <2>4 DEF WriteText, Own
  <2> QED
    BY <2>4, <2>6, <2>7 DEF Traced, Direct
<1> QED
  BY <1>1, <1>2, <1>3, TraceStep

LEMMA EmitObjectTraces ==
  ASSUME IInv, Leftovers, NEW p \in Procs, EmitObject(p), NEW n \in Pids
  PROVE  \A q \in Procs : Traced(n, q)'
<1> USE DEF Exit, GoTo, Fault
<1>1. OthersStand(p) /\ Traced(n, p) /\ Own(p)
  BY DEF EmitObject, OthersStand, IInv, TypeOK, Leftovers
<1>2. disk'[<<"tmp", n>>] = disk[<<"tmp", n>>] \/ disk'[<<"tmp", n>>].of \in {p, Nobody}
  BY PathsDisjoint DEF EmitObject, IInv, TypeOK, Target, Unlinked, AfterForkFailed, Absent, TempPath
<1>3. Traced(n, p)'
  <2>1. SUFFICES ASSUME disk'[<<"tmp", n>>].of = p PROVE Traced(n, p)'
    BY DEF Traced
  <2>2. [of |-> p, whole |-> TRUE] \in Contents
    BY DEF Contents
  <2>3. pid[p] = n /\ ~Direct(p)
    BY <1>1, <2>1, <2>2, WrittenWhere DEF EmitObject, IInv, Traced
  <2>4. mode[p] # "object"
    BY <2>3, DriverAssumption DEF Direct, EmitObject, WritesText
  <2>5. pc'[p] = "fork"
    BY <2>4 DEF EmitObject, IInv, TypeOK
  <2>6. pid'[p] = n /\ mode'[p] = mode[p] /\ mode[p] # "list"
    BY <1>1, <2>3 DEF EmitObject, Own
  <2> QED
    BY <2>3, <2>5, <2>6 DEF Traced, Direct
<1> QED
  BY <1>1, <1>2, <1>3, TraceStep

LEMMA EmitFailsTraces ==
  ASSUME IInv, Leftovers, NEW p \in Procs, EmitFails(p), NEW n \in Pids
  PROVE  \A q \in Procs : Traced(n, q)'
<1> USE DEF Exit, GoTo, Fault
<1>1. OthersStand(p) /\ Traced(n, p) /\ Own(p)
  BY DEF EmitFails, OthersStand, IInv, TypeOK, Leftovers
<1>2. disk'[<<"tmp", n>>] = disk[<<"tmp", n>>] \/ disk'[<<"tmp", n>>].of \in {p, Nobody}
  <2>1. CASE disk' = disk
    BY <2>1
  <2>2. CASE disk' = [disk EXCEPT ![Target(p)] = [of |-> p, whole |-> FALSE]]
    <3>1. <<"tmp", n>> \in Paths /\ disk \in [Paths -> Contents]
      BY PathsDisjoint DEF IInv, TypeOK
    <3>2. CASE Target(p) = <<"tmp", n>>
      BY <2>2, <3>1, <3>2
    <3>3. CASE Target(p) # <<"tmp", n>>
      BY <2>2, <3>1, <3>3
    <3> QED
      BY <3>2, <3>3
  <2> QED
    BY <2>1, <2>2 DEF EmitFails
<1>3. Traced(n, p)'
  <2>1. SUFFICES ASSUME disk'[<<"tmp", n>>].of = p PROVE Traced(n, p)'
    BY DEF Traced
  <2>2. CASE disk' = disk
    BY <1>1, <2>1, <2>2 DEF Traced, EmitFails
  <2>3. CASE disk' = [disk EXCEPT ![Target(p)] = [of |-> p, whole |-> FALSE]]
    <3>1. [of |-> p, whole |-> FALSE] \in Contents
      BY DEF Contents
    <3>4. TypeOK /\ (disk[<<"tmp", n>>].of = p => pid[p] = n /\ ~Direct(p))
      BY <1>1 DEF IInv, Traced
    <3>2. pid[p] = n /\ ~Direct(p) /\ disk'[<<"tmp", n>>] = [of |-> p, whole |-> FALSE]
      BY <2>1, <2>3, <3>1, <3>4, WrittenWhere, ZenonT(40)
    <3>3. pc'[p] = "done" /\ status'[p] = "1" /\ child'[p] = "none" /\ ~disk'[<<"tmp", n>>].whole
      BY <3>2 DEF EmitFails, IInv, TypeOK
    <3>5. pid'[p] = n /\ mode'[p] = mode[p] /\ mode[p] # "list"
      BY <1>1, <3>2 DEF EmitFails, Own
    <3> QED
      BY <3>2, <3>3, <3>5 DEF Traced, Excused, Direct
  <2> QED
    BY <2>2, <2>3 DEF EmitFails
<1> QED
  BY <1>1, <1>2, <1>3, TraceStep

LEMMA ForkTraces ==
  ASSUME IInv, Leftovers, NEW p \in Procs, Fork(p), NEW n \in Pids
  PROVE  \A q \in Procs : Traced(n, q)'
<1> USE DEF Exit, GoTo, Fault
<1>1. OthersStand(p) /\ Traced(n, p) /\ Own(p)
  BY DEF Fork, OthersStand, IInv, TypeOK, Leftovers
<1>2. disk'[<<"tmp", n>>] = disk[<<"tmp", n>>] \/ disk'[<<"tmp", n>>].of \in {p, Nobody}
  BY PathsDisjoint DEF Fork, IInv, TypeOK, Target, Unlinked, AfterForkFailed, Absent, TempPath
<1>3. Traced(n, p)'
  BY <1>1, PathsDisjoint, DriverAssumption
     DEF Fork, Traced, Excused, Direct, IInv, TypeOK, Target, TempPath, WritesText, Own,
         Unlinked, AfterForkFailed, Absent, Modes
<1> QED
  BY <1>1, <1>2, <1>3, TraceStep

LEMMA ForkFailsTraces ==
  ASSUME IInv, Leftovers, NEW p \in Procs, ForkFails(p), NEW n \in Pids
  PROVE  \A q \in Procs : Traced(n, q)'
<1> USE DEF Exit, GoTo, Fault
<1>1. OthersStand(p) /\ Traced(n, p) /\ Own(p)
  BY DEF ForkFails, OthersStand, IInv, TypeOK, Leftovers
<1>2. disk'[<<"tmp", n>>] = disk[<<"tmp", n>>] \/ disk'[<<"tmp", n>>].of \in {p, Nobody}
  BY PathsDisjoint DEF ForkFails, IInv, TypeOK, Target, Unlinked, AfterForkFailed, Absent, TempPath
<1>3. Traced(n, p)'
  BY <1>1, PathsDisjoint, DriverAssumption
     DEF ForkFails, Traced, Excused, Direct, IInv, TypeOK, Target, TempPath, WritesText, Own,
         Unlinked, AfterForkFailed, Absent, Modes
<1> QED
  BY <1>1, <1>2, <1>3, TraceStep

LEMMA WaitTraces ==
  ASSUME IInv, Leftovers, NEW p \in Procs, Wait(p), NEW n \in Pids
  PROVE  \A q \in Procs : Traced(n, q)'
<1> USE DEF Exit, GoTo, Fault
<1>1. OthersStand(p) /\ Traced(n, p) /\ Own(p)
  BY DEF Wait, OthersStand, IInv, TypeOK, Leftovers
<1>2. disk'[<<"tmp", n>>] = disk[<<"tmp", n>>] \/ disk'[<<"tmp", n>>].of \in {p, Nobody}
  BY PathsDisjoint DEF Wait, IInv, TypeOK, Target, Unlinked, AfterForkFailed, Absent, TempPath
<1>3. Traced(n, p)'
  BY <1>1, PathsDisjoint, DriverAssumption
     DEF Wait, Traced, Excused, Direct, IInv, TypeOK, Target, TempPath, WritesText, Own,
         Unlinked, AfterForkFailed, Absent, Modes
<1> QED
  BY <1>1, <1>2, <1>3, TraceStep

LEMMA KillTraces ==
  ASSUME IInv, Leftovers, NEW p \in Procs, Kill(p), NEW n \in Pids
  PROVE  \A q \in Procs : Traced(n, q)'
<1> USE DEF Exit, GoTo, Fault
<1>1. OthersStand(p) /\ Traced(n, p) /\ Own(p)
  BY DEF Kill, OthersStand, IInv, TypeOK, Leftovers
<1>2. disk'[<<"tmp", n>>] = disk[<<"tmp", n>>] \/ disk'[<<"tmp", n>>].of \in {p, Nobody}
  BY PathsDisjoint DEF Kill, IInv, TypeOK, Target, Unlinked, AfterForkFailed, Absent, TempPath
<1>3. Traced(n, p)'
  BY <1>1, PathsDisjoint, DriverAssumption
     DEF Kill, Traced, Excused, Direct, IInv, TypeOK, Target, TempPath, WritesText, Own,
         Unlinked, AfterForkFailed, Absent, Modes
<1> QED
  BY <1>1, <1>2, <1>3, TraceStep

\* Starting takes a number and no file.
LEMMA StartTraces ==
  ASSUME IInv, Leftovers, NEW p \in Procs, Start(p), NEW n \in Pids
  PROVE  \A q \in Procs : Traced(n, q)'
<1> USE DEF GoTo
<1>1. OthersStand(p) /\ disk' = disk
  BY DEF Start, OthersStand, IInv, TypeOK
<1>2. Traced(n, p)'
  BY <1>1 DEF Start, Traced, Leftovers
<1> QED
  BY <1>1, <1>2, TraceStep

\* A child writes the output, and no temporary file; while it is running its parent waits
\* or was killed.
LEMMA ChildTraces ==
  ASSUME IInv, Leftovers, NEW p \in Procs, Child(p), NEW n \in Pids
  PROVE  \A q \in Procs : Traced(n, q)'
<1> USE DEF Fault
<1>1. OthersStand(p) /\ Traced(n, p)
  BY DEF Child, ChildBuilds, ChildFails, ChildFindsNothing, OthersStand, IInv, TypeOK, Leftovers
<1>2. disk'[<<"tmp", n>>] = disk[<<"tmp", n>>]
  BY PathsDisjoint DEF Child, ChildBuilds, ChildFails, ChildFindsNothing, IInv, TypeOK
<1>3. /\ pc'[p] = pc[p] /\ mode'[p] = mode[p] /\ pid'[p] = pid[p] /\ status'[p] = status[p]
      /\ pc[p] = "done" => status[p] = "killed"
  BY DEF Child, ChildBuilds, ChildFails, ChildFindsNothing, IInv, TypeOK
<1>4. Traced(n, p)'
  BY <1>1, <1>2, <1>3 DEF Traced, Excused, Direct
<1> QED
  BY <1>1, <1>2, <1>4, TraceStep

LEMMA InitTraces == Init => Leftovers
<1> SUFFICES ASSUME Init PROVE Leftovers
  OBVIOUS
<1>1. \A n \in Pids : disk[<<"tmp", n>>] = Absent
  BY PathsDisjoint DEF Init
<1> QED
  BY <1>1, DriverAssumption DEF Leftovers, Traced, Absent

LEMMA NextTraces == IInv /\ Leftovers /\ [Next]_vars => Leftovers'
<1> SUFFICES ASSUME IInv, Leftovers, [Next]_vars PROVE Leftovers'
  OBVIOUS
<1>1. CASE Next
  <2> SUFFICES ASSUME NEW n \in Pids PROVE \A q \in Procs : Traced(n, q)'
    BY DEF Leftovers
  <2>1. PICK p \in Procs : Start(p) \/ Main(p) \/ Child(p) \/ Kill(p)
    BY <1>1 DEF Next
  <2>2. CASE Main(p)
    BY <2>2, CompileTraces, DieTraces, OpenTextTraces, OpenFailsTraces, WriteTextTraces,
       EmitObjectTraces, EmitFailsTraces, ForkTraces, ForkFailsTraces, WaitTraces DEF Main
  <2> QED
    BY <2>1, <2>2, StartTraces, ChildTraces, KillTraces
<1>2. CASE UNCHANGED vars
  BY <1>2 DEF vars, Leftovers, Traced, Excused, Direct
<1> QED
  BY <1>1, <1>2

\* A compilation that was not killed leaves nothing in /tmp but on the exits TempsRemoved
\* names: every other path from the creation of the file to the end of main unlinks it.
THEOREM NothingLeft == Spec => []TempsRemoved
<1>1. IInv /\ Leftovers => TempsRemoved
  <2> SUFFICES ASSUME IInv, Leftovers, NEW n \in Pids,
                      disk[<<"tmp", n>>].of # Nobody, pc[disk[<<"tmp", n>>].of] = "done"
               PROVE  Excused(disk[<<"tmp", n>>].of, n)
    BY DEF TempsRemoved, Excused
  <2>1. disk[<<"tmp", n>>].of \in Procs
    BY PathsDisjoint DEF IInv, TypeOK, Contents
  <2> QED
    BY <2>1 DEF Leftovers, Traced
<1>2. Spec => [](IInv /\ Leftovers)
  BY InitInv, NextInv, InitTraces, NextTraces, PTL DEF Spec
<1> QED
  BY <1>1, <1>2, PTL

-----------------------------------------------------------------------------
(* The command line. Numbers first: a set of them has a least one.         *)

LEMMA Least ==
    ASSUME NEW U \in SUBSET Nat, U # {}
    PROVE  \E x \in U : \A y \in U : x <= y
<1> DEFINE R == OpToRel(<, Nat)
<1>1. IsWellFoundedOn(R, Nat)
  BY NatLessThanWellFounded
<1>2. \A x, y \in Nat : x < y => <<x, y>> \in R
  BY DEF OpToRel
<1> HIDE DEF R
<1>3. PICK x \in U : \A y \in U : ~ (<<y, x>> \in R)
  <2>1. \E x \in U : \A y \in U : ~ (<<y, x>> \in R)
    BY <1>1, WFMin
  <2> QED
    BY <2>1
<1>4. ASSUME NEW y \in U
      PROVE  x <= y
  <2>1. x \in Nat /\ y \in Nat /\ ~(y < x)
    BY <1>2, <1>3
  <2> QED
    BY <2>1
<1> QED
  BY <1>4

\* The words from the left: a function that each word but the first decides from the
\* word before it exists.
LEMMA LeftToRight ==
    ASSUME NEW n \in Nat, NEW S
    PROVE  \E f : /\ f = [k \in 0..n |-> k > 1 /\ ~f[k - 1] /\ k - 1 \in S]
<1> DEFINE G(f, k) == k > 1 /\ ~f[k - 1] /\ k - 1 \in S
           P == {m \in 0..n : \E f : \A k \in 0..m : f[k] = G(f, k)}
           Bad == {m \in 0..n : m \notin P}
<1>1. 0 \in P
  <2> DEFINE f == [k \in 0..0 |-> FALSE]
  <2>1. \A k \in 0..0 : k = 0 /\ f[k] = FALSE /\ ~(k > 1)
    OBVIOUS
  <2>2. \A k \in 0..0 : f[k] = G(f, k)
    BY <2>1
  <2> HIDE DEF f
  <2>3. 0 \in 0..n
    OBVIOUS
  <2> QED BY <2>2, <2>3
<1>2. ASSUME NEW m \in 1..n, m - 1 \in P PROVE m \in P
  <2>1. PICK f : \A k \in 0..m - 1 : f[k] = G(f, k)
    BY <1>2
  <2> DEFINE h == [k \in 0..m |-> IF k = m THEN G(f, m) ELSE f[k]]
  <2>2. /\ h[m] = G(f, m)
        /\ \A k \in 0..m - 1 : h[k] = f[k]
    <3>1. m \in 0..m /\ \A k \in 0..m - 1 : k \in 0..m /\ k # m
      OBVIOUS
    <3> QED BY <3>1
  <2> HIDE DEF h
  <2>3. \A k \in 0..m : k > 1 => k - 1 \in 0..m - 1
    OBVIOUS
  <2>4. \A k \in 0..m : G(h, k) = G(f, k)
    BY <2>2, <2>3
  <2>5. \A k \in 0..m : k = m \/ k \in 0..m - 1
    OBVIOUS
  <2>6. \A k \in 0..m : h[k] = G(h, k)
    <3> HIDE DEF G
    <3> QED BY <2>1, <2>2, <2>4, <2>5
  <2>7. m \in 0..n
    OBVIOUS
  <2> QED BY <2>6, <2>7
<1>3. n \in P
  <2> HIDE DEF P
  <2> SUFFICES ASSUME n \notin P PROVE FALSE
    OBVIOUS
  <2>1. Bad \in SUBSET Nat /\ Bad # {}
    OBVIOUS
  <2>2. PICK m \in Bad : \A k \in Bad : m <= k
    <3> HIDE DEF Bad
    <3> QED BY <2>1, Least
  <2>3. m \in 1..n /\ m - 1 \in 0..n /\ ~(m <= m - 1)
    BY <1>1
  <2>4. m - 1 \in P
    BY <2>2, <2>3
  <2> QED BY <1>2, <2>3, <2>4
<1>4. PICK f : \A k \in 0..n : f[k] = G(f, k)
  BY <1>3
<1> DEFINE h == [k \in 0..n |-> f[k]]
<1>5. h = [k \in 0..n |-> G(h, k)]
  <2>1. \A k \in 0..n : h[k] = f[k]
    OBVIOUS
  <2>2. \A k \in 0..n : k > 1 => k - 1 \in 0..n
    OBVIOUS
  <2>3. \A k \in 0..n : G(h, k) = G(f, k)
    <3> HIDE DEF h
    <3> QED BY <2>1, <2>2
  <2> HIDE DEF G
  <2>4. \A k \in 0..n : f[k] = G(h, k)
    BY <1>4, <2>3
  <2> QED BY <2>4
<1> QED BY <1>5

LEMMA ValueRec ==
    ASSUME NEW a \in Seq(Words)
    PROVE  /\ \A k \in 0..Len(a) : Values(a)[k] \in BOOLEAN
           /\ \A k \in 1..Len(a) :
                 Values(a)[k] <=> (k > 1 /\ ~Values(a)[k - 1] /\ a[k - 1] \in DOMAIN Separate)
<1> DEFINE n == Len(a)
           S == {k \in 1..n : a[k] \in DOMAIN Separate}
           v == Values(a)
<1>1. n \in Nat
  OBVIOUS
<1>2. \E f : f = [k \in 0..n |-> k > 1 /\ ~f[k - 1] /\ k - 1 \in S]
  <2> HIDE DEF S, n
  <2> QED BY <1>1, LeftToRight
<1>3. \A f : [k \in 0..n |-> k > 1 /\ ~f[k - 1] /\ k - 1 \in S]
             = [k \in 0..n |-> k > 1 /\ ~f[k - 1] /\ a[k - 1] \in DOMAIN Separate]
  <2>1. \A k \in 0..n : k > 1 => (k - 1 \in S <=> a[k - 1] \in DOMAIN Separate)
    <3>1. \A k \in 0..n : k > 1 => k - 1 \in 1..n
      BY <1>1
    <3> QED BY <3>1
  <2> HIDE DEF S, n
  <2> TAKE f
  <2>2. \A k \in 0..n : (k > 1 /\ ~f[k - 1] /\ k - 1 \in S)
                        = (k > 1 /\ ~f[k - 1] /\ a[k - 1] \in DOMAIN Separate)
    BY <2>1
  <2> QED BY <2>2
<1>4. v = [k \in 0..n |-> k > 1 /\ ~v[k - 1] /\ a[k - 1] \in DOMAIN Separate]
  <2>1. \E f : f = [k \in 0..n |-> k > 1 /\ ~f[k - 1] /\ a[k - 1] \in DOMAIN Separate]
    BY <1>2, <1>3
  <2> QED BY <2>1 DEF Values
<1> HIDE DEF v
<1>5. \A k \in 0..n : v[k] = (k > 1 /\ ~v[k - 1] /\ a[k - 1] \in DOMAIN Separate)
  BY <1>4
<1>6. \A k \in 0..n : v[k] \in BOOLEAN
  BY <1>5
<1>7. \A k \in 1..n : k \in 0..n
  OBVIOUS
<1> QED BY <1>5, <1>6, <1>7 DEF v


-----------------------------------------------------------------------------
(* The kinds of words.                                                     *)

Fields == {"input", "output", "runtime", "mode", "tests", "tags", "flags", "generate"}
Names  == {"input", "output", "runtime", "tests", "tags"}
ModeOrTests == DOMAIN ModeWords \cup {"--run-tests"}

LEMMA Kinds ==
    ASSUME NEW w
    PROVE  /\ w \in DOMAIN Separate => /\ Separate[w] \in Names
                                       /\ w \notin DOMAIN Attached /\ w \notin ModeOrTests
                                       /\ w \notin Flags /\ w \notin Positional
           /\ w \in DOMAIN Attached => /\ Attached[w].to \in Names /\ Attached[w].value # Nothing
                                       /\ w \notin ModeOrTests /\ w \notin Flags /\ w \notin Positional
           /\ w \in ModeOrTests => w \notin Flags /\ w \notin Positional
           /\ w \in DOMAIN ModeWords => w # "--run-tests" /\ ModeWords[w] \in {"object", "llvm"}
           /\ w \in Flags => w \notin Positional
           /\ w \in DirHere => /\ w \notin DOMAIN Separate /\ w \notin DOMAIN Attached /\ w \notin ModeOrTests
                               /\ w \notin Flags /\ w \notin Positional /\ w \notin DirNext
<1>1. w \in DOMAIN Separate => /\ Separate[w] \in Names
                               /\ w \notin DOMAIN Attached /\ w \notin ModeOrTests
                               /\ w \notin Flags /\ w \notin Positional
  BY DEF Separate, Attached, ModeOrTests, ModeWords, Flags, Positional, Names
<1>2. w \in DOMAIN Attached => /\ Attached[w].to \in Names /\ Attached[w].value # Nothing
                               /\ w \notin ModeOrTests /\ w \notin Flags /\ w \notin Positional
  BY DEF Attached, ModeOrTests, ModeWords, Flags, Positional, Names, Nothing
<1>3. w \in ModeOrTests => w \notin Flags /\ w \notin Positional
  BY DEF ModeOrTests, ModeWords, Flags, Positional
<1>4. w \in DOMAIN ModeWords => w # "--run-tests" /\ ModeWords[w] \in {"object", "llvm"}
  BY DEF ModeWords
<1>5. w \in Flags => w \notin Positional
  BY DEF Flags, Positional
<1>6. w \in DirHere => /\ w \notin DOMAIN Separate /\ w \notin DOMAIN Attached /\ w \notin ModeOrTests
                       /\ w \notin Flags /\ w \notin Positional /\ w \notin DirNext
  BY DEF DirHere, Separate, Attached, ModeOrTests, ModeWords, Flags, Positional, DirNext
<1> QED BY <1>1, <1>2, <1>3, <1>4, <1>5, <1>6

\* What the first reading finds, the loop takes for the same thing, if it comes to it.
LEMMA SearchedKinds ==
    ASSUME NEW w \in DOMAIN Searched
    PROVE  \/ w \in DOMAIN Separate /\ Separate[w] = Searched[w]
           \/ w \in DOMAIN Attached /\ Attached[w].to = Searched[w]
BY DEF Searched, Separate, Attached

-----------------------------------------------------------------------------
(* What the words before word n decide, of what the properties say of all. *)

Before(to, n) == {k \in Gives(to) : k < n}
LastIn(k, S)  == k \in S /\ \A j \in S : j <= k

Latest(to, n, v) ==
    Before(to, n) # {} => \E k \in Before(to, n) : LastIn(k, Before(to, n)) /\ v = Given(k)
Decided(to, n, v) ==
    Latest(to, n, v) /\ (Before(to, n) = {} => v = GetArgValue(to))

\* The list q has an entry for each word at S, in their order.
Picks(ks, q, S) == ks \in [DOMAIN q -> S] /\ Ordered(ks, S)
Listed(to, n, q) ==
    /\ q \in Seq(Words \cup {"t"})
    /\ \E ks : Picks(ks, q, Before(to, n)) /\ \A m \in DOMAIN ks : q[m] = Given(ks[m])

ModesBefore(n) == {k \in 1..Argc : k < n /\ ~IsValue[k] /\ argv[k] \in ModeOrTests}
ModeOf(k) == IF argv[k] = "--run-tests" THEN "executable" ELSE ModeWords[argv[k]]
ModeDecided(n, kind, generate) ==
    /\ generate \in BOOLEAN
    /\ IF ModesBefore(n) = {} THEN kind = "executable"
       ELSE \E k : LastIn(k, ModesBefore(n)) /\ kind = ModeOf(k)
    /\ generate <=> \E k \in ModesBefore(n) : argv[k] = "--run-tests"

DirWords == {k \in 1..Argc : argv[k] \in DirHere \/ (argv[k] \in DirNext /\ k < Argc)}
DirOf(k) == IF argv[k] \in DirHere THEN "d" ELSE argv[k + 1]
DirsListed(n, q) ==
    /\ q \in Seq(Words \cup {"d"})
    /\ \E ks : Picks(ks, q, {k \in DirWords : k < n}) /\ \A m \in DOMAIN ks : q[m] = DirOf(ks[m])

LEMMA GivesAt ==
    ASSUME NEW to PROVE Gives(to) \subseteq 1..Argc
BY DEF Gives

LEMMA BeforeNext ==
    ASSUME argv \in Seq(Words), NEW n \in 1..Argc, NEW to
    PROVE  /\ n \in Gives(to) => Before(to, n + 1) = Before(to, n) \cup {n}
           /\ n \notin Gives(to) => Before(to, n + 1) = Before(to, n)
<1>1. Argc \in Nat
  BY DEF Argc
<1>2. \A k \in Gives(to) : k < n + 1 <=> (k < n \/ k = n)
  BY <1>1, GivesAt
<1>3. ~(n < n) /\ n < n + 1
  BY <1>1
<1> QED BY <1>2, <1>3 DEF Before

\* r is q with one more entry, for the word at x behind those at S.
OneMore(m, q, r, S, ks, x) ==
    /\ m \in Nat /\ DOMAIN q = 1..m /\ DOMAIN r = 1..m + 1 /\ Picks(ks, q, S)
    /\ x \in Nat /\ S \in SUBSET Nat /\ \A k \in S : k < x
AndPicked(kt, m, r, S, ks, x) ==
    /\ Picks(kt, r, S \cup {x})
    /\ DOMAIN kt = 1..m + 1 /\ kt[m + 1] = x /\ \A k \in 1..m : kt[k] = ks[k]

LEMMA PicksKept ==
    ASSUME NEW m, NEW q, NEW r, NEW S, NEW ks, NEW x, OneMore(m, q, r, S, ks, x)
    PROVE  \E kt : AndPicked(kt, m, r, S, ks, x)
<1> DEFINE kt == [k \in 1..m + 1 |-> IF k = m + 1 THEN x ELSE ks[k]]
<1> USE DEF OneMore
<1>1. /\ DOMAIN ks = 1..m /\ \A k \in 1..m : ks[k] \in S /\ ks[k] \in Nat /\ ks[k] < x
      /\ S = {ks[k] : k \in 1..m} /\ \A j, k \in 1..m : j < k => ks[j] < ks[k]
  BY DEF Picks, Ordered
<1>2. DOMAIN kt = 1..m + 1 /\ kt[m + 1] = x /\ \A k \in 1..m : kt[k] = ks[k]
  OBVIOUS
<1>3. \A k \in 1..m + 1 : k = m + 1 \/ k \in 1..m
  OBVIOUS
<1>4. kt \in [1..m + 1 -> S \cup {x}]
  BY <1>1
<1> HIDE DEF kt
<1>5. S \cup {x} = {kt[k] : k \in 1..m + 1}
  <2>1. m + 1 \in 1..m + 1 /\ \A k \in 1..m : k \in 1..m + 1
    OBVIOUS
  <2> QED BY <1>1, <1>2, <1>3, <2>1
<1>6. \A j, k \in 1..m + 1 : j < k => kt[j] < kt[k]
  <2> TAKE j, k \in 1..m + 1
  <2> HAVE j < k
  <2>1. j \in 1..m
    OBVIOUS
  <2> QED BY <1>1, <1>2, <1>3, <2>1
<1>7. Picks(kt, r, S \cup {x})
  BY <1>2, <1>4, <1>5, <1>6 DEF Picks, Ordered
<1> QED BY <1>2, <1>7 DEF AndPicked

LEMMA LatestNext ==
    ASSUME argv \in Seq(Words), NEW n \in 1..Argc, NEW to
    PROVE  /\ n \in Gives(to) => Latest(to, n + 1, Given(n)) /\ Before(to, n + 1) # {}
           /\ n \notin Gives(to) => \A v : Latest(to, n, v) => Latest(to, n + 1, v)
<1>1. CASE n \in Gives(to)
  <2>1. Before(to, n + 1) = Before(to, n) \cup {n}
    BY <1>1, BeforeNext
  <2>2. \A j \in Before(to, n + 1) : j <= n
    <3>1. \A j \in Before(to, n) : j \in 1..Argc /\ j < n
      BY GivesAt DEF Before
    <3>2. Argc \in Nat
      BY DEF Argc
    <3> QED BY <2>1, <3>1, <3>2
  <2> QED BY <1>1, <2>1, <2>2 DEF Latest, LastIn
<1>2. CASE n \notin Gives(to)
  BY <1>2, BeforeNext DEF Latest
<1> QED BY <1>1, <1>2

LEMMA DecidedNext ==
    ASSUME argv \in Seq(Words), NEW n \in 1..Argc, NEW to
    PROVE  /\ n \in Gives(to) => Decided(to, n + 1, Given(n))
           /\ n \notin Gives(to) => \A v : Decided(to, n, v) => Decided(to, n + 1, v)
BY LatestNext, BeforeNext DEF Decided

LEMMA ListedNext ==
    ASSUME argv \in Seq(Words), NEW n \in 1..Argc, NEW to, NEW q, Listed(to, n, q)
    PROVE  /\ n \in Gives(to) /\ Given(n) \in Words \cup {"t"} => Listed(to, n + 1, Append(q, Given(n)))
           /\ n \notin Gives(to) => Listed(to, n + 1, q)
<1>1. ASSUME n \in Gives(to), Given(n) \in Words \cup {"t"}
      PROVE  Listed(to, n + 1, Append(q, Given(n)))
  <2> DEFINE r == Append(q, Given(n))
             m == Len(q)
             S == Before(to, n)
  <2>1. PICK ks : Picks(ks, q, S) /\ \A k \in DOMAIN ks : q[k] = Given(ks[k])
    BY DEF Listed
  <2>2. /\ q \in Seq(Words \cup {"t"}) /\ r \in Seq(Words \cup {"t"}) /\ m \in Nat
        /\ DOMAIN q = 1..m /\ DOMAIN r = 1..m + 1
        /\ r[m + 1] = Given(n) /\ \A k \in 1..m : r[k] = q[k]
    BY <1>1 DEF Listed
  <2>3. DOMAIN ks = 1..m
    BY <2>1, <2>2 DEF Picks
  <2>4. S \in SUBSET Nat /\ \A k \in S : k < n
    <3>1. 1..Argc \subseteq Nat
      OBVIOUS
    <3> QED BY <3>1, GivesAt DEF Before
  <2>5. n \in Nat
    OBVIOUS
  <2>6. Before(to, n + 1) = S \cup {n}
    BY <1>1, BeforeNext
  <2> HIDE DEF r, m, S
  <2>70. OneMore(m, q, r, S, ks, n)
    BY <2>5, <2>1, <2>2, <2>4 DEF OneMore
  <2>71. PICK kt : AndPicked(kt, m, r, S, ks, n)
    BY <2>70, PicksKept
  <2>7. /\ Picks(kt, r, S \cup {n})
        /\ DOMAIN kt = 1..m + 1 /\ kt[m + 1] = n /\ \A k \in 1..m : kt[k] = ks[k]
    BY <2>71 DEF AndPicked
  <2>8. \A k \in DOMAIN kt : r[k] = Given(kt[k])
    <3>1. \A k \in 1..m + 1 : k = m + 1 \/ k \in 1..m
      BY <2>2
    <3> QED BY <2>1, <2>2, <2>3, <2>7, <3>1
  <2>9. Listed(to, n + 1, r)
    BY <2>2, <2>6, <2>7, <2>8 DEF Listed
  <2> QED BY <2>9 DEF r
<1>2. ASSUME n \notin Gives(to) PROVE Listed(to, n + 1, q)
  BY <1>2, BeforeNext DEF Listed
<1> QED BY <1>1, <1>2

LEMMA ModeNext ==
    ASSUME argv \in Seq(Words), NEW n \in 1..Argc, NEW kind, NEW generate, ModeDecided(n, kind, generate)
    PROVE  /\ IsValue[n] \/ argv[n] \notin ModeOrTests => ModeDecided(n + 1, kind, generate)
           /\ ~IsValue[n] /\ argv[n] \in DOMAIN ModeWords => ModeDecided(n + 1, ModeWords[argv[n]], generate)
           /\ ~IsValue[n] /\ argv[n] = "--run-tests" => ModeDecided(n + 1, "executable", TRUE)
<1>1. Argc \in Nat /\ n \in Nat
  BY DEF Argc
<1>2. \A k \in 1..Argc : k < n + 1 <=> (k < n \/ k = n)
  BY <1>1
<1>3. ~(n < n) /\ n < n + 1
  BY <1>1
<1>4. IsValue[n] \/ argv[n] \notin ModeOrTests => ModesBefore(n + 1) = ModesBefore(n)
  BY <1>2 DEF ModesBefore
<1>5. ~IsValue[n] /\ argv[n] \in ModeOrTests => ModesBefore(n + 1) = ModesBefore(n) \cup {n}
  BY <1>2, <1>3 DEF ModesBefore
<1>6. \A k \in ModesBefore(n) : k <= n
  BY <1>1 DEF ModesBefore
<1>7. IsValue[n] \/ argv[n] \notin ModeOrTests => ModeDecided(n + 1, kind, generate)
  BY <1>4 DEF ModeDecided
<1>8. ~IsValue[n] /\ argv[n] \in ModeOrTests => LastIn(n, ModesBefore(n + 1)) /\ ModesBefore(n + 1) # {}
  BY <1>1, <1>5, <1>6 DEF LastIn
<1>9. ~IsValue[n] /\ argv[n] \in DOMAIN ModeWords => ModeDecided(n + 1, ModeWords[argv[n]], generate)
  <2> HAVE ~IsValue[n] /\ argv[n] \in DOMAIN ModeWords
  <2>1. argv[n] \in ModeOrTests /\ argv[n] # "--run-tests"
    BY Kinds DEF ModeOrTests
  <2>2. ModeWords[argv[n]] = ModeOf(n)
    BY <2>1 DEF ModeOf
  <2>3. (\E k \in ModesBefore(n + 1) : argv[k] = "--run-tests") <=> (\E k \in ModesBefore(n) : argv[k] = "--run-tests")
    BY <1>5, <2>1
  <2> QED BY <1>8, <2>1, <2>2, <2>3 DEF ModeDecided
<1>10. ~IsValue[n] /\ argv[n] = "--run-tests" => ModeDecided(n + 1, "executable", TRUE)
  <2> HAVE ~IsValue[n] /\ argv[n] = "--run-tests"
  <2>1. argv[n] \in ModeOrTests
    BY DEF ModeOrTests
  <2>2. "executable" = ModeOf(n)
    BY DEF ModeOf
  <2>3. \E k \in ModesBefore(n + 1) : argv[k] = "--run-tests"
    BY <1>5, <2>1
  <2> QED BY <1>8, <2>1, <2>2, <2>3 DEF ModeDecided
<1> QED BY <1>7, <1>9, <1>10

LEMMA DirsNext ==
    ASSUME argv \in Seq(Words), NEW n \in 1..Argc, NEW q, DirsListed(n, q)
    PROVE  /\ n \in DirWords => DirsListed(n + 1, Append(q, DirOf(n)))
           /\ n \notin DirWords => DirsListed(n + 1, q)
<1> DEFINE S(k) == {j \in DirWords : j < k}
<1>1. Argc \in Nat /\ n \in Nat /\ DirWords \subseteq 1..Argc
  BY DEF Argc, DirWords
<1>2. \A k \in 1..Argc : k < n + 1 <=> (k < n \/ k = n)
  BY <1>1
<1>3. ~(n < n) /\ n < n + 1
  BY <1>1
<1>4. n \notin DirWords => S(n + 1) = S(n)
  BY <1>1, <1>2
<1>5. n \in DirWords => S(n + 1) = S(n) \cup {n}
  BY <1>1, <1>2, <1>3
<1>6. ASSUME n \in DirWords PROVE DirsListed(n + 1, Append(q, DirOf(n)))
  <2> DEFINE r == Append(q, DirOf(n))
             m == Len(q)
             T == S(n)
  <2>0. DirOf(n) \in Words \cup {"d"}
    <3>1. CASE argv[n] \in DirHere
      BY <3>1 DEF DirOf
    <3>2. CASE argv[n] \notin DirHere
      <4>1. n < Argc
        BY <1>6, <3>2 DEF DirWords
      <4>2. n + 1 \in 1..Argc
        BY <1>1, <4>1
      <4> QED BY <3>2, <4>2 DEF DirOf, Argc
    <3> QED BY <3>1, <3>2
  <2>1. PICK ks : Picks(ks, q, T) /\ \A k \in DOMAIN ks : q[k] = DirOf(ks[k])
    BY DEF DirsListed
  <2>2. /\ q \in Seq(Words \cup {"d"}) /\ r \in Seq(Words \cup {"d"}) /\ m \in Nat
        /\ DOMAIN q = 1..m /\ DOMAIN r = 1..m + 1
        /\ r[m + 1] = DirOf(n) /\ \A k \in 1..m : r[k] = q[k]
    BY <2>0 DEF DirsListed
  <2>3. DOMAIN ks = 1..m
    BY <2>1, <2>2 DEF Picks
  <2>4. T \in SUBSET Nat /\ \A k \in T : k < n
    <3>1. 1..Argc \subseteq Nat
      OBVIOUS
    <3> QED BY <1>1, <3>1
  <2>6. S(n + 1) = T \cup {n}
    BY <1>5, <1>6
  <2>60. \A p : Picks(p, r, S(n + 1)) /\ (\A k \in DOMAIN p : r[k] = DirOf(p[k])) => DirsListed(n + 1, r)
    BY <2>2 DEF DirsListed
  <2> HIDE DEF r, m, T, S
  <2>70. OneMore(m, q, r, T, ks, n)
    BY <1>1, <2>1, <2>2, <2>4 DEF OneMore
  <2>71. PICK kt : AndPicked(kt, m, r, T, ks, n)
    BY <2>70, PicksKept
  <2>7. /\ Picks(kt, r, T \cup {n})
        /\ DOMAIN kt = 1..m + 1 /\ kt[m + 1] = n /\ \A k \in 1..m : kt[k] = ks[k]
    BY <2>71 DEF AndPicked
  <2>8. \A k \in DOMAIN kt : r[k] = DirOf(kt[k])
    <3>1. \A k \in 1..m + 1 : k = m + 1 \/ k \in 1..m
      BY <2>2
    <3> QED BY <2>1, <2>2, <2>3, <2>7, <3>1
  <2>9. DirsListed(n + 1, r)
    BY <2>6, <2>60, <2>7, <2>8
  <2> QED BY <2>9 DEF r
<1>7. ASSUME n \notin DirWords PROVE DirsListed(n + 1, q)
  BY <1>4, <1>7 DEF DirsListed
<1> QED BY <1>6, <1>7


-----------------------------------------------------------------------------
(* What a word gives.                                                      *)

LEMMA ValueNext ==
    ASSUME argv \in Seq(Words), NEW n \in 1..Argc
    PROVE  /\ IsValue[n] \in BOOLEAN
           /\ n + 1 <= Argc => IsValue[n + 1] = (~IsValue[n] /\ argv[n] \in DOMAIN Separate)
           /\ n = 1 => ~IsValue[n]
<1> DEFINE v == Values(argv)
<1>1. /\ \A k \in 0..Argc : v[k] \in BOOLEAN
      /\ \A k \in 1..Argc : v[k] <=> (k > 1 /\ ~v[k - 1] /\ argv[k - 1] \in DOMAIN Separate)
  BY ValueRec DEF Argc
<1>2. Argc \in Nat
  BY DEF Argc
<1>3. n \in 0..Argc /\ n \in 1..Argc /\ (n + 1 <= Argc => n + 1 \in 1..Argc /\ n + 1 \in 0..Argc) /\ n + 1 > 1 /\ (n + 1) - 1 = n
  BY <1>2
<1> HIDE DEF v
<1>4. v[n] \in BOOLEAN
  BY <1>1, <1>3
<1>5. n + 1 <= Argc => (v[n + 1] <=> (~v[n] /\ argv[n] \in DOMAIN Separate)) /\ v[n + 1] \in BOOLEAN
  BY <1>1, <1>3
<1>6. n = 1 => ~v[n]
  BY <1>1, <1>3
<1> QED BY <1>4, <1>5, <1>6 DEF IsValue, v

LEMMA WordAt ==
    ASSUME argv \in Seq(Words), NEW n \in 1..Argc
    PROVE  argv[n] \in Words /\ argv[n] # Nothing /\ (n < Argc => n + 1 \in 1..Argc)
<1>1. Argc \in Nat /\ argv[n] \in Words
  BY DEF Argc
<1> QED BY <1>1, OptionsAssumption

LEMMA ValueGives ==
    ASSUME NEW n, IsValue[n], NEW to
    PROVE  n \notin Gives(to)
BY DEF Gives

LEMMA SeparateGives ==
    ASSUME argv \in Seq(Words), NEW n \in 1..Argc, ~IsValue[n], argv[n] \in DOMAIN Separate, n < Argc
    PROVE  /\ \A to : n \in Gives(to) <=> to = Separate[argv[n]]
           /\ Given(n) = argv[n + 1] /\ Given(n) \in Words /\ Given(n) # Nothing
<1>1. argv[n] \notin DOMAIN Attached /\ argv[n] \notin Positional
  BY Kinds
<1>2. n + 1 \in 1..Argc
  BY WordAt
<1>3. argv[n + 1] \in Words /\ argv[n + 1] # Nothing
  BY <1>2, WordAt
<1> QED BY <1>1, <1>3 DEF Gives, Given, ValueAt

LEMMA AttachedGives ==
    ASSUME NEW n \in 1..Argc, ~IsValue[n], argv[n] \in DOMAIN Attached
    PROVE  /\ \A to : n \in Gives(to) <=> to = Attached[argv[n]].to
           /\ Given(n) = Attached[argv[n]].value /\ Given(n) # Nothing
           /\ Attached[argv[n]].to \in {"tests", "tags"} => Given(n) = "t"
<1>1. argv[n] \notin DOMAIN Separate /\ argv[n] \notin Positional /\ Attached[argv[n]].value # Nothing
  BY Kinds
<1>2. Attached[argv[n]].to \in {"tests", "tags"} => Attached[argv[n]].value = "t"
  BY DEF Attached
<1> QED BY <1>1, <1>2 DEF Gives, Given, ValueAt

LEMMA PositionalGives ==
    ASSUME argv \in Seq(Words), NEW n \in 1..Argc, ~IsValue[n], argv[n] \in Positional
    PROVE  /\ \A to : n \in Gives(to) <=> to = "input"
           /\ Given(n) = argv[n] /\ Given(n) # Nothing
<1>1. argv[n] \notin DOMAIN Separate /\ argv[n] \notin DOMAIN Attached
  BY Kinds
<1> QED BY <1>1, WordAt DEF Gives, Given

LEMMA OthersGive ==
    ASSUME NEW n \in 1..Argc, argv[n] \notin DOMAIN Attached, argv[n] \notin Positional,
           argv[n] \in DOMAIN Separate => ~(n < Argc), NEW to
    PROVE  n \notin Gives(to)
BY DEF Gives

\* Whatever a word that is not a value gives, it gives something.
LEMMA GivenIsSomething ==
    ASSUME argv \in Seq(Words), NEW to, NEW k \in Gives(to)
    PROVE  Given(k) # Nothing
<1>1. /\ k \in 1..Argc /\ ~IsValue[k]
      /\ \/ argv[k] \in DOMAIN Separate /\ k < Argc
         \/ argv[k] \in DOMAIN Attached
         \/ argv[k] \in Positional
  BY DEF Gives
<1> QED BY <1>1, SeparateGives, AttachedGives, PositionalGives

-----------------------------------------------------------------------------
(* What main has in its variables before word n.                           *)

WordsRight(n, g) ==
    /\ DOMAIN g = Fields
    /\ \A to \in {"input", "output"} : Decided(to, n, g[to])
    /\ Latest("runtime", n, g["runtime"])
    /\ \A to \in {"tests", "tags"} : Listed(to, n, g[to])
    /\ ModeDecided(n, g["mode"], g["generate"])

SameBut(g, h, names) == DOMAIN h = Fields /\ \A x \in Fields \ names : h[x] = g[x]

LEMMA Passed ==
    ASSUME argv \in Seq(Words), NEW n \in 1..Argc, NEW g, NEW h, WordsRight(n, g), SameBut(g, h, {"flags"}),
           \A to : n \notin Gives(to), IsValue[n] \/ argv[n] \notin ModeOrTests
    PROVE  WordsRight(n + 1, h)
<1>1. /\ h["input"] = g["input"] /\ h["output"] = g["output"] /\ h["runtime"] = g["runtime"]
      /\ h["tests"] = g["tests"] /\ h["tags"] = g["tags"] /\ h["mode"] = g["mode"]
      /\ h["generate"] = g["generate"] /\ DOMAIN h = Fields
  BY DEF SameBut, Fields
<1>2. \A to \in {"input", "output"} : Decided(to, n + 1, h[to])
  BY <1>1, DecidedNext DEF WordsRight
<1>3. Latest("runtime", n + 1, h["runtime"])
  BY <1>1, LatestNext DEF WordsRight
<1>4. \A to \in {"tests", "tags"} : Listed(to, n + 1, h[to])
  BY <1>1, ListedNext DEF WordsRight
<1>5. ModeDecided(n + 1, h["mode"], h["generate"])
  BY <1>1, ModeNext DEF WordsRight
<1> QED BY <1>1, <1>2, <1>3, <1>4, <1>5 DEF WordsRight

LEMMA Gave ==
    ASSUME argv \in Seq(Words), NEW n \in 1..Argc, NEW g, NEW h, WordsRight(n, g), NEW it \in Names, SameBut(g, h, {it}),
           \A to : n \in Gives(to) <=> to = it, argv[n] \notin ModeOrTests,
           h[it] = IF it \in {"tests", "tags"} THEN Append(g[it], Given(n)) ELSE Given(n),
           it \in {"tests", "tags"} => Given(n) \in Words \cup {"t"}
    PROVE  WordsRight(n + 1, h)
<1>1. /\ \A x \in Names \ {it} : h[x] = g[x]
      /\ h["mode"] = g["mode"] /\ h["generate"] = g["generate"] /\ DOMAIN h = Fields
  BY DEF SameBut, Fields, Names
<1>2. ASSUME NEW to \in {"input", "output"} PROVE Decided(to, n + 1, h[to])
  <2>1. CASE to = it
    BY <2>1, DecidedNext
  <2>2. CASE to # it
    <3>1. h[to] = g[to] /\ n \notin Gives(to) /\ Decided(to, n, g[to])
      BY <1>1, <2>2 DEF Names, WordsRight
    <3> QED BY <3>1, DecidedNext
  <2> QED BY <2>1, <2>2
<1>3. Latest("runtime", n + 1, h["runtime"])
  <2>1. CASE "runtime" = it
    BY <2>1, LatestNext
  <2>2. CASE "runtime" # it
    <3>1. h["runtime"] = g["runtime"] /\ n \notin Gives("runtime") /\ Latest("runtime", n, g["runtime"])
      BY <1>1, <2>2 DEF Names, WordsRight
    <3> QED BY <3>1, LatestNext
  <2> QED BY <2>1, <2>2
<1>4. ASSUME NEW to \in {"tests", "tags"} PROVE Listed(to, n + 1, h[to])
  <2>0. Listed(to, n, g[to])
    BY DEF WordsRight
  <2>1. CASE to = it
    <3>1. h[to] = Append(g[to], Given(n)) /\ n \in Gives(to) /\ Given(n) \in Words \cup {"t"}
      BY <2>1
    <3>2. PICK q : q = g[to]
      OBVIOUS
    <3>3. Listed(to, n + 1, Append(q, Given(n)))
      BY <2>0, <3>1, <3>2, ListedNext
    <3> QED BY <3>1, <3>2, <3>3
  <2>2. CASE to # it
    <3>1. h[to] = g[to] /\ n \notin Gives(to)
      BY <1>1, <2>2 DEF Names
    <3>2. PICK q : q = g[to]
      OBVIOUS
    <3>3. Listed(to, n + 1, q)
      BY <2>0, <3>1, <3>2, ListedNext
    <3> QED BY <3>1, <3>2, <3>3
  <2> QED BY <2>1, <2>2
<1>5. ModeDecided(n + 1, h["mode"], h["generate"])
  BY <1>1, ModeNext DEF WordsRight
<1> QED BY <1>1, <1>2, <1>3, <1>4, <1>5 DEF WordsRight

LEMMA ModeSet ==
    ASSUME argv \in Seq(Words), NEW n \in 1..Argc, NEW g, NEW h, WordsRight(n, g), SameBut(g, h, {"mode", "generate"}),
           \A to : n \notin Gives(to), ~IsValue[n],
           \/ argv[n] \in DOMAIN ModeWords /\ h["mode"] = ModeWords[argv[n]] /\ h["generate"] = g["generate"]
           \/ argv[n] = "--run-tests" /\ h["mode"] = "executable" /\ h["generate"] = TRUE
    PROVE  WordsRight(n + 1, h)
<1>1. /\ h["input"] = g["input"] /\ h["output"] = g["output"] /\ h["runtime"] = g["runtime"]
      /\ h["tests"] = g["tests"] /\ h["tags"] = g["tags"] /\ DOMAIN h = Fields
  BY DEF SameBut, Fields
<1>2. \A to \in {"input", "output"} : Decided(to, n + 1, h[to])
  BY <1>1, DecidedNext DEF WordsRight
<1>3. Latest("runtime", n + 1, h["runtime"])
  BY <1>1, LatestNext DEF WordsRight
<1>4. \A to \in {"tests", "tags"} : Listed(to, n + 1, h[to])
  BY <1>1, ListedNext DEF WordsRight
<1>5. ModeDecided(n + 1, h["mode"], h["generate"])
  <2>1. PICK m, b : m = g["mode"] /\ b = g["generate"]
    OBVIOUS
  <2>2. ModeDecided(n, m, b)
    BY <2>1 DEF WordsRight
  <2>3. CASE argv[n] \in DOMAIN ModeWords /\ h["mode"] = ModeWords[argv[n]] /\ h["generate"] = g["generate"]
    <3>1. ModeDecided(n + 1, ModeWords[argv[n]], b)
      BY <2>2, <2>3, ModeNext
    <3> QED BY <2>1, <2>3, <3>1
  <2>4. CASE argv[n] = "--run-tests" /\ h["mode"] = "executable" /\ h["generate"] = TRUE
    <3>1. ModeDecided(n + 1, "executable", TRUE)
      BY <2>2, <2>4, ModeNext
    <3> QED BY <2>4, <3>1
  <2> QED BY <2>3, <2>4
<1> QED BY <1>1, <1>2, <1>3, <1>4, <1>5 DEF WordsRight

-----------------------------------------------------------------------------
(* The inductive invariant. Before word n main has what the words before n *)
(* give, and the words there are enough to know which word is a value of   *)
(* another, wherever the loop stands. After the words main's output may be *)
(* a.out in place of nothing, g being what the words gave.                 *)

GivenRight ==
    /\ phase = "search" =>
          /\ i = 1 /\ DOMAIN given = Fields
          /\ given["tests"] = <<>> /\ given["tags"] = <<>>
          /\ given["mode"] = "executable" /\ given["generate"] = FALSE
    /\ phase = "words" => WordsRight(i, given)
    /\ phase = "usage" => given["input"] = Nothing /\ WordsRight(Argc + 1, given)
    /\ phase \in {"dirs", "compile"} =>
          /\ given["input"] # Nothing
          /\ \E g : /\ WordsRight(Argc + 1, g) /\ SameBut(g, given, {"output"})
                    /\ given["output"] = IF g["output"] = Nothing THEN "a.out" ELSE g["output"]
DirsRight ==
    /\ phase \in {"search", "words", "usage"} => dirs = <<>>
    /\ phase = "dirs" => DirsListed(i, dirs)
    /\ phase = "compile" =>
          /\ dirs # <<>>
          /\ IF DirWords = {} THEN dirs = <<".">> ELSE DirsListed(Argc + 1, dirs)

LineInv ==
    /\ argv \in Seq(Words) /\ i \in 1..Argc + 1
    /\ phase \in {"search", "words", "dirs", "usage", "compile"}
    /\ phase = "words" /\ i <= Argc => ~IsValue[i]
    /\ GivenRight /\ DirsRight

\* No step changes the words, so what is said of them stays.
Kept == argv' = argv

LEMMA SameWords ==
    ASSUME Kept
    PROVE  /\ Argc' = Argc /\ IsValue' = IsValue /\ DirWords' = DirWords
           /\ \A n, g : WordsRight(n, g) => WordsRight(n, g)'
           /\ \A n, q : DirsListed(n, q) => DirsListed(n, q)'
<1> USE DEF Kept
<1>1. Argc' = Argc /\ IsValue' = IsValue
  BY DEF Argc, IsValue
<1>2. \A k : ValueAt(k)' = ValueAt(k)
  BY DEF ValueAt
<1>3. \A k : Given(k)' = Given(k)
  BY <1>2 DEF Given
<1>4. \A to : Gives(to)' = Gives(to)
  BY <1>1 DEF Gives
<1>5. \A to : Found(to)' = Found(to)
  <2>1. \A k, to : Answers(k, to)' <=> Answers(k, to)
    BY <1>1 DEF Answers
  <2> QED BY <1>1, <2>1 DEF Found
<1>6. \A to : GetArgValue(to)' = GetArgValue(to)
  BY <1>2, <1>5 DEF GetArgValue
<1>7. \A to, n : Before(to, n)' = Before(to, n)
  BY <1>4 DEF Before
<1>8. \A to, n, v : Latest(to, n, v)' <=> Latest(to, n, v)
  BY <1>3, <1>7 DEF Latest
<1>9. \A to, n, v : Decided(to, n, v)' <=> Decided(to, n, v)
  BY <1>6, <1>7, <1>8 DEF Decided
<1>10. \A to, n, q : Listed(to, n, q)' <=> Listed(to, n, q)
  BY <1>3, <1>7 DEF Listed
<1>11. \A n, m, b : ModeDecided(n, m, b)' <=> ModeDecided(n, m, b)
  <2>1. \A n : ModesBefore(n)' = ModesBefore(n)
    BY <1>1 DEF ModesBefore
  <2>2. \A k : ModeOf(k)' = ModeOf(k)
    BY DEF ModeOf
  <2> QED BY <2>1, <2>2 DEF ModeDecided
<1>12. \A n, g : WordsRight(n, g)' <=> WordsRight(n, g)
  BY <1>8, <1>9, <1>10, <1>11 DEF WordsRight
<1>13. DirWords' = DirWords
  BY <1>1 DEF DirWords
<1>14. \A n, q : DirsListed(n, q)' <=> DirsListed(n, q)
  <2>1. \A k : DirOf(k)' = DirOf(k)
    BY DEF DirOf
  <2> QED BY <1>13, <2>1 DEF DirsListed
<1> QED BY <1>1, <1>12, <1>13, <1>14


LEMMA NextWord ==
    ASSUME LineInv, At, Kept, phase' = phase, dirs' = dirs,
           NEW m \in 1..Argc + 1, i' = m, m <= Argc => ~IsValue[m],
           NEW g, given' = g, WordsRight(m, g)
    PROVE  LineInv'
<1>1. phase = "words" /\ phase' = "words"
  BY DEF At
<1>2. Argc' = Argc /\ IsValue' = IsValue
  BY SameWords
<1>3. WordsRight(i, given)'
  <2>1. WordsRight(m, g)'
    BY SameWords
  <2> QED BY <2>1
<1>5. GivenRight'
  BY <1>1, <1>3 DEF GivenRight
<1>6. DirsRight'
  BY <1>1 DEF LineInv, DirsRight
<1>7. argv' \in Seq(Words)
  BY DEF LineInv, Kept
<1>8. phase' \in {"search", "words", "dirs", "usage", "compile"} /\ i' \in 1..Argc' + 1
      /\ (phase' = "words" /\ i' <= Argc' => ~IsValue'[i'])
  BY <1>1, <1>2
<1> QED BY <1>5, <1>6, <1>7, <1>8 DEF LineInv

\* Where the loop is when it has read the word at n, and perhaps its value.
LEMMA NextAt ==
    ASSUME argv \in Seq(Words), NEW n \in 1..Argc, ~IsValue[n]
    PROVE  /\ n + 1 \in 1..Argc + 1 /\ (argv[n] \notin DOMAIN Separate \/ n = Argc => (n + 1 <= Argc => ~IsValue[n + 1]))
           /\ argv[n] \in DOMAIN Separate /\ n < Argc =>
                 /\ n + 1 \in 1..Argc /\ IsValue[n + 1] /\ n + 2 \in 1..Argc + 1 /\ (n + 1) + 1 = n + 2
                 /\ n + 2 <= Argc => ~IsValue[n + 2]
<1>1. Argc \in Nat /\ n \in Nat
  BY DEF Argc
<1>2. n + 1 \in 1..Argc + 1
  BY <1>1
<1>3. n + 1 <= Argc => IsValue[n + 1] = (~IsValue[n] /\ argv[n] \in DOMAIN Separate)
  BY ValueNext
<1>4. argv[n] \notin DOMAIN Separate \/ n = Argc => (n + 1 <= Argc => ~IsValue[n + 1])
  <2>1. n = Argc => ~(n + 1 <= Argc)
    BY <1>1
  <2>2. ASSUME argv[n] \notin DOMAIN Separate, n + 1 <= Argc PROVE ~IsValue[n + 1]
    <3>1. IsValue[n + 1] = FALSE
      BY <1>3, <2>2
    <3> QED BY <3>1
  <2> QED BY <2>1, <2>2
<1>5. ASSUME argv[n] \in DOMAIN Separate, n < Argc
      PROVE  /\ n + 1 \in 1..Argc /\ IsValue[n + 1] /\ n + 2 \in 1..Argc + 1 /\ (n + 1) + 1 = n + 2
             /\ n + 2 <= Argc => ~IsValue[n + 2]
  <2>1. n + 1 \in 1..Argc /\ n + 1 <= Argc /\ n + 2 \in 1..Argc + 1 /\ (n + 1) + 1 = n + 2
    BY <1>1, <1>5
  <2>2. IsValue[n + 1] = (~IsValue[n] /\ argv[n] \in DOMAIN Separate)
    BY <1>3, <2>1
  <2>3. IsValue[n + 1]
    BY <1>5, <2>2
  <2>4. (n + 1) + 1 <= Argc => IsValue[(n + 1) + 1] = (~IsValue[n + 1] /\ argv[n + 1] \in DOMAIN Separate)
    BY <2>1, ValueNext
  <2>5. n + 2 <= Argc => ~IsValue[n + 2]
    BY <2>1, <2>3, <2>4
  <2> QED BY <2>1, <2>3, <2>5
<1> QED BY <1>2, <1>4, <1>5

LEMMA AtWord ==
    ASSUME LineInv, At
    PROVE  /\ argv \in Seq(Words) /\ i \in 1..Argc /\ ~IsValue[i] /\ WordsRight(i, given)
           /\ DOMAIN given = Fields /\ i \in Nat
<1>1. Argc \in Nat /\ i \in 1..Argc + 1
  BY DEF LineInv, Argc
<1> QED BY <1>1 DEF LineInv, At, GivenRight, WordsRight

LEMMA SeparateStep ==
    ASSUME LineInv, SeparateValue
    PROVE  LineInv'
<1>1. /\ At /\ argv[i] \in DOMAIN Separate /\ i < Argc /\ Kept /\ phase' = phase /\ dirs' = dirs
      /\ Give(Separate[argv[i]], argv[i + 1]) /\ i' = i + 2
  BY DEF SeparateValue, Reads, Kept
<1>2. /\ argv \in Seq(Words) /\ i \in 1..Argc /\ ~IsValue[i] /\ WordsRight(i, given)
      /\ DOMAIN given = Fields /\ i \in Nat
  BY <1>1, AtWord
<1>3. /\ i + 1 \in 1..Argc /\ IsValue[i + 1] /\ i + 2 \in 1..Argc + 1 /\ (i + 1) + 1 = i + 2
      /\ i + 2 <= Argc => ~IsValue[i + 2]
  BY <1>1, <1>2, NextAt
<1>4. PICK it, v, g, h :
         /\ it \in Names /\ it = Separate[argv[i]] /\ v = argv[i + 1] /\ g = given
         /\ h = [g EXCEPT ![it] = IF it \in {"tests", "tags"} THEN Append(@, v) ELSE v]
  BY <1>1, Kinds
<1>5. given' = h
  BY <1>1, <1>4 DEF Give
<1>6. SameBut(g, h, {it}) /\ h[it] = IF it \in {"tests", "tags"} THEN Append(g[it], v) ELSE v
  BY <1>2, <1>4 DEF SameBut, Fields, Names
<1>7. (\A to : i \in Gives(to) <=> to = it) /\ Given(i) = v /\ Given(i) \in Words \cup {"t"}
  BY <1>1, <1>2, <1>4, SeparateGives
<1>8. argv[i] \notin ModeOrTests
  BY <1>1, Kinds
<1>9. WordsRight(i + 1, h)
  <2>1. WordsRight(i, g)
    BY <1>2, <1>4
  <2>2. it \in Names
    BY <1>4
  <2> QED BY <1>2, <1>6, <1>7, <1>8, <2>1, <2>2, Gave
<1>10. WordsRight((i + 1) + 1, h)
  <2>1. \A to : i + 1 \notin Gives(to)
    BY <1>3, ValueGives
  <2>2. SameBut(h, h, {"flags"})
    BY <1>6 DEF SameBut
  <2> QED BY <1>2, <1>3, <1>9, <2>1, <2>2, Passed
<1>12. PICK m \in 1..Argc + 1 : m = i + 2
  BY <1>3
<1>13. WordsRight(m, h) /\ i' = m /\ (m <= Argc => ~IsValue[m])
  BY <1>1, <1>3, <1>10, <1>12
<1> QED BY <1>1, <1>5, <1>13, NextWord

\* A step that reads one word as an option or an input, or passes over it.
LEMMA OneWord ==
    ASSUME LineInv, At, Kept, phase' = phase, dirs' = dirs, i' = i + 1,
           argv[i] \notin DOMAIN Separate \/ i = Argc,
           NEW h, given' = h, WordsRight(i + 1, h)
    PROVE  LineInv'
<1>1. argv \in Seq(Words) /\ i \in 1..Argc /\ ~IsValue[i]
  BY AtWord
<1>2. PICK m \in 1..Argc + 1 : m = i + 1 /\ (m <= Argc => ~IsValue[m])
  BY <1>1, NextAt
<1>3. WordsRight(m, h) /\ i' = m
  BY <1>2
<1>4. Argc' = Argc /\ IsValue' = IsValue
  BY SameWords
<1>5. WordsRight(i, given)'
  <2>1. WordsRight(m, h)'
    BY <1>3, SameWords
  <2> QED BY <1>3, <2>1
<1>6. phase = "words" /\ phase' = "words"
  BY DEF At
<1>7. GivenRight'
  BY <1>5, <1>6 DEF GivenRight
<1>8. DirsRight'
  BY <1>6 DEF LineInv, DirsRight
<1>9. argv' \in Seq(Words)
  BY <1>1 DEF Kept
<1>10. phase' \in {"search", "words", "dirs", "usage", "compile"} /\ i' \in 1..Argc' + 1
       /\ (phase' = "words" /\ i' <= Argc' => ~IsValue'[i'])
  BY <1>2, <1>3, <1>4, <1>6
<1> QED BY <1>7, <1>8, <1>9, <1>10 DEF LineInv

LEMMA AttachedStep ==
    ASSUME LineInv, AttachedValue
    PROVE  LineInv'
<1>1. /\ At /\ argv[i] \in DOMAIN Attached /\ Kept /\ phase' = phase /\ dirs' = dirs
      /\ Give(Attached[argv[i]].to, Attached[argv[i]].value) /\ i' = i + 1
  BY DEF AttachedValue, Reads, Kept
<1>2. /\ argv \in Seq(Words) /\ i \in 1..Argc /\ ~IsValue[i] /\ WordsRight(i, given)
      /\ DOMAIN given = Fields
  BY <1>1, AtWord
<1>3. /\ Attached[argv[i]].to \in Names /\ argv[i] \notin ModeOrTests /\ argv[i] \notin DOMAIN Separate
  BY <1>1, Kinds
<1>4. PICK it, v, g, h :
         /\ it \in Names /\ it = Attached[argv[i]].to /\ v = Attached[argv[i]].value /\ g = given
         /\ h = [g EXCEPT ![it] = IF it \in {"tests", "tags"} THEN Append(@, v) ELSE v]
  BY <1>3
<1>5. given' = h
  BY <1>1, <1>4 DEF Give
<1>6. SameBut(g, h, {it}) /\ h[it] = IF it \in {"tests", "tags"} THEN Append(g[it], v) ELSE v
  BY <1>2, <1>4 DEF SameBut, Fields, Names
<1>7. /\ \A to : i \in Gives(to) <=> to = it
      /\ Given(i) = v /\ (it \in {"tests", "tags"} => Given(i) \in Words \cup {"t"})
  BY <1>1, <1>2, <1>4, AttachedGives
<1>8. WordsRight(i + 1, h)
  <2>1. WordsRight(i, g)
    BY <1>2, <1>4
  <2>2. it \in Names
    BY <1>4
  <2> QED BY <1>2, <1>3, <1>6, <1>7, <2>1, <2>2, Gave
<1> QED BY <1>1, <1>3, <1>5, <1>8, OneWord

LEMMA PositionalStep ==
    ASSUME LineInv, PositionalInput
    PROVE  LineInv'
<1>1. /\ At /\ argv[i] \in Positional /\ Kept /\ phase' = phase /\ dirs' = dirs
      /\ given' = [given EXCEPT !.input = argv[i]] /\ i' = i + 1
  BY DEF PositionalInput, Reads, Kept
<1>2. /\ argv \in Seq(Words) /\ i \in 1..Argc /\ ~IsValue[i] /\ WordsRight(i, given)
      /\ DOMAIN given = Fields
  BY <1>1, AtWord
<1>3. argv[i] \notin ModeOrTests /\ argv[i] \notin DOMAIN Separate
  BY <1>1, Kinds
<1>4. PICK v, g, h : v = argv[i] /\ g = given /\ h = [g EXCEPT !["input"] = v]
  OBVIOUS
<1>5. given' = h
  BY <1>1, <1>4
<1>6. SameBut(g, h, {"input"}) /\ h["input"] = v /\ "input" \in Names
  BY <1>2, <1>4 DEF SameBut, Fields, Names
<1>7. (\A to : i \in Gives(to) <=> to = "input") /\ Given(i) = v
  BY <1>1, <1>2, <1>4, PositionalGives
<1>8. WordsRight(i + 1, h)
  <2>1. WordsRight(i, g)
    BY <1>2, <1>4
  <2>2. h["input"] = IF "input" \in {"tests", "tags"} THEN Append(g["input"], Given(i)) ELSE Given(i)
    BY <1>6, <1>7
  <2> QED BY <1>2, <1>3, <1>6, <1>7, <2>1, <2>2, Gave
<1> QED BY <1>1, <1>3, <1>5, <1>8, OneWord

LEMMA ModeStep ==
    ASSUME LineInv, SetMode \/ RunTests
    PROVE  LineInv'
<1>1. /\ At /\ argv[i] \in ModeOrTests /\ Kept /\ phase' = phase /\ dirs' = dirs
      /\ \/ argv[i] \in DOMAIN ModeWords /\ given' = [given EXCEPT !.mode = ModeWords[argv[i]]]
         \/ argv[i] = "--run-tests" /\ given' = [given EXCEPT !.generate = TRUE, !.mode = "executable"]
      /\ i' = i + 1
  BY DEF SetMode, RunTests, Reads, Kept, ModeOrTests
<1>2. /\ argv \in Seq(Words) /\ i \in 1..Argc /\ ~IsValue[i] /\ WordsRight(i, given)
      /\ DOMAIN given = Fields
  BY <1>1, AtWord
<1>3. argv[i] \notin Positional /\ argv[i] \notin DOMAIN Separate /\ argv[i] \notin DOMAIN Attached
  BY <1>1, Kinds
<1>4. \A to : i \notin Gives(to)
  BY <1>2, <1>3, OthersGive
<1>5. PICK g, h : g = given /\ h = given'
  OBVIOUS
<1>6. /\ SameBut(g, h, {"mode", "generate"})
      /\ \/ argv[i] \in DOMAIN ModeWords /\ h["mode"] = ModeWords[argv[i]] /\ h["generate"] = g["generate"]
         \/ argv[i] = "--run-tests" /\ h["mode"] = "executable" /\ h["generate"] = TRUE
  <2>1. CASE argv[i] \in DOMAIN ModeWords /\ given' = [given EXCEPT !.mode = ModeWords[argv[i]]]
    <3>1. PICK v : v = ModeWords[argv[i]]
      OBVIOUS
    <3>2. h = [g EXCEPT !["mode"] = v] /\ DOMAIN g = Fields
      BY <1>2, <1>5, <2>1, <3>1
    <3>3. SameBut(g, h, {"mode", "generate"}) /\ h["mode"] = v /\ h["generate"] = g["generate"]
      BY <3>2 DEF SameBut, Fields
    <3> QED BY <2>1, <3>1, <3>3
  <2>2. CASE argv[i] = "--run-tests" /\ given' = [given EXCEPT !.generate = TRUE, !.mode = "executable"]
    <3>1. h = [g EXCEPT !["generate"] = TRUE, !["mode"] = "executable"] /\ DOMAIN g = Fields
      BY <1>2, <1>5, <2>2
    <3>2. SameBut(g, h, {"mode", "generate"}) /\ h["mode"] = "executable" /\ h["generate"] = TRUE
      BY <3>1 DEF SameBut, Fields
    <3> QED BY <2>2, <3>2
  <2> QED BY <1>1, <2>1, <2>2
<1>7. WordsRight(i + 1, h)
  <2>1. WordsRight(i, g)
    BY <1>2, <1>5
  <2> QED BY <1>2, <1>4, <1>6, <2>1, ModeSet
<1> QED BY <1>1, <1>3, <1>5, <1>7, OneWord

LEMMA FlagStep ==
    ASSUME LineInv, SetFlag
    PROVE  LineInv'
<1>1. /\ At /\ argv[i] \in Flags /\ Kept /\ phase' = phase /\ dirs' = dirs
      /\ given' = [given EXCEPT !.flags = @ \cup {argv[i]}] /\ i' = i + 1
  BY DEF SetFlag, Reads, Kept
<1>2. /\ argv \in Seq(Words) /\ i \in 1..Argc /\ ~IsValue[i] /\ WordsRight(i, given)
      /\ DOMAIN given = Fields
  BY <1>1, AtWord
<1>3. argv[i] \notin Positional /\ argv[i] \notin DOMAIN Separate /\ argv[i] \notin DOMAIN Attached /\ argv[i] \notin ModeOrTests
  BY <1>1, Kinds
<1>4. \A to : i \notin Gives(to)
  BY <1>2, <1>3, OthersGive
<1>5. PICK v, g, h : v = argv[i] /\ g = given /\ h = [g EXCEPT !["flags"] = @ \cup {v}]
  OBVIOUS
<1>6. given' = h
  BY <1>1, <1>5
<1>7. SameBut(g, h, {"flags"})
  BY <1>2, <1>5 DEF SameBut, Fields
<1>8. WordsRight(i + 1, h)
  <2>1. WordsRight(i, g)
    BY <1>2, <1>5
  <2> QED BY <1>2, <1>3, <1>4, <1>7, <2>1, Passed
<1> QED BY <1>1, <1>3, <1>6, <1>8, OneWord

LEMMA IgnoredStep ==
    ASSUME LineInv, Ignored
    PROVE  LineInv'
<1>1. /\ At /\ Kept /\ phase' = phase /\ dirs' = dirs /\ given' = given /\ i' = i + 1
      /\ argv[i] \notin DOMAIN Attached /\ argv[i] \notin Positional /\ argv[i] \notin ModeOrTests
      /\ argv[i] \in DOMAIN Separate => i = Argc
  BY DEF Ignored, Reads, Kept, ModeOrTests
<1>2. /\ argv \in Seq(Words) /\ i \in 1..Argc /\ ~IsValue[i] /\ WordsRight(i, given)
      /\ DOMAIN given = Fields
  BY <1>1, AtWord
<1>3. \A to : i \notin Gives(to)
  <2>1. argv[i] \in DOMAIN Separate => ~(i < Argc)
    BY <1>1, <1>2
  <2> QED BY <1>1, <1>2, <2>1, OthersGive
<1>4. PICK g : g = given
  OBVIOUS
<1>5. SameBut(g, g, {"flags"})
  BY <1>2, <1>4 DEF SameBut
<1>6. WordsRight(i + 1, g)
  <2>1. WordsRight(i, g)
    BY <1>2, <1>4
  <2> QED BY <1>1, <1>2, <1>3, <1>5, <2>1, Passed
<1>8. given' = g
  BY <1>1, <1>4
<1> QED BY <1>1, <1>6, <1>8, OneWord


LEMMA NothingBefore ==
    ASSUME argv \in Seq(Words)
    PROVE  /\ \A to : Before(to, 1) = {}
           /\ \A to : Before(to, Argc + 1) = Gives(to)
           /\ ModesBefore(1) = {} /\ {k \in DirWords : k < 1} = {} /\ {k \in DirWords : k < Argc + 1} = DirWords
<1>1. Argc \in Nat /\ \A k \in 1..Argc : ~(k < 1) /\ k < Argc + 1
  BY DEF Argc
<1>2. \A to : Gives(to) \subseteq 1..Argc
  BY GivesAt
<1>3. DirWords \subseteq 1..Argc
  BY DEF DirWords
<1> QED BY <1>1, <1>2, <1>3 DEF Before, ModesBefore

\* An empty list for no words.
LEMMA PicksNothing ==
    Picks(<<>>, <<>>, {})
BY DEF Picks, Ordered

LEMMA LineInitInv ==
    LineInit => LineInv
<1> SUFFICES ASSUME LineInit PROVE LineInv
  OBVIOUS
<1>1. argv \in Seq(Words)
  BY OptionsAssumption DEF LineInit, BoundedSeq, SeqOf
<1>2. Argc \in Nat /\ i \in 1..Argc + 1
  BY <1>1 DEF LineInit, Argc
<1>3. PICK env : given = [input |-> Nothing, output |-> Nothing, runtime |-> env, mode |-> "executable",
                          tests |-> <<>>, tags |-> <<>>, flags |-> {}, generate |-> FALSE]
  BY DEF LineInit
<1>4. GivenRight
  BY <1>3 DEF LineInit, GivenRight, Fields
<1>5. DirsRight
  BY DEF LineInit, DirsRight
<1> QED BY <1>1, <1>2, <1>4, <1>5 DEF LineInit, LineInv

LEMMA SearchStep ==
    ASSUME LineInv, Search
    PROVE  LineInv'
<1>1. /\ phase = "search" /\ phase' = "words" /\ Kept /\ dirs' = dirs /\ i' = i
      /\ given' = [given EXCEPT !.input = GetArgValue("input"), !.output = GetArgValue("output")]
  BY DEF Search, Kept
<1>2. /\ argv \in Seq(Words) /\ i = 1 /\ DOMAIN given = Fields /\ dirs = <<>>
      /\ given["tests"] = <<>> /\ given["tags"] = <<>>
      /\ given["mode"] = "executable" /\ given["generate"] = FALSE
  BY <1>1 DEF LineInv, GivenRight, DirsRight
<1>3. PICK a, b, g, h : /\ a = GetArgValue("input") /\ b = GetArgValue("output") /\ g = given
                        /\ h = [g EXCEPT !["input"] = a, !["output"] = b]
  OBVIOUS
<1>4. given' = h
  BY <1>1, <1>3
<1>5. /\ DOMAIN h = Fields /\ h["input"] = a /\ h["output"] = b /\ h["tests"] = <<>> /\ h["tags"] = <<>>
      /\ h["mode"] = "executable" /\ h["generate"] = FALSE
  BY <1>2, <1>3 DEF Fields
<1>6. WordsRight(1, h)
  <2>1. \A to \in {"input", "output"} : Decided(to, 1, h[to])
    BY <1>2, <1>3, <1>5, NothingBefore DEF Decided, Latest
  <2>2. Latest("runtime", 1, h["runtime"])
    BY <1>2, NothingBefore DEF Latest
  <2>3. \A to : Listed(to, 1, <<>>)
    <3> TAKE to
    <3>1. Picks(<<>>, <<>>, Before(to, 1))
      BY <1>2, NothingBefore, PicksNothing
    <3>2. <<>> \in Seq(Words \cup {"t"}) /\ \A m \in DOMAIN <<>> : FALSE
      OBVIOUS
    <3> QED BY <3>1, <3>2 DEF Listed
  <2>4. \A to \in {"tests", "tags"} : Listed(to, 1, h[to])
    BY <1>5, <2>3
  <2>5. ModeDecided(1, h["mode"], h["generate"])
    BY <1>2, <1>5, NothingBefore DEF ModeDecided
  <2> QED BY <1>5, <2>1, <2>2, <2>4, <2>5 DEF WordsRight
<1>7. WordsRight(i, given)'
  <2>1. WordsRight(1, h)'
    BY <1>1, <1>6, SameWords
  <2> QED BY <1>1, <1>2, <1>4, <2>1
<1>9. Argc' = Argc /\ IsValue' = IsValue
  BY <1>1, SameWords
<1>10. GivenRight' /\ DirsRight'
  BY <1>1, <1>2, <1>7 DEF GivenRight, DirsRight
<1>11. argv' \in Seq(Words) /\ i' \in 1..Argc' + 1 /\ phase' \in {"search", "words", "dirs", "usage", "compile"}
  BY <1>1, <1>2, <1>9 DEF Kept, LineInv
<1>12. phase' = "words" /\ i' <= Argc' => ~IsValue'[i']
  <2>1. Argc \in Nat
    BY <1>2 DEF Argc
  <2>2. ASSUME 1 <= Argc PROVE ~IsValue[1]
    <3>1. 1 \in 1..Argc
      BY <2>1, <2>2
    <3> QED BY <1>2, <3>1, ValueNext
  <2> QED BY <1>1, <1>2, <1>9, <2>2
<1> QED BY <1>10, <1>11, <1>12 DEF LineInv

LEMMA AfterStep ==
    ASSUME LineInv, AfterWords
    PROVE  LineInv'
<1>1. /\ phase = "words" /\ i > Argc /\ phase' = (IF HasInput THEN "dirs" ELSE "usage") /\ i' = 1
      /\ given' = [given EXCEPT !.output = IF HasInput /\ @ = Nothing THEN "a.out" ELSE @]
      /\ Kept /\ dirs' = dirs
  BY DEF AfterWords, Kept
<1>2. /\ argv \in Seq(Words) /\ WordsRight(i, given) /\ DOMAIN given = Fields
      /\ dirs = <<>> /\ i \in 1..Argc + 1
  BY <1>1 DEF LineInv, GivenRight, DirsRight, WordsRight
<1>3. Argc \in Nat /\ i = Argc + 1 /\ 1 \in 1..Argc + 1
  <2>1. Argc \in Nat
    BY <1>2 DEF Argc
  <2> QED BY <1>1, <1>2, <2>1
<1>4. PICK g, h : g = given /\ h = given'
  OBVIOUS
<1>5. WordsRight(Argc + 1, g)'
  <2>1. PICK n : n = Argc + 1
    OBVIOUS
  <2>2. WordsRight(n, g)
    BY <1>2, <1>3, <1>4, <2>1
  <2>3. WordsRight(n, g)'
    BY <1>1, <2>2, SameWords
  <2>4. Argc' = Argc
    BY <1>1, SameWords
  <2> QED BY <2>1, <2>3, <2>4
<1>7. Argc' = Argc /\ IsValue' = IsValue
  BY <1>1, SameWords
<1>8. CASE HasInput
  <2>1. phase' = "dirs"
    BY <1>1, <1>8
  <2>2. /\ SameBut(g, h, {"output"}) /\ h["input"] # Nothing
        /\ h["output"] = IF g["output"] = Nothing THEN "a.out" ELSE g["output"]
    <3>1. h = [g EXCEPT !["output"] = IF @ = Nothing THEN "a.out" ELSE @]
      BY <1>1, <1>4, <1>8
    <3>2. g["input"] # Nothing
      BY <1>4, <1>8 DEF HasInput
    <3> QED BY <1>2, <1>4, <3>1, <3>2 DEF SameBut, Fields
  <2>3. SameBut(g, h, {"output"})' /\ Nothing' = Nothing
    BY <2>2 DEF SameBut, Fields, Nothing
  <2>4. GivenRight'
    BY <1>4, <1>5, <2>1, <2>2, <2>3 DEF GivenRight
  <2>5. DirsListed(1, <<>>)
    <3>1. Picks(<<>>, <<>>, {k \in DirWords : k < 1})
      BY <1>2, NothingBefore, PicksNothing
    <3>2. <<>> \in Seq(Words \cup {"d"}) /\ \A m \in DOMAIN <<>> : FALSE
      OBVIOUS
    <3> QED BY <3>1, <3>2 DEF DirsListed
  <2>6. DirsListed(i, dirs)'
    <3>1. DirsListed(1, <<>>)'
      BY <1>1, <2>5, SameWords
    <3> QED BY <1>1, <1>2, <3>1
  <2>7. DirsRight'
    BY <2>1, <2>6 DEF DirsRight
  <2>8. argv' \in Seq(Words) /\ i' \in 1..Argc' + 1
    BY <1>1, <1>2, <1>3, <1>7 DEF Kept
  <2> QED BY <2>1, <2>4, <2>7, <2>8 DEF LineInv
<1>9. CASE ~HasInput
  <2>1. phase' = "usage"
    BY <1>1, <1>9
  <2>2. h = [g EXCEPT !["output"] = @]
    BY <1>1, <1>4, <1>9
  <2>3. g["input"] = Nothing
    BY <1>4, <1>9 DEF HasInput
  <2>4. DOMAIN h = Fields /\ \A x \in Fields : h[x] = g[x]
    BY <1>2, <1>4, <2>2 DEF Fields
  <2>5. WordsRight(Argc + 1, h)'
    BY <1>5, <2>4 DEF WordsRight, Fields
  <2>6. GivenRight'
    <3>1. h["input"] = Nothing /\ Nothing' = Nothing
      BY <2>3, <2>4 DEF Fields, Nothing
    <3> QED BY <1>4, <2>1, <2>5, <3>1 DEF GivenRight
  <2>7. DirsRight'
    BY <1>1, <1>2, <2>1 DEF DirsRight
  <2>8. argv' \in Seq(Words) /\ i' \in 1..Argc' + 1
    BY <1>1, <1>2, <1>3, <1>7 DEF Kept
  <2> QED BY <2>1, <2>6, <2>7, <2>8 DEF LineInv
<1> QED BY <1>8, <1>9

\* The reading of the directories leaves what the words gave.
LEMMA GivenStays ==
    ASSUME LineInv, Kept, given' = given, phase \in {"dirs", "compile"}, phase' \in {"dirs", "compile"}
    PROVE  GivenRight'
<1>1. PICK h, g : /\ h = given /\ h["input"] # Nothing /\ WordsRight(Argc + 1, g) /\ SameBut(g, h, {"output"})
                  /\ h["output"] = IF g["output"] = Nothing THEN "a.out" ELSE g["output"]
  BY DEF LineInv, GivenRight
<1>2. PICK n : n = Argc + 1
  OBVIOUS
<1>3. WordsRight(n, g)'
  BY <1>1, <1>2, SameWords
<1>4. Argc' = Argc
  BY SameWords
<1>5. WordsRight(Argc + 1, g)'
  BY <1>2, <1>3, <1>4
<1>6. SameBut(g, h, {"output"})' /\ Nothing' = Nothing
  BY <1>1 DEF SameBut, Fields, Nothing
<1> QED BY <1>1, <1>5, <1>6 DEF GivenRight

LEMMA ReadDirStep ==
    ASSUME LineInv, ReadDir
    PROVE  LineInv'
<1>1. /\ phase = "dirs" /\ phase' = "dirs" /\ i <= Argc /\ i' = i + 1 /\ Kept /\ given' = given
      /\ \/ argv[i] \in DirNext /\ i < Argc /\ dirs' = Append(dirs, argv[i + 1])
         \/ argv[i] \in DirHere /\ dirs' = Append(dirs, "d")
         \/ /\ argv[i] \notin DirHere /\ (argv[i] \in DirNext => i = Argc)
            /\ dirs' = dirs
  BY DEF ReadDir, Kept
<1>2. argv \in Seq(Words) /\ DirsListed(i, dirs) /\ i \in 1..Argc + 1
  BY <1>1 DEF LineInv, DirsRight
<1>3. Argc \in Nat /\ i \in 1..Argc /\ i + 1 \in 1..Argc + 1
  <2>1. Argc \in Nat
    BY <1>2 DEF Argc
  <2> QED BY <1>1, <1>2, <2>1
<1>4. PICK q, r : q = dirs /\ r = dirs'
  OBVIOUS
<1>5. DirsListed(i, q)
  BY <1>2, <1>4
<1>6. argv[i] \in DirHere => argv[i] \notin DirNext
  BY Kinds
<1>7. DirsListed(i + 1, r)
  <2>1. CASE argv[i] \in DirNext /\ i < Argc /\ dirs' = Append(dirs, argv[i + 1])
    <3>1. i \in DirWords /\ DirOf(i) = argv[i + 1]
      BY <1>3, <1>6, <2>1 DEF DirWords, DirOf
    <3>2. r = Append(q, DirOf(i))
      BY <1>4, <2>1, <3>1
    <3> QED BY <1>2, <1>3, <1>5, <3>1, <3>2, DirsNext
  <2>2. CASE argv[i] \in DirHere /\ dirs' = Append(dirs, "d")
    <3>1. i \in DirWords /\ DirOf(i) = "d"
      BY <1>3, <2>2 DEF DirWords, DirOf
    <3>2. r = Append(q, DirOf(i))
      BY <1>4, <2>2, <3>1
    <3> QED BY <1>2, <1>3, <1>5, <3>1, <3>2, DirsNext
  <2>3. CASE argv[i] \notin DirHere /\ (argv[i] \in DirNext => i = Argc) /\ dirs' = dirs
    <3>1. i \notin DirWords
      BY <1>3, <2>3 DEF DirWords
    <3>2. r = q
      BY <1>4, <2>3
    <3> QED BY <1>2, <1>3, <1>5, <3>1, <3>2, DirsNext
  <2> QED BY <1>1, <2>1, <2>2, <2>3
<1>8. DirsListed(i, dirs)'
  <2>1. PICK n : n = i + 1
    OBVIOUS
  <2>2. DirsListed(n, r)'
    BY <1>1, <1>7, <2>1, SameWords
  <2> QED BY <1>1, <1>4, <2>1, <2>2
<1>9. Argc' = Argc
  BY <1>1, SameWords
<1>10. argv' \in Seq(Words) /\ i' \in 1..Argc' + 1
  BY <1>1, <1>2, <1>3, <1>9 DEF Kept
<1>11. GivenRight'
  BY <1>1, GivenStays
<1>12. DirsRight'
  BY <1>1, <1>8 DEF DirsRight
<1> QED BY <1>1, <1>10, <1>11, <1>12 DEF LineInv

LEMMA DirsReadStep ==
    ASSUME LineInv, DirsRead
    PROVE  LineInv'
<1>1. /\ phase = "dirs" /\ phase' = "compile" /\ i > Argc /\ i' = i /\ Kept /\ given' = given
      /\ dirs' = DefaultDir(dirs)
  BY DEF DirsRead, Kept
<1>2. argv \in Seq(Words) /\ DirsListed(i, dirs) /\ i \in 1..Argc + 1
  BY <1>1 DEF LineInv, DirsRight
<1>3. Argc \in Nat /\ i = Argc + 1
  <2>1. Argc \in Nat
    BY <1>2 DEF Argc
  <2> QED BY <1>1, <1>2, <2>1
<1>4. PICK q, n : q = dirs /\ n = Argc + 1 /\ DirsListed(n, q)
  BY <1>2, <1>3
<1>5. PICK ks : Picks(ks, q, DirWords)
  <2>1. PICK ks : Picks(ks, q, {k \in DirWords : k < n})
    BY <1>4 DEF DirsListed
  <2> QED BY <1>2, <1>4, <2>1, NothingBefore
<1>6. q = <<>> <=> DirWords = {}
  <2>1. q \in Seq(Words \cup {"d"}) /\ DirWords = {ks[k] : k \in DOMAIN q} /\ DOMAIN ks = DOMAIN q
    BY <1>4, <1>5 DEF DirsListed, Picks, Ordered
  <2>2. q = <<>> => DOMAIN q = {}
    OBVIOUS
  <2>3. DOMAIN q = {} => q = <<>>
    <3>1. DOMAIN q = 1..Len(q) /\ Len(q) \in Nat
      BY <2>1
    <3>2. DOMAIN q = {} => Len(q) = 0
      <4>1. Len(q) # 0 => 1 \in 1..Len(q)
        BY <3>1
      <4> QED BY <3>1, <4>1
    <3> QED BY <2>1, <3>2
  <2> QED BY <2>1, <2>2, <2>3
<1>7. dirs' = IF q = <<>> THEN <<".">> ELSE q
  BY <1>1, <1>4 DEF DefaultDir
<1>8. DirsListed(n, q)' /\ Argc' = Argc /\ DirWords' = DirWords
  BY <1>1, <1>4, SameWords
<1>9. DirsRight'
  <2>1. CASE q = <<>>
    BY <1>1, <1>6, <1>7, <1>8, <2>1 DEF DirsRight
  <2>2. CASE q # <<>>
    <3>1. dirs' = q /\ DirWords' # {}
      BY <1>6, <1>7, <1>8, <2>2
    <3>2. DirsListed(Argc + 1, dirs)'
      BY <1>4, <1>8, <3>1
    <3> QED BY <1>1, <2>2, <3>1, <3>2 DEF DirsRight
  <2> QED BY <2>1, <2>2
<1>11. argv' \in Seq(Words) /\ i' \in 1..Argc' + 1
  BY <1>1, <1>2, <1>8 DEF Kept
<1>12. GivenRight'
  BY <1>1, GivenStays
<1> QED BY <1>1, <1>9, <1>11, <1>12 DEF LineInv

LEMMA LineStutter ==
    ASSUME LineInv, UNCHANGED lineVars
    PROVE  LineInv'
<1>1. Kept /\ phase' = phase /\ i' = i /\ given' = given /\ dirs' = dirs
  BY DEF lineVars, Kept
<1>2. Argc' = Argc /\ IsValue' = IsValue /\ DirWords' = DirWords
  BY <1>1, SameWords
<1>3. PICK g, n, q, m : g = given /\ n = i /\ q = dirs /\ m = Argc + 1
  OBVIOUS
<1>4. /\ WordsRight(n, g) => WordsRight(i, given)'
      /\ WordsRight(m, g) => WordsRight(Argc + 1, given)'
      /\ DirsListed(n, q) => DirsListed(i, dirs)'
      /\ DirsListed(m, q) => DirsListed(Argc + 1, dirs)'
  <2>1. /\ WordsRight(n, g) => WordsRight(n, g)'
        /\ WordsRight(m, g) => WordsRight(m, g)'
        /\ DirsListed(n, q) => DirsListed(n, q)'
        /\ DirsListed(m, q) => DirsListed(m, q)'
    BY <1>1, SameWords
  <2>2. n = i' /\ g = given' /\ m = Argc' + 1 /\ q = dirs'
    BY <1>1, <1>2, <1>3
  <2> QED BY <2>1, <2>2
<1>5. GivenRight'
  <2>1. CASE phase \in {"dirs", "compile"}
    BY <1>1, <2>1, GivenStays
  <2>2. CASE phase \notin {"dirs", "compile"}
    <3>1. Nothing' = Nothing
      BY DEF Nothing
    <3> QED BY <1>1, <1>3, <1>4, <2>2, <3>1 DEF LineInv, GivenRight, Fields
  <2> QED BY <2>1, <2>2
<1>6. DirsRight'
  BY <1>1, <1>2, <1>3, <1>4 DEF LineInv, DirsRight
<1>7. argv' \in Seq(Words)
  BY <1>1 DEF LineInv, Kept
<1> QED BY <1>1, <1>2, <1>3, <1>4, <1>5, <1>6, <1>7 DEF LineInv

\* The inductive invariant holds of every command line.
THEOREM Readings ==
    LineSpec => []LineInv
<1>1. LineInv /\ [LineNext]_lineVars => LineInv'
  BY SearchStep, SeparateStep, AttachedStep, PositionalStep, ModeStep, FlagStep, IgnoredStep, AfterStep,
     ReadDirStep, DirsReadStep, LineStutter DEF LineNext
<1> QED BY <1>1, LineInitInv, PTL DEF LineSpec


-----------------------------------------------------------------------------
(* The properties of the command line.                                     *)

LEMMA LastIs ==
    ASSUME NEW S \in SUBSET Nat, NEW k, LastIn(k, S)
    PROVE  LastOf(S) = k
<1>1. \A m \in S : (\A j \in S : j <= m) => m = k
  BY DEF LastIn
<1> QED BY <1>1 DEF LastOf, LastIn

LEMMA FoundAt ==
    ASSUME argv \in Seq(Words), NEW to, Found(to) # {}
    PROVE  /\ First(Found(to)) \in Found(to)
           /\ ValueAt(First(Found(to))) # Nothing
<1>1. Argc \in Nat
  BY DEF Argc
<1>2. Found(to) \in SUBSET Nat
  BY <1>1 DEF Found
<1>3. First(Found(to)) \in Found(to)
  <2>1. \E x \in Found(to) : \A y \in Found(to) : x <= y
    BY <1>2, Least
  <2> QED BY <2>1 DEF First
<1>4. PICK k \in 1..Argc : k = First(Found(to)) /\ Answers(k, to)
  BY <1>3 DEF Found
<1>5. ValueAt(k) # Nothing
  <2>1. CASE argv[k] \in DOMAIN Attached
    BY <2>1, Kinds DEF ValueAt
  <2>2. CASE argv[k] \notin DOMAIN Attached
    <3>1. k < Argc
      BY <2>2, SearchedKinds, <1>4 DEF Answers
    <3>2. k + 1 \in 1..Argc
      BY <1>1, <3>1
    <3> QED BY <2>2, <3>2, WordAt DEF ValueAt
  <2> QED BY <2>1, <2>2
<1> QED BY <1>3, <1>4, <1>5

LEMMA FoundGives ==
    ASSUME argv \in Seq(Words), NEW to, NEW k \in Found(to), ~IsValue[k]
    PROVE  k \in Gives(to)
<1>1. k \in 1..Argc /\ argv[k] \in DOMAIN Searched /\ Searched[argv[k]] = to
      /\ (argv[k] \in DOMAIN Separate => k < Argc)
  BY DEF Found, Answers
<1> QED BY <1>1, SearchedKinds DEF Gives

\* What the words have given in the end, by any g that is right of all of them.
LEMMA AllWords ==
    ASSUME argv \in Seq(Words), NEW g, WordsRight(Argc + 1, g)
    PROVE  /\ \A to \in {"input", "output"} :
                 /\ Gives(to) # {} => g[to] = Given(LastOf(Gives(to))) /\ g[to] # Nothing
                 /\ Gives(to) = {} /\ Found(to) # {} => /\ g[to] = ValueAt(First(Found(to))) /\ g[to] # Nothing
                                                        /\ \E k \in Found(to) : IsValue[k]
                 /\ Gives(to) = {} /\ Found(to) = {} => g[to] = Nothing
           /\ Gives("runtime") # {} => g["runtime"] = Given(LastOf(Gives("runtime")))
           /\ \A to \in {"tests", "tags"} : \E ks \in [DOMAIN g[to] -> Gives(to)] :
                 Ordered(ks, Gives(to)) /\ \A n \in DOMAIN ks : g[to][n] = Given(ks[n])
<1>1. Argc \in Nat /\ \A to : Before(to, Argc + 1) = Gives(to)
  BY NothingBefore DEF Argc
<1>2. \A to : Gives(to) \in SUBSET Nat
  <2>1. 1..Argc \subseteq Nat
    OBVIOUS
  <2> QED BY <2>1, GivesAt
<1>3. ASSUME NEW to, NEW v, Latest(to, Argc + 1, v), Gives(to) # {}
      PROVE  v = Given(LastOf(Gives(to))) /\ v # Nothing
  <2>1. PICK k \in Gives(to) : LastIn(k, Gives(to)) /\ v = Given(k)
    BY <1>1, <1>3 DEF Latest
  <2>2. LastOf(Gives(to)) = k
    BY <1>2, <2>1, LastIs
  <2> QED BY <2>1, <2>2, GivenIsSomething
<1>4. ASSUME NEW to \in {"input", "output"}
      PROVE  /\ Gives(to) # {} => g[to] = Given(LastOf(Gives(to))) /\ g[to] # Nothing
             /\ Gives(to) = {} /\ Found(to) # {} => /\ g[to] = ValueAt(First(Found(to))) /\ g[to] # Nothing
                                                    /\ \E k \in Found(to) : IsValue[k]
             /\ Gives(to) = {} /\ Found(to) = {} => g[to] = Nothing
  <2>1. Latest(to, Argc + 1, g[to]) /\ (Gives(to) = {} => g[to] = GetArgValue(to))
    BY <1>1 DEF WordsRight, Decided
  <2>2. Gives(to) # {} => g[to] = Given(LastOf(Gives(to))) /\ g[to] # Nothing
    BY <1>3, <2>1
  <2>3. ASSUME Gives(to) = {}, Found(to) # {}
        PROVE  g[to] = ValueAt(First(Found(to))) /\ g[to] # Nothing /\ \E k \in Found(to) : IsValue[k]
    <3>1. g[to] = ValueAt(First(Found(to)))
      BY <2>1, <2>3 DEF GetArgValue
    <3>2. First(Found(to)) \in Found(to) /\ ValueAt(First(Found(to))) # Nothing
      BY <2>3, FoundAt
    <3>3. IsValue[First(Found(to))]
      BY <2>3, <3>2, FoundGives
    <3> QED BY <3>1, <3>2, <3>3
  <2>4. Gives(to) = {} /\ Found(to) = {} => g[to] = Nothing
    BY <2>1 DEF GetArgValue
  <2> QED BY <2>2, <2>3, <2>4
<1>5. Gives("runtime") # {} => g["runtime"] = Given(LastOf(Gives("runtime")))
  BY <1>3 DEF WordsRight
<1>6. \A to \in {"tests", "tags"} : \E ks \in [DOMAIN g[to] -> Gives(to)] :
         Ordered(ks, Gives(to)) /\ \A n \in DOMAIN ks : g[to][n] = Given(ks[n])
  BY <1>1 DEF WordsRight, Listed, Picks
<1> QED BY <1>4, <1>5, <1>6

\* In the end main has what such a g has, and a.out for no output.
LEMMA AtEnd ==
    ASSUME LineInv, phase \in {"usage", "dirs", "compile"}
    PROVE  \E g : /\ WordsRight(Argc + 1, g)
                  /\ \A x \in Fields \ {"output"} : given[x] = g[x]
                  /\ given["output"] = IF phase # "usage" /\ g["output"] = Nothing THEN "a.out" ELSE g["output"]
                  /\ phase # "usage" => given["input"] # Nothing
<1>1. CASE phase = "usage"
  BY <1>1 DEF LineInv, GivenRight
<1>2. CASE phase \in {"dirs", "compile"}
  <2>1. PICK g : /\ WordsRight(Argc + 1, g) /\ SameBut(g, given, {"output"})
                 /\ given["output"] = IF g["output"] = Nothing THEN "a.out" ELSE g["output"]
    BY <1>2 DEF LineInv, GivenRight
  <2>2. given["input"] # Nothing
    BY <1>2 DEF LineInv, GivenRight
  <2> QED BY <1>2, <2>1, <2>2 DEF SameBut
<1> QED BY <1>1, <1>2

LEMMA ModeIs ==
    ASSUME argv \in Seq(Words), NEW n, NEW m, NEW b, ModeDecided(n, m, b)
    PROVE  m \in {"executable", "llvm", "object"}
<1>1. CASE ModesBefore(n) = {}
  BY <1>1 DEF ModeDecided
<1>2. CASE ModesBefore(n) # {}
  <2>1. PICK k \in ModesBefore(n) : m = ModeOf(k)
    BY <1>2 DEF ModeDecided, LastIn
  <2>2. argv[k] \in ModeOrTests
    BY DEF ModesBefore
  <2> QED BY <2>1, <2>2, Kinds DEF ModeOf, ModeOrTests
<1> QED BY <1>1, <1>2

LEMMA TypesOfLine ==
    LineInv => LineTypeOK
<1> SUFFICES ASSUME LineInv PROVE LineTypeOK
  OBVIOUS
<1>1. given["mode"] \in {"executable", "llvm", "object"}
  <2>1. CASE phase = "search"
    BY <2>1 DEF LineInv, GivenRight
  <2>2. CASE phase = "words"
    BY <2>2, ModeIs DEF LineInv, GivenRight, WordsRight
  <2>3. CASE phase \in {"usage", "dirs", "compile"}
    <3>1. PICK g : WordsRight(Argc + 1, g) /\ \A x \in Fields \ {"output"} : given[x] = g[x]
      BY <2>3, AtEnd
    <3>2. given["mode"] = g["mode"]
      BY <3>1 DEF Fields
    <3> QED BY <3>1, <3>2, ModeIs DEF LineInv, WordsRight
  <2> QED BY <2>1, <2>2, <2>3 DEF LineInv
<1>2. phase = "compile" => given["input"] # Nothing /\ given["output"] # Nothing
  <2> HAVE phase = "compile"
  <2>1. PICK g : given["output"] = IF g["output"] = Nothing THEN "a.out" ELSE g["output"]
    BY AtEnd
  <2>2. "a.out" # Nothing
    BY DEF Nothing
  <2>3. given["input"] # Nothing
    BY AtEnd
  <2> QED BY <2>1, <2>2, <2>3
<1>3. phase = "compile" => dirs # <<>>
  BY DEF LineInv, DirsRight
<1> QED BY <1>1, <1>2, <1>3 DEF LineInv, LineTypeOK

LEMMA LastWords ==
    LineInv => LastWordDecides
<1> SUFFICES ASSUME LineInv, Ended PROVE LastWordDecides
  BY DEF LastWordDecides
<1>1. phase \in {"usage", "compile"} /\ argv \in Seq(Words)
  BY DEF Ended, LineInv
<1>2. PICK g : /\ WordsRight(Argc + 1, g)
               /\ \A x \in Fields \ {"output"} : given[x] = g[x]
               /\ given["output"] = IF phase # "usage" /\ g["output"] = Nothing THEN "a.out" ELSE g["output"]
               /\ phase # "usage" => given["input"] # Nothing
  BY <1>1, AtEnd
<1>3. /\ given["input"] = g["input"] /\ given["runtime"] = g["runtime"]
      /\ given["tests"] = g["tests"] /\ given["tags"] = g["tags"]
  BY <1>2 DEF Fields
<1>4. ASSUME NEW to \in {"input", "output"}
      PROVE  IF Gives(to) # {} THEN given[to] = Given(LastOf(Gives(to)))
             ELSE IF Found(to) # {} THEN given[to] = ValueAt(First(Found(to))) /\ \E k \in Found(to) : IsValue[k]
             ELSE given[to] = IF to = "output" /\ phase = "compile" THEN "a.out" ELSE Nothing
  <2>1. /\ Gives(to) # {} => g[to] = Given(LastOf(Gives(to))) /\ g[to] # Nothing
        /\ Gives(to) = {} /\ Found(to) # {} => /\ g[to] = ValueAt(First(Found(to))) /\ g[to] # Nothing
                                               /\ \E k \in Found(to) : IsValue[k]
        /\ Gives(to) = {} /\ Found(to) = {} => g[to] = Nothing
    BY <1>1, <1>2, AllWords
  <2>2. given[to] = IF to = "output" /\ phase = "compile" /\ g[to] = Nothing THEN "a.out" ELSE g[to]
    BY <1>1, <1>2, <1>3
  <2> QED BY <2>1, <2>2
<1>5. Gives("runtime") # {} => given["runtime"] = Given(LastOf(Gives("runtime")))
  BY <1>1, <1>2, <1>3, AllWords
<1>6. \A to \in {"tests", "tags"} : \E ks \in [DOMAIN given[to] -> Gives(to)] :
         Ordered(ks, Gives(to)) /\ \A n \in DOMAIN ks : given[to][n] = Given(ks[n])
  <2> TAKE to \in {"tests", "tags"}
  <2>1. given[to] = g[to]
    BY <1>3
  <2>2. \E ks \in [DOMAIN g[to] -> Gives(to)] :
           Ordered(ks, Gives(to)) /\ \A n \in DOMAIN ks : g[to][n] = Given(ks[n])
    BY <1>1, <1>2, AllWords
  <2> QED BY <2>1, <2>2
<1> QED BY <1>4, <1>5, <1>6 DEF LastWordDecides

LEMMA LastMode ==
    LineInv => LastModeWins
<1> SUFFICES ASSUME LineInv, Ended PROVE LastModeWins
  BY DEF LastModeWins
<1> DEFINE ks == {k \in 1..Argc : ~IsValue[k] /\ argv[k] \in DOMAIN ModeWords \cup {"--run-tests"}}
<1>1. phase \in {"usage", "compile"} /\ argv \in Seq(Words) /\ Argc \in Nat
  BY DEF Ended, LineInv, Argc
<1>2. PICK m, b : ModeDecided(Argc + 1, m, b) /\ given["mode"] = m /\ given["generate"] = b
  <2>1. PICK g : /\ WordsRight(Argc + 1, g)
                 /\ \A x \in Fields \ {"output"} : given[x] = g[x]
    BY <1>1, AtEnd
  <2>2. given["mode"] = g["mode"] /\ given["generate"] = g["generate"]
    BY <2>1 DEF Fields
  <2> QED BY <2>1, <2>2 DEF WordsRight
<1>3. ModesBefore(Argc + 1) = ks
  BY <1>1 DEF ModesBefore, ModeOrTests
<1>4. ks \in SUBSET Nat /\ \A k \in ks : argv[k] \in ModeOrTests
  BY <1>1 DEF ModeOrTests
<1> HIDE DEF ks
<1>5. m = IF ks = {} \/ argv[LastOf(ks)] = "--run-tests" THEN "executable" ELSE ModeWords[argv[LastOf(ks)]]
  <2>1. CASE ks = {}
    BY <1>2, <1>3, <2>1 DEF ModeDecided
  <2>2. CASE ks # {}
    <3>1. PICK k : LastIn(k, ks) /\ m = ModeOf(k)
      BY <1>2, <1>3, <2>2 DEF ModeDecided
    <3>2. LastOf(ks) = k
      BY <1>4, <3>1, LastIs
    <3> QED BY <2>2, <3>1, <3>2 DEF ModeOf
  <2> QED BY <2>1, <2>2
<1>6. b <=> \E k \in ks : argv[k] = "--run-tests"
  BY <1>2, <1>3 DEF ModeDecided
<1>7. given.mode = IF ks = {} \/ argv[LastOf(ks)] = "--run-tests" THEN "executable" ELSE ModeWords[argv[LastOf(ks)]]
  BY <1>2, <1>5
<1>8. given.generate <=> \E k \in ks : argv[k] = "--run-tests"
  BY <1>2, <1>6
<1> QED BY <1>7, <1>8 DEF LastModeWins, ks

LEMMA DirsFound ==
    LineInv => DirsInOrder
<1> SUFFICES ASSUME LineInv, phase = "compile"
             PROVE  IF DirWords = {} THEN dirs = <<".">>
                    ELSE \E ks \in [DOMAIN dirs -> DirWords] :
                            Ordered(ks, DirWords) /\ \A n \in DOMAIN ks : dirs[n] = DirOf(ks[n])
  BY DEF DirsInOrder, DirWords, DirOf
<1>1. IF DirWords = {} THEN dirs = <<".">> ELSE DirsListed(Argc + 1, dirs)
  BY DEF LineInv, DirsRight
<1>2. {k \in DirWords : k < Argc + 1} = DirWords
  BY NothingBefore DEF LineInv
<1> QED BY <1>1, <1>2 DEF DirsListed, Picks

\* Whatever order the words are in, what main goes on with is what they say, read by the
\* four loops together (main.c:23-61, 110-224); nothing is said of the input when the last
\* word that gives it is one after a separated -I.
THEOREM WordsAnswered ==
    LineSpec => []AnswersDecided
<1>1. LineInv => AnswersDecided
  BY TypesOfLine, LastWords, LastMode, DirsFound DEF AnswersDecided
<1> QED BY <1>1, Readings, PTL

=============================================================================
