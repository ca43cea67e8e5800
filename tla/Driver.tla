------------------------------- MODULE Driver -------------------------------
(***************************************************************************)
(* Several weavec0 processes of a parallel build or test run (main.c after *)
(* the options): each compiles its input to text, and writes the text out, *)
(* or hands it over in a temporary file in /tmp to a child that writes the *)
(* output. Two builds of weavec0 differ in what the temporary file is: the *)
(* IR for clang, or (USE_LLVM_API) an object for the linker.               *)
(*                                                                         *)
(* Anything may fail, any process may be killed, and process numbers are   *)
(* used again. No two processes are given the same output.                 *)
(***************************************************************************)
EXTENDS Naturals, FiniteSets

CONSTANTS
    Procs,      \* the compilations
    Pids,       \* process numbers the system hands out
    LLVMBuilt,  \* those of them whose weavec0 was built with USE_LLVM_API
    Nobody      \* owner of a file that does not exist

ASSUME DriverAssumption == LLVMBuilt \subseteq Procs /\ Nobody \notin Procs

VARIABLES
    pc,      \* where main is
    mode,    \* list_tests_only, or the OutputMode
    pid,     \* getpid()
    status,  \* what main returned; "killed" when it did not
    child,   \* the forked process
    fault,   \* a step this compilation depends on has failed
    disk     \* files: whose text they hold, and whether all of it

vars == <<pc, mode, pid, status, child, fault, disk>>

Modes    == {"list", "ir", "object", "exe"}
Paths    == {"out"} \X Procs \cup {"tmp"} \X Pids
Absent   == [of |-> Nobody, whole |-> FALSE]
Contents == [of : Procs \cup {Nobody}, whole : BOOLEAN]

UseLLVM(p) == p \in LLVMBuilt
Live(p) == pc[p] \notin {"new", "done"}

OutPath(p)  == <<"out", p>>
\* snprintf "/tmp/weavec_%d": a name of its own for every process.
TempPath_Bug(p) == <<"tmp", CHOOSE n \in Pids : TRUE>>
TempPath(p) == <<"tmp", pid[p]>>

Direct(p) == mode[p] = "ir" \/ (UseLLVM(p) /\ mode[p] = "object")
Target(p) == IF Direct(p) THEN OutPath(p) ELSE TempPath(p)

Unlinked_Bug(p) == disk
Unlinked(p) == [disk EXCEPT ![TempPath(p)] = Absent]

\* return n, or a call of exit.
Exit(p, n) == pc' = [pc EXCEPT ![p] = "done"] /\ status' = [status EXCEPT ![p] = n]
GoTo(p, l) == pc' = [pc EXCEPT ![p] = l] /\ UNCHANGED status
Fault(p)   == fault' = [fault EXCEPT ![p] = TRUE]

-----------------------------------------------------------------------------
Init ==
    /\ pc = [p \in Procs |-> "new"]
    /\ mode \in [Procs -> Modes]
    /\ pid \in [Procs -> Pids]
    /\ status = [p \in Procs |-> "none"]
    /\ child = [p \in Procs |-> "none"]
    /\ fault = [p \in Procs |-> FALSE]
    /\ disk = [f \in Paths |-> Absent]

Start(p) ==
    /\ pc[p] = "new"
    /\ \A q \in Procs : Live(q) => pid[q] # pid[p]
    /\ GoTo(p, "compile")
    /\ UNCHANGED <<mode, pid, child, fault, disk>>

\* read_file_all, parse_top, merge_includes, compile_to_llvm_ir; nothing is on disk yet.
Compile(p) ==
    /\ pc[p] = "compile"
    /\ IF mode[p] = "list" THEN Exit(p, "0") ELSE GoTo(p, "emit")
    /\ UNCHANGED <<mode, pid, child, fault, disk>>

\* die, die_at, diag_fatal.
Die(p) ==
    /\ pc[p] = "compile"
    /\ Exit(p, "1") /\ Fault(p)
    /\ UNCHANGED <<mode, pid, child, disk>>

WritesText(p) == mode[p] = "ir" \/ ~UseLLVM(p)

\* fopen(..., "wb") of the output or of the temporary file.
OpenText(p) ==
    /\ pc[p] = "emit" /\ WritesText(p)
    /\ disk' = [disk EXCEPT ![Target(p)] = [of |-> p, whole |-> FALSE]]
    /\ GoTo(p, "write")
    /\ UNCHANGED <<mode, pid, child, fault>>

OpenFails(p) ==
    /\ pc[p] = "emit" /\ WritesText(p)
    /\ Exit(p, "1") /\ Fault(p)
    /\ UNCHANGED <<mode, pid, child, disk>>

\* fwrite and fclose, whose results nobody looks at: a text cut short is a success.
WriteText(p) ==
    /\ pc[p] = "write"
    /\ \E whole \in BOOLEAN :
          /\ disk' = [disk EXCEPT ![Target(p)] = [of |-> p, whole |-> whole]]
          /\ fault' = [fault EXCEPT ![p] = ~whole]
    /\ IF mode[p] = "ir" THEN Exit(p, "0") ELSE GoTo(p, "fork")
    /\ UNCHANGED <<mode, pid, child>>

\* llvm_compile_ir_to_object_internal and _asan.
EmitObject(p) ==
    /\ pc[p] = "emit" /\ ~WritesText(p)
    /\ disk' = [disk EXCEPT ![Target(p)] = [of |-> p, whole |-> TRUE]]
    /\ IF mode[p] = "object" THEN Exit(p, "0") ELSE GoTo(p, "fork")
    /\ UNCHANGED <<mode, pid, child, fault>>

\* LLVM refuses the text, or opens the file and then cannot write it.
EmitFails(p) ==
    /\ pc[p] = "emit" /\ ~WritesText(p)
    /\ disk' \in {disk, [disk EXCEPT ![Target(p)] = [of |-> p, whole |-> FALSE]]}
    /\ Exit(p, "1") /\ Fault(p)
    /\ UNCHANGED <<mode, pid, child>>

Fork(p) ==
    /\ pc[p] = "fork"
    /\ child' = [child EXCEPT ![p] = "running"]
    /\ GoTo(p, "wait")
    /\ UNCHANGED <<mode, pid, fault, disk>>

\* The build for LLVM removes the temporary file here, the build for clang does not.
AfterForkFailed_Bug(p) == disk
AfterForkFailed(p) == IF UseLLVM(p) THEN Unlinked(p) ELSE disk

ForkFails(p) ==
    /\ pc[p] = "fork"
    /\ disk' = AfterForkFailed(p)
    /\ Exit(p, "1") /\ Fault(p)
    /\ UNCHANGED <<mode, pid, child>>

\* clang reads the temporary file and writes the output. A text that is cut short where
\* a function ends is a text.
ChildBuilds(p) ==
    /\ child[p] = "running"
    /\ disk[TempPath(p)] # Absent
    /\ disk' = [disk EXCEPT ![OutPath(p)] = disk[TempPath(p)]]
    /\ child' = [child EXCEPT ![p] = "ok"]
    /\ UNCHANGED <<pc, mode, pid, status, fault>>

\* It is not there, or it does not accept what it reads.
ChildFails(p) ==
    /\ child[p] = "running"
    /\ child' = [child EXCEPT ![p] = "failed"]
    /\ Fault(p)
    /\ UNCHANGED <<pc, mode, pid, status, disk>>

\* Its input is not there: no fault of its own.
ChildFindsNothing(p) ==
    /\ child[p] = "running" /\ disk[TempPath(p)] = Absent
    /\ child' = [child EXCEPT ![p] = "failed"]
    /\ UNCHANGED <<pc, mode, pid, status, fault, disk>>

\* waitpid without WNOHANG.
ChildEnded_Bug(p) == TRUE
ChildEnded_Hang(p) == child[p] = "ok"
ChildEnded(p) == child[p] # "running"

Wait(p) ==
    /\ pc[p] = "wait" /\ ChildEnded(p)
    /\ disk' = Unlinked(p)
    /\ Exit(p, IF child[p] = "failed" THEN "1" ELSE "0")
    /\ UNCHANGED <<mode, pid, child, fault>>

\* A signal, or the time limit of a test: the child lives on.
Kill(p) ==
    /\ Live(p)
    /\ Exit(p, "killed") /\ Fault(p)
    /\ UNCHANGED <<mode, pid, child, disk>>

Main(p) ==
    \/ Compile(p) \/ Die(p)
    \/ OpenText(p) \/ OpenFails(p) \/ WriteText(p)
    \/ EmitObject(p) \/ EmitFails(p)
    \/ Fork(p) \/ ForkFails(p) \/ Wait(p)

Child(p) == ChildBuilds(p) \/ ChildFails(p) \/ ChildFindsNothing(p)

Next == \E p \in Procs : Start(p) \/ Main(p) \/ Child(p) \/ Kill(p)

Spec == Init /\ [][Next]_vars

\* The system runs a process that can run, and clang comes to an end.
FairSpec == Spec /\ \A p \in Procs : WF_vars(Main(p)) /\ WF_vars(Child(p))

-----------------------------------------------------------------------------
\* Every variable is in its range, a child is there from the fork on, a process that
\* ended has a status, and one with a child running waits for it unless it was killed.
TypeOK ==
    /\ pc \in [Procs -> {"new", "compile", "emit", "write", "fork", "wait", "done"}]
    /\ mode \in [Procs -> Modes] /\ pid \in [Procs -> Pids]
    /\ status \in [Procs -> {"none", "0", "1", "killed"}]
    /\ child \in [Procs -> {"none", "running", "ok", "failed"}]
    /\ fault \in [Procs -> BOOLEAN] /\ disk \in [Paths -> Contents]
    /\ \A p \in Procs :
          /\ pc[p] = "done" <=> status[p] # "none"
          /\ child[p] # "none" => pc[p] \in {"wait", "done"}
          /\ child[p] = "running" /\ pc[p] = "done" => status[p] = "killed"

\* A compilation that reports success has put its own program into its output, whole
\* unless a write of it was cut short, whatever other compilations did in /tmp meanwhile
\* (main.c:243-252, 300-388).
OwnText ==
    \A p \in Procs : status[p] = "0" /\ mode[p] # "list" =>
        /\ disk[OutPath(p)].of = p
        /\ disk[OutPath(p)].whole \/ (fault[p] /\ WritesText(p))

\* A compilation that was not killed leaves nothing in /tmp, except, built for clang, when
\* the fork failed, and, built for LLVM, when the object could not be written
\* (main.c:284-338, 400-403): of these exits every one but those unlinks.
TempsRemoved ==
    \A n \in Pids : LET p == disk[<<"tmp", n>>].of IN
        p # Nobody /\ pc[p] = "done" =>
            \/ status[p] = "killed"
            \/ status[p] = "1" /\ child[p] = "none" /\ (UseLLVM(p) => ~disk[<<"tmp", n>>].whole)

\* A compilation does not fail because of another one, nor of the order in which it and
\* its child run: failure has a cause of its own.
FailureHasCause == \A p \in Procs : status[p] = "1" => fault[p]

\* Every compilation that is started comes to an end, whatever fails in it
\* (main.c:383-404 waits for a child that may have failed to start).
Ends == \A p \in Procs : pc[p] = "compile" ~> pc[p] = "done"

=============================================================================
