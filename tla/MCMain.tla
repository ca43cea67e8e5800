------------------------------- MODULE MCMain -------------------------------
(***************************************************************************)
(* main.c as a whole, and the back end it shares with Weave programs: one  *)
(* of the processes of Driver reads the words of Options, they decide what *)
(* it is asked for, and the process built for LLVM compiles its text with  *)
(* a call into Backend. A Weave program that calls Backend through ccall   *)
(* is a process of its own, with no command line looked at.                *)
(***************************************************************************)
EXTENDS Driver, Options, Backend

CONSTANT Followed  \* bound: the command lines whose compilation is followed to its end

VARIABLE stage  \* reading words, compiling, or a Weave program that calls the back end

mainVars == <<lineVars, vars, backendVars, stage>>

Nobodys == [p \in Procs |-> CHOOSE n \in Pids : TRUE]

MainInit ==
    /\ Init /\ mode = [p \in Procs |-> "list"] /\ pid = Nobodys
    /\ BackendInit
    /\ LineInit
    /\ stage \in {"words", "program"}
    /\ stage = "program" => argv = <<>> /\ given.runtime = Nothing

Words_ == stage = "words" /\ LineNext /\ UNCHANGED <<vars, backendVars, stage>>

\* list_tests_only goes before the mode (main.c:237-252).
Asked == IF "--list-tests" \in given.flags THEN "list"
         ELSE CASE given.mode = "llvm" -> "ir" [] given.mode = "object" -> "object" [] OTHER -> "exe"

\* One process has read its words, the others may have read any.
Build ==
    /\ stage = "words" /\ phase = "compile" /\ argv \in Followed
    /\ stage' = "build"
    /\ mode' \in {m \in [Procs -> Modes] : \E p \in Procs : m[p] = Asked}
    /\ pid' \in [Procs -> Pids]
    /\ UNCHANGED <<lineVars, pc, status, child, fault, disk, backendVars>>

\* llvm_compile_ir_to_object_internal is a call into Backend.
Emits(p) == stage = "build" /\ pc[p] = "emit" /\ ~WritesText(p)
CallBackend(p) ==
    /\ Emits(p) /\ calls = 0
    /\ \E l \in Levels : Begin("object", l)
    /\ UNCHANGED <<lineVars, vars, stage>>
InBackend(p) ==
    /\ Emits(p) /\ where # "idle"
    /\ BackendNext
    /\ UNCHANGED <<lineVars, vars, stage>>
BackendReturns(p) ==
    /\ Emits(p) /\ where = "idle" /\ calls > 0
    /\ \/ result = 0 /\ EmitObject(p)
       \/ result # 0 /\ EmitFails(p) /\ (file = "partial" <=> disk' # disk)
    /\ UNCHANGED <<lineVars, backendVars, stage>>

Goes(p) ==
    \/ CallBackend(p) \/ InBackend(p) \/ BackendReturns(p)
    \/ stage = "build" /\ ~Emits(p) /\ Main(p) /\ UNCHANGED <<lineVars, backendVars, stage>>
OfChild(p) == stage = "build" /\ Child(p) /\ UNCHANGED <<lineVars, backendVars, stage>>
StartOrKill(p) == stage = "build" /\ (Start(p) \/ Kill(p)) /\ UNCHANGED <<lineVars, backendVars, stage>>

\* A Weave program calls the back end.
Program == stage = "program" /\ BackendNext /\ UNCHANGED <<lineVars, vars, stage>>

MainNext == Words_ \/ Build \/ (\E p \in Procs : Goes(p) \/ OfChild(p) \/ StartOrKill(p)) \/ Program

\* As in Driver: the system runs a process that can run, and clang comes to an end.
MainSpec ==
    /\ MainInit /\ [][MainNext]_mainVars
    /\ \A p \in Procs : WF_mainVars(Goes(p)) /\ WF_mainVars(OfChild(p))

MCFollowed == {<<"f">>, <<"-S", "f">>, <<"f", "-c">>, <<"--list-tests", "f">>}
=============================================================================
