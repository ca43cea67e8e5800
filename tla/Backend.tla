------------------------------- MODULE Backend -------------------------------
(***************************************************************************)
(* The calls into LLVM (llvm_compile.c, llvm_jit.cpp and their helpers),   *)
(* which weavec0 makes for its own output and a Weave program through      *)
(* ccall: compiling a text to an object or to assembly, linking, and       *)
(* compiling in memory. Any call into LLVM may fail; what is modelled is   *)
(* who owns what it made, and what the caller is told.                     *)
(*                                                                         *)
(* A resource that is disposed of when it is not live is recorded in       *)
(* twice.                                                                  *)
(***************************************************************************)
EXTENDS Naturals, FiniteSets

CONSTANTS
    Levels,    \* optimisation levels, 0 for none
    MaxCalls   \* bound: calls into this code

ASSUME BackendAssumption == 0 \in Levels /\ MaxCalls \in Nat

VARIABLES
    where,       \* how far the call is
    kind, level, \* llvm_compile_ir_to_object_asan and its twin: what is asked for
    vars_,       \* its variables that are not NULL
    live,        \* the resources LLVM has made and not freed
    twice,       \* those a compilation has freed when they were not live
    file,        \* the output file of the last call that has one
    result,      \* what the last call returned
    failed,      \* the step that failed last
    initialized, \* init_llvm_targets has run
    wanted,      \* who called llvm_jit_compile_and_lookup
    address,     \* what it found: the function, or NULL
    calls

compile == <<where, kind, level, vars_, live, twice, file, result, failed, initialized>>
jit     == <<wanted, address>>
backendVars == <<compile, jit, calls>>

Resources == {"context", "buffer", "module", "triple", "machine", "session"}

BackendInit ==
    /\ where = "idle" /\ kind = "object" /\ level = 0
    /\ vars_ = {} /\ live = {} /\ twice = {}
    /\ file = "unasked" /\ result = 0 /\ failed = "nothing" /\ initialized = FALSE
    /\ wanted = "nobody" /\ address = "null"
    /\ calls = 0

-----------------------------------------------------------------------------
(* llvm_compile_ir_to_object_asan; llvm_compile_ir_to_assembly_internal    *)
(* is the same but for the kind of file. use_asan makes no difference.     *)

Calls == where = "idle" /\ calls < MaxCalls /\ calls' = calls + 1

\* The wrapper for ccall refuses a NULL, which the compiler itself never passes.
RefuseNull ==
    /\ Calls
    /\ result' = 1 /\ failed' = "arguments" /\ file' = "none" /\ twice' = {}
    /\ UNCHANGED <<where, kind, level, vars_, live, initialized, jit>>

Begin(k, l) ==
    /\ Calls
    /\ initialized' = TRUE
    /\ kind' = k /\ level' = l /\ vars_' = {} /\ result' = 1 /\ failed' = "nothing" /\ file' = "none"
    /\ where' = "context" /\ twice' = {}
    /\ UNCHANGED <<live, jit>>

Step == UNCHANGED <<kind, level, result, initialized, calls, jit>>
Fail(at) == where' = "cleanup" /\ failed' = at

\* A call that makes r, or returns NULL.
Make(r, next) ==
    /\ where = r
    /\ \/ vars_' = vars_ \cup {r} /\ live' = live \cup {r} /\ where' = next /\ UNCHANGED failed
       \/ Fail(r) /\ UNCHANGED <<vars_, live>>
    /\ Step /\ UNCHANGED <<twice, file>>

CreateContext == Make("context", "buffer")
CreateBuffer  == Make("buffer", "module")
GetTriple     == Make("triple", "target")

\* LLVMParseIRInContext keeps the buffer and frees it, whether or not it makes a module;
\* mem_buf still points there.
ParseIR ==
    /\ where = "module"
    /\ \/ vars_' = vars_ \cup {"module"} /\ live' = (live \ {"buffer"}) \cup {"module"}
          /\ where' = "triple" /\ UNCHANGED failed
       \/ Fail("module") /\ live' = live \ {"buffer"} /\ UNCHANGED vars_
    /\ Step /\ UNCHANGED <<twice, file>>

\* The target is LLVM's own; the triple is disposed of at once when there is none.
GetTarget ==
    /\ where = "target"
    /\ \/ where' = "machine" /\ UNCHANGED <<vars_, live, failed>>
       \/ Fail("target") /\ live' = live \ {"triple"} /\ vars_' = vars_ \ {"triple"}
    /\ Step /\ UNCHANGED <<twice, file>>

CreateMachine ==
    /\ where = "machine"
    /\ \/ /\ vars_' = (vars_ \ {"triple"}) \cup {"machine"}
          /\ live' = (live \ {"triple"}) \cup {"machine"}
          /\ where' = IF level = 0 THEN "emit" ELSE "optimize"
          /\ UNCHANGED failed
       \/ Fail("machine") /\ vars_' = vars_ \ {"triple"} /\ live' = live \ {"triple"}
    /\ Step /\ UNCHANGED <<twice, file>>

\* run_optimization_passes makes its pass manager and disposes of it; without one it
\* goes on unoptimised.
Optimize ==
    /\ where = "optimize"
    /\ where' = "emit"
    /\ failed' \in {failed, "optimize"}
    /\ Step /\ UNCHANGED <<vars_, live, twice, file>>

Emit_Bug ==
    /\ where = "emit"
    /\ file' \in {"whole", "partial", "none"}
    /\ where' = "cleanup" /\ result' = 0
    /\ UNCHANGED <<kind, level, vars_, live, twice, failed, initialized, calls, jit>>
Emit ==
    /\ where = "emit"
    /\ \/ file' = "whole" /\ result' = 0 /\ where' = "cleanup" /\ UNCHANGED failed
       \/ file' \in {"none", "partial"} /\ Fail("emit") /\ UNCHANGED result
    /\ UNCHANGED <<kind, level, vars_, live, twice, initialized, calls, jit>>

\* What cleanup disposes of: the buffer only when there is no module.
Disposed_Bug(vs) == vs
Disposed(vs) == IF "module" \in vs THEN vs \ {"buffer"} ELSE vs

Cleanup ==
    /\ where = "cleanup"
    /\ twice' = twice \cup (Disposed(vars_) \ live)
    /\ live' = live \ Disposed(vars_)
    /\ vars_' = {} /\ where' = "idle"
    /\ UNCHANGED <<kind, level, file, result, failed, initialized, calls, jit>>

\* llvm_link_objects: malloc, fork, the shell and the linker, waitpid.
Link ==
    /\ Calls
    /\ \/ result' = 1 /\ failed' \in {"malloc", "fork"} /\ file' = "none"
       \/ \E ended \in {"ok", "exit status", "signal", "not waited"} :
            /\ result' = IF ended = "ok" THEN 0 ELSE 1
            /\ failed' = IF ended = "ok" THEN "nothing" ELSE IF ended = "not waited" THEN "waitpid" ELSE "linker"
            /\ file' \in CASE ended = "ok"         -> {"whole"}
                          [] ended = "not waited" -> {"none", "partial", "whole"}
                          [] OTHER                -> {"none", "partial"}
    /\ twice' = {}
    /\ UNCHANGED <<where, kind, level, vars_, live, initialized, jit>>

-----------------------------------------------------------------------------
(* llvm_jit_compile_and_lookup, for llvm_jit_compile_and_get_ptr or        *)
(* llvm_jit_call_i32_i32_i32: create a session, add the module, look the   *)
(* function up, dispose of the session. A NULL argument is answered as a   *)
(* session that cannot be made.                                            *)

JitLookup(by) ==
    /\ Calls
    /\ wanted' = by /\ address' = "null"
    /\ where' = "jit create"
    /\ UNCHANGED <<kind, level, vars_, live, twice, file, result, failed, initialized>>

JitStep(from) ==
    where = from /\ UNCHANGED <<kind, level, vars_, twice, file, result, failed, initialized, wanted, calls>>

JitCreate ==
    /\ JitStep("jit create") /\ UNCHANGED address
    /\ \/ live' = live \cup {"session"} /\ where' = "jit add"
       \/ UNCHANGED live /\ where' = "jit return"

JitAdd_Bug ==
    JitStep("jit add") /\ UNCHANGED <<address, live>> /\ where' \in {"jit look up", "jit return"}
JitAdd ==
    /\ JitStep("jit add") /\ UNCHANGED address
    /\ \/ UNCHANGED live /\ where' = "jit look up"
       \/ live' = live \ {"session"} /\ where' = "jit return"

JitLookUp ==
    /\ JitStep("jit look up")
    /\ address' \in {"null", "function"}
    /\ live' = live \ {"session"}
    /\ where' = IF wanted = "call" /\ address' # "null" THEN "jit call" ELSE "jit return"

\* func(arg1, arg2): the code of a session that is gone is freed memory, and jumping there
\* may do anything.
JitCall ==
    /\ JitStep("jit call") /\ UNCHANGED <<address, live>>
    /\ where' \in IF "session" \in live THEN {"idle"} ELSE {"idle", "crashed"}

\* The pointer is returned to the program, 0 for an error; or -1 for one.
JitReturn ==
    /\ JitStep("jit return") /\ UNCHANGED <<address, live>>
    /\ where' = "idle"

BackendNext ==
    \/ RefuseNull \/ \E k \in {"object", "assembly"}, l \in Levels : Begin(k, l)
    \/ CreateContext \/ CreateBuffer \/ ParseIR \/ GetTriple \/ GetTarget \/ CreateMachine
    \/ Optimize \/ Emit \/ Cleanup \/ Link
    \/ \E by \in {"get_ptr", "call"} : JitLookup(by)
    \/ JitCreate \/ JitAdd \/ JitLookUp \/ JitCall \/ JitReturn

BackendSpec == BackendInit /\ [][BackendNext]_backendVars

-----------------------------------------------------------------------------
(* Properties.                                                             *)

\* Every variable is in its range, and the targets are initialised before LLVM is used.
BackendTypeOK ==
    /\ vars_ \subseteq Resources /\ live \subseteq Resources /\ twice \subseteq Resources
    /\ kind \in {"object", "assembly"} /\ level \in Levels /\ result \in {0, 1}
    /\ file \in {"unasked", "none", "partial", "whole"} /\ wanted \in {"nobody", "get_ptr", "call"}
    /\ calls \in 0..MaxCalls /\ address \in {"null", "function"}
    /\ "context" \in live => initialized

\* When a call returns, whichever step failed, everything it made has been disposed of.
\* Of a session whose function the caller has been given nothing is said here.
NothingKept ==
    where = "idle" => live \subseteq IF address = "null" THEN {} ELSE {"session"}

\* A compilation whose text could be parsed frees nothing twice, whichever later step
\* fails. What LLVM has freed already when the text cannot be parsed is LiveWhenUsed's.
FreedOnce == failed # "module" => twice = {}

\* Whatever calls came before and whichever step of a call fails, a call leaves nothing
\* behind and frees nothing twice (llvm_compile.c:136-257, llvm_jit.cpp:124-139).
OwnershipSound == BackendTypeOK /\ NothingKept /\ FreedOnce

\* What the callers are told to rely on: llvm_jit_compile_and_lookup "returns function pointer
\* on success" (llvm_compile.h:71-75), which llvm_jit_call_i32_i32_i32 calls, and cleanup
\* is to "only dispose memory buffer if module wasn't created" (llvm_compile.c:248), as if
\* the buffer were its own then. So: a function that is called or handed out has a session
\* that is live, and what is disposed of is live.
LiveWhenUsed ==
    /\ where \in {"jit call", "jit return"} /\ address # "null" => "session" \in live
    /\ twice = {}

\* A compilation or link answers 0 exactly when the output is whole: that the optimiser
\* could not run does not make it fail, and any other failure does. Only a linker that
\* cannot be waited for may have done its work unknown (llvm_compile.c:223-256, 303-320).
ResultTruthful ==
    where = "idle" /\ calls > 0 =>
        /\ result = 0 => file \in {"whole", "unasked"}
        /\ file = "whole" => result = 0 \/ failed = "waitpid"

=============================================================================
