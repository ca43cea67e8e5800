---------------------------- MODULE BackendProofs -----------------------------
(***************************************************************************)
(* Proofs about Backend, for every set of levels and any number of calls.  *)
(***************************************************************************)
EXTENDS Backend, TLAPS

-----------------------------------------------------------------------------
(* The inductive invariant. What is live, and which variables are not      *)
(* NULL, is known from how far a call is.                                  *)

JitSteps == {"jit create", "jit add", "jit look up", "jit call", "jit return"}
Resting  == {"idle", "crashed"} \cup JitSteps
Compiling == {"context", "buffer", "module", "triple", "target", "machine", "optimize", "emit"}

\* A resting call holds at most the session of a lookup.
RestHeld ==
    where \in Resting =>
        /\ vars_ = {}
        /\ live = IF where \in {"jit add", "jit look up"} THEN {"session"} ELSE {}

\* From the parsed module on, mem_buf points to a buffer that is LLVM's.
CompileHeld ==
    /\ where = "context" => vars_ = {} /\ live = {}
    /\ where = "buffer"  => vars_ = {"context"} /\ live = {"context"}
    /\ where = "module"  => vars_ = {"context", "buffer"} /\ live = {"context", "buffer"}
    /\ where = "triple"  => vars_ = {"context", "buffer", "module"} /\ live = {"context", "module"}
    /\ where \in {"target", "machine"} =>
          vars_ = {"context", "buffer", "module", "triple"} /\ live = {"context", "module", "triple"}
    /\ where \in {"optimize", "emit"} =>
          vars_ = {"context", "buffer", "module", "machine"} /\ live = {"context", "module", "machine"}

\* Cleanup disposes of what is live, but for the text that could not be parsed.
CleanupHeld ==
    where = "cleanup" =>
        \/ Disposed(vars_) = live
        \/ failed = "module" /\ vars_ = {"context", "buffer"} /\ live = {"context"}

\* A call compiles only after init_llvm_targets.
Steps ==
    /\ where \in Resting \cup Compiling \cup {"cleanup"}
    /\ where \notin Resting => initialized

\* A compilation frees nothing twice before its cleanup.
TwiceHeld ==
    /\ where \in Compiling \cup {"cleanup"} => twice = {}
    /\ twice # {} => twice = {"buffer"} /\ failed = "module"

\* What the answer will be: an error until the file is written.
AnswerHeld ==
    /\ where \in Compiling => result = 1 /\ file = "none"
    /\ where = "cleanup" => (result = 0 <=> file = "whole") /\ file # "unasked"
    /\ where \in Resting =>
          /\ result = 0 => file \in {"whole", "unasked"}
          /\ file = "whole" => result = 0 \/ failed = "waitpid"

IInv ==
    /\ Steps /\ BackendTypeOK /\ RestHeld /\ CompileHeld /\ CleanupHeld
    /\ TwiceHeld /\ AnswerHeld

-----------------------------------------------------------------------------

LEMMA Initially == BackendInit => IInv
BY BackendAssumption
   DEF BackendInit, IInv, Steps, BackendTypeOK, RestHeld, CompileHeld, CleanupHeld, TwiceHeld, AnswerHeld,
       Resting, JitSteps, Compiling, Resources


LEMMA ByRefuse == IInv /\ RefuseNull => IInv'
<1> SUFFICES ASSUME IInv, RefuseNull
             PROVE  IInv'
  OBVIOUS
<1> USE BackendAssumption DEF IInv, Resting, JitSteps, Compiling
<1>1. Steps'
  BY DEF RefuseNull, Calls, jit, Steps
<1>2. BackendTypeOK'
  BY DEF RefuseNull, Calls, jit, BackendTypeOK, Steps, RestHeld, CompileHeld, CleanupHeld, Resources
<1>3. RestHeld'
  BY DEF RefuseNull, Calls, jit, RestHeld, CompileHeld, CleanupHeld, Steps
<1>4. CompileHeld'
  BY DEF RefuseNull, Calls, jit, RestHeld, CompileHeld, Steps
<1>5. CleanupHeld'
  BY DEF RefuseNull, Calls, jit, CleanupHeld, CompileHeld, Steps
<1>6. TwiceHeld'
  BY DEF RefuseNull, Calls, jit, TwiceHeld, CleanupHeld, Steps
<1>7. AnswerHeld'
  BY DEF RefuseNull, Calls, jit, AnswerHeld, Steps
<1> QED
  BY <1>1, <1>2, <1>3, <1>4, <1>5, <1>6, <1>7

LEMMA ByStart == IInv /\ (\E k \in {"object", "assembly"}, l \in Levels : Begin(k, l)) => IInv'
<1> SUFFICES ASSUME IInv, \E k \in {"object", "assembly"}, l \in Levels : Begin(k, l)
             PROVE  IInv'
  OBVIOUS
<1> USE BackendAssumption DEF IInv, Resting, JitSteps, Compiling
<1>1. Steps'
  BY DEF Begin, Calls, jit, Steps
<1>2. BackendTypeOK'
  BY DEF Begin, Calls, jit, BackendTypeOK, Steps, RestHeld, CompileHeld, CleanupHeld, Resources
<1>3. RestHeld'
  BY DEF Begin, Calls, jit, RestHeld, CompileHeld, CleanupHeld, Steps
<1>4. CompileHeld'
  BY DEF Begin, Calls, jit, RestHeld, CompileHeld, Steps
<1>5. CleanupHeld'
  BY DEF Begin, Calls, jit, CleanupHeld, CompileHeld, Steps
<1>6. TwiceHeld'
  BY DEF Begin, Calls, jit, TwiceHeld, CleanupHeld, Steps
<1>7. AnswerHeld'
  BY DEF Begin, Calls, jit, AnswerHeld, Steps
<1> QED
  BY <1>1, <1>2, <1>3, <1>4, <1>5, <1>6, <1>7

LEMMA ByContext == IInv /\ CreateContext => IInv'
<1> SUFFICES ASSUME IInv, CreateContext
             PROVE  IInv'
  OBVIOUS
<1> USE BackendAssumption DEF IInv, Resting, JitSteps, Compiling
<1>1. Steps'
  BY DEF CreateContext, Make, Fail, Step, Disposed, jit, Steps
<1>2. BackendTypeOK'
  BY DEF CreateContext, Make, Fail, Step, Disposed, jit, BackendTypeOK, Steps, RestHeld, CompileHeld, CleanupHeld, Resources
<1>3. RestHeld'
  BY DEF CreateContext, Make, Fail, Step, Disposed, jit, RestHeld, CompileHeld, CleanupHeld, Steps
<1>4. CompileHeld'
  BY DEF CreateContext, Make, Fail, Step, Disposed, jit, RestHeld, CompileHeld, Steps
<1>5. CleanupHeld'
  BY DEF CreateContext, Make, Fail, Step, Disposed, jit, CleanupHeld, CompileHeld, Steps
<1>6. TwiceHeld'
  BY DEF CreateContext, Make, Fail, Step, Disposed, jit, TwiceHeld, CleanupHeld, Steps
<1>7. AnswerHeld'
  BY DEF CreateContext, Make, Fail, Step, Disposed, jit, AnswerHeld, Steps
<1> QED
  BY <1>1, <1>2, <1>3, <1>4, <1>5, <1>6, <1>7

LEMMA ByBuffer == IInv /\ CreateBuffer => IInv'
<1> SUFFICES ASSUME IInv, CreateBuffer
             PROVE  IInv'
  OBVIOUS
<1> USE BackendAssumption DEF IInv, Resting, JitSteps, Compiling
<1>1. Steps'
  BY DEF CreateBuffer, Make, Fail, Step, Disposed, jit, Steps
<1>2. BackendTypeOK'
  BY DEF CreateBuffer, Make, Fail, Step, Disposed, jit, BackendTypeOK, Steps, RestHeld, CompileHeld, CleanupHeld, Resources
<1>3. RestHeld'
  BY DEF CreateBuffer, Make, Fail, Step, Disposed, jit, RestHeld, CompileHeld, CleanupHeld, Steps
<1>4. CompileHeld'
  BY DEF CreateBuffer, Make, Fail, Step, Disposed, jit, RestHeld, CompileHeld, Steps
<1>5. CleanupHeld'
  BY DEF CreateBuffer, Make, Fail, Step, Disposed, jit, CleanupHeld, CompileHeld, Steps
<1>6. TwiceHeld'
  BY DEF CreateBuffer, Make, Fail, Step, Disposed, jit, TwiceHeld, CleanupHeld, Steps
<1>7. AnswerHeld'
  BY DEF CreateBuffer, Make, Fail, Step, Disposed, jit, AnswerHeld, Steps
<1> QED
  BY <1>1, <1>2, <1>3, <1>4, <1>5, <1>6, <1>7

LEMMA ByParse == IInv /\ ParseIR => IInv'
<1> SUFFICES ASSUME IInv, ParseIR
             PROVE  IInv'
  OBVIOUS
<1> USE BackendAssumption DEF IInv, Resting, JitSteps, Compiling
<1>1. Steps'
  BY DEF ParseIR, Fail, Step, Disposed, jit, Steps
<1>2. BackendTypeOK'
  BY DEF ParseIR, Fail, Step, Disposed, jit, BackendTypeOK, Steps, RestHeld, CompileHeld, CleanupHeld, Resources
<1>3. RestHeld'
  BY DEF ParseIR, Fail, Step, Disposed, jit, RestHeld, CompileHeld, CleanupHeld, Steps
<1>4. CompileHeld'
  BY DEF ParseIR, Fail, Step, Disposed, jit, RestHeld, CompileHeld, Steps
<1>5. CleanupHeld'
  BY DEF ParseIR, Fail, Step, Disposed, jit, CleanupHeld, CompileHeld, Steps
<1>6. TwiceHeld'
  BY DEF ParseIR, Fail, Step, Disposed, jit, TwiceHeld, CleanupHeld, Steps
<1>7. AnswerHeld'
  BY DEF ParseIR, Fail, Step, Disposed, jit, AnswerHeld, Steps
<1> QED
  BY <1>1, <1>2, <1>3, <1>4, <1>5, <1>6, <1>7

LEMMA ByTriple == IInv /\ GetTriple => IInv'
<1> SUFFICES ASSUME IInv, GetTriple
             PROVE  IInv'
  OBVIOUS
<1> USE BackendAssumption DEF IInv, Resting, JitSteps, Compiling
<1>1. Steps'
  BY DEF GetTriple, Make, Fail, Step, Disposed, jit, Steps
<1>2. BackendTypeOK'
  BY DEF GetTriple, Make, Fail, Step, Disposed, jit, BackendTypeOK, Steps, RestHeld, CompileHeld, CleanupHeld, Resources
<1>3. RestHeld'
  BY DEF GetTriple, Make, Fail, Step, Disposed, jit, RestHeld, CompileHeld, CleanupHeld, Steps
<1>4. CompileHeld'
  BY DEF GetTriple, Make, Fail, Step, Disposed, jit, RestHeld, CompileHeld, Steps
<1>5. CleanupHeld'
  BY DEF GetTriple, Make, Fail, Step, Disposed, jit, CleanupHeld, CompileHeld, Steps
<1>6. TwiceHeld'
  BY DEF GetTriple, Make, Fail, Step, Disposed, jit, TwiceHeld, CleanupHeld, Steps
<1>7. AnswerHeld'
  BY DEF GetTriple, Make, Fail, Step, Disposed, jit, AnswerHeld, Steps
<1> QED
  BY <1>1, <1>2, <1>3, <1>4, <1>5, <1>6, <1>7

LEMMA ByTarget == IInv /\ GetTarget => IInv'
<1> SUFFICES ASSUME IInv, GetTarget
             PROVE  IInv'
  OBVIOUS
<1> USE BackendAssumption DEF IInv, Resting, JitSteps, Compiling
<1>1. Steps'
  BY DEF GetTarget, Fail, Step, Disposed, jit, Steps
<1>2. BackendTypeOK'
  BY DEF GetTarget, Fail, Step, Disposed, jit, BackendTypeOK, Steps, RestHeld, CompileHeld, CleanupHeld, Resources
<1>3. RestHeld'
  BY DEF GetTarget, Fail, Step, Disposed, jit, RestHeld, CompileHeld, CleanupHeld, Steps
<1>4. CompileHeld'
  BY DEF GetTarget, Fail, Step, Disposed, jit, RestHeld, CompileHeld, Steps
<1>5. CleanupHeld'
  BY DEF GetTarget, Fail, Step, Disposed, jit, CleanupHeld, CompileHeld, Steps
<1>6. TwiceHeld'
  BY DEF GetTarget, Fail, Step, Disposed, jit, TwiceHeld, CleanupHeld, Steps
<1>7. AnswerHeld'
  BY DEF GetTarget, Fail, Step, Disposed, jit, AnswerHeld, Steps
<1> QED
  BY <1>1, <1>2, <1>3, <1>4, <1>5, <1>6, <1>7

LEMMA ByMachine == IInv /\ CreateMachine => IInv'
<1> SUFFICES ASSUME IInv, CreateMachine
             PROVE  IInv'
  OBVIOUS
<1> USE BackendAssumption DEF IInv, Resting, JitSteps, Compiling
<1>1. Steps'
  BY DEF CreateMachine, Fail, Step, Disposed, jit, Steps
<1>2. BackendTypeOK'
  BY DEF CreateMachine, Fail, Step, Disposed, jit, BackendTypeOK, Steps, RestHeld, CompileHeld, CleanupHeld, Resources
<1>3. RestHeld'
  BY DEF CreateMachine, Fail, Step, Disposed, jit, RestHeld, CompileHeld, CleanupHeld, Steps
<1>4. CompileHeld'
  BY DEF CreateMachine, Fail, Step, Disposed, jit, RestHeld, CompileHeld, Steps
<1>5. CleanupHeld'
  BY DEF CreateMachine, Fail, Step, Disposed, jit, CleanupHeld, CompileHeld, Steps
<1>6. TwiceHeld'
  BY DEF CreateMachine, Fail, Step, Disposed, jit, TwiceHeld, CleanupHeld, Steps
<1>7. AnswerHeld'
  BY DEF CreateMachine, Fail, Step, Disposed, jit, AnswerHeld, Steps
<1> QED
  BY <1>1, <1>2, <1>3, <1>4, <1>5, <1>6, <1>7

LEMMA ByOptimize == IInv /\ Optimize => IInv'
<1> SUFFICES ASSUME IInv, Optimize
             PROVE  IInv'
  OBVIOUS
<1> USE BackendAssumption DEF IInv, Resting, JitSteps, Compiling
<1>1. Steps'
  BY DEF Optimize, Step, jit, Steps
<1>2. BackendTypeOK'
  BY DEF Optimize, Step, jit, BackendTypeOK, Steps, RestHeld, CompileHeld, CleanupHeld, Resources
<1>3. RestHeld'
  BY DEF Optimize, Step, jit, RestHeld, CompileHeld, CleanupHeld, Steps
<1>4. CompileHeld'
  BY DEF Optimize, Step, jit, RestHeld, CompileHeld, Steps
<1>5. CleanupHeld'
  BY DEF Optimize, Step, jit, CleanupHeld, CompileHeld, Steps
<1>6. TwiceHeld'
  BY DEF Optimize, Step, jit, TwiceHeld, CleanupHeld, Steps
<1>7. AnswerHeld'
  BY DEF Optimize, Step, jit, AnswerHeld, Steps
<1> QED
  BY <1>1, <1>2, <1>3, <1>4, <1>5, <1>6, <1>7

LEMMA ByEmit == IInv /\ Emit => IInv'
<1> SUFFICES ASSUME IInv, Emit
             PROVE  IInv'
  OBVIOUS
<1> USE BackendAssumption DEF IInv, Resting, JitSteps, Compiling
<1>1. Steps'
  BY DEF Emit, Fail, Disposed, jit, Steps
<1>2. BackendTypeOK'
  BY DEF Emit, Fail, Disposed, jit, BackendTypeOK, Steps, RestHeld, CompileHeld, CleanupHeld, Resources
<1>3. RestHeld'
  BY DEF Emit, Fail, Disposed, jit, RestHeld, CompileHeld, CleanupHeld, Steps
<1>4. CompileHeld'
  BY DEF Emit, Fail, Disposed, jit, RestHeld, CompileHeld, Steps
<1>5. CleanupHeld'
  BY DEF Emit, Fail, Disposed, jit, CleanupHeld, CompileHeld, Steps
<1>6. TwiceHeld'
  BY DEF Emit, Fail, Disposed, jit, TwiceHeld, CleanupHeld, Steps
<1>7. AnswerHeld'
  <2>1. where = "emit" /\ where' = "cleanup" /\ result = 1
    BY DEF Emit, Fail, AnswerHeld
  <2>2. (result' = 0 <=> file' = "whole") /\ file' # "unasked"
    BY <2>1 DEF Emit
  <2> QED
    BY <2>1, <2>2 DEF AnswerHeld
<1> QED
  BY <1>1, <1>2, <1>3, <1>4, <1>5, <1>6, <1>7

LEMMA ByCleanup == IInv /\ Cleanup => IInv'
<1> SUFFICES ASSUME IInv, Cleanup
             PROVE  IInv'
  OBVIOUS
<1> USE BackendAssumption DEF IInv, Resting, JitSteps, Compiling
<1>1. Steps'
  BY DEF Cleanup, Disposed, jit, Steps
<1>2. BackendTypeOK'
  BY DEF Cleanup, Disposed, jit, BackendTypeOK, Steps, RestHeld, CompileHeld, CleanupHeld, Resources
<1>3. RestHeld'
  BY DEF Cleanup, Disposed, jit, RestHeld, CompileHeld, CleanupHeld, Steps
<1>4. CompileHeld'
  BY DEF Cleanup, Disposed, jit, RestHeld, CompileHeld, Steps
<1>5. CleanupHeld'
  BY DEF Cleanup, Disposed, jit, CleanupHeld, CompileHeld, Steps
<1>6. TwiceHeld'
  BY DEF Cleanup, Disposed, jit, TwiceHeld, CleanupHeld, Steps
<1>7. AnswerHeld'
  BY DEF Cleanup, Disposed, jit, AnswerHeld, Steps
<1> QED
  BY <1>1, <1>2, <1>3, <1>4, <1>5, <1>6, <1>7

LEMMA ByLink == IInv /\ Link => IInv'
<1> SUFFICES ASSUME IInv, Link
             PROVE  IInv'
  OBVIOUS
<1> USE BackendAssumption DEF IInv, Resting, JitSteps, Compiling
<1>1. Steps'
  BY DEF Link, Calls, jit, Steps
<1>2. BackendTypeOK'
  BY DEF Link, Calls, jit, BackendTypeOK, Steps, RestHeld, CompileHeld, CleanupHeld, Resources
<1>3. RestHeld'
  BY DEF Link, Calls, jit, RestHeld, CompileHeld, CleanupHeld, Steps
<1>4. CompileHeld'
  BY DEF Link, Calls, jit, RestHeld, CompileHeld, Steps
<1>5. CleanupHeld'
  BY DEF Link, Calls, jit, CleanupHeld, CompileHeld, Steps
<1>6. TwiceHeld'
  BY DEF Link, Calls, jit, TwiceHeld, CleanupHeld, Steps
<1>7. AnswerHeld'
  BY DEF Link, Calls, jit, AnswerHeld, Steps
<1> QED
  BY <1>1, <1>2, <1>3, <1>4, <1>5, <1>6, <1>7

LEMMA ByJitLookup == IInv /\ (\E by \in {"get_ptr", "call"} : JitLookup(by)) => IInv'
<1> SUFFICES ASSUME IInv, \E by \in {"get_ptr", "call"} : JitLookup(by)
             PROVE  IInv'
  OBVIOUS
<1> USE BackendAssumption DEF IInv, Resting, JitSteps, Compiling
<1>1. Steps'
  BY DEF JitLookup, Calls, Steps
<1>2. BackendTypeOK'
  <2>1. live = {} /\ vars_ = {}
    BY DEF JitLookup, Calls, RestHeld
  <2>2. calls' \in 0..MaxCalls
    <3>1. calls \in 0..MaxCalls
      BY DEF BackendTypeOK
    <3>2. calls < MaxCalls /\ calls' = calls + 1
      BY DEF JitLookup, Calls
    <3>3. MaxCalls \in Nat
      BY BackendAssumption
    <3> QED
      BY ONLY <3>1, <3>2, <3>3
  <2>3. address' \in {"null", "function"} /\ wanted' \in {"nobody", "get_ptr", "call"}
    BY DEF JitLookup
  <2> QED
    BY <2>1, <2>2, <2>3 DEF JitLookup, BackendTypeOK
<1>3. RestHeld'
  BY DEF JitLookup, Calls, RestHeld, CompileHeld, CleanupHeld, Steps
<1>4. CompileHeld'
  BY DEF JitLookup, Calls, RestHeld, CompileHeld, Steps
<1>5. CleanupHeld'
  BY DEF JitLookup, Calls, CleanupHeld, CompileHeld, Steps
<1>6. TwiceHeld'
  BY DEF JitLookup, Calls, TwiceHeld, CleanupHeld, Steps
<1>7. AnswerHeld'
  BY DEF JitLookup, Calls, AnswerHeld, Steps
<1> QED
  BY <1>1, <1>2, <1>3, <1>4, <1>5, <1>6, <1>7

LEMMA ByJitCreate == IInv /\ JitCreate => IInv'
<1> SUFFICES ASSUME IInv, JitCreate
             PROVE  IInv'
  OBVIOUS
<1> USE BackendAssumption DEF IInv, Resting, JitSteps, Compiling
<1>1. Steps'
  BY DEF JitCreate, JitStep, Steps
<1>2. BackendTypeOK'
  BY DEF JitCreate, JitStep, BackendTypeOK, Steps, RestHeld, CompileHeld, CleanupHeld, Resources
<1>3. RestHeld'
  BY DEF JitCreate, JitStep, RestHeld, CompileHeld, CleanupHeld, Steps
<1>4. CompileHeld'
  BY DEF JitCreate, JitStep, RestHeld, CompileHeld, Steps
<1>5. CleanupHeld'
  BY DEF JitCreate, JitStep, CleanupHeld, CompileHeld, Steps
<1>6. TwiceHeld'
  BY DEF JitCreate, JitStep, TwiceHeld, CleanupHeld, Steps
<1>7. AnswerHeld'
  BY DEF JitCreate, JitStep, AnswerHeld, Steps
<1> QED
  BY <1>1, <1>2, <1>3, <1>4, <1>5, <1>6, <1>7

LEMMA ByJitAdd == IInv /\ JitAdd => IInv'
<1> SUFFICES ASSUME IInv, JitAdd
             PROVE  IInv'
  OBVIOUS
<1> USE BackendAssumption DEF IInv, Resting, JitSteps, Compiling
<1>1. Steps'
  BY DEF JitAdd, JitStep, Steps
<1>2. BackendTypeOK'
  BY DEF JitAdd, JitStep, BackendTypeOK, Steps, RestHeld, CompileHeld, CleanupHeld, Resources
<1>3. RestHeld'
  BY DEF JitAdd, JitStep, RestHeld, CompileHeld, CleanupHeld, Steps
<1>4. CompileHeld'
  BY DEF JitAdd, JitStep, RestHeld, CompileHeld, Steps
<1>5. CleanupHeld'
  BY DEF JitAdd, JitStep, CleanupHeld, CompileHeld, Steps
<1>6. TwiceHeld'
  BY DEF JitAdd, JitStep, TwiceHeld, CleanupHeld, Steps
<1>7. AnswerHeld'
  BY DEF JitAdd, JitStep, AnswerHeld, Steps
<1> QED
  BY <1>1, <1>2, <1>3, <1>4, <1>5, <1>6, <1>7

LEMMA ByJitLookUp == IInv /\ JitLookUp => IInv'
<1> SUFFICES ASSUME IInv, JitLookUp
             PROVE  IInv'
  OBVIOUS
<1> USE BackendAssumption DEF IInv, Resting, JitSteps, Compiling
<1>1. Steps'
  BY DEF JitLookUp, JitStep, Steps
<1>2. BackendTypeOK'
  BY DEF JitLookUp, JitStep, BackendTypeOK, Steps, RestHeld, CompileHeld, CleanupHeld, Resources
<1>3. RestHeld'
  BY DEF JitLookUp, JitStep, RestHeld, CompileHeld, CleanupHeld, Steps
<1>4. CompileHeld'
  BY DEF JitLookUp, JitStep, RestHeld, CompileHeld, Steps
<1>5. CleanupHeld'
  BY DEF JitLookUp, JitStep, CleanupHeld, CompileHeld, Steps
<1>6. TwiceHeld'
  BY DEF JitLookUp, JitStep, TwiceHeld, CleanupHeld, Steps
<1>7. AnswerHeld'
  BY DEF JitLookUp, JitStep, AnswerHeld, Steps
<1> QED
  BY <1>1, <1>2, <1>3, <1>4, <1>5, <1>6, <1>7

LEMMA ByJitCall == IInv /\ JitCall => IInv'
<1> SUFFICES ASSUME IInv, JitCall
             PROVE  IInv'
  OBVIOUS
<1> USE BackendAssumption DEF IInv, Resting, JitSteps, Compiling
<1>1. Steps'
  BY DEF JitCall, JitStep, Steps
<1>2. BackendTypeOK'
  BY DEF JitCall, JitStep, BackendTypeOK, Steps, RestHeld, CompileHeld, CleanupHeld, Resources
<1>3. RestHeld'
  BY DEF JitCall, JitStep, RestHeld, CompileHeld, CleanupHeld, Steps
<1>4. CompileHeld'
  BY DEF JitCall, JitStep, RestHeld, CompileHeld, Steps
<1>5. CleanupHeld'
  BY DEF JitCall, JitStep, CleanupHeld, CompileHeld, Steps
<1>6. TwiceHeld'
  BY DEF JitCall, JitStep, TwiceHeld, CleanupHeld, Steps
<1>7. AnswerHeld'
  BY DEF JitCall, JitStep, AnswerHeld, Steps
<1> QED
  BY <1>1, <1>2, <1>3, <1>4, <1>5, <1>6, <1>7

LEMMA ByJitReturn == IInv /\ JitReturn => IInv'
<1> SUFFICES ASSUME IInv, JitReturn
             PROVE  IInv'
  OBVIOUS
<1> USE BackendAssumption DEF IInv, Resting, JitSteps, Compiling
<1>1. Steps'
  BY DEF JitReturn, JitStep, Steps
<1>2. BackendTypeOK'
  BY DEF JitReturn, JitStep, BackendTypeOK, Steps, RestHeld, CompileHeld, CleanupHeld, Resources
<1>3. RestHeld'
  BY DEF JitReturn, JitStep, RestHeld, CompileHeld, CleanupHeld, Steps
<1>4. CompileHeld'
  BY DEF JitReturn, JitStep, RestHeld, CompileHeld, Steps
<1>5. CleanupHeld'
  BY DEF JitReturn, JitStep, CleanupHeld, CompileHeld, Steps
<1>6. TwiceHeld'
  BY DEF JitReturn, JitStep, TwiceHeld, CleanupHeld, Steps
<1>7. AnswerHeld'
  BY DEF JitReturn, JitStep, AnswerHeld, Steps
<1> QED
  BY <1>1, <1>2, <1>3, <1>4, <1>5, <1>6, <1>7

LEMMA ByStutter == IInv /\ UNCHANGED backendVars => IInv'
<1> SUFFICES ASSUME IInv, UNCHANGED backendVars
             PROVE  IInv'
  OBVIOUS
<1> USE BackendAssumption DEF IInv, Resting, JitSteps, Compiling
<1>1. Steps'
  BY DEF backendVars, compile, jit, Disposed, Steps
<1>2. BackendTypeOK'
  BY DEF backendVars, compile, jit, Disposed, BackendTypeOK, Steps, RestHeld, CompileHeld, CleanupHeld, Resources
<1>3. RestHeld'
  BY DEF backendVars, compile, jit, Disposed, RestHeld, CompileHeld, CleanupHeld, Steps
<1>4. CompileHeld'
  BY DEF backendVars, compile, jit, Disposed, RestHeld, CompileHeld, Steps
<1>5. CleanupHeld'
  BY DEF backendVars, compile, jit, Disposed, CleanupHeld, CompileHeld, Steps
<1>6. TwiceHeld'
  BY DEF backendVars, compile, jit, Disposed, TwiceHeld, CleanupHeld, Steps
<1>7. AnswerHeld'
  BY DEF backendVars, compile, jit, Disposed, AnswerHeld, Steps
<1> QED
  BY <1>1, <1>2, <1>3, <1>4, <1>5, <1>6, <1>7

LEMMA ByStep == IInv /\ [BackendNext]_backendVars => IInv'
BY ByRefuse, ByStart, ByContext, ByBuffer, ByParse, ByTriple, ByTarget, ByMachine, ByOptimize, ByEmit, ByCleanup,
   ByLink, ByJitLookup, ByJitCreate, ByJitAdd, ByJitLookUp, ByJitCall, ByJitReturn, ByStutter
   DEF BackendNext

LEMMA Inductive == BackendSpec => []IInv
<1>1. BackendInit => IInv
  BY Initially
<1>2. IInv /\ [BackendNext]_backendVars => IInv'
  BY ByStep
<1> QED
  BY <1>1, <1>2, PTL DEF BackendSpec

-----------------------------------------------------------------------------
(* What the invariant implies.                                             *)

\* Whichever call into LLVM fails, in whichever order compilations, links and lookups are
\* made, nothing is left live when a call returns but the session of a function that was
\* found, if any, and a text that parses has nothing freed twice.
THEOREM Owned == BackendSpec => []OwnershipSound
<1>1. IInv => NothingKept
  BY DEF IInv, RestHeld, NothingKept, Resting, JitSteps
<1>2. IInv => FreedOnce
  BY DEF IInv, TwiceHeld, FreedOnce
<1>3. IInv => OwnershipSound
  BY <1>1, <1>2 DEF IInv, OwnershipSound
<1> QED
  BY <1>3, Inductive, PTL

\* A compilation or link answers 0 exactly when its output is whole, unless the linker
\* could not be waited for.
THEOREM Truthful == BackendSpec => []ResultTruthful
<1>1. IInv => ResultTruthful
  BY DEF IInv, AnswerHeld, ResultTruthful, Resting
<1> QED
  BY <1>1, Inductive, PTL

=============================================================================
