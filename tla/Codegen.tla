------------------------------ MODULE Codegen -------------------------------
(***************************************************************************)
(* How weavec0 turns the body of one function into LLVM IR: cg_stmt        *)
(* (stmt.c), cg_expr (expr.c) and compile_fn_form (program.c), with the    *)
(* counters of ir.c, the environment of env.c and ensure_type.             *)
(*                                                                         *)
(* The C functions recurse over the syntax tree. Here the activations are  *)
(* the frames of an explicit stack, and the program is chosen while it is  *)
(* compiled: whenever the code asks what the next node is, any form may    *)
(* answer. Every behaviour is so the compilation of one program, and the   *)
(* bounds are on the size of that program.                                 *)
(*                                                                         *)
(* A definition whose name ends in _Bug is a mistake the code could have    *)
(* made; nothing uses it but the mutation runs, which put it in the place   *)
(* of the definition after it.                                              *)
(***************************************************************************)
EXTENDS IRFlow, Integers

CONSTANTS
    Names,      \* variable names the program may use
    Params,     \* the parameters of the function: a sequence of [name, ty]
    RetTypes,   \* return types the function may have
    Fns,        \* callable functions: name |-> [params |-> types, ret |-> type]
    StmtForms,  \* statement forms the program may use
    ExprForms,  \* expression forms the program may use
    MaxNodes,   \* bound: syntax nodes of the program
    MaxDepth    \* bound: nesting depth, the enclosing activations

\* Types (types.c) of values: Int32, String, pointers to them, and no type at all
\* for the Value a statement leaves when it has none.
BaseTypes == {"i32", "i8ptr"}
PtrTypes  == {"i32*", "i8ptr*"}
PtrTo     == [i32 |-> "i32*", i8ptr |-> "i8ptr*"]
Types     == BaseTypes \cup PtrTypes \cup {"none"}

AllStmtForms == {"return", "store", "let", "set", "do", "if-stmt", "while", "expr"}
AllExprForms == {"var", "string", "addr", "addr-of", "load", "arith", "logic",
                 "cmp", "bitcast", "ptr-add", "call", "get-field", "block"}

ParamRec == [name : Names, ty : BaseTypes]
FnRec    == [params : Seq(BaseTypes), ret : BaseTypes \cup {"void"}]

ASSUME NamesAssumption == "?" \notin Names
ASSUME ParamsAssumption == Params \in Seq(ParamRec)
ASSUME TypesAssumption ==
    /\ RetTypes \subseteq BaseTypes \cup {"void"}
    /\ Fns \in [DOMAIN Fns -> FnRec]
ASSUME FormsAssumption == StmtForms \subseteq AllStmtForms /\ ExprForms \subseteq AllExprForms
ASSUME BoundsAssumption == MaxNodes \in Nat /\ MaxDepth \in Nat

VARIABLES
    stack,    \* activations of cg_stmt and cg_expr, innermost last
    ctl,      \* what happens next: a call into a node, or a result to consume
    code,     \* ir->out
    ntemp,    \* ir->temp
    nlabel,   \* ir->label
    env,      \* VarEnv: names with their types, oldest first, never shrinks
    retTy,    \* return type of the function
    nodes     \* nodes of the program chosen so far

vars == <<stack, ctl, code, ntemp, nlabel, env, retTy, nodes>>

-----------------------------------------------------------------------------
(* Values (value.c) and the environment (env.c).                           *)

\* reg is the set of registers the operand's text mentions: none for a constant.
Value(ty, reg, num) == [ty |-> ty, reg |-> reg, num |-> num]
Const(n)      == Value("i32", {}, n)
TempVal(ty, t) == Value(ty, {Temp(t)}, 0)
NoValue       == Value("none", {}, 0)

Bound(e, x)   == \E i \in 1..Len(e) : e[i].name = x
\* env_find: the newest entry wins.
Find(e, x)    == CHOOSE i \in 1..Len(e) :
                    e[i].name = x /\ \A j \in 1..Len(e) : e[j].name = x => j <= i
EnvType(e, x) == IF Bound(e, x) THEN e[Find(e, x)].ty ELSE "i32"
\* env_ssa_name: an unknown name is spelled as it is, a register nobody defines.
EnvSlot(e, x) == IF Bound(e, x) THEN Slot(x, Find(e, x)) ELSE Slot(x, 0)

-----------------------------------------------------------------------------
(* ensure_type_ctx_at: a value of the target type is returned as it is, a  *)
(* convertible one costs a line and the temporary t, anything else is a    *)
(* fatal diagnostic.                                                       *)

Converts(v, ty) ==
    \/ ty = "i8ptr" /\ v.ty = "i32" /\ v.reg = {} /\ v.num = 0
    \/ ty = "i8ptr" /\ v.ty \in PtrTypes
    \/ ty = "i32" /\ v.ty \in PtrTypes \cup {"i8ptr"}

Fits(v, ty)        == v.ty = ty \/ Converts(v, ty)
Ensured(v, ty, t)  == IF v.ty = ty THEN v ELSE TempVal(ty, t)
EnsureLines(v, ty, t) == IF v.ty = ty THEN <<>> ELSE <<Inst({Temp(t)}, v.reg)>>
EnsureTemps_Bug(v, ty) == 0
EnsureTemps(v, ty) == IF v.ty = ty THEN 0 ELSE 1

-----------------------------------------------------------------------------
(* Activations. form says where in its code an activation is waiting; lab  *)
(* is the first of its three labels, vals what it has evaluated so far,    *)
(* arg the name, type or callee the node carries.                          *)

FrameForms == {"body", "do", "block", "if-cond", "if-then", "if-else",
               "while-cond", "while-body", "return", "let", "set", "expr",
               "store", "load", "ptr-add", "arith", "logic", "cmp", "bitcast", "call"}

ListForms   == {"body", "do", "block"}
StmtWaiters == ListForms \cup {"if-then", "if-else", "while-body"}
ValueForms  == FrameForms \ StmtWaiters
ExprActivations == {"block", "load", "ptr-add", "arith", "logic", "cmp", "bitcast", "call"}

Args == Names \cup DOMAIN Fns \cup {"?", "==", "<"}

Frame(form, arg) ==
    [form |-> form, arg |-> arg, ty |-> "none", lab |-> 0, ret |-> FALSE, vals |-> <<>>]
ListFrame(form) == [Frame(form, "?") EXCEPT !.vals = <<NoValue>>]

Top == stack[Len(stack)]
Below == SubSeq(stack, 1, Len(stack) - 1)
Goto(f) == stack' = Append(Below, f)

Call(mode)  == [mode |-> mode, ret |-> FALSE, val |-> NoValue]
Did(r, v)   == [mode |-> "did", ret |-> r, val |-> v]
Yield(v)    == [mode |-> "val", ret |-> FALSE, val |-> v]

Emit(lines) == code' = code \o lines

\* Three labels for one branching statement.
FreshLabels_Bug == nlabel' = nlabel + 2
FreshLabels == nlabel' = nlabel + 3

\* A node of the program is spent; the free nodes are atoms and empty lists.
Spend == nodes < MaxNodes /\ nodes' = nodes + 1
SpendAtom == nodes' = IF nodes < MaxNodes THEN nodes + 1 ELSE nodes
MayNest == Len(stack) <= MaxDepth

\* The parameters are all in the environment before the first alloca is written,
\* and env_ssa_name answers for a name with its newest entry: two parameters of
\* one name get one alloca, written twice.
ParamSlot(p) == Slot(Params[p].name, Find(Params, Params[p].name))
Header == [i \in 1..2 * Len(Params) |->
              LET r == ParamSlot((i + 1) \div 2)
              IN IF i % 2 = 1 THEN Inst({r}, {}) ELSE Inst({}, {r})]

Init ==
    /\ stack = <<ListFrame("body")>>
    /\ ctl = Call("items")
    /\ code = Header
    /\ ntemp = 0
    /\ nlabel = 0
    /\ env = Params
    /\ retTy \in RetTypes
    /\ nodes = 0

-----------------------------------------------------------------------------
(* Calls into a statement: the form dispatch of cg_stmt. A block expression *)
(* sends only some of its items to cg_stmt (expr.c:724-728).               *)

StmtCalled(f) ==
    /\ f \in StmtForms
    /\ Spend
    /\ \/ ctl.mode = "stmt"
       \/ ctl.mode = "item" /\ f \notin {"return", "expr"}

\* The activation of a statement that starts by evaluating an expression.
Enter(frame, mode) ==
    /\ MayNest
    /\ stack' = Append(stack, frame)
    /\ ctl' = Call(mode)

\* A missing statement, an atom, a list without a head atom, a (doc ...).
StmtSkip ==
    /\ ctl.mode = "stmt"
    /\ SpendAtom
    /\ ctl' = Did(FALSE, NoValue)
    /\ UNCHANGED <<stack, code, ntemp, nlabel, env, retTy>>

CallReturn ==
    /\ StmtCalled("return")
    /\ Enter(Frame("return", "?"), "expr")
    /\ UNCHANGED <<code, ntemp, nlabel, env, retTy>>

CallStore ==
    /\ StmtCalled("store")
    /\ \E ty \in BaseTypes : Enter([Frame("store", "?") EXCEPT !.ty = ty], "expr")
    /\ UNCHANGED <<code, ntemp, nlabel, env, retTy>>

CallLet ==
    /\ StmtCalled("let")
    /\ \E x \in Names, ty \in BaseTypes : Enter([Frame("let", x) EXCEPT !.ty = ty], "expr")
    /\ UNCHANGED <<code, ntemp, nlabel, env, retTy>>

CallSet ==
    /\ StmtCalled("set")
    /\ \E x \in Names : Enter(Frame("set", x), "expr")
    /\ UNCHANGED <<code, ntemp, nlabel, env, retTy>>

CallDo ==
    /\ StmtCalled("do")
    /\ Enter(ListFrame("do"), "items")
    /\ UNCHANGED <<code, ntemp, nlabel, env, retTy>>

CallIf ==
    /\ StmtCalled("if-stmt")
    /\ Enter(Frame("if-cond", "?"), "expr")
    /\ UNCHANGED <<code, ntemp, nlabel, env, retTy>>

\* The three labels and the jump to the condition precede its evaluation.
CallWhile ==
    /\ StmtCalled("while")
    /\ Enter([Frame("while-cond", "?") EXCEPT !.lab = nlabel], "expr")
    /\ Emit(<<Br(nlabel), LabelDef(nlabel)>>)
    /\ FreshLabels
    /\ UNCHANGED <<ntemp, env, retTy>>

\* Any other list is compiled as an expression, whose node it is.
CallExprStmt ==
    /\ StmtCalled("expr")
    /\ Len(stack) < MaxDepth
    /\ Enter(Frame("expr", "?"), "list")
    /\ UNCHANGED <<code, ntemp, nlabel, env, retTy>>

-----------------------------------------------------------------------------
(* Calls into an expression: the form dispatch of cg_expr.                 *)

ExprCalled(f) ==
    /\ f \in ExprForms
    /\ \/ ctl.mode \in {"expr", "item"} /\ Spend
       \/ ctl.mode = "list" /\ f \notin {"var", "string"} /\ UNCHANGED nodes

\* A number, an unknown atom, a (doc ...), an empty (block).
ExprConst ==
    /\ ctl.mode \in {"expr", "item", "list"}
    /\ SpendAtom
    /\ \E n \in {0, 1} : ctl' = Yield(Const(n))
    /\ UNCHANGED <<stack, code, ntemp, nlabel, env, retTy>>

\* Locals and parameters both live in allocas, so a reference is a load.
ExprVar ==
    /\ ExprCalled("var")
    /\ \E x \in Names :
          /\ Bound(env, x)
          /\ Emit(<<Inst({Temp(ntemp)}, {EnvSlot(env, x)})>>)
          /\ ctl' = Yield(TempVal(EnvType(env, x), ntemp))
    /\ ntemp' = ntemp + 1
    /\ UNCHANGED <<stack, nlabel, env, retTy>>

ExprString ==
    /\ ExprCalled("string")
    /\ Emit(<<Inst({Temp(ntemp)}, {})>>)
    /\ ctl' = Yield(TempVal("i8ptr", ntemp))
    /\ ntemp' = ntemp + 1
    /\ UNCHANGED <<stack, nlabel, env, retTy>>

ExprAddr ==
    /\ ExprCalled("addr")
    /\ \E x \in Names :
          ctl' = Yield(IF Bound(env, x)
                       THEN Value(PtrTo[EnvType(env, x)], {EnvSlot(env, x)}, 0)
                       ELSE Const(0))
    /\ UNCHANGED <<stack, code, ntemp, nlabel, env, retTy>>

\* The declared type wins over the type written in the form.
ExprAddrOf ==
    /\ ExprCalled("addr-of")
    /\ \E x \in Names, ty \in BaseTypes :
          ctl' = Yield(Value(PtrTo[IF Bound(env, x) THEN EnvType(env, x) ELSE ty],
                             {EnvSlot(env, x)}, 0))
    /\ UNCHANGED <<stack, code, ntemp, nlabel, env, retTy>>

\* cg_builtin answers for get-field, so its operands are not even evaluated.
ExprGetField ==
    /\ ExprCalled("get-field")
    /\ ctl' = Yield(Const(0))
    /\ UNCHANGED <<stack, code, ntemp, nlabel, env, retTy>>

ExprBlock ==
    /\ ExprCalled("block")
    /\ Enter(ListFrame("block"), "items")
    /\ UNCHANGED <<code, ntemp, nlabel, env, retTy>>

\* Forms that evaluate their operands from left to right, then emit.
ExprOp ==
    /\ \/ \E f \in {"arith", "logic"} : ExprCalled(f) /\ Enter(Frame(f, "?"), "expr")
       \/ \E pred \in {"==", "<"} : ExprCalled("cmp") /\ Enter(Frame("cmp", pred), "expr")
       \/ \E f \in {"load", "ptr-add"}, ty \in BaseTypes :
              ExprCalled(f) /\ Enter([Frame(f, "?") EXCEPT !.ty = ty], "expr")
       \/ \E ty \in BaseTypes \cup PtrTypes :
              ExprCalled("bitcast") /\ Enter([Frame("bitcast", "?") EXCEPT !.ty = ty], "expr")
       \/ \E fn \in DOMAIN Fns :
              /\ ExprCalled("call")
              /\ Fns[fn].params # <<>>
              /\ Enter(Frame("call", fn), "expr")
    /\ UNCHANGED <<code, ntemp, nlabel, env, retTy>>

-----------------------------------------------------------------------------
(* Operands. Targets names the type every operand is brought to as soon as *)
(* it is evaluated; "any" leaves it as it is.                              *)

OpForms == {"store", "load", "ptr-add", "arith", "logic", "cmp", "bitcast", "call"}

OperandTypes(f) ==
    CASE f.form \in {"arith", "logic"} -> <<"i32", "i32">>
      [] f.form = "cmp"                -> <<"any", "any">>
      [] f.form \in {"load", "bitcast"} -> <<"any">>
      [] f.form = "ptr-add"            -> <<"any", "i32">>
      [] f.form = "store"              -> <<"any", f.ty>>
      [] f.form = "call"               -> Fns[f.arg].params

Uses(vs) == UNION {vs[i].reg : i \in DOMAIN vs}

\* Comparing a pointer for equality compares i8*, everything else i32.
CmpType(f, vs) == IF f.arg = "==" /\ \E i \in DOMAIN vs : vs[i].ty # "i32"
                  THEN "i8ptr" ELSE "i32"

\* Both temporaries of a comparison are taken before its operands convert.
CmpLines(f, vs, t) ==
    LET ty  == CmpType(f, vs)
        lhs == Ensured(vs[1], ty, t + 2)
        t2  == t + 2 + EnsureTemps(vs[1], ty)
        rhs == Ensured(vs[2], ty, t2)
    IN EnsureLines(vs[1], ty, t + 2) \o EnsureLines(vs[2], ty, t2)
       \o <<Inst({Temp(t)}, lhs.reg \cup rhs.reg), Inst({Temp(t + 1)}, {Temp(t)})>>

LogicLines(vs, t) ==
    <<Inst({Temp(t)}, vs[1].reg), Inst({Temp(t + 1)}, vs[2].reg),
      Inst({Temp(t + 2)}, {Temp(t), Temp(t + 1)}), Inst({Temp(t + 3)}, {Temp(t + 2)})>>

OpAccepts(f, vs) ==
    CASE f.form = "load" -> vs[1].ty \in PtrTypes
      [] f.form = "cmp"  -> \A i \in {1, 2} : Fits(vs[i], CmpType(f, vs))
      [] OTHER           -> TRUE

OpLines(f, vs, t) ==
    CASE f.form = "cmp"   -> CmpLines(f, vs, t)
      [] f.form = "logic" -> LogicLines(vs, t)
      [] f.form = "bitcast" -> IF vs[1].ty = f.ty THEN <<>> ELSE <<Inst({Temp(t)}, Uses(vs))>>
      [] f.form = "store" -> <<Inst({}, Uses(vs))>>
      [] f.form = "call" /\ Fns[f.arg].ret = "void" -> <<Inst({}, Uses(vs))>>
      [] OTHER            -> <<Inst({Temp(t)}, Uses(vs))>>

OpTemps(f, vs) ==
    CASE f.form = "cmp"   -> 2 + EnsureTemps(vs[1], CmpType(f, vs)) + EnsureTemps(vs[2], CmpType(f, vs))
      [] f.form = "logic" -> 4
      [] f.form = "bitcast" -> IF vs[1].ty = f.ty THEN 0 ELSE 1
      [] f.form = "store" -> 0
      [] f.form = "call" /\ Fns[f.arg].ret = "void" -> 0
      [] OTHER            -> 1

\* What the activation returns: store is a statement, the rest are expressions.
OpResult(f, vs, t) ==
    CASE f.form = "store"   -> Did(FALSE, NoValue)
      [] f.form = "cmp"     -> Yield(TempVal("i32", t + 1))
      [] f.form = "logic"   -> Yield(TempVal("i32", t + 3))
      [] f.form = "arith"   -> Yield(TempVal("i32", t))
      [] f.form = "load"    -> Yield(TempVal(f.ty, t))
      [] f.form = "ptr-add" -> Yield(TempVal(PtrTo[f.ty], t))
      [] f.form = "bitcast" -> Yield(IF vs[1].ty = f.ty THEN vs[1] ELSE TempVal(f.ty, t))
      [] f.form = "call"    -> Yield(IF Fns[f.arg].ret = "void" THEN Const(0)
                                     ELSE TempVal(Fns[f.arg].ret, t))

\* exit(1) out of a diagnostic or die: nothing of the output is kept.
Fatal == ctl' = Call("fatal") /\ UNCHANGED <<stack, code, ntemp, nlabel, env, retTy, nodes>>

Operand ==
    /\ ctl.mode = "val"
    /\ Top.form \in OpForms
    /\ LET target == OperandTypes(Top)[Len(Top.vals) + 1]
           ty  == IF target = "any" THEN ctl.val.ty ELSE target
           vs  == Append(Top.vals, Ensured(ctl.val, ty, ntemp))
           t   == ntemp + EnsureTemps(ctl.val, ty)
           pre == EnsureLines(ctl.val, ty, ntemp)
       IN \/ ~Fits(ctl.val, ty) /\ Fatal
          \/ /\ Fits(ctl.val, ty)
             /\ Len(vs) < Len(OperandTypes(Top))
             /\ Goto([Top EXCEPT !.vals = vs])
             /\ ctl' = Call("expr")
             /\ Emit(pre)
             /\ ntemp' = t
             /\ UNCHANGED <<nlabel, env, retTy, nodes>>
          \/ /\ Fits(ctl.val, ty)
             /\ Len(vs) = Len(OperandTypes(Top))
             /\ OpAccepts(Top, vs)
             /\ stack' = Below
             /\ ctl' = OpResult(Top, vs, t)
             /\ Emit(pre \o OpLines(Top, vs, t))
             /\ ntemp' = t + OpTemps(Top, vs)
             /\ UNCHANGED <<nlabel, env, retTy, nodes>>
          \/ /\ Fits(ctl.val, ty)
             /\ Len(vs) = Len(OperandTypes(Top))
             /\ ~OpAccepts(Top, vs)
             /\ Fatal

\* A call without arguments has no operand to wait for.
CallNoArgs ==
    /\ ExprCalled("call")
    /\ \E fn \in DOMAIN Fns :
          LET f == Frame("call", fn)
          IN /\ Fns[fn].params = <<>>
             /\ ctl' = OpResult(f, <<>>, ntemp)
             /\ Emit(OpLines(f, <<>>, ntemp))
             /\ ntemp' = ntemp + OpTemps(f, <<>>)
    /\ UNCHANGED <<stack, nlabel, env, retTy>>

-----------------------------------------------------------------------------
(* Statements that consume the value of an expression.                     *)

Valued(form) == ctl.mode = "val" /\ Top.form = form
Finish(res)  == stack' = Below /\ ctl' = res

\* Inside a block expression cg_stmt is told that the function returns Int32.
ReturnType == IF \E i \in DOMAIN stack : stack[i].form = "block" THEN "i32" ELSE retTy

\* (return e) converts nothing: the value goes into the ret as it is.
Return ==
    /\ Valued("return")
    /\ Emit(<<Ret(IF ReturnType = "void" THEN {} ELSE ctl.val.reg)>>)
    /\ Finish(Did(TRUE, ctl.val))
    /\ UNCHANGED <<ntemp, nlabel, env, retTy, nodes>>

\* The lines of a let: the alloca, the load of a value that is a pointer to the
\* declared type, and the store.
LetLines_Bug(slot, reg, deref, t) ==
    (IF deref THEN <<Inst({Temp(t)}, reg)>> ELSE <<>>)
    \o <<Inst({}, {slot} \cup (IF deref THEN {Temp(t)} ELSE reg)), Inst({slot}, {})>>
LetLines(slot, reg, deref, t) ==
    <<Inst({slot}, {})>>
    \o (IF deref THEN <<Inst({Temp(t)}, reg)>> ELSE <<>>)
    \o <<Inst({}, {slot} \cup (IF deref THEN {Temp(t)} ELSE reg))>>

\* The name is registered after its initial value was compiled. The activation
\* goes on with the statements nested in the let, exactly as a do.
Let ==
    /\ Valued("let")
    /\ LET ty    == Top.ty
           slot  == Slot(Top.arg, Len(env) + 1)
           deref == ctl.val.ty = PtrTo[ty]
       IN /\ env' = Append(env, [name |-> Top.arg, ty |-> ty])
          /\ Emit(LetLines(slot, ctl.val.reg, deref, ntemp))
          /\ ntemp' = IF deref THEN ntemp + 1 ELSE ntemp
    /\ Goto(ListFrame("do"))
    /\ ctl' = Call("items")
    /\ UNCHANGED <<nlabel, retTy, nodes>>

Set ==
    /\ Valued("set")
    /\ Emit(<<Inst({}, ctl.val.reg \cup {EnvSlot(env, Top.arg)})>>)
    /\ Finish(Did(FALSE, NoValue))
    /\ UNCHANGED <<ntemp, nlabel, env, retTy, nodes>>

ExprStmt ==
    /\ Valued("expr")
    /\ Finish(Did(FALSE, ctl.val))
    /\ UNCHANGED <<code, ntemp, nlabel, env, retTy, nodes>>

\* A condition is brought to i32 and compared with 0.
CondLines(v, t, l1, l2) ==
    LET c == t + EnsureTemps(v, "i32")
    IN EnsureLines(v, "i32", t)
       \o <<Inst({Temp(c)}, Ensured(v, "i32", t).reg), CondBr(Temp(c), l1, l2)>>

IfCond ==
    /\ Valued("if-cond")
    /\ \/ ~Fits(ctl.val, "i32") /\ Fatal
       \/ /\ Fits(ctl.val, "i32")
          /\ Emit(CondLines(ctl.val, ntemp, nlabel, nlabel + 1) \o <<LabelDef(nlabel)>>)
          /\ Goto([Top EXCEPT !.form = "if-then", !.lab = nlabel])
          /\ ntemp' = ntemp + EnsureTemps(ctl.val, "i32") + 1
          /\ FreshLabels
          /\ ctl' = Call("stmt")
          /\ UNCHANGED <<env, retTy, nodes>>

\* A branch that returned has closed its block; any other jumps to the end.
JumpUnless_Bug(returned, l) == <<>>
JumpUnless(returned, l) == IF returned THEN <<>> ELSE <<Br(l)>>

IfThen ==
    /\ ctl.mode = "did"
    /\ Top.form = "if-then"
    /\ Emit(JumpUnless(ctl.ret, Top.lab + 2) \o <<LabelDef(Top.lab + 1)>>)
    /\ Goto([Top EXCEPT !.form = "if-else", !.ret = ctl.ret])
    /\ ctl' = Call("stmt")
    /\ UNCHANGED <<ntemp, nlabel, env, retTy, nodes>>

\* An if returned when both of its branches did.
BothReturned_Bug == Top.ret \/ ctl.ret
BothReturned == Top.ret /\ ctl.ret

\* Branches are compiled without an out_last: the if hands on no value of theirs.
BranchValue_Bug == ctl.val
BranchValue == NoValue

\* The end label is left out when both branches returned: nothing jumps there.
IfElse ==
    /\ ctl.mode = "did"
    /\ Top.form = "if-else"
    /\ Emit(JumpUnless(ctl.ret, Top.lab + 2)
            \o (IF BothReturned THEN <<>> ELSE <<LabelDef(Top.lab + 2)>>))
    /\ Finish(Did(BothReturned, BranchValue))
    /\ UNCHANGED <<ntemp, nlabel, env, retTy, nodes>>

WhileCond ==
    /\ Valued("while-cond")
    /\ \/ ~Fits(ctl.val, "i32") /\ Fatal
       \/ /\ Fits(ctl.val, "i32")
          /\ Emit(CondLines(ctl.val, ntemp, Top.lab + 1, Top.lab + 2)
                  \o <<LabelDef(Top.lab + 1)>>)
          /\ Goto([Top EXCEPT !.form = "while-body"])
          /\ ntemp' = ntemp + EnsureTemps(ctl.val, "i32") + 1
          /\ ctl' = Call("stmt")
          /\ UNCHANGED <<nlabel, env, retTy, nodes>>

\* The label of the condition, the first of the three.
LoopHead_Bug(lab) == lab + 1
LoopHead(lab) == lab

\* The loop may run zero times, so a body that returns ends nothing but itself.
LoopReturned_Bug == ctl.ret
LoopReturned == FALSE

WhileBody ==
    /\ ctl.mode = "did"
    /\ Top.form = "while-body"
    /\ Emit(JumpUnless(ctl.ret, LoopHead(Top.lab)) \o <<LabelDef(Top.lab + 2)>>)
    /\ Finish(Did(LoopReturned, NoValue))
    /\ UNCHANGED <<ntemp, nlabel, env, retTy, nodes>>

-----------------------------------------------------------------------------
(* Lists of statements: the body of the function, do, the statements nested *)
(* in a let, block. vals holds the value of the last one that has a type.  *)

InList(forms) == Top.form \in forms
LastValue == Top.vals[1]

NextItem ==
    /\ ctl.mode = "items"
    /\ nodes < MaxNodes
    /\ ctl' = Call(IF Top.form = "block" THEN "item" ELSE "stmt")
    /\ UNCHANGED <<stack, code, ntemp, nlabel, env, retTy, nodes>>

ItemDone ==
    /\ \/ ctl.mode = "did" /\ ~ctl.ret /\ InList(ListForms)
       \/ ctl.mode = "val" /\ InList({"block"})
    /\ Goto(IF ctl.val.ty = "none" THEN Top ELSE [Top EXCEPT !.vals = <<ctl.val>>])
    /\ ctl' = Call("items")
    /\ UNCHANGED <<code, ntemp, nlabel, env, retTy, nodes>>

\* A do whose statement returned returns too; a block only yields 0, and what
\* encloses it goes on emitting.
ListReturned == IF Top.form = "do" THEN Did(TRUE, NoValue) ELSE Yield(Const(0))

\* A statement that returned ends its list, and the rest is not compiled.
ItemReturned ==
    /\ ctl.mode = "did" /\ ctl.ret
    /\ InList({"do", "block"})
    /\ Finish(ListReturned)
    /\ UNCHANGED <<code, ntemp, nlabel, env, retTy, nodes>>

EndDo ==
    /\ ctl.mode = "items"
    /\ InList({"do"})
    /\ Finish(Did(FALSE, LastValue))
    /\ UNCHANGED <<code, ntemp, nlabel, env, retTy, nodes>>

EndBlock ==
    /\ ctl.mode = "items"
    /\ InList({"block"})
    /\ Finish(Yield(IF LastValue.ty = "none" THEN Const(0) ELSE LastValue))
    /\ UNCHANGED <<code, ntemp, nlabel, env, retTy, nodes>>

BodyReturned ==
    /\ ctl.mode = "did" /\ ctl.ret
    /\ InList({"body"})
    /\ Finish(Call("done"))
    /\ UNCHANGED <<code, ntemp, nlabel, env, retTy, nodes>>

\* No statement of the body returned: the last typed value is the result,
\* and without one a default of the return type.
EndBody ==
    /\ ctl.mode = "items"
    /\ InList({"body"})
    /\ LET implicit == retTy # "void" /\ LastValue.ty # "none"
       IN \/ implicit /\ ~Fits(LastValue, retTy) /\ Fatal
          \/ /\ implicit => Fits(LastValue, retTy)
             /\ Emit(IF implicit
                     THEN EnsureLines(LastValue, retTy, ntemp) \o <<Ret(Ensured(LastValue, retTy, ntemp).reg)>>
                     ELSE <<Ret({})>>)
             /\ ntemp' = IF implicit THEN ntemp + EnsureTemps(LastValue, retTy) ELSE ntemp
             /\ Finish(Call("done"))
             /\ UNCHANGED <<nlabel, env, retTy, nodes>>

\* The compilation is over.
Finished == ctl.mode \in {"done", "fatal"} /\ UNCHANGED vars

Statements == StmtSkip \/ CallReturn \/ CallStore \/ CallLet \/ CallSet \/ CallDo
              \/ CallIf \/ CallWhile \/ CallExprStmt
Expressions == ExprConst \/ ExprVar \/ ExprString \/ ExprAddr \/ ExprAddrOf
               \/ ExprGetField \/ ExprBlock \/ ExprOp \/ CallNoArgs \/ Operand
Results == Return \/ Let \/ Set \/ ExprStmt \/ IfCond \/ IfThen \/ IfElse
           \/ WhileCond \/ WhileBody
Lists == NextItem \/ ItemDone \/ ItemReturned \/ EndDo \/ EndBlock \/ BodyReturned \/ EndBody

Next == Statements \/ Expressions \/ Results \/ Lists \/ Finished

Spec == Init /\ [][Next]_vars

-----------------------------------------------------------------------------
(* Properties.                                                             *)

\* The registers handed out so far. The slot numbered 0 of a name is the
\* register spelled for a name the environment does not know.
RegistersOf(t, e) == {Temp(n) : n \in 0..t - 1} \cup {Slot(x, i) : x \in Names, i \in 0..e}
Registers == RegistersOf(ntemp, Len(env))

ValueOf(R)   == [ty : Types, reg : SUBSET R, num : {0, 1}]
FrameOf(R)   == [form : FrameForms, arg : Args, ty : Types, lab : Nat,
                 ret : BOOLEAN, vals : Seq(ValueOf(R))]
LineOf(R, L) == [op : {"inst", "label", "br", "ret"}, def : SUBSET R,
                 use : SUBSET R, to : SUBSET L]
Modes        == {"stmt", "expr", "list", "items", "item", "did", "val", "done", "fatal"}

\* Every line, value and activation mentions only registers that were handed
\* out by ir_fresh_temp or registered by env_add, and labels that
\* ir_fresh_label handed out.
TypeOK ==
    /\ stack \in Seq(FrameOf(Registers))
    /\ ctl \in [mode : Modes, ret : BOOLEAN, val : ValueOf(Registers)]
    /\ code \in Seq(LineOf(Registers, 0..nlabel - 1))
    /\ ntemp \in Nat
    /\ nlabel \in Nat
    /\ env \in Seq(ParamRec)
    /\ retTy \in RetTypes
    /\ nodes \in 0..MaxNodes

\* The text never defines a label twice, however statements nest and however
\* early a branch returns (ir_fresh_label, stmt.c:197-283).
LabelsOnce == UniqueLabels(code)

\* When the function is complete, every branch lands on a label of it, also
\* where an end label was left out because both branches of an if returned.
BranchesLand == ctl.mode = "done" => Targets(code) \subseteq Labels(code)

\* No block falls through into a label, and the function does not run past its
\* closing brace (the br after a branch that did not return, the implicit and
\* the default return of compile_fn_form).
NoFallThrough ==
    /\ BlocksClosed(code)
    /\ ctl.mode = "done" => EndsInTerminator(code)

\* The blocks of the text are what LLVM takes for a function: each label is there once,
\* each branch has its label, each block its terminator (stmt.c:197-283).
BlocksWellFormed == LabelsOnce /\ BranchesLand /\ NoFallThrough

\* Two lines of the header that give parameters of one name their alloca.
AllocaLines(x) == {2 * p - 1 : p \in {q \in 1..Len(Params) : Params[q].name = x}}
SameParam(i, j) == \E x \in Names : {i, j} \subseteq AllocaLines(x)

\* No register is assigned twice, shadowing and redeclared names get registers of
\* their own (make_ssa_name) and so do all temporaries, but for what the code
\* writes of two parameters of one name.
AssignsOnce(c) ==
    \A i, j \in DOMAIN c :
        c[i].def \cap c[j].def # {} => i = j \/ SameParam(i, j)
AssignedOnce == AssignsOnce(code)

\* A variable's alloca precedes every line that mentions it: the initial value
\* of a let that reuses a name still reads the older variable (stmt.c:116-122).
\* Slot 0 is the register of a name nothing declares.
AllocaFirst ==
    \A i \in DOMAIN code : \A x \in Names, k \in 1..Len(env) :
        Slot(x, k) \in code[i].use => \E j \in 1..i - 1 : Slot(x, k) \in code[j].def

\* The registers of the text are in static single assignment form as far as one can tell
\* line by line (ir.c:22-37, env.c:61-94, stmt.c:116-128).
RegistersSound == AssignedOnce /\ AllocaFirst

\* When cg_stmt reports that its statement returned, the text really ends in a
\* ret: the caller that stops emitting leaves no open block behind.
ReturnFlagSound ==
    ctl.mode = "did" /\ ctl.ret => code # <<>> /\ code[Len(code)].op = "ret"

\* In a finished function no path reads a temporary before it is assigned:
\* operands held while later operands, blocks and branches are compiled are
\* still valid where they are used, and the implicit return value of a body is
\* never one that only a branch or a loop computed (stmt.c:222, 230, 273 pass
\* no out_last; program.c:258-283).
TempsDominate ==
    ctl.mode = "done" =>
        \A n \in 0..ntemp - 1 : Temp(n) \in Used(code) => Dominated(code, Temp(n))

\* No reachable point of a finished function is a trap: a loop re-evaluates its
\* condition, whose false edge leads on towards a return (stmt.c:242-283).
NoTrap == ctl.mode = "done" => CanReturn(code)

=============================================================================
