--------------------------- MODULE CodegenProofs ----------------------------
(***************************************************************************)
(* Proofs about Codegen, for every choice of names, parameters, functions, *)
(* forms and bounds: first of the types and the stack, then of the text    *)
(* that is written - its labels, its branches, the terminators of its      *)
(* blocks and its registers - and last of the ways control takes through   *)
(* it.                                                                     *)
(***************************************************************************)
EXTENDS Codegen, FiniteSetTheorems, WellFoundedInduction, TLAPS

-----------------------------------------------------------------------------
(* Lemmas about the operators.                                             *)

LEMMA Least ==
    ASSUME NEW T \in SUBSET Nat, T # {}
    PROVE  \E x \in T : \A y \in T : x <= y
<1> DEFINE R == OpToRel(<, Nat)
<1>1. IsWellFoundedOn(R, Nat)
  BY NatLessThanWellFounded
<1>2. \A x, y \in Nat : x < y => <<x, y>> \in R
  BY DEF OpToRel
<1> HIDE DEF R
<1>3. PICK x \in T : \A y \in T : ~ (<<y, x>> \in R)
  <2>1. \E x \in T : \A y \in T : ~ (<<y, x>> \in R)
    BY <1>1, WFMin
  <2> QED
    BY <2>1
<1>4. ASSUME NEW y \in T
      PROVE  x <= y
  <2>1. x \in Nat /\ y \in Nat
    OBVIOUS
  <2>2. ~ (y < x)
    BY <1>2, <1>3, <2>1
  <2> QED
    BY <2>1, <2>2
<1> QED
  BY <1>4

LEMMA Greatest ==
    ASSUME NEW n \in Nat, NEW T \in SUBSET (1..n), T # {}
    PROVE  \E x \in T : \A y \in T : y <= x
<1> DEFINE D == {n - i : i \in T}
<1>1. D \in SUBSET Nat /\ D # {}
  <2>1. \A i \in 1..n : n - i \in Nat
    OBVIOUS
  <2>2. \A i \in T : n - i \in Nat
    BY <2>1
  <2> QED
    BY <2>2
<1>2. PICK d \in D : \A y \in D : d <= y
  <2> HIDE DEF D
  <2> QED
    BY <1>1, Least
<1>3. PICK x \in T : d = n - x
  OBVIOUS
<1>4. ASSUME NEW y \in T
      PROVE  y <= x
  <2>1. n - y \in D
    OBVIOUS
  <2>2. n - x <= n - y
    BY <1>2, <1>3, <2>1
  <2>3. x \in Nat /\ y \in Nat
    OBVIOUS
  <2> QED
    BY <2>2, <2>3
<1> QED
  BY <1>4

\* env_find finds an entry of the name whenever there is one, so what the
\* environment answers for a name is a type and a register of it.
LEMMA EnvTypes ==
    ASSUME NEW t \in Nat, NEW e \in Seq(ParamRec), NEW x \in Names
    PROVE  /\ Bound(e, x) => Find(e, x) \in 1..Len(e)
           /\ EnvType(e, x) \in BaseTypes
           /\ EnvSlot(e, x) \in RegistersOf(t, Len(e))
<1>1. ASSUME Bound(e, x)
      PROVE  Find(e, x) \in 1..Len(e)
  <2> DEFINE T == {i \in 1..Len(e) : e[i].name = x}
  <2>1. T \in SUBSET (1..Len(e)) /\ T # {} /\ Len(e) \in Nat
    BY <1>1 DEF Bound
  <2>2. \E i \in T : \A j \in T : j <= i
    <3> HIDE DEF T
    <3> QED
      BY <2>1, Greatest
  <2>3. \E i \in 1..Len(e) : e[i].name = x /\ \A j \in 1..Len(e) : e[j].name = x => j <= i
    BY <2>2
  <2> QED
    BY <2>3 DEF Find
<1>2. EnvType(e, x) \in BaseTypes
  <2>1. \A i \in 1..Len(e) : e[i].ty \in BaseTypes
    <3>1. \A i \in 1..Len(e) : e[i] \in ParamRec
      OBVIOUS
    <3>2. \A p \in ParamRec : p.ty \in BaseTypes
      BY DEF ParamRec
    <3> QED
      BY <3>1, <3>2
  <2> QED
    BY <1>1, <2>1 DEF EnvType, BaseTypes
<1>3. EnvSlot(e, x) \in RegistersOf(t, Len(e))
  <2>1. 0 \in 0..Len(e) /\ 1..Len(e) \subseteq 0..Len(e)
    OBVIOUS
  <2> QED
    BY <1>1, <2>1 DEF EnvSlot, RegistersOf
<1> QED
  BY <1>1, <1>2, <1>3

\* Everything that mentions a set of registers and labels still mentions it
\* when ir_fresh_temp, ir_fresh_label and env_add have enlarged the set.
LEMMA MonotoneFrames ==
    ASSUME NEW R, NEW R2, R \subseteq R2
    PROVE  /\ ValueOf(R) \subseteq ValueOf(R2)
           /\ Seq(FrameOf(R)) \subseteq Seq(FrameOf(R2))
<1>1. ValueOf(R) \subseteq ValueOf(R2)
  BY DEF ValueOf
<1>2. Seq(ValueOf(R)) \subseteq Seq(ValueOf(R2))
  BY <1>1
<1>3. FrameOf(R) \subseteq FrameOf(R2)
  BY <1>2 DEF FrameOf
<1> QED
  BY <1>1, <1>3

LEMMA MonotoneLines ==
    ASSUME NEW R, NEW R2, R \subseteq R2, NEW L, NEW L2, L \subseteq L2
    PROVE  Seq(LineOf(R, L)) \subseteq Seq(LineOf(R2, L2))
<1>1. LineOf(R, L) \subseteq LineOf(R2, L2)
  BY DEF LineOf
<1> QED
  BY <1>1

\* The registers and labels of a state are among those of a later one.
LEMMA HandedOutGrows ==
    ASSUME NEW t \in Nat, NEW t2 \in Nat, t <= t2, NEW e \in Nat, NEW e2 \in Nat, e <= e2
    PROVE  RegistersOf(t, e) \subseteq RegistersOf(t2, e2)
<1>1. 0..t - 1 \subseteq 0..t2 - 1 /\ 0..e \subseteq 0..e2
  OBVIOUS
<1> QED
  BY <1>1 DEF RegistersOf

LEMMA LabelsGrow ==
    ASSUME NEW l \in Nat, NEW l2 \in Nat, l <= l2
    PROVE  0..l - 1 \subseteq 0..l2 - 1
OBVIOUS

\* A value converted by ensure_type mentions the converting temporary at most,
\* and the lines that convert it are lines over the same registers.
LEMMA EnsuredType ==
    ASSUME NEW R, NEW L, NEW v \in ValueOf(R), NEW ty \in Types, NEW t \in Nat,
           v.ty = ty \/ Temp(t) \in R
    PROVE  /\ Ensured(v, ty, t) \in ValueOf(R)
           /\ Ensured(v, ty, t).ty = ty
           /\ Ensured(v, ty, t).reg \subseteq R
           /\ EnsureLines(v, ty, t) \in Seq(LineOf(R, L))
           /\ EnsureTemps(v, ty) \in {0, 1}
<1>1. CASE v.ty = ty
  BY <1>1 DEF Ensured, EnsureLines, EnsureTemps, ValueOf
<1>2. CASE v.ty # ty
  <2>1. Temp(t) \in R
    BY <1>2
  <2>2. TempVal(ty, t) \in ValueOf(R)
    BY <2>1 DEF TempVal, Value, ValueOf
  <2>3. Inst({Temp(t)}, v.reg) \in LineOf(R, L)
    BY <2>1 DEF Inst, Line, LineOf, ValueOf
  <2> QED
    BY <1>2, <2>1, <2>2, <2>3 DEF Ensured, EnsureLines, EnsureTemps, TempVal, Value
<1> QED
  BY <1>1, <1>2

\* The lines the code emits are lines.
LEMMA LineTypes ==
    ASSUME NEW R, NEW L
    PROVE  /\ \A d, u \in SUBSET R : Inst(d, u) \in LineOf(R, L)
           /\ \A u \in SUBSET R : Ret(u) \in LineOf(R, L)
           /\ \A l \in L : LabelDef(l) \in LineOf(R, L) /\ Br(l) \in LineOf(R, L)
           /\ \A r \in R : \A a, b \in L : CondBr(r, a, b) \in LineOf(R, L)
BY DEF Inst, Ret, LabelDef, Br, CondBr, Line, LineOf


-----------------------------------------------------------------------------
(* Steps of the activation stack.                                          *)

\* What an activation needs of itself to go on.
WellFormed(f) ==
    /\ f.form \in ListForms => Len(f.vals) = 1
    /\ f.form \in {"let", "set"} => f.arg \in Names
    /\ f.form \in {"let", "load", "ptr-add", "store"} => f.ty \in BaseTypes
    /\ f.form = "bitcast" => f.ty \in BaseTypes \cup PtrTypes
    /\ f.form = "call" => f.arg \in DOMAIN Fns
    /\ f.form \in OpForms => Len(f.vals) < Len(OperandTypes(f))

\* Which activations may be waiting for which call or result.
Awaits(mode, form) ==
    CASE mode = "items" -> form \in ListForms
      [] mode = "item"  -> form = "block"
      [] mode = "stmt"  -> form \in StmtWaiters \ {"block"}
      [] mode = "did"   -> form \in StmtWaiters
      [] mode = "expr"  -> form \in ValueForms
      [] mode = "list"  -> form = "expr"
      [] mode = "val"   -> form \in ValueForms \cup {"block"}
      [] OTHER          -> TRUE

\* What an activation hands to the one below it: a value or a statement's flag.
Returns(form) == IF form \in ExprActivations THEN "val" ELSE "did"

\* What keeps every step of the stack defined: a call waits for what is returned, a
\* statement's flag never reaches code that expects a value, every operand
\* arrives while one is missing, values always have a type, and the function
\* is complete exactly when no activation is left.
StackDiscipline ==
    /\ \A i \in DOMAIN stack : WellFormed(stack[i])
    /\ \A i \in DOMAIN stack : stack[i].form = "body" <=> i = 1
    /\ \A i \in DOMAIN stack : i > 1 => Awaits(Returns(stack[i].form), stack[i - 1].form)
    /\ stack = <<>> <=> ctl.mode = "done"
    /\ stack # <<>> => Awaits(ctl.mode, Top.form)
    /\ ctl.mode = "val" => ctl.val.ty \in BaseTypes \cup PtrTypes
    /\ ctl.ret => ctl.mode = "did"

TypeInv == TypeOK /\ StackDiscipline

\* What is left of a stack without its top, and with another one.
LEMMA BelowIs ==
    ASSUME NEW S, NEW s \in Seq(S), s # <<>>
    PROVE  /\ SubSeq(s, 1, Len(s) - 1) \in Seq(S)
           /\ Len(SubSeq(s, 1, Len(s) - 1)) = Len(s) - 1
           /\ \A i \in 1..Len(s) - 1 : SubSeq(s, 1, Len(s) - 1)[i] = s[i]
<1>1. Len(s) \in Nat /\ Len(s) > 0
  OBVIOUS
<1>2. Len(SubSeq(s, 1, Len(s) - 1)) = Len(s) - 1
  <2>1. PICK k \in Nat : Len(s) = k + 1
    <3>1. Len(s) - 1 \in Nat
      BY <1>1
    <3> QED
      BY <3>1, <1>1
  <2>2. Len(SubSeq(s, 1, k)) = k
    BY <2>1
  <2> QED
    BY <2>1, <2>2
<1>3. SubSeq(s, 1, Len(s) - 1) \in Seq(S)
  OBVIOUS
<1>4. \A i \in 1..Len(s) - 1 : SubSeq(s, 1, Len(s) - 1)[i] = s[i]
  BY <1>1
<1> QED
  BY <1>2, <1>3, <1>4

LEMMA ReplacedTopIs ==
    ASSUME NEW S, NEW s \in Seq(S), s # <<>>, NEW f
    PROVE  LET n == Append(SubSeq(s, 1, Len(s) - 1), f)
           IN  /\ n \in Seq(S \cup {f})
               /\ Len(n) = Len(s)
               /\ DOMAIN n = 1..Len(s)
               /\ \A i \in 1..Len(s) : i # Len(s) => n[i] = s[i]
               /\ n[Len(s)] = f
               /\ n # <<>>
<1> DEFINE b == SubSeq(s, 1, Len(s) - 1)
<1> DEFINE n == Append(b, f)
<1>1. Len(s) \in Nat /\ Len(s) > 0
  OBVIOUS
<1>2. b \in Seq(S) /\ Len(b) = Len(s) - 1 /\ \A i \in 1..Len(s) - 1 : b[i] = s[i]
  BY BelowIs
<1> HIDE DEF b
<1>3. n = Append(b, f) /\ b \in Seq(S \cup {f})
  BY <1>2
<1>4. /\ n \in Seq(S \cup {f})
      /\ Len(n) = Len(b) + 1
      /\ DOMAIN n = 1..Len(b) + 1
      /\ \A i \in 1..Len(b) : n[i] = b[i]
      /\ n[Len(b) + 1] = f
  BY <1>2, <1>3
<1>5. n # <<>>
  BY <1>2, <1>3
<1> HIDE DEF n
<1>6. /\ n \in Seq(S \cup {f})
      /\ Len(n) = Len(s)
      /\ DOMAIN n = 1..Len(s)
      /\ \A i \in 1..Len(s) : i # Len(s) => n[i] = s[i]
      /\ n[Len(s)] = f
      /\ n # <<>>
  BY <1>1, <1>2, <1>4, <1>5
<1> QED
  BY <1>6 DEF n, b

\* A control record that the activation on top can take.
Proper(c) == /\ c.mode = "val" => c.val.ty \in BaseTypes \cup PtrTypes
             /\ c.ret => c.mode = "did"
             /\ c.mode # "done"

\* A call that starts an activation keeps the stack in order.
LEMMA PushDiscipline ==
    ASSUME StackDiscipline, NEW S, stack \in Seq(S), NEW f, WellFormed(f), f.form # "body",
           stack # <<>>, Awaits(Returns(f.form), Top.form),
           stack' = Append(stack, f), Proper(ctl'), Awaits(ctl'.mode, f.form)
    PROVE  StackDiscipline'
<1>1. Len(stack) \in Nat /\ Len(stack) > 0 /\ DOMAIN stack = 1..Len(stack)
  OBVIOUS
<1>2. /\ Len(stack') = Len(stack) + 1
      /\ DOMAIN stack' = 1..Len(stack) + 1
      /\ \A i \in 1..Len(stack) : stack'[i] = stack[i]
      /\ stack'[Len(stack) + 1] = f
      /\ stack' # <<>>
  BY <1>1
<1>3. \A i \in DOMAIN stack' : WellFormed(stack'[i])
  BY <1>1, <1>2 DEF StackDiscipline
<1>4. \A i \in DOMAIN stack' : stack'[i].form = "body" <=> i = 1
  BY <1>1, <1>2 DEF StackDiscipline
<1>5. \A i \in DOMAIN stack' : i > 1 => Awaits(Returns(stack'[i].form), stack'[i - 1].form)
  <2> SUFFICES ASSUME NEW i \in DOMAIN stack', i > 1
               PROVE  Awaits(Returns(stack'[i].form), stack'[i - 1].form)
    OBVIOUS
  <2>1. CASE i = Len(stack) + 1
    <3>1. i - 1 = Len(stack) /\ i - 1 \in 1..Len(stack)
      BY <2>1, <1>1
    <3> QED
      BY <2>1, <3>1, <1>2 DEF Top
  <2>2. CASE i # Len(stack) + 1
    <3>1. i \in 1..Len(stack) /\ i - 1 \in 1..Len(stack)
      BY <2>2, <1>1, <1>2
    <3> QED
      BY <3>1, <1>1, <1>2 DEF StackDiscipline
  <2> QED
    BY <2>1, <2>2
<1>6. Top' = f
  BY <1>2 DEF Top
<1> QED
  BY <1>2, <1>3, <1>4, <1>5, <1>6 DEF StackDiscipline, Proper

\* So does an activation that goes on at another place of its code.
LEMMA GotoDiscipline ==
    ASSUME StackDiscipline, NEW S, stack \in Seq(S), NEW f, WellFormed(f), stack # <<>>,
           f.form = "body" <=> Top.form = "body", Returns(f.form) = Returns(Top.form),
           Goto(f), Proper(ctl'), Awaits(ctl'.mode, f.form)
    PROVE  StackDiscipline'
<1>1. Len(stack) \in Nat /\ Len(stack) > 0 /\ DOMAIN stack = 1..Len(stack)
  OBVIOUS
<1>2. /\ Len(stack') = Len(stack)
      /\ DOMAIN stack' = 1..Len(stack)
      /\ \A i \in 1..Len(stack) : i # Len(stack) => stack'[i] = stack[i]
      /\ stack'[Len(stack)] = f
      /\ stack' # <<>>
  <2> DEFINE n == Append(SubSeq(stack, 1, Len(stack) - 1), f)
  <2>1. stack' = n
    BY DEF Goto, Below
  <2>2. /\ Len(n) = Len(stack)
        /\ DOMAIN n = 1..Len(stack)
        /\ \A i \in 1..Len(stack) : i # Len(stack) => n[i] = stack[i]
        /\ n[Len(stack)] = f
        /\ n # <<>>
    BY ReplacedTopIs
  <2> HIDE DEF n
  <2> QED
    BY <2>1, <2>2
<1>3. \A i \in DOMAIN stack' : WellFormed(stack'[i])
  BY <1>1, <1>2 DEF StackDiscipline
<1>4. \A i \in DOMAIN stack' : stack'[i].form = "body" <=> i = 1
  BY <1>1, <1>2 DEF StackDiscipline, Top
<1>5. \A i \in DOMAIN stack' : i > 1 => Awaits(Returns(stack'[i].form), stack'[i - 1].form)
  <2> SUFFICES ASSUME NEW i \in DOMAIN stack', i > 1
               PROVE  Awaits(Returns(stack'[i].form), stack'[i - 1].form)
    OBVIOUS
  <2>0. /\ i \in 1..Len(stack) /\ i - 1 \in 1..Len(stack) /\ i - 1 # Len(stack)
    <3>1. i \in 1..Len(stack) /\ Len(stack) \in Nat
      BY <1>1, <1>2
    <3> QED
      BY <3>1
  <2>1. stack'[i - 1] = stack[i - 1]
    BY <2>0, <1>2
  <2>2. Returns(stack'[i].form) = Returns(stack[i].form)
    <3>1. i = Len(stack) => stack[i] = Top /\ stack'[i] = f
      BY <1>2 DEF Top
    <3>2. i # Len(stack) => stack'[i] = stack[i]
      BY <2>0, <1>2
    <3> QED
      BY <3>1, <3>2
  <2> QED
    BY <2>0, <2>1, <2>2, <1>1 DEF StackDiscipline
<1>6. Top' = f
  BY <1>2 DEF Top
<1> QED
  BY <1>2, <1>3, <1>4, <1>5, <1>6 DEF StackDiscipline, Proper

\* And one that ends, handing what it was called for to the one below.
LEMMA FinishDiscipline ==
    ASSUME StackDiscipline, NEW S, stack \in Seq(S), stack # <<>>, Top.form # "body",
           stack' = Below, Proper(ctl'), ctl'.mode = Returns(Top.form)
    PROVE  /\ StackDiscipline'
           /\ Len(stack) > 1
<1>1. Len(stack) \in Nat /\ Len(stack) > 0 /\ DOMAIN stack = 1..Len(stack)
  OBVIOUS
<1>2. Len(stack) > 1
  BY <1>1 DEF StackDiscipline, Top
<1>3. /\ Len(stack') = Len(stack) - 1
      /\ DOMAIN stack' = 1..Len(stack) - 1
      /\ \A i \in 1..Len(stack) - 1 : stack'[i] = stack[i]
      /\ stack' # <<>>
  <2>1. stack' = SubSeq(stack, 1, Len(stack) - 1)
    BY DEF Below
  <2>2. /\ Len(stack') = Len(stack) - 1
        /\ stack' \in Seq(S)
        /\ \A i \in 1..Len(stack) - 1 : stack'[i] = stack[i]
    BY <2>1, BelowIs
  <2> QED
    BY <2>2, <1>1, <1>2
<1>4. \A i \in DOMAIN stack' : WellFormed(stack'[i]) /\ (stack'[i].form = "body" <=> i = 1)
  BY <1>1, <1>3 DEF StackDiscipline
<1>5. \A i \in DOMAIN stack' : i > 1 => Awaits(Returns(stack'[i].form), stack'[i - 1].form)
  <2> SUFFICES ASSUME NEW i \in DOMAIN stack', i > 1
               PROVE  Awaits(Returns(stack'[i].form), stack'[i - 1].form)
    OBVIOUS
  <2>1. i \in 1..Len(stack) - 1 /\ i - 1 \in 1..Len(stack) - 1 /\ i \in DOMAIN stack
    BY <1>1, <1>3
  <2> QED
    BY <2>1, <1>3 DEF StackDiscipline
<1>6. Awaits(ctl'.mode, Top'.form)
  <2>1. Top' = stack[Len(stack) - 1] /\ Len(stack) \in DOMAIN stack
    BY <1>1, <1>2, <1>3 DEF Top
  <2> QED
    BY <2>1, <1>1, <1>2 DEF StackDiscipline, Top
<1>7. StackDiscipline'
  BY <1>3, <1>4, <1>5, <1>6 DEF StackDiscipline, Proper
<1> QED
  BY <1>2, <1>7

\* A step that leaves the activations alone.
LEMMA StayDiscipline ==
    ASSUME StackDiscipline, stack # <<>>, stack' = stack, Proper(ctl'),
           Awaits(ctl'.mode, Top.form)
    PROVE  StackDiscipline'
<1>1. Top' = Top
  BY DEF Top
<1> QED
  BY <1>1 DEF StackDiscipline, Proper

-----------------------------------------------------------------------------
(* Types of the next state.                                                *)

\* The counters and the environment only grow.
Grows == /\ ntemp' \in Nat /\ ntemp <= ntemp'
         /\ nlabel' \in Nat /\ nlabel <= nlabel'
         /\ env' \in Seq(ParamRec) /\ Len(env) <= Len(env')

CtlOf(R) == [mode : Modes, ret : BOOLEAN, val : ValueOf(R)]

LEMMA RegistersKept ==
    ASSUME TypeOK, Grows
    PROVE  Registers \subseteq Registers' /\ 0..nlabel - 1 \subseteq 0..nlabel' - 1
<1>1. /\ ntemp \in Nat /\ ntemp' \in Nat /\ ntemp <= ntemp'
      /\ nlabel \in Nat /\ nlabel' \in Nat /\ nlabel <= nlabel'
      /\ Len(env) \in Nat /\ Len(env') \in Nat /\ Len(env) <= Len(env')
  BY DEF TypeOK, Grows
<1>2. RegistersOf(ntemp, Len(env)) \subseteq RegistersOf(ntemp', Len(env'))
  BY <1>1, HandedOutGrows
<1>3. 0..nlabel - 1 \subseteq 0..nlabel' - 1
  BY <1>1, LabelsGrow
<1> QED
  BY <1>2, <1>3 DEF Registers

\* Lines, activations and values of a state are lines, activations and values
\* of the next, and lines over what is handed out now may follow them.
LEMMA NextTypes ==
    ASSUME TypeOK, Grows
    PROVE  /\ code \in Seq(LineOf(Registers', 0..nlabel' - 1))
           /\ stack \in Seq(FrameOf(Registers'))
           /\ ctl \in CtlOf(Registers')
           /\ ValueOf(Registers) \subseteq ValueOf(Registers')
<1>1. Registers \subseteq Registers' /\ 0..nlabel - 1 \subseteq 0..nlabel' - 1
  BY RegistersKept
<1>2. /\ ValueOf(Registers) \subseteq ValueOf(Registers')
      /\ Seq(FrameOf(Registers)) \subseteq Seq(FrameOf(Registers'))
  BY <1>1, MonotoneFrames
<1>3. Seq(LineOf(Registers, 0..nlabel - 1)) \subseteq Seq(LineOf(Registers', 0..nlabel' - 1))
  <2> DEFINE R2 == Registers'  L == 0..nlabel - 1  L2 == 0..nlabel' - 1
  <2>1. Registers \subseteq R2 /\ L \subseteq L2
    BY <1>1
  <2> HIDE DEF R2, L, L2
  <2>2. Seq(LineOf(Registers, L)) \subseteq Seq(LineOf(R2, L2))
    BY <2>1, MonotoneLines
  <2> QED
    BY <2>2 DEF R2, L, L2
<1> QED
  BY <1>2, <1>3 DEF TypeOK, CtlOf

\* What the step writes: lines at the end of the text, or none.
Appends == \/ code' = code
           \/ \E lines \in Seq(LineOf(Registers', 0..nlabel' - 1)) : code' = code \o lines

LEMMA StepTypes ==
    ASSUME TypeOK, Grows, Appends, retTy' = retTy, nodes' \in 0..MaxNodes,
           stack' \in Seq(FrameOf(Registers')), ctl' \in CtlOf(Registers')
    PROVE  TypeOK'
<1> DEFINE Lines == Seq(LineOf(Registers', 0..nlabel' - 1))
<1>1. code' \in Lines
  <2>1. code \in Lines /\ (code' = code \/ \E lines \in Lines : code' = code \o lines)
    BY NextTypes DEF Appends
  <2>2. \A a, b \in Lines : a \o b \in Lines
    OBVIOUS
  <2> HIDE DEF Lines
  <2> QED
    BY <2>1, <2>2
<1> QED
  BY <1>1 DEF TypeOK, Grows, CtlOf

-----------------------------------------------------------------------------
(* Steps that start an activation.                                         *)

LEMMA SpendTypes ==
    ASSUME TypeOK
    PROVE  /\ Spend => nodes' \in 0..MaxNodes
           /\ SpendAtom => nodes' \in 0..MaxNodes
           /\ nodes' = nodes => nodes' \in 0..MaxNodes
<1>1. nodes \in 0..MaxNodes /\ MaxNodes \in Nat
  BY BoundsAssumption DEF TypeOK
<1> QED
  BY <1>1 DEF Spend, SpendAtom

LEMMA FrameTypes ==
    ASSUME NEW R, NEW form \in FrameForms, NEW arg \in Args
    PROVE  /\ Frame(form, arg) \in FrameOf(R)
           /\ \A ty \in Types : [Frame(form, arg) EXCEPT !.ty = ty] \in FrameOf(R)
           /\ \A l \in Nat : [Frame(form, arg) EXCEPT !.lab = l] \in FrameOf(R)
           /\ ListFrame(form) \in FrameOf(R)
<1>1. <<>> \in Seq(ValueOf(R)) /\ "none" \in Types /\ 0 \in Nat
  BY DEF Types
<1>2. NoValue \in ValueOf(R)
  BY DEF NoValue, Value, ValueOf, Types
<1>3. <<NoValue>> \in Seq(ValueOf(R))
  BY <1>2
<1>4. "?" \in Args
  BY DEF Args
<1> QED
  BY <1>1, <1>3, <1>4 DEF Frame, ListFrame, FrameOf

\* Control records that carry no value.
LEMMA CtlTypes ==
    ASSUME NEW R
    PROVE  /\ \A mode \in Modes : Call(mode) \in CtlOf(R)
           /\ \A r \in BOOLEAN, v \in ValueOf(R) : Did(r, v) \in CtlOf(R)
           /\ \A v \in ValueOf(R) : Yield(v) \in CtlOf(R)
           /\ NoValue \in ValueOf(R)
           /\ \A n \in {0, 1} : Const(n) \in ValueOf(R)
           /\ \A ty \in Types : \A n : Temp(n) \in R => TempVal(ty, n) \in ValueOf(R)
<1>1. /\ NoValue \in ValueOf(R)
      /\ \A n \in {0, 1} : Const(n) \in ValueOf(R)
      /\ \A ty \in Types : \A n : Temp(n) \in R => TempVal(ty, n) \in ValueOf(R)
  BY DEF NoValue, Const, TempVal, Value, ValueOf, Types, BaseTypes
<1> QED
  BY <1>1 DEF CtlOf, Call, Did, Yield, Modes

LEMMA UnchangedGrows ==
    ASSUME TypeOK, UNCHANGED <<ntemp, nlabel, env>>
    PROVE  Grows /\ Registers' = Registers
BY DEF TypeOK, Grows, Registers

LEMMA EnterStep ==
    ASSUME TypeInv, NEW frame \in FrameOf(Registers), WellFormed(frame), frame.form # "body",
           stack # <<>>, Awaits(Returns(frame.form), Top.form),
           NEW mode \in {"expr", "items", "list"}, Awaits(mode, frame.form),
           Enter(frame, mode), nodes' \in 0..MaxNodes,
           UNCHANGED <<code, ntemp, nlabel, env, retTy>>
    PROVE  TypeInv'
<1>1. TypeOK /\ StackDiscipline /\ Grows /\ Registers' = Registers
  BY UnchangedGrows DEF TypeInv
<1>2. stack \in Seq(FrameOf(Registers))
  BY <1>1 DEF TypeOK
<1>3. stack' \in Seq(FrameOf(Registers'))
  BY <1>1, <1>2 DEF Enter
<1>4. ctl' = Call(mode) /\ ctl' \in CtlOf(Registers')
  BY CtlTypes DEF Enter, Modes
<1>5. TypeOK'
  BY <1>1, <1>3, <1>4, StepTypes DEF Appends
<1>6. Proper(ctl') /\ ctl'.mode = mode
  BY <1>4 DEF Proper, Call
<1>7. StackDiscipline'
  BY <1>1, <1>2, <1>6, PushDiscipline DEF Enter
<1> QED
  BY <1>5, <1>7 DEF TypeInv

\* Who can be waiting when a node is about to be compiled.
LEMMA CalledFrom ==
    ASSUME TypeInv
    PROVE  /\ ctl.mode \in {"stmt", "item"} => stack # <<>> /\ Awaits("did", Top.form)
           /\ ctl.mode \in {"expr", "list", "item"} => stack # <<>> /\ Awaits("val", Top.form)
BY DEF TypeInv, StackDiscipline, Awaits, ValueForms, StmtWaiters, ListForms, FrameForms

\* The frames that calls push.
LEMMA StatementFrames ==
    /\ \A form \in {"return", "if-cond", "expr"} :
          WellFormed(Frame(form, "?")) /\ Returns(Frame(form, "?").form) = "did"
    /\ \A ty \in BaseTypes :
          LET f == [Frame("store", "?") EXCEPT !.ty = ty]
          IN WellFormed(f) /\ f.form = "store" /\ Returns(f.form) = "did"
    /\ \A x \in Names, ty \in BaseTypes :
          LET f == [Frame("let", x) EXCEPT !.ty = ty]
          IN WellFormed(f) /\ f.form = "let" /\ Returns(f.form) = "did"
    /\ \A x \in Names : WellFormed(Frame("set", x)) /\ Returns("set") = "did"
    /\ \A l : LET f == [Frame("while-cond", "?") EXCEPT !.lab = l]
              IN WellFormed(f) /\ f.form = "while-cond" /\ f.lab = l /\ Returns(f.form) = "did"
    /\ \A form \in {"do", "block"} : WellFormed(ListFrame(form)) /\ ListFrame(form).form = form
    /\ Returns("do") = "did" /\ Returns("block") = "val"
BY DEF Frame, ListFrame, WellFormed, Returns, ExprActivations, ListForms, OpForms, OperandTypes

LEMMA StatementCalls ==
    ASSUME TypeInv,
           CallReturn \/ CallStore \/ CallLet \/ CallSet \/ CallDo \/ CallIf \/ CallExprStmt
    PROVE  TypeInv'
<1>1. nodes' \in 0..MaxNodes
  <2>1. Spend
    BY DEF CallReturn, CallStore, CallLet, CallSet, CallDo, CallIf, CallExprStmt, StmtCalled
  <2> QED
    BY <2>1, SpendTypes DEF TypeInv
<1>2. UNCHANGED <<code, ntemp, nlabel, env, retTy>>
  BY DEF CallReturn, CallStore, CallLet, CallSet, CallDo, CallIf, CallExprStmt
<1>3. stack # <<>> /\ Awaits("did", Top.form)
  <2>1. ctl.mode \in {"stmt", "item"}
    BY DEF CallReturn, CallStore, CallLet, CallSet, CallDo, CallIf, CallExprStmt, StmtCalled
  <2> QED
    BY <2>1, CalledFrom
<1>4. "?" \in Args /\ Names \subseteq Args /\ BaseTypes \subseteq Types
  BY DEF Args, Types
<1>5. /\ {"return", "if-cond", "expr", "store", "let", "set", "do"} \subseteq FrameForms
      /\ {"return", "if-cond", "expr", "store", "let", "set"} \subseteq ValueForms
      /\ "do" \in ListForms
  BY DEF FrameForms, ValueForms, StmtWaiters, ListForms
<1>6. ASSUME NEW f \in FrameOf(Registers), WellFormed(f), f.form # "body",
             Returns(f.form) = "did", NEW mode \in {"expr", "items", "list"},
             Awaits(mode, f.form), Enter(f, mode)
      PROVE  TypeInv'
  BY <1>1, <1>2, <1>3, <1>6, EnterStep
<1>7. CASE CallReturn
  <2> DEFINE f == Frame("return", "?")
  <2>1. f \in FrameOf(Registers) /\ f.form = "return"
    BY <1>4, <1>5, FrameTypes DEF Frame
  <2>2. WellFormed(f) /\ Returns(f.form) = "did" /\ Awaits("expr", f.form)
    BY <1>5, <2>1, StatementFrames DEF Awaits
  <2>3. Enter(f, "expr")
    BY <1>7 DEF CallReturn
  <2> QED
    BY <2>1, <2>2, <2>3, <1>6
<1>8. CASE CallStore
  <2>1. PICK ty \in BaseTypes : Enter([Frame("store", "?") EXCEPT !.ty = ty], "expr")
    BY <1>8 DEF CallStore
  <2> DEFINE f == [Frame("store", "?") EXCEPT !.ty = ty]
  <2>2. f \in FrameOf(Registers)
    BY <1>4, <1>5, FrameTypes
  <2>3. WellFormed(f) /\ f.form = "store" /\ Returns(f.form) = "did"
    BY StatementFrames
  <2> QED
    BY <1>5, <1>6, <2>1, <2>2, <2>3 DEF Awaits
<1>9. CASE CallLet
  <2>1. PICK x \in Names, ty \in BaseTypes : Enter([Frame("let", x) EXCEPT !.ty = ty], "expr")
    BY <1>9 DEF CallLet
  <2> DEFINE f == [Frame("let", x) EXCEPT !.ty = ty]
  <2>2. f \in FrameOf(Registers)
    BY <1>4, <1>5, FrameTypes
  <2>3. WellFormed(f) /\ f.form = "let" /\ Returns(f.form) = "did"
    BY StatementFrames
  <2> QED
    BY <1>5, <1>6, <2>1, <2>2, <2>3 DEF Awaits
<1>10. CASE CallSet
  <2>1. PICK x \in Names : Enter(Frame("set", x), "expr")
    BY <1>10 DEF CallSet
  <2> DEFINE f == Frame("set", x)
  <2>2. f \in FrameOf(Registers) /\ f.form = "set"
    BY <1>4, <1>5, FrameTypes DEF Frame
  <2>3. WellFormed(f) /\ Returns(f.form) = "did"
    BY <2>2, StatementFrames
  <2> QED
    BY <1>5, <1>6, <2>1, <2>2, <2>3 DEF Awaits
<1>11. CASE CallDo
  <2> DEFINE f == ListFrame("do")
  <2>1. f \in FrameOf(Registers)
    BY <1>4, <1>5, FrameTypes
  <2>2. WellFormed(f) /\ f.form = "do" /\ Returns(f.form) = "did"
    BY StatementFrames
  <2>3. Enter(f, "items")
    BY <1>11 DEF CallDo
  <2> QED
    BY <1>5, <1>6, <2>1, <2>2, <2>3 DEF Awaits
<1>12. CASE CallIf
  <2> DEFINE f == Frame("if-cond", "?")
  <2>1. f \in FrameOf(Registers) /\ f.form = "if-cond"
    BY <1>4, <1>5, FrameTypes DEF Frame
  <2>2. WellFormed(f) /\ Returns(f.form) = "did" /\ Awaits("expr", f.form)
    BY <1>5, <2>1, StatementFrames DEF Awaits
  <2>3. Enter(f, "expr")
    BY <1>12 DEF CallIf
  <2> QED
    BY <2>1, <2>2, <2>3, <1>6
<1>13. CASE CallExprStmt
  <2> DEFINE f == Frame("expr", "?")
  <2>1. f \in FrameOf(Registers) /\ f.form = "expr"
    BY <1>4, <1>5, FrameTypes DEF Frame
  <2>2. WellFormed(f) /\ Returns(f.form) = "did" /\ Awaits("list", f.form)
    BY <1>5, <2>1, StatementFrames DEF Awaits
  <2>3. Enter(f, "list")
    BY <1>13 DEF CallExprStmt
  <2> QED
    BY <2>1, <2>2, <2>3, <1>6
<1> QED
  BY <1>7, <1>8, <1>9, <1>10, <1>11, <1>12, <1>13

-----------------------------------------------------------------------------
(* Steps that keep the activations, and the expressions that answer at once. *)

LEMMA StayStep ==
    ASSUME TypeInv, stack # <<>>, stack' = stack, Grows, Appends, retTy' = retTy,
           nodes' \in 0..MaxNodes, ctl' \in CtlOf(Registers'), Proper(ctl'),
           Awaits(ctl'.mode, Top.form)
    PROVE  TypeInv'
<1>1. TypeOK /\ StackDiscipline
  BY DEF TypeInv
<1>2. stack' \in Seq(FrameOf(Registers'))
  BY <1>1, NextTypes
<1> QED
  BY <1>1, <1>2, StepTypes, StayDiscipline DEF TypeInv

LEMMA YieldStep ==
    ASSUME TypeInv, ctl.mode \in {"expr", "list", "item"}, stack' = stack, Grows, Appends,
           retTy' = retTy, nodes' \in 0..MaxNodes,
           ctl'.val \in ValueOf(Registers'), ctl'.val.ty \in BaseTypes \cup PtrTypes,
           ctl' = Yield(ctl'.val)
    PROVE  TypeInv'
<1>1. stack # <<>> /\ Awaits("val", Top.form)
  BY CalledFrom
<1>2. ctl' \in CtlOf(Registers')
  BY CtlTypes
<1>3. Proper(ctl') /\ ctl'.mode = "val"
  BY DEF Proper, Yield
<1> QED
  BY <1>1, <1>2, <1>3, StayStep

\* One line and one temporary more.
LEMMA OneTempStep ==
    ASSUME TypeOK, ntemp' = ntemp + 1, UNCHANGED <<nlabel, env>>,
           NEW use \in SUBSET Registers, Emit(<<Inst({Temp(ntemp)}, use)>>)
    PROVE  Grows /\ Appends /\ Temp(ntemp) \in Registers'
<1>1. ntemp \in Nat /\ nlabel \in Nat /\ env \in Seq(ParamRec)
  BY DEF TypeOK
<1>2. Grows
  BY <1>1 DEF Grows
<1>3. Temp(ntemp) \in Registers'
  <2>1. ntemp \in 0..(ntemp + 1) - 1
    BY <1>1
  <2> QED
    BY <2>1 DEF Registers, RegistersOf
<1>4. use \subseteq Registers'
  BY <1>2, RegistersKept
<1> DEFINE line == Inst({Temp(ntemp)}, use)
<1>5. line \in LineOf(Registers', 0..nlabel' - 1)
  BY <1>3, <1>4 DEF Inst, Line, LineOf
<1>6. code' = code \o <<line>>
  BY DEF Emit
<1> HIDE DEF line
<1>7. <<line>> \in Seq(LineOf(Registers', 0..nlabel' - 1))
  BY <1>5
<1>8. Appends
  BY <1>6, <1>7 DEF Appends
<1> QED
  BY <1>2, <1>3, <1>8

LEMMA EnvTypesNow ==
    ASSUME TypeOK
    PROVE  \A x \in Names : EnvType(env, x) \in BaseTypes /\ EnvSlot(env, x) \in Registers
BY EnvTypes DEF TypeOK, Registers

LEMMA Atoms ==
    ASSUME TypeInv, ExprConst \/ ExprVar \/ ExprString \/ ExprAddr \/ ExprAddrOf \/ ExprGetField
    PROVE  TypeInv'
<1>1. /\ TypeOK
      /\ stack' = stack /\ retTy' = retTy /\ nlabel' = nlabel /\ env' = env
      /\ ctl.mode \in {"expr", "list", "item"}
      /\ Spend \/ SpendAtom \/ UNCHANGED nodes
  BY DEF TypeInv, ExprConst, ExprVar, ExprString, ExprAddr, ExprAddrOf, ExprGetField, ExprCalled
<1>2. nodes' \in 0..MaxNodes
  BY <1>1, SpendTypes
<1>3. BaseTypes \subseteq Types /\ PtrTypes \subseteq Types /\ {"i32", "i8ptr"} \subseteq BaseTypes
  BY DEF Types, BaseTypes
<1>4. \A ty \in BaseTypes : PtrTo[ty] \in PtrTypes
  BY DEF BaseTypes, PtrTypes, PtrTo
<1>5. \A x \in Names : EnvType(env, x) \in BaseTypes /\ EnvSlot(env, x) \in Registers
  BY <1>1, EnvTypesNow
<1>6. ASSUME NEW v, v \in ValueOf(Registers'), v.ty \in BaseTypes \cup PtrTypes, ctl' = Yield(v),
             Grows, Appends
      PROVE  TypeInv'
  <2>1. ctl'.val = v
    BY <1>6 DEF Yield
  <2> QED
    BY <1>1, <1>2, <1>6, <2>1, YieldStep
<1>7. ASSUME NEW v, v \in ValueOf(Registers), v.ty \in BaseTypes \cup PtrTypes, ctl' = Yield(v),
             code' = code, ntemp' = ntemp
      PROVE  TypeInv'
  <2>1. Grows /\ Registers' = Registers /\ Appends
    BY <1>1, <1>7, UnchangedGrows DEF Appends
  <2> QED
    BY <1>6, <1>7, <2>1
<1>8. \A n \in {0, 1} : Const(n) \in ValueOf(Registers) /\ Const(n).ty = "i32"
  BY CtlTypes DEF Const, Value
<1>9. \A ty \in BaseTypes, r \in Registers :
          Value(PtrTo[ty], {r}, 0) \in ValueOf(Registers) /\ Value(PtrTo[ty], {r}, 0).ty \in PtrTypes
  BY <1>3, <1>4 DEF Value, ValueOf
<1>10. CASE ExprConst
  BY <1>3, <1>7, <1>8, <1>10 DEF ExprConst
<1>11. CASE ExprVar
  <2>1. PICK x \in Names : /\ Emit(<<Inst({Temp(ntemp)}, {EnvSlot(env, x)})>>)
                           /\ ctl' = Yield(TempVal(EnvType(env, x), ntemp))
    BY <1>11 DEF ExprVar
  <2>2. ntemp' = ntemp + 1
    BY <1>11 DEF ExprVar
  <2>3. {EnvSlot(env, x)} \in SUBSET Registers /\ EnvType(env, x) \in BaseTypes
    BY <1>5
  <2>4. Grows /\ Appends /\ Temp(ntemp) \in Registers'
    BY <1>1, <2>1, <2>2, <2>3, OneTempStep
  <2> DEFINE v == TempVal(EnvType(env, x), ntemp)
  <2>5. v \in ValueOf(Registers') /\ v.ty \in BaseTypes
    BY <1>3, <2>3, <2>4 DEF TempVal, Value, ValueOf
  <2> QED
    BY <1>6, <2>1, <2>4, <2>5
<1>12. CASE ExprString
  <2>1. /\ Emit(<<Inst({Temp(ntemp)}, {})>>)
        /\ ctl' = Yield(TempVal("i8ptr", ntemp))
        /\ ntemp' = ntemp + 1
    BY <1>12 DEF ExprString
  <2>2. Grows /\ Appends /\ Temp(ntemp) \in Registers'
    BY <1>1, <2>1, OneTempStep
  <2> DEFINE v == TempVal("i8ptr", ntemp)
  <2>3. v \in ValueOf(Registers') /\ v.ty \in BaseTypes
    BY <1>3, <2>2 DEF TempVal, Value, ValueOf
  <2> QED
    BY <1>6, <2>1, <2>2, <2>3
<1>13. CASE ExprAddr
  <2>1. PICK x \in Names :
          ctl' = Yield(IF Bound(env, x) THEN Value(PtrTo[EnvType(env, x)], {EnvSlot(env, x)}, 0)
                       ELSE Const(0))
    BY <1>13 DEF ExprAddr
  <2>2. code' = code /\ ntemp' = ntemp
    BY <1>13 DEF ExprAddr
  <2> QED
    BY <1>3, <1>5, <1>7, <1>8, <1>9, <2>1, <2>2
<1>14. CASE ExprAddrOf
  <2>1. PICK x \in Names, ty \in BaseTypes :
          ctl' = Yield(Value(PtrTo[IF Bound(env, x) THEN EnvType(env, x) ELSE ty],
                             {EnvSlot(env, x)}, 0))
    BY <1>14 DEF ExprAddrOf
  <2>2. code' = code /\ ntemp' = ntemp
    BY <1>14 DEF ExprAddrOf
  <2> QED
    BY <1>3, <1>5, <1>7, <1>9, <2>1, <2>2
<1>15. CASE ExprGetField
  BY <1>3, <1>7, <1>8, <1>15 DEF ExprGetField
<1> QED
  BY <1>10, <1>11, <1>12, <1>13, <1>14, <1>15

LEMMA Skips ==
    ASSUME TypeInv, StmtSkip
    PROVE  TypeInv'
<1>1. TypeOK /\ StackDiscipline
  BY DEF TypeInv
<1>2. stack # <<>> /\ Awaits("did", Top.form)
  BY CalledFrom DEF StmtSkip
<1>3. Grows /\ Registers' = Registers /\ Appends /\ nodes' \in 0..MaxNodes
  BY <1>1, UnchangedGrows, SpendTypes DEF StmtSkip, Appends
<1>4. ctl' = Did(FALSE, NoValue) /\ ctl' \in CtlOf(Registers')
  BY CtlTypes DEF StmtSkip
<1>5. Proper(ctl') /\ ctl'.mode = "did"
  BY <1>4 DEF Proper, Did
<1> QED
  BY <1>2, <1>3, <1>4, <1>5, StayStep DEF StmtSkip

\* Lines that mention no register: jumps and labels.
LEMMA JumpTypes ==
    ASSUME NEW R, NEW L, NEW a \in L
    PROVE  /\ Br(a) \in LineOf(R, L) /\ LabelDef(a) \in LineOf(R, L)
           /\ <<Br(a)>> \in Seq(LineOf(R, L)) /\ <<LabelDef(a)>> \in Seq(LineOf(R, L))
           /\ <<Br(a), LabelDef(a)>> \in Seq(LineOf(R, L))
<1>1. Br(a) \in LineOf(R, L) /\ LabelDef(a) \in LineOf(R, L)
  BY DEF Br, LabelDef, Line, LineOf
<1> QED
  BY <1>1

\* Three fresh labels.
LEMMA LabelsGrow3 ==
    ASSUME TypeOK, nlabel' = nlabel + 3, UNCHANGED env, ntemp' \in Nat, ntemp <= ntemp'
    PROVE  /\ Grows
           /\ nlabel \in 0..nlabel' - 1 /\ nlabel + 1 \in 0..nlabel' - 1 /\ nlabel + 2 \in 0..nlabel' - 1
<1>1. nlabel \in Nat /\ env \in Seq(ParamRec)
  BY DEF TypeOK
<1>2. nlabel' = nlabel + 3
  OBVIOUS
<1>3. \A n \in Nat : /\ n + 3 \in Nat /\ n <= n + 3
                     /\ n \in 0..(n + 3) - 1 /\ n + 1 \in 0..(n + 3) - 1 /\ n + 2 \in 0..(n + 3) - 1
  OBVIOUS
<1>4. Grows
  BY <1>1, <1>3 DEF Grows
<1> QED
  BY <1>1, <1>2, <1>3, <1>4

LEMMA WhileCalls ==
    ASSUME TypeInv, CallWhile
    PROVE  TypeInv'
<1>1. /\ TypeOK /\ StackDiscipline
      /\ ctl.mode \in {"stmt", "item"} /\ Spend
  BY DEF TypeInv, CallWhile, StmtCalled
<1>2. stack # <<>> /\ Awaits("did", Top.form) /\ nodes' \in 0..MaxNodes
  BY <1>1, CalledFrom, SpendTypes
<1>3. Grows /\ nlabel \in 0..nlabel' - 1 /\ nlabel \in Nat
  <2>1. ntemp' \in Nat /\ ntemp <= ntemp' /\ nlabel \in Nat
    BY <1>1 DEF CallWhile, TypeOK
  <2> QED
    BY <1>1, <2>1, LabelsGrow3 DEF CallWhile, FreshLabels
<1>4. Appends
  <2>1. code' = code \o <<Br(nlabel), LabelDef(nlabel)>>
    BY DEF CallWhile, Emit
  <2>2. <<Br(nlabel), LabelDef(nlabel)>> \in Seq(LineOf(Registers', 0..nlabel' - 1))
    BY <1>3, JumpTypes
  <2> QED
    BY <2>1, <2>2 DEF Appends
<1> DEFINE f == [Frame("while-cond", "?") EXCEPT !.lab = nlabel]
<1>5. f \in FrameOf(Registers')
  <2>1. "while-cond" \in FrameForms /\ "?" \in Args
    BY DEF FrameForms, Args
  <2> QED
    BY <1>3, <2>1, FrameTypes
<1>6. WellFormed(f) /\ f.form = "while-cond" /\ Returns(f.form) = "did"
  BY StatementFrames
<1> HIDE DEF f
<1>7. stack' = Append(stack, f) /\ ctl' = Call("expr")
  BY DEF CallWhile, Enter, f
<1>8. stack \in Seq(FrameOf(Registers')) /\ stack' \in Seq(FrameOf(Registers'))
  BY <1>1, <1>3, <1>5, <1>7, NextTypes
<1>9. ctl' \in CtlOf(Registers') /\ Proper(ctl') /\ ctl'.mode = "expr"
  BY <1>7, CtlTypes DEF Modes, Proper, Call
<1>10. TypeOK'
  BY <1>1, <1>2, <1>3, <1>4, <1>8, <1>9, StepTypes DEF CallWhile
<1>11. Awaits("expr", f.form)
  BY <1>6 DEF Awaits, ValueForms, FrameForms, StmtWaiters, ListForms
<1>12. StackDiscipline'
  BY <1>1, <1>2, <1>6, <1>7, <1>8, <1>9, <1>11, PushDiscipline
<1> QED
  BY <1>10, <1>12 DEF TypeInv

\* The activations that expressions start.
LEMMA ExpressionFrames ==
    /\ \A form \in {"arith", "logic"} : WellFormed(Frame(form, "?"))
    /\ \A p : WellFormed(Frame("cmp", p))
    /\ \A form \in {"load", "ptr-add"}, ty \in BaseTypes :
          LET f == [Frame(form, "?") EXCEPT !.ty = ty] IN WellFormed(f) /\ f.form = form
    /\ \A ty \in BaseTypes \cup PtrTypes :
          LET f == [Frame("bitcast", "?") EXCEPT !.ty = ty] IN WellFormed(f) /\ f.form = "bitcast"
    /\ \A form, arg : Frame(form, arg).form = form
    /\ \A form \in ExprActivations : Returns(form) = "val"
BY DEF Frame, WellFormed, Returns, ExprActivations, ListForms, OpForms, OperandTypes

LEMMA CallFrames ==
    ASSUME NEW fn \in DOMAIN Fns, Fns[fn].params # <<>>
    PROVE  WellFormed(Frame("call", fn))
<1>1. Fns[fn].params \in Seq(BaseTypes)
  <2>1. Fns[fn] \in FnRec
    BY TypesAssumption
  <2> QED
    BY <2>1 DEF FnRec
<1>2. 0 < Len(Fns[fn].params)
  BY <1>1
<1> QED
  BY <1>2 DEF Frame, WellFormed, ListForms, OpForms, OperandTypes

LEMMA ExpressionCalls ==
    ASSUME TypeInv, ExprBlock \/ ExprOp
    PROVE  TypeInv'
<1>1. ctl.mode \in {"expr", "list", "item"} /\ nodes' \in 0..MaxNodes
  <2>1. ctl.mode \in {"expr", "list", "item"} /\ (Spend \/ UNCHANGED nodes)
    BY DEF ExprBlock, ExprOp, ExprCalled
  <2> QED
    BY <2>1, SpendTypes DEF TypeInv
<1>2. UNCHANGED <<code, ntemp, nlabel, env, retTy>>
  BY DEF ExprBlock, ExprOp
<1>3. stack # <<>> /\ Awaits("val", Top.form)
  BY <1>1, CalledFrom
<1>4. /\ "?" \in Args /\ "==" \in Args /\ "<" \in Args /\ DOMAIN Fns \subseteq Args
      /\ BaseTypes \subseteq Types /\ PtrTypes \subseteq Types
  BY DEF Args, Types
<1>5. /\ ExprActivations \subseteq FrameForms /\ "body" \notin ExprActivations
      /\ ExprActivations \ {"block"} \subseteq ValueForms
      /\ "block" \in ListForms /\ "block" \in ExprActivations
      /\ {"arith", "logic", "cmp", "load", "ptr-add", "bitcast", "call"} \subseteq ExprActivations \ {"block"}
  BY DEF ExprActivations, FrameForms, ValueForms, StmtWaiters, ListForms
<1>6. ASSUME NEW f \in FrameOf(Registers), WellFormed(f), f.form \in ExprActivations \ {"block"},
             Enter(f, "expr")
      PROVE  TypeInv'
  <2>1. Awaits("expr", f.form) /\ Returns(f.form) = "val" /\ f.form # "body"
    BY <1>5, <1>6 DEF Awaits, Returns
  <2> QED
    BY <1>1, <1>2, <1>3, <1>6, <2>1, EnterStep
<1>7. CASE ExprBlock
  <2> DEFINE f == ListFrame("block")
  <2>1. f \in FrameOf(Registers)
    BY <1>4, <1>5, FrameTypes
  <2>2. WellFormed(f) /\ f.form = "block" /\ Returns(f.form) = "val"
    BY StatementFrames
  <2>3. Enter(f, "items") /\ Awaits("items", f.form)
    BY <1>5, <1>7, <2>2 DEF ExprBlock, Awaits
  <2> QED
    BY <1>1, <1>2, <1>3, <2>1, <2>2, <2>3, EnterStep
<1>8. CASE ExprOp
  <2>1. CASE \E f \in {"arith", "logic"} : Enter(Frame(f, "?"), "expr")
    <3>1. PICK form \in {"arith", "logic"} : Enter(Frame(form, "?"), "expr")
      BY <2>1
    <3> DEFINE f == Frame(form, "?")
    <3>2. f \in FrameOf(Registers) /\ WellFormed(f) /\ f.form = form
      BY <1>4, <1>5, FrameTypes, ExpressionFrames
    <3> HIDE DEF f
    <3> QED
      BY <1>5, <1>6, <3>1, <3>2 DEF f
  <2>2. CASE \E p \in {"==", "<"} : Enter(Frame("cmp", p), "expr")
    <3>1. PICK p \in {"==", "<"} : Enter(Frame("cmp", p), "expr")
      BY <2>2
    <3> DEFINE f == Frame("cmp", p)
    <3>2. f \in FrameOf(Registers) /\ WellFormed(f) /\ f.form = "cmp"
      BY <1>4, <1>5, FrameTypes, ExpressionFrames
    <3> HIDE DEF f
    <3> QED
      BY <1>5, <1>6, <3>1, <3>2 DEF f
  <2>3. CASE \E form \in {"load", "ptr-add"}, ty \in BaseTypes :
                Enter([Frame(form, "?") EXCEPT !.ty = ty], "expr")
    <3>1. PICK form \in {"load", "ptr-add"}, ty \in BaseTypes :
              Enter([Frame(form, "?") EXCEPT !.ty = ty], "expr")
      BY <2>3
    <3> DEFINE f == [Frame(form, "?") EXCEPT !.ty = ty]
    <3>2. f \in FrameOf(Registers)
      BY <1>4, <1>5, FrameTypes
    <3>3. WellFormed(f) /\ f.form = form
      BY ExpressionFrames
    <3> HIDE DEF f
    <3> QED
      BY <1>5, <1>6, <3>1, <3>2, <3>3 DEF f
  <2>4. CASE \E ty \in BaseTypes \cup PtrTypes :
                Enter([Frame("bitcast", "?") EXCEPT !.ty = ty], "expr")
    <3>1. PICK ty \in BaseTypes \cup PtrTypes : Enter([Frame("bitcast", "?") EXCEPT !.ty = ty], "expr")
      BY <2>4
    <3> DEFINE f == [Frame("bitcast", "?") EXCEPT !.ty = ty]
    <3>2. f \in FrameOf(Registers)
      BY <1>4, <1>5, FrameTypes
    <3>3. WellFormed(f) /\ f.form = "bitcast"
      BY ExpressionFrames
    <3> HIDE DEF f
    <3> QED
      BY <1>5, <1>6, <3>1, <3>2, <3>3 DEF f
  <2>5. CASE \E fn \in DOMAIN Fns : Fns[fn].params # <<>> /\ Enter(Frame("call", fn), "expr")
    <3>1. PICK fn \in DOMAIN Fns : Fns[fn].params # <<>> /\ Enter(Frame("call", fn), "expr")
      BY <2>5
    <3>2. WellFormed(Frame("call", fn))
      BY <3>1, CallFrames
    <3> DEFINE f == Frame("call", fn)
    <3>3. f \in FrameOf(Registers) /\ f.form = "call"
      BY <1>4, <1>5, FrameTypes, ExpressionFrames
    <3> HIDE DEF f
    <3> QED
      BY <1>5, <1>6, <3>1, <3>2, <3>3 DEF f
  <2> QED
    BY <1>8, <2>1, <2>2, <2>3, <2>4, <2>5 DEF ExprOp
<1> QED
  BY <1>7, <1>8

LEMMA Fatals ==
    ASSUME TypeInv, Fatal, stack # <<>>
    PROVE  TypeInv'
<1>1. TypeOK
  BY DEF TypeInv
<1>2. Grows /\ Registers' = Registers /\ Appends /\ nodes' \in 0..MaxNodes
  BY <1>1, UnchangedGrows, SpendTypes DEF Fatal, Appends
<1>3. ctl' = Call("fatal") /\ ctl' \in CtlOf(Registers')
  BY CtlTypes DEF Fatal, Modes
<1>4. Proper(ctl') /\ Awaits(ctl'.mode, Top.form)
  BY <1>3 DEF Proper, Call, Awaits
<1> QED
  BY <1>2, <1>3, <1>4, StayStep DEF Fatal

\* An activation goes on, or ends, while lines are written.
LEMMA GotoStep ==
    ASSUME TypeInv, stack # <<>>, Grows, Appends, retTy' = retTy, nodes' \in 0..MaxNodes,
           NEW f, f \in FrameOf(Registers'), WellFormed(f), f.form = "body" <=> Top.form = "body",
           Returns(f.form) = Returns(Top.form), Goto(f),
           ctl' \in CtlOf(Registers'), Proper(ctl'), Awaits(ctl'.mode, f.form)
    PROVE  TypeInv'
<1>1. TypeOK /\ StackDiscipline /\ stack \in Seq(FrameOf(Registers))
  BY DEF TypeInv, TypeOK
<1>2. stack \in Seq(FrameOf(Registers'))
  BY <1>1, NextTypes
<1> DEFINE S == FrameOf(Registers')
<1>3. stack' \in Seq(S)
  <2>1. stack \in Seq(S) /\ f \in S
    BY <1>2
  <2> HIDE DEF S
  <2>2. Below \in Seq(S)
    BY <2>1 DEF Below
  <2> QED
    BY <2>1, <2>2 DEF Goto
<1>4. TypeOK'
  BY <1>1, <1>3, StepTypes
<1>5. StackDiscipline'
  BY <1>1, GotoDiscipline
<1> QED
  BY <1>4, <1>5 DEF TypeInv

LEMMA FinishStep ==
    ASSUME TypeInv, stack # <<>>, Top.form # "body", Grows, Appends, retTy' = retTy,
           nodes' \in 0..MaxNodes, stack' = Below,
           ctl' \in CtlOf(Registers'), Proper(ctl'), ctl'.mode = Returns(Top.form)
    PROVE  TypeInv'
<1>1. TypeOK /\ StackDiscipline /\ stack \in Seq(FrameOf(Registers))
  BY DEF TypeInv, TypeOK
<1>2. stack \in Seq(FrameOf(Registers'))
  BY <1>1, NextTypes
<1> DEFINE S == FrameOf(Registers')
<1>3. stack' \in Seq(S)
  <2>1. stack \in Seq(S)
    BY <1>2
  <2> HIDE DEF S
  <2> QED
    BY <2>1 DEF Below
<1>4. TypeOK'
  BY <1>1, <1>3, StepTypes
<1>5. StackDiscipline'
  BY <1>1, FinishDiscipline
<1> QED
  BY <1>4, <1>5 DEF TypeInv

-----------------------------------------------------------------------------
(* Operands and the instructions that take them.                           *)

\* How many temporaries an instruction takes.
LEMMA OpTempsType ==
    ASSUME NEW f, f.form \in OpForms, NEW vs
    PROVE  /\ OpTemps(f, vs) \in 0..4
           /\ f.form = "cmp" => /\ OpTemps(f, vs) = 2 + EnsureTemps(vs[1], CmpType(f, vs))
                                                     + EnsureTemps(vs[2], CmpType(f, vs))
                                /\ EnsureTemps(vs[1], CmpType(f, vs)) \in {0, 1}
                                /\ EnsureTemps(vs[2], CmpType(f, vs)) \in {0, 1}
<1>1. \A v, ty : EnsureTemps(v, ty) \in {0, 1}
  BY DEF EnsureTemps
<1> QED
  BY <1>1 DEF OpTemps, OpForms

LEMMA CmpTypes ==
    ASSUME NEW R, NEW L, NEW f, f.form = "cmp",
           NEW vs \in Seq(ValueOf(R)), Len(vs) = 2, NEW t \in Nat,
           \A n \in t..t + OpTemps(f, vs) - 1 : Temp(n) \in R
    PROVE  CmpLines(f, vs, t) \in Seq(LineOf(R, L)) /\ Temp(t + 1) \in R
<1> DEFINE ty == CmpType(f, vs)
           k1 == EnsureTemps(vs[1], ty)
           k2 == EnsureTemps(vs[2], ty)
<1>1. ty \in Types
  BY DEF CmpType, Types, BaseTypes
<1>2. k1 \in {0, 1} /\ k2 \in {0, 1} /\ OpTemps(f, vs) = 2 + k1 + k2
  BY OpTempsType DEF OpForms
<1>3. vs[1] \in ValueOf(R) /\ vs[2] \in ValueOf(R)
  OBVIOUS
<1>4. vs[1].ty = ty \/ k1 = 1
  BY DEF EnsureTemps
<1>5. vs[2].ty = ty \/ k2 = 1
  BY DEF EnsureTemps
<1> HIDE DEF ty, k1, k2
<1>6. Temp(t) \in R /\ Temp(t + 1) \in R
  BY <1>2
<1>7. vs[1].ty = ty \/ Temp(t + 2) \in R
  BY <1>2, <1>4
<1>8. vs[2].ty = ty \/ Temp(t + 2 + k1) \in R
  BY <1>2, <1>5
<1> DEFINE lhs == Ensured(vs[1], ty, t + 2)
           rhs == Ensured(vs[2], ty, t + 2 + k1)
           l1 == EnsureLines(vs[1], ty, t + 2)
           l2 == EnsureLines(vs[2], ty, t + 2 + k1)
           l3 == <<Inst({Temp(t)}, lhs.reg \cup rhs.reg), Inst({Temp(t + 1)}, {Temp(t)})>>
<1>9. t + 2 \in Nat /\ t + 2 + k1 \in Nat
  BY <1>2
<1>9a. ASSUME NEW v \in ValueOf(R), NEW n \in Nat, v.ty = ty \/ Temp(n) \in R
       PROVE  Ensured(v, ty, n).reg \subseteq R /\ EnsureLines(v, ty, n) \in Seq(LineOf(R, L))
  BY <1>1, <1>9a, EnsuredType
<1>10. lhs.reg \subseteq R /\ l1 \in Seq(LineOf(R, L))
  BY <1>3, <1>7, <1>9, <1>9a
<1>11. rhs.reg \subseteq R /\ l2 \in Seq(LineOf(R, L))
  BY <1>3, <1>8, <1>9, <1>9a
<1>12. l3 \in Seq(LineOf(R, L))
  <2>1. \A d, u \in SUBSET R : Inst(d, u) \in LineOf(R, L)
    BY LineTypes
  <2>2. {Temp(t)} \in SUBSET R /\ {Temp(t + 1)} \in SUBSET R /\ lhs.reg \cup rhs.reg \in SUBSET R
    BY <1>6, <1>10, <1>11
  <2> HIDE DEF lhs, rhs
  <2> QED
    BY <2>1, <2>2
<1>13. CmpLines(f, vs, t) = l1 \o l2 \o l3
  BY DEF CmpLines, ty, k1
<1> HIDE DEF l1, l2, l3
<1>14. l1 \o l2 \o l3 \in Seq(LineOf(R, L))
  BY <1>10, <1>11, <1>12
<1> QED
  BY <1>6, <1>13, <1>14

\* What the instruction writes mentions the operands and the temporaries it
\* took, and its result is what its caller waits for.
LEMMA OpTypes ==
    ASSUME NEW R, NEW L, NEW f, f.form \in OpForms, f.form # "call" => WellFormed(f),
           f.form = "call" => f.arg \in DOMAIN Fns,
           NEW vs \in Seq(ValueOf(R)), Len(vs) = Len(OperandTypes(f)), NEW t \in Nat,
           \A n \in t..t + OpTemps(f, vs) - 1 : Temp(n) \in R
    PROVE  /\ OpLines(f, vs, t) \in Seq(LineOf(R, L))
           /\ OpResult(f, vs, t) \in CtlOf(R)
           /\ Proper(OpResult(f, vs, t))
           /\ OpResult(f, vs, t).mode = Returns(f.form)
<1>0. \A i \in 1..Len(vs) : vs[i] \in ValueOf(R)
  OBVIOUS
<1>1. Uses(vs) \in SUBSET R
  <2>1. \A v \in ValueOf(R) : v.reg \subseteq R
    BY DEF ValueOf
  <2>2. \A i \in DOMAIN vs : vs[i] \in ValueOf(R)
    BY <1>0
  <2> QED
    BY <2>1, <2>2 DEF Uses
<1>2. \A d, u \in SUBSET R : Inst(d, u) \in LineOf(R, L)
  BY LineTypes
<1>3. \A d, u \in SUBSET R : <<Inst(d, u)>> \in Seq(LineOf(R, L))
  BY <1>2
<1>4. <<>> \in Seq(LineOf(R, L)) /\ {} \in SUBSET R
  OBVIOUS
<1>5. /\ BaseTypes \subseteq Types /\ PtrTypes \subseteq Types /\ "i32" \in BaseTypes
      /\ \A ty \in BaseTypes : PtrTo[ty] \in PtrTypes
  BY DEF Types, BaseTypes, PtrTypes, PtrTo
<1>6. \A ty \in Types, n \in t..t + OpTemps(f, vs) - 1 : TempVal(ty, n) \in ValueOf(R)
  BY CtlTypes
<1>7. \A v \in ValueOf(R) : v.ty \in BaseTypes \cup PtrTypes =>
          /\ Yield(v) \in CtlOf(R) /\ Proper(Yield(v)) /\ Yield(v).mode = "val"
  BY CtlTypes DEF Proper, Yield
<1>8. Did(FALSE, NoValue) \in CtlOf(R) /\ Proper(Did(FALSE, NoValue)) /\ Did(FALSE, NoValue).mode = "did"
  BY CtlTypes DEF Proper, Did
<1>9. \A ty, n : TempVal(ty, n).ty = ty
  BY DEF TempVal, Value
<1>10. CASE f.form = "cmp"
  <2>1. Len(vs) = 2
    BY <1>10 DEF OperandTypes
  <2>2. CmpLines(f, vs, t) \in Seq(LineOf(R, L)) /\ Temp(t + 1) \in R
    BY <1>10, <2>1, CmpTypes
  <2>3. TempVal("i32", t + 1) \in ValueOf(R)
    BY <1>5, <2>2, CtlTypes
  <2> QED
    BY <1>5, <1>7, <1>9, <1>10, <2>2, <2>3 DEF OpLines, OpResult, Returns, ExprActivations
<1>11. CASE f.form = "logic"
  <2>1. OpTemps(f, vs) = 4 /\ Len(vs) = 2
    BY <1>11 DEF OpTemps, OperandTypes
  <2>2. Temp(t) \in R /\ Temp(t + 1) \in R /\ Temp(t + 2) \in R /\ Temp(t + 3) \in R
    BY <2>1
  <2>3. vs[1].reg \in SUBSET R /\ vs[2].reg \in SUBSET R
    <3>1. 1 \in 1..Len(vs) /\ 2 \in 1..Len(vs)
      BY <2>1
    <3>2. vs[1] \in ValueOf(R) /\ vs[2] \in ValueOf(R)
      BY <1>0, <3>1
    <3> QED
      BY <3>2 DEF ValueOf
  <2>4. LogicLines(vs, t) \in Seq(LineOf(R, L))
    BY <1>2, <2>2, <2>3 DEF LogicLines
  <2>5. TempVal("i32", t + 3) \in ValueOf(R)
    BY <1>5, <2>2, CtlTypes
  <2> QED
    BY <1>5, <1>7, <1>9, <1>11, <2>4, <2>5 DEF OpLines, OpResult, Returns, ExprActivations
<1>12. CASE f.form = "store"
  BY <1>1, <1>3, <1>4, <1>8, <1>12 DEF OpLines, OpResult, Returns, ExprActivations
<1>13. CASE f.form = "bitcast"
  <2>1. f.ty \in BaseTypes \cup PtrTypes /\ Len(vs) = 1
    BY <1>13 DEF WellFormed, OperandTypes
  <2>2. vs[1] \in ValueOf(R)
    BY <2>1
  <2>3. vs[1].ty # f.ty => Temp(t) \in R
    <3>1. vs[1].ty # f.ty => OpTemps(f, vs) = 1
      BY <1>13 DEF OpTemps
    <3> QED
      BY <3>1
  <2>4. OpLines(f, vs, t) \in Seq(LineOf(R, L))
    BY <1>1, <1>3, <1>4, <1>13, <2>3 DEF OpLines
  <2>5. vs[1].ty # f.ty => TempVal(f.ty, t) \in ValueOf(R)
    BY <1>5, <2>1, <2>3, CtlTypes
  <2> QED
    BY <1>7, <1>9, <1>13, <2>1, <2>2, <2>4, <2>5 DEF OpResult, Returns, ExprActivations
<1>14. CASE f.form = "call"
  <2>1. Fns[f.arg].ret \in BaseTypes \cup {"void"}
    <3>1. Fns[f.arg] \in FnRec
      BY <1>14, TypesAssumption
    <3> QED
      BY <3>1 DEF FnRec
  <2>2. Fns[f.arg].ret # "void" => Temp(t) \in R
    <3>1. Fns[f.arg].ret # "void" => OpTemps(f, vs) = 1
      BY <1>14 DEF OpTemps
    <3> QED
      BY <3>1
  <2>3. OpLines(f, vs, t) \in Seq(LineOf(R, L))
    BY <1>1, <1>3, <1>4, <1>14, <2>2 DEF OpLines
  <2>4. Fns[f.arg].ret # "void" => TempVal(Fns[f.arg].ret, t) \in ValueOf(R)
    BY <1>5, <2>1, <2>2, CtlTypes
  <2>5. Const(0) \in ValueOf(R) /\ Const(0).ty = "i32"
    BY CtlTypes DEF Const, Value
  <2> QED
    BY <1>5, <1>7, <1>9, <1>14, <2>1, <2>3, <2>4, <2>5 DEF OpResult, Returns, ExprActivations
<1>15. CASE f.form \in {"arith", "load", "ptr-add"}
  <2>1. OpTemps(f, vs) = 1
    BY <1>15 DEF OpTemps
  <2>2. Temp(t) \in R
    BY <2>1
  <2>3. OpLines(f, vs, t) \in Seq(LineOf(R, L))
    BY <1>1, <1>3, <1>15, <2>2 DEF OpLines
  <2>4. f.form # "arith" => f.ty \in BaseTypes
    BY <1>15 DEF WellFormed
  <2>5. \A ty \in Types : TempVal(ty, t) \in ValueOf(R)
    BY <2>2, CtlTypes
  <2> DEFINE Given(res) == res \in CtlOf(R) /\ Proper(res) /\ res.mode = "val"
  <2>6. \A ty \in BaseTypes \cup PtrTypes : Given(Yield(TempVal(ty, t)))
    BY <1>5, <1>7, <1>9, <2>5
  <2> HIDE DEF Given
  <2>7. Given(OpResult(f, vs, t))
    <3>1. \E ty \in BaseTypes \cup PtrTypes : OpResult(f, vs, t) = Yield(TempVal(ty, t))
      BY <1>5, <1>15, <2>4 DEF OpResult
    <3> QED
      BY <2>6, <3>1
  <2>8. Returns(f.form) = "val"
    BY <1>15 DEF Returns, ExprActivations
  <2> QED
    BY <2>3, <2>7, <2>8 DEF Given
<1> QED
  BY <1>10, <1>11, <1>12, <1>13, <1>14, <1>15 DEF OpForms

\* Temporaries taken by a step are registers after it.
LEMMA TempsTaken ==
    ASSUME TypeOK, NEW k \in Nat, ntemp' = ntemp + k,
           nlabel' \in Nat, nlabel <= nlabel', UNCHANGED env
    PROVE  Grows /\ \A n \in ntemp..ntemp + k - 1 : Temp(n) \in Registers'
<1>1. ntemp \in Nat /\ env \in Seq(ParamRec)
  BY DEF TypeOK
<1>2. Grows
  <2>1. ntemp' \in Nat /\ ntemp <= ntemp'
    BY <1>1
  <2> QED
    BY <1>1, <2>1 DEF Grows
<1>3. \A n \in ntemp..ntemp + k - 1 : n \in 0..(ntemp + k) - 1
  BY <1>1
<1> QED
  BY <1>2, <1>3 DEF Registers, RegistersOf

LEMMA CallsNoArgs ==
    ASSUME TypeInv, CallNoArgs
    PROVE  TypeInv'
<1>1. /\ TypeOK
      /\ ctl.mode \in {"expr", "list", "item"} /\ (Spend \/ UNCHANGED nodes)
      /\ stack' = stack /\ retTy' = retTy /\ nlabel' = nlabel /\ env' = env
  BY DEF TypeInv, CallNoArgs, ExprCalled
<1>2. stack # <<>> /\ Awaits("val", Top.form) /\ nodes' \in 0..MaxNodes
  BY <1>1, CalledFrom, SpendTypes
<1>3. PICK fn \in DOMAIN Fns :
          /\ Fns[fn].params = <<>>
          /\ ctl' = OpResult(Frame("call", fn), <<>>, ntemp)
          /\ Emit(OpLines(Frame("call", fn), <<>>, ntemp))
          /\ ntemp' = ntemp + OpTemps(Frame("call", fn), <<>>)
  BY DEF CallNoArgs
<1> DEFINE f == Frame("call", fn)
           k == OpTemps(f, <<>>)
<1>4. f.form = "call" /\ f.arg = fn /\ f.form \in OpForms
  BY DEF Frame, OpForms
<1>5. OperandTypes(f) = <<>>
  BY <1>3, <1>4 DEF OperandTypes
<1>6. ctl' = OpResult(f, <<>>, ntemp) /\ ntemp' = ntemp + k /\ code' = code \o OpLines(f, <<>>, ntemp)
  BY <1>3 DEF Emit
<1> HIDE DEF f
<1>7. k \in Nat
  <2>1. k \in 0..4
    BY <1>4, OpTempsType
  <2> QED
    BY <2>1
<1>8. Grows /\ \A n \in ntemp..ntemp + k - 1 : Temp(n) \in Registers'
  <2>1. nlabel' \in Nat /\ nlabel <= nlabel'
    BY <1>1 DEF TypeOK
  <2> HIDE DEF k
  <2> QED
    BY <1>1, <1>6, <1>7, <2>1, TempsTaken
<1>9. /\ OpLines(f, <<>>, ntemp) \in Seq(LineOf(Registers', 0..nlabel' - 1))
      /\ OpResult(f, <<>>, ntemp) \in CtlOf(Registers')
      /\ Proper(OpResult(f, <<>>, ntemp))
      /\ OpResult(f, <<>>, ntemp).mode = Returns(f.form)
  <2> DEFINE R2 == Registers'  L2 == 0..nlabel' - 1
  <2>1. \A n \in ntemp..ntemp + OpTemps(f, <<>>) - 1 : Temp(n) \in R2
    BY <1>8
  <2>2. ntemp \in Nat /\ Len(<<>>) = Len(OperandTypes(f)) /\ <<>> \in Seq(ValueOf(R2))
    BY <1>1, <1>5 DEF TypeOK
  <2> HIDE DEF R2, L2
  <2>3. /\ OpLines(f, <<>>, ntemp) \in Seq(LineOf(R2, L2))
        /\ OpResult(f, <<>>, ntemp) \in CtlOf(R2)
        /\ Proper(OpResult(f, <<>>, ntemp))
        /\ OpResult(f, <<>>, ntemp).mode = Returns(f.form)
    <3>1. (f.form # "call" => WellFormed(f)) /\ (f.form = "call" => f.arg \in DOMAIN Fns)
      BY <1>4
    <3>2. ASSUME NEW vs \in Seq(ValueOf(R2)), NEW t \in Nat,
                 Len(vs) = Len(OperandTypes(f)),
                 \A n \in t..t + OpTemps(f, vs) - 1 : Temp(n) \in R2
          PROVE  /\ OpLines(f, vs, t) \in Seq(LineOf(R2, L2))
                 /\ OpResult(f, vs, t) \in CtlOf(R2)
                 /\ Proper(OpResult(f, vs, t))
                 /\ OpResult(f, vs, t).mode = Returns(f.form)
      BY <1>4, <3>1, <3>2, OpTypes
    <3> HIDE DEF k
    <3> QED
      BY <2>1, <2>2, <3>2
  <2> QED
    BY <2>3 DEF R2, L2
<1>10. Appends /\ ctl' \in CtlOf(Registers') /\ Proper(ctl') /\ ctl'.mode = "val"
  BY <1>4, <1>6, <1>9 DEF Appends, Returns, ExprActivations
<1> QED
  BY <1>1, <1>2, <1>8, <1>10, StayStep

\* The type that the operand in hand is brought to.
TargetType ==
    LET target == OperandTypes(Top)[Len(Top.vals) + 1]
    IN IF target = "any" THEN ctl.val.ty ELSE target

LEMMA TargetTypes ==
    ASSUME TypeInv, ctl.mode = "val", Top.form \in OpForms
    PROVE  TargetType \in Types
<1> DEFINE f == Top
           target == OperandTypes(f)[Len(f.vals) + 1]
           ty == IF target = "any" THEN ctl.val.ty ELSE target
<1>1. /\ TypeOK /\ StackDiscipline /\ f.form \in OpForms /\ stack # <<>>
      /\ ntemp \in Nat /\ nlabel \in Nat
  BY DEF TypeInv, StackDiscipline, TypeOK
<1>2. f \in FrameOf(Registers) /\ WellFormed(f)
  <2>1. Len(stack) \in 1..Len(stack) /\ stack \in Seq(FrameOf(Registers))
    BY <1>1 DEF TypeOK
  <2> QED
    BY <1>1, <2>1 DEF StackDiscipline, Top
<1>3. /\ ctl.val \in ValueOf(Registers) /\ ctl.val.ty \in Types
      /\ f.vals \in Seq(ValueOf(Registers)) /\ f.form \in FrameForms
  BY <1>1, <1>2 DEF TypeOK, ValueOf, FrameOf
<1>4. Len(f.vals) < Len(OperandTypes(f)) /\ Len(f.vals) + 1 \in 1..Len(OperandTypes(f))
  <2>1. Len(f.vals) < Len(OperandTypes(f)) /\ Len(f.vals) \in Nat
    BY <1>1, <1>2, <1>3 DEF WellFormed
  <2>2. Len(OperandTypes(f)) \in Nat
    <3>1. f.form = "call" => Fns[f.arg].params \in Seq(BaseTypes)
      <4>1. f.form = "call" => Fns[f.arg] \in FnRec
        BY <1>2, TypesAssumption DEF WellFormed
      <4> QED
        BY <4>1 DEF FnRec
    <3> HIDE DEF f
    <3> QED
      BY <1>1, <3>1 DEF OperandTypes, OpForms
  <2> QED
    BY <2>1, <2>2
<1>5. ty \in Types
  <2>1. target \in Types \cup {"any"}
    <3>1. f.form = "call" => \A i \in 1..Len(Fns[f.arg].params) : Fns[f.arg].params[i] \in Types
      <4>1. f.form = "call" => Fns[f.arg] \in FnRec
        BY <1>2, TypesAssumption DEF WellFormed
      <4>2. f.form = "call" => Fns[f.arg].params \in Seq(BaseTypes)
        BY <4>1 DEF FnRec
      <4> QED
        BY <4>2 DEF Types
    <3>2. f.form = "store" => f.ty \in Types
      BY <1>2 DEF WellFormed, Types
    <3>3. "i32" \in Types
      BY DEF Types, BaseTypes
    <3>4. \A i \in 1..Len(OperandTypes(f)) : OperandTypes(f)[i] \in Types \cup {"any"}
      <4> HIDE DEF f
      <4> QED
        BY <1>1, <3>1, <3>2, <3>3 DEF OperandTypes, OpForms
    <3> QED
      BY <1>4, <3>4
  <2> QED
    BY <1>3, <2>1
<1> QED
  BY <1>5 DEF TargetType

LEMMA Operands ==
    ASSUME TypeInv, Operand
    PROVE  TypeInv'
<1> DEFINE target == OperandTypes(Top)[Len(Top.vals) + 1]
           ty  == IF target = "any" THEN ctl.val.ty ELSE target
           v   == Ensured(ctl.val, ty, ntemp)
           vs  == Append(Top.vals, v)
           k   == EnsureTemps(ctl.val, ty)
           t   == ntemp + k
           pre == EnsureLines(ctl.val, ty, ntemp)
           f   == Top
<1>1. /\ TypeOK /\ StackDiscipline /\ ctl.mode = "val" /\ f.form \in OpForms /\ stack # <<>>
      /\ ntemp \in Nat /\ nlabel \in Nat
  BY DEF TypeInv, Operand, StackDiscipline, TypeOK
<1>2. f \in FrameOf(Registers) /\ WellFormed(f)
  <2>1. Len(stack) \in 1..Len(stack) /\ stack \in Seq(FrameOf(Registers))
    BY <1>1 DEF TypeOK
  <2> QED
    BY <1>1, <2>1 DEF StackDiscipline, Top
<1>3. /\ ctl.val \in ValueOf(Registers) /\ ctl.val.ty \in Types
      /\ f.vals \in Seq(ValueOf(Registers)) /\ f.form \in FrameForms
  BY <1>1, <1>2 DEF TypeOK, ValueOf, FrameOf
<1>5. ty \in Types
  BY <1>1, TargetTypes DEF TargetType
<1>6. k \in {0, 1} /\ (ctl.val.ty = ty \/ k = 1)
  BY DEF EnsureTemps
<1>7. CASE ~Fits(ctl.val, ty) /\ Fatal
  BY <1>1, <1>7, Fatals
<1>8. CASE /\ Fits(ctl.val, ty)
           /\ Len(vs) < Len(OperandTypes(f))
           /\ Goto([f EXCEPT !.vals = vs])
           /\ ctl' = Call("expr")
           /\ Emit(pre)
           /\ ntemp' = t
           /\ UNCHANGED <<nlabel, env, retTy, nodes>>
  <2>1. Grows /\ \A n \in ntemp..ntemp + k - 1 : Temp(n) \in Registers'
    <3>1. nlabel' \in Nat /\ nlabel <= nlabel' /\ k \in Nat /\ ntemp' = ntemp + k /\ env' = env
      BY <1>1, <1>6, <1>8
    <3> HIDE DEF k
    <3> QED
      BY <1>1, <3>1, TempsTaken
  <2>2. ctl.val.ty = ty \/ Temp(ntemp) \in Registers'
    BY <1>1, <1>6, <2>1
  <2>3. ctl.val \in ValueOf(Registers') /\ f.vals \in Seq(ValueOf(Registers'))
    <3>1. ValueOf(Registers) \subseteq ValueOf(Registers')
      BY <1>1, <2>1, NextTypes
    <3> QED
      BY <1>3, <3>1
  <2>4. v \in ValueOf(Registers') /\ pre \in Seq(LineOf(Registers', 0..nlabel' - 1))
    <3> DEFINE R2 == Registers'  L2 == 0..nlabel' - 1
    <3>1. ctl.val.ty = ty \/ Temp(ntemp) \in R2
      BY <2>2
    <3>2. ctl.val \in ValueOf(R2)
      BY <2>3
    <3> HIDE DEF R2, L2
    <3>3. v \in ValueOf(R2) /\ pre \in Seq(LineOf(R2, L2))
      <4> HIDE DEF ty
      <4> QED
        BY <1>1, <1>5, <3>1, <3>2, EnsuredType
    <3> QED
      BY <3>3 DEF R2, L2
  <2>5. Appends
    BY <1>8, <2>4 DEF Appends, Emit
  <2>6. vs \in Seq(ValueOf(Registers')) /\ Len(vs) \in Nat
    BY <2>3, <2>4
  <2> DEFINE g == [f EXCEPT !.vals = vs]
  <2>7. g \in FrameOf(Registers') /\ g.form = f.form /\ g.vals = vs /\ g.arg = f.arg /\ g.ty = f.ty
    <3> HIDE DEF vs
    <3> QED
      BY <1>2, <2>6 DEF FrameOf
  <2>8. f.form \notin ListForms /\ f.form \in ValueForms /\ f.form # "body"
    BY <1>1 DEF OpForms, ListForms, ValueForms, FrameForms, StmtWaiters
  <2>9. WellFormed(g)
    <3>1. OperandTypes(g) = OperandTypes(f)
      BY <2>7 DEF OperandTypes
    <3>2. Len(g.vals) < Len(OperandTypes(g))
      BY <1>8, <2>7, <3>1
    <3> HIDE DEF g, f, vs
    <3> QED
      BY <1>2, <2>7, <2>8, <3>2 DEF WellFormed
  <2>10. ctl' \in CtlOf(Registers') /\ Proper(ctl') /\ Awaits(ctl'.mode, g.form)
    <3>1. ctl' = Call("expr")
      BY <1>8
    <3> HIDE DEF g
    <3> QED
      BY <3>1, <2>7, <2>8, CtlTypes DEF Modes, Proper, Call, Awaits
  <2>11. nodes' \in 0..MaxNodes /\ retTy' = retTy /\ Goto(g)
    BY <1>1, <1>8, SpendTypes
  <2> HIDE DEF g, f
  <2> QED
    BY <1>1, <2>1, <2>5, <2>7, <2>8, <2>9, <2>10, <2>11, GotoStep DEF f
<1>9. CASE /\ Fits(ctl.val, ty)
           /\ Len(vs) = Len(OperandTypes(f))
           /\ OpAccepts(f, vs)
           /\ stack' = Below
           /\ ctl' = OpResult(f, vs, t)
           /\ Emit(pre \o OpLines(f, vs, t))
           /\ ntemp' = t + OpTemps(f, vs)
           /\ UNCHANGED <<nlabel, env, retTy, nodes>>
  <2> DEFINE m == OpTemps(f, vs)
  <2>1. m \in 0..4
    BY <1>1, OpTempsType
  <2>2. k + m \in Nat /\ ntemp' = ntemp + (k + m) /\ t \in Nat
    <3>1. ntemp' = ntemp + k + m
      BY <1>9
    <3> HIDE DEF k, m
    <3> QED
      BY <1>1, <1>6, <2>1, <3>1
  <2>3. Grows /\ \A n \in ntemp..ntemp + (k + m) - 1 : Temp(n) \in Registers'
    <3>1. nlabel' \in Nat /\ nlabel <= nlabel' /\ env' = env
      BY <1>1, <1>9
    <3> DEFINE km == k + m
    <3>2. km \in Nat /\ ntemp' = ntemp + km
      BY <2>2
    <3> HIDE DEF km
    <3>3. Grows /\ \A n \in ntemp..ntemp + km - 1 : Temp(n) \in Registers'
      BY <1>1, <3>1, <3>2, TempsTaken
    <3> QED
      BY <3>3 DEF km
  <2>4. ctl.val.ty = ty \/ Temp(ntemp) \in Registers'
    <3>1. k = 1 => ntemp \in ntemp..ntemp + (k + m) - 1
      <4> HIDE DEF k, m
      <4> QED
        BY <1>1, <2>1
    <3> QED
      BY <1>6, <2>3, <3>1
  <2>5. \A n \in t..t + m - 1 : Temp(n) \in Registers'
    <3>1. \A n \in t..t + m - 1 : n \in ntemp..ntemp + (k + m) - 1
      <4> HIDE DEF k, m
      <4> QED
        BY <1>1, <1>6, <2>1
    <3> QED
      BY <2>3, <3>1
  <2>6. ctl.val \in ValueOf(Registers') /\ f.vals \in Seq(ValueOf(Registers'))
    <3>1. ValueOf(Registers) \subseteq ValueOf(Registers')
      BY <1>1, <2>3, NextTypes
    <3> QED
      BY <1>3, <3>1
  <2> DEFINE R2 == Registers'  L2 == 0..nlabel' - 1
  <2>7. v \in ValueOf(R2) /\ pre \in Seq(LineOf(R2, L2))
    <3>1. (ctl.val.ty = ty \/ Temp(ntemp) \in R2) /\ ctl.val \in ValueOf(R2)
      BY <2>4, <2>6
    <3> HIDE DEF R2, L2, ty
    <3> QED
      BY <1>1, <1>5, <3>1, EnsuredType
  <2>8. vs \in Seq(ValueOf(R2))
    BY <2>6, <2>7
  <2>9. f.form = "call" => f.arg \in DOMAIN Fns
    BY <1>2 DEF WellFormed
  <2>10. Len(vs) = Len(OperandTypes(f)) /\ ctl' = OpResult(f, vs, t) /\ \A n \in t..t + m - 1 : Temp(n) \in R2
    BY <1>9, <2>5
  <2>11. /\ OpLines(f, vs, t) \in Seq(LineOf(R2, L2))
         /\ OpResult(f, vs, t) \in CtlOf(R2)
         /\ Proper(OpResult(f, vs, t))
         /\ OpResult(f, vs, t).mode = Returns(f.form)
    <3>1. f.form \in OpForms /\ WellFormed(f) /\ t \in Nat
      BY <1>1, <1>2, <2>2
    <3>2. \A n \in t..t + OpTemps(f, vs) - 1 : Temp(n) \in R2
      BY <2>10
    <3> HIDE DEF R2, L2, f, vs, t, m
    <3> QED
      BY <2>8, <2>9, <2>10, <3>1, <3>2, OpTypes
  <2>12. Appends
    <3>1. code' = code \o (pre \o OpLines(f, vs, t))
      BY <1>9 DEF Emit
    <3> DEFINE ls == OpLines(f, vs, t)
    <3>2. pre \o ls \in Seq(LineOf(R2, L2))
      <4>1. pre \in Seq(LineOf(R2, L2)) /\ ls \in Seq(LineOf(R2, L2))
        BY <2>7, <2>11
      <4> HIDE DEF pre, ls, R2, L2
      <4> QED
        BY <4>1
    <3> QED
      BY <3>1, <3>2 DEF Appends
  <2>13. f.form # "body" /\ stack' = Below /\ nodes' \in 0..MaxNodes /\ retTy' = retTy
    BY <1>1, <1>9, SpendTypes DEF OpForms
  <2> QED
    BY <1>1, <2>3, <2>10, <2>11, <2>12, <2>13, FinishStep
<1>10. CASE Fits(ctl.val, ty) /\ Len(vs) = Len(OperandTypes(f)) /\ ~OpAccepts(f, vs) /\ Fatal
  BY <1>1, <1>10, Fatals
<1> QED
  BY <1>7, <1>8, <1>9, <1>10 DEF Operand

-----------------------------------------------------------------------------
(* Statements that consume a value, and branches.                          *)

LEMMA TopFacts ==
    ASSUME TypeInv, ctl.mode # "done"
    PROVE  /\ stack # <<>> /\ TypeOK /\ StackDiscipline
           /\ Top \in FrameOf(Registers) /\ WellFormed(Top)
           /\ Top.lab \in Nat /\ Top.form \in FrameForms
           /\ ctl.val \in ValueOf(Registers) /\ ctl.val.reg \in SUBSET Registers
           /\ ctl.ret \in BOOLEAN
           /\ ntemp \in Nat /\ nlabel \in Nat /\ env \in Seq(ParamRec) /\ Len(env) \in Nat
<1>1. stack # <<>> /\ TypeOK /\ StackDiscipline
  BY DEF TypeInv, StackDiscipline
<1>2. Top \in FrameOf(Registers) /\ WellFormed(Top)
  <2>1. Len(stack) \in 1..Len(stack) /\ stack \in Seq(FrameOf(Registers))
    BY <1>1 DEF TypeOK
  <2> QED
    BY <1>1, <2>1 DEF StackDiscipline, Top
<1>3. ctl.val \in ValueOf(Registers) /\ ctl.ret \in BOOLEAN
  BY <1>1 DEF TypeOK
<1>4. ntemp \in Nat /\ nlabel \in Nat /\ env \in Seq(ParamRec) /\ Len(env) \in Nat
  BY <1>1 DEF TypeOK
<1> QED
  BY <1>1, <1>2, <1>3, <1>4 DEF FrameOf, ValueOf

\* Statements that end with one line over registers that exist already.
LEMMA OneLine ==
    ASSUME TypeOK, NEW line, line \in LineOf(Registers, 0..nlabel - 1),
           Emit(<<line>>), UNCHANGED <<ntemp, nlabel, env>>
    PROVE  Grows /\ Appends /\ Registers' = Registers
<1>1. Grows /\ Registers' = Registers /\ nlabel' = nlabel
  BY UnchangedGrows
<1>2. <<line>> \in Seq(LineOf(Registers', 0..nlabel' - 1))
  BY <1>1
<1> QED
  BY <1>1, <1>2 DEF Emit, Appends

LEMMA Returning ==
    ASSUME TypeInv, Return
    PROVE  TypeInv'
<1>1. ctl.mode = "val" /\ Top.form = "return"
  BY DEF Return, Valued
<1>2. /\ stack # <<>> /\ TypeOK /\ ctl.val \in ValueOf(Registers)
      /\ ctl.val.reg \in SUBSET Registers
  BY <1>1, TopFacts
<1> DEFINE line == Ret(IF ReturnType = "void" THEN {} ELSE ctl.val.reg)
<1>3. line \in LineOf(Registers, 0..nlabel - 1)
  BY <1>2, LineTypes
<1>4. Grows /\ Appends /\ Registers' = Registers
  BY <1>2, <1>3, OneLine DEF Return
<1>5. ctl' = Did(TRUE, ctl.val) /\ stack' = Below /\ nodes' \in 0..MaxNodes /\ retTy' = retTy
  BY <1>2, SpendTypes DEF Return, Finish
<1>6. ctl' \in CtlOf(Registers') /\ Proper(ctl') /\ ctl'.mode = Returns(Top.form) /\ Top.form # "body"
  BY <1>1, <1>2, <1>4, <1>5, CtlTypes DEF Proper, Did, Returns, ExprActivations
<1> QED
  BY <1>2, <1>4, <1>5, <1>6, FinishStep

LEMMA Setting ==
    ASSUME TypeInv, Set
    PROVE  TypeInv'
<1>1. ctl.mode = "val" /\ Top.form = "set"
  BY DEF Set, Valued
<1>2. /\ stack # <<>> /\ TypeOK /\ ctl.val \in ValueOf(Registers)
      /\ ctl.val.reg \in SUBSET Registers /\ WellFormed(Top)
  BY <1>1, TopFacts
<1>3. EnvSlot(env, Top.arg) \in Registers
  BY <1>1, <1>2, EnvTypesNow DEF WellFormed
<1> DEFINE line == Inst({}, ctl.val.reg \cup {EnvSlot(env, Top.arg)})
<1>4. line \in LineOf(Registers, 0..nlabel - 1)
  BY <1>2, <1>3, LineTypes
<1>5. Grows /\ Appends /\ Registers' = Registers
  BY <1>2, <1>4, OneLine DEF Set
<1>6. ctl' = Did(FALSE, NoValue) /\ stack' = Below /\ nodes' \in 0..MaxNodes /\ retTy' = retTy
  BY <1>2, SpendTypes DEF Set, Finish
<1>7. ctl' \in CtlOf(Registers') /\ Proper(ctl') /\ ctl'.mode = Returns(Top.form) /\ Top.form # "body"
  BY <1>1, <1>6, CtlTypes DEF Proper, Did, Returns, ExprActivations
<1> QED
  BY <1>2, <1>5, <1>6, <1>7, FinishStep

LEMMA ExprStmts ==
    ASSUME TypeInv, ExprStmt
    PROVE  TypeInv'
<1>1. ctl.mode = "val" /\ Top.form = "expr"
  BY DEF ExprStmt, Valued
<1>2. stack # <<>> /\ TypeOK /\ ctl.val \in ValueOf(Registers)
  BY <1>1, TopFacts
<1>3. Grows /\ Registers' = Registers /\ Appends /\ nodes' \in 0..MaxNodes
  BY <1>2, UnchangedGrows, SpendTypes DEF ExprStmt, Appends
<1>4. ctl' = Did(FALSE, ctl.val) /\ stack' = Below /\ retTy' = retTy
  BY DEF ExprStmt, Finish
<1>5. ctl' \in CtlOf(Registers') /\ Proper(ctl') /\ ctl'.mode = Returns(Top.form) /\ Top.form # "body"
  BY <1>1, <1>2, <1>3, <1>4, CtlTypes DEF Proper, Did, Returns, ExprActivations
<1> QED
  BY <1>2, <1>3, <1>4, <1>5, FinishStep

\* A condition converts its value and branches on the result.
LEMMA CondTypes ==
    ASSUME NEW R, NEW L, NEW v \in ValueOf(R), NEW t \in Nat, NEW a \in L, NEW b \in L,
           \A n \in t..t + (EnsureTemps(v, "i32") + 1) - 1 : Temp(n) \in R
    PROVE  CondLines(v, t, a, b) \in Seq(LineOf(R, L))
<1> DEFINE k == EnsureTemps(v, "i32")
           e == Ensured(v, "i32", t)
           l1 == EnsureLines(v, "i32", t)
           l2 == <<Inst({Temp(t + k)}, e.reg), CondBr(Temp(t + k), a, b)>>
<1>1. k \in {0, 1} /\ (v.ty = "i32" \/ k = 1) /\ "i32" \in Types
  BY DEF EnsureTemps, Types, BaseTypes
<1>2. Temp(t + k) \in R /\ (v.ty = "i32" \/ Temp(t) \in R)
  <2>1. t + k \in t..t + (k + 1) - 1 /\ (k = 1 => t \in t..t + (k + 1) - 1)
    <3> HIDE DEF k
    <3> QED
      BY <1>1
  <2> QED
    BY <1>1, <2>1
<1>3. e.reg \subseteq R /\ l1 \in Seq(LineOf(R, L))
  BY <1>1, <1>2, EnsuredType
<1>4. l2 \in Seq(LineOf(R, L))
  <2>1. Inst({Temp(t + k)}, e.reg) \in LineOf(R, L) /\ CondBr(Temp(t + k), a, b) \in LineOf(R, L)
    BY <1>2, <1>3, LineTypes
  <2> QED
    BY <2>1
<1>5. CondLines(v, t, a, b) = l1 \o l2
  BY DEF CondLines
<1> HIDE DEF l1, l2
<1> QED
  BY <1>3, <1>4, <1>5

\* The frame of an activation that goes on.
LEMMA FrameSame ==
    ASSUME NEW R, NEW f \in FrameOf(R)
    PROVE  /\ \A form \in FrameForms, l \in Nat :
                 LET g == [f EXCEPT !.form = form, !.lab = l]
                 IN g \in FrameOf(R) /\ g.form = form /\ g.lab = l
           /\ \A form \in FrameForms, r \in BOOLEAN :
                 LET g == [f EXCEPT !.form = form, !.ret = r]
                 IN g \in FrameOf(R) /\ g.form = form /\ g.ret = r /\ g.lab = f.lab
           /\ \A form \in FrameForms :
                 LET g == [f EXCEPT !.form = form]
                 IN g \in FrameOf(R) /\ g.form = form /\ g.lab = f.lab
BY DEF FrameOf

\* The labels of an activation are labels that were handed out.
BranchForms == {"if-then", "if-else", "while-cond", "while-body"}
LabelsHeld == \A i \in DOMAIN stack : stack[i].form \in BranchForms => stack[i].lab + 3 <= nlabel

LEMMA JumpStep ==
    ASSUME NEW R, NEW L, NEW a \in L, NEW r \in BOOLEAN
    PROVE  /\ JumpUnless(r, a) \in Seq(LineOf(R, L))
           /\ \A b \in L : JumpUnless(r, a) \o <<LabelDef(b)>> \in Seq(LineOf(R, L))
<1>1. JumpUnless(r, a) \in Seq(LineOf(R, L))
  <2>1. <<>> \in Seq(LineOf(R, L))
    OBVIOUS
  <2> QED
    BY <2>1, JumpTypes DEF JumpUnless
<1>2. \A b \in L : <<LabelDef(b)>> \in Seq(LineOf(R, L))
  BY JumpTypes
<1> QED
  BY <1>1, <1>2

\* The three labels of the activation on top.
LEMMA TopLabels ==
    ASSUME TypeInv, LabelsHeld, ctl.mode # "done", Top.form \in BranchForms
    PROVE  /\ Top.lab \in 0..nlabel - 1
           /\ Top.lab + 1 \in 0..nlabel - 1
           /\ Top.lab + 2 \in 0..nlabel - 1
<1>1. stack # <<>> /\ TypeOK /\ Top.lab \in Nat /\ nlabel \in Nat
  BY TopFacts
<1>2. Top.lab + 3 <= nlabel
  <2>1. Len(stack) \in DOMAIN stack
    BY <1>1 DEF TypeOK
  <2> QED
    BY <2>1 DEF LabelsHeld, Top
<1> QED
  BY <1>1, <1>2

LEMMA IfConds ==
    ASSUME TypeInv, IfCond
    PROVE  TypeInv'
<1>1. ctl.mode = "val" /\ Top.form = "if-cond"
  BY DEF IfCond, Valued
<1>2. /\ stack # <<>> /\ TypeOK /\ Top \in FrameOf(Registers) /\ WellFormed(Top)
      /\ ctl.val \in ValueOf(Registers) /\ ntemp \in Nat /\ nlabel \in Nat
  BY <1>1, TopFacts
<1>3. CASE ~Fits(ctl.val, "i32") /\ Fatal
  BY <1>2, <1>3, Fatals
<1>4. CASE ~(~Fits(ctl.val, "i32") /\ Fatal)
  <2> DEFINE k == EnsureTemps(ctl.val, "i32")
             f == [Top EXCEPT !.form = "if-then", !.lab = nlabel]
             lines == CondLines(ctl.val, ntemp, nlabel, nlabel + 1)
  <2>1. /\ code' = code \o (lines \o <<LabelDef(nlabel)>>)
        /\ Goto(f) /\ ntemp' = ntemp + k + 1 /\ nlabel' = nlabel + 3
        /\ ctl' = Call("stmt") /\ UNCHANGED <<env, retTy, nodes>>
    BY <1>4 DEF IfCond, Emit, FreshLabels
  <2>2. k + 1 \in Nat /\ ntemp' = ntemp + (k + 1)
    <3>1. k \in {0, 1}
      BY DEF EnsureTemps
    <3> HIDE DEF k
    <3> QED
      BY <1>2, <2>1, <3>1
  <2>3. Grows /\ \A n \in ntemp..ntemp + (k + 1) - 1 : Temp(n) \in Registers'
    <3>1. nlabel' \in Nat /\ nlabel <= nlabel' /\ env' = env
      BY <1>2, <2>1
    <3> DEFINE m == k + 1
    <3>2. m \in Nat /\ ntemp' = ntemp + m
      BY <2>2
    <3> HIDE DEF m
    <3>3. Grows /\ \A n \in ntemp..ntemp + m - 1 : Temp(n) \in Registers'
      BY <1>2, <3>1, <3>2, TempsTaken
    <3> QED
      BY <3>3 DEF m
  <2>4. nlabel \in 0..nlabel' - 1 /\ nlabel + 1 \in 0..nlabel' - 1
    BY <1>2, <2>1
  <2>5. ctl.val \in ValueOf(Registers') /\ Top \in FrameOf(Registers')
    <3>1. Registers \subseteq Registers'
      BY <1>2, <2>3, RegistersKept
    <3>2. Seq(ValueOf(Registers)) \subseteq Seq(ValueOf(Registers')) /\ ValueOf(Registers) \subseteq ValueOf(Registers')
      BY <3>1, MonotoneFrames
    <3> QED
      BY <1>2, <3>2 DEF FrameOf
  <2> DEFINE R2 == Registers'  L2 == 0..nlabel' - 1
  <2>6. lines \in Seq(LineOf(R2, L2)) /\ <<LabelDef(nlabel)>> \in Seq(LineOf(R2, L2))
    <3>1. nlabel \in L2 /\ nlabel + 1 \in L2
      BY <2>4
    <3>2. ctl.val \in ValueOf(R2) /\ \A n \in ntemp..ntemp + (k + 1) - 1 : Temp(n) \in R2
      BY <2>3, <2>5
    <3> HIDE DEF R2, L2
    <3> QED
      BY <1>2, <3>1, <3>2, CondTypes, JumpTypes
  <2>7. Appends
    <3>1. lines \o <<LabelDef(nlabel)>> \in Seq(LineOf(R2, L2))
      <4> HIDE DEF lines, R2, L2
      <4> QED
        BY <2>6
    <3> QED
      BY <2>1, <3>1 DEF Appends
  <2>8. f \in FrameOf(Registers') /\ f.form = "if-then"
    <3>1. "if-then" \in FrameForms
      BY DEF FrameForms
    <3>2. nlabel \in Nat /\ Top \in FrameOf(Registers')
      BY <1>2, <2>5
    <3> QED
      BY <3>1, <3>2 DEF FrameOf
  <2> HIDE DEF f
  <2>9. WellFormed(f)
    BY <2>8 DEF WellFormed, ListForms, OpForms
  <2>10. ctl' \in CtlOf(Registers') /\ Proper(ctl') /\ Awaits(ctl'.mode, f.form)
    BY <2>1, <2>8, CtlTypes DEF Modes, Proper, Call, Awaits, StmtWaiters
  <2>11. nodes' \in 0..MaxNodes /\ Returns(f.form) = Returns(Top.form) /\ (f.form = "body" <=> Top.form = "body")
    BY <1>1, <1>2, <2>1, <2>8, SpendTypes DEF Returns, ExprActivations
  <2> QED
    BY <1>2, <2>1, <2>3, <2>7, <2>8, <2>9, <2>10, <2>11, GotoStep
<1> QED
  BY <1>3, <1>4

LEMMA IfThens ==
    ASSUME TypeInv, LabelsHeld, IfThen
    PROVE  TypeInv'
<1>1. ctl.mode = "did" /\ Top.form = "if-then"
  BY DEF IfThen
<1>2. /\ stack # <<>> /\ TypeOK /\ Top \in FrameOf(Registers) /\ ctl.ret \in BOOLEAN
  BY <1>1, TopFacts
<1>3. Top.lab + 1 \in 0..nlabel - 1 /\ Top.lab + 2 \in 0..nlabel - 1
  BY <1>1, TopLabels DEF BranchForms
<1>4. Grows /\ Registers' = Registers /\ nlabel' = nlabel
  BY <1>2, UnchangedGrows DEF IfThen
<1>5. Appends
  <2>1. JumpUnless(ctl.ret, Top.lab + 2) \o <<LabelDef(Top.lab + 1)>> \in Seq(LineOf(Registers', 0..nlabel' - 1))
    BY <1>2, <1>3, <1>4, JumpStep
  <2> QED
    BY <2>1 DEF Appends, IfThen, Emit
<1> DEFINE f == [Top EXCEPT !.form = "if-else", !.ret = ctl.ret]
<1>6. f \in FrameOf(Registers') /\ f.form = "if-else"
  <2>1. "if-else" \in FrameForms
    BY DEF FrameForms
  <2>2. Top \in FrameOf(Registers') /\ ctl.ret \in BOOLEAN
    BY <1>2, <1>4
  <2> QED
    BY <2>1, <2>2 DEF FrameOf
<1>7. Goto(f) /\ ctl' = Call("stmt") /\ retTy' = retTy /\ nodes' \in 0..MaxNodes
  BY <1>2, SpendTypes DEF IfThen
<1> HIDE DEF f
<1>8. WellFormed(f) /\ Returns(f.form) = Returns(Top.form) /\ (f.form = "body" <=> Top.form = "body")
  BY <1>1, <1>6 DEF WellFormed, ListForms, OpForms, Returns, ExprActivations
<1>9. ctl' \in CtlOf(Registers') /\ Proper(ctl') /\ Awaits(ctl'.mode, f.form)
  BY <1>6, <1>7, CtlTypes DEF Modes, Proper, Call, Awaits, StmtWaiters
<1> QED
  BY <1>2, <1>4, <1>5, <1>6, <1>7, <1>8, <1>9, GotoStep

LEMMA IfElses ==
    ASSUME TypeInv, LabelsHeld, IfElse
    PROVE  TypeInv'
<1>1. ctl.mode = "did" /\ Top.form = "if-else"
  BY DEF IfElse
<1>2. /\ stack # <<>> /\ TypeOK /\ Top \in FrameOf(Registers) /\ ctl.ret \in BOOLEAN /\ Top.ret \in BOOLEAN
  BY <1>1, TopFacts DEF FrameOf
<1>3. Top.lab + 2 \in 0..nlabel - 1
  BY <1>1, TopLabels DEF BranchForms
<1>4. Grows /\ Registers' = Registers /\ nlabel' = nlabel
  BY <1>2, UnchangedGrows DEF IfElse
<1> DEFINE both == Top.ret /\ ctl.ret
           jump == JumpUnless(ctl.ret, Top.lab + 2)
           end == IF both THEN <<>> ELSE <<LabelDef(Top.lab + 2)>>
<1>5. Appends
  <2>1. jump \in Seq(LineOf(Registers', 0..nlabel' - 1)) /\ end \in Seq(LineOf(Registers', 0..nlabel' - 1))
    <3>1. <<>> \in Seq(LineOf(Registers', 0..nlabel' - 1))
      OBVIOUS
    <3> QED
      BY <1>2, <1>3, <1>4, <3>1, JumpStep, JumpTypes
  <2>2. code' = code \o (jump \o end)
    BY DEF IfElse, Emit, BothReturned
  <2> DEFINE all == jump \o end
  <2>3. all \in Seq(LineOf(Registers', 0..nlabel' - 1))
    <3> HIDE DEF jump, end
    <3> QED
      BY <2>1
  <2> HIDE DEF all
  <2>4. code' = code \o all
    BY <2>2 DEF all
  <2> QED
    BY <2>3, <2>4 DEF Appends
<1>6. ctl' = Did(both, NoValue) /\ both \in BOOLEAN /\ stack' = Below /\ retTy' = retTy /\ nodes' \in 0..MaxNodes
  BY <1>2, SpendTypes DEF IfElse, Finish, BothReturned, BranchValue
<1>7. ctl' \in CtlOf(Registers') /\ Proper(ctl') /\ ctl'.mode = Returns(Top.form) /\ Top.form # "body"
  BY <1>1, <1>6, CtlTypes DEF Proper, Did, Returns, ExprActivations
<1> QED
  BY <1>2, <1>4, <1>5, <1>6, <1>7, FinishStep

LEMMA WhileBodies ==
    ASSUME TypeInv, LabelsHeld, WhileBody
    PROVE  TypeInv'
<1>1. ctl.mode = "did" /\ Top.form = "while-body"
  BY DEF WhileBody
<1>2. stack # <<>> /\ TypeOK /\ ctl.ret \in BOOLEAN
  BY <1>1, TopFacts
<1>3. Top.lab \in 0..nlabel - 1 /\ Top.lab + 2 \in 0..nlabel - 1
  BY <1>1, TopLabels DEF BranchForms
<1>4. Grows /\ Registers' = Registers /\ nlabel' = nlabel
  BY <1>2, UnchangedGrows DEF WhileBody
<1>5. Appends
  <2>1. JumpUnless(ctl.ret, Top.lab) \o <<LabelDef(Top.lab + 2)>> \in Seq(LineOf(Registers', 0..nlabel' - 1))
    BY <1>2, <1>3, <1>4, JumpStep
  <2> QED
    BY <2>1 DEF Appends, WhileBody, Emit, LoopHead
<1>6. ctl' = Did(FALSE, NoValue) /\ stack' = Below /\ retTy' = retTy /\ nodes' \in 0..MaxNodes
  BY <1>2, SpendTypes DEF WhileBody, Finish, LoopReturned
<1>7. ctl' \in CtlOf(Registers') /\ Proper(ctl') /\ ctl'.mode = Returns(Top.form) /\ Top.form # "body"
  BY <1>1, <1>6, CtlTypes DEF Proper, Did, Returns, ExprActivations
<1> QED
  BY <1>2, <1>4, <1>5, <1>6, <1>7, FinishStep

LEMMA WhileConds ==
    ASSUME TypeInv, LabelsHeld, WhileCond
    PROVE  TypeInv'
<1>1. ctl.mode = "val" /\ Top.form = "while-cond"
  BY DEF WhileCond, Valued
<1>2. /\ stack # <<>> /\ TypeOK /\ Top \in FrameOf(Registers) /\ WellFormed(Top)
      /\ ctl.val \in ValueOf(Registers) /\ ntemp \in Nat /\ nlabel \in Nat
  BY <1>1, TopFacts
<1>3. Top.lab + 1 \in 0..nlabel - 1 /\ Top.lab + 2 \in 0..nlabel - 1
  BY <1>1, TopLabels DEF BranchForms
<1>4. CASE ~Fits(ctl.val, "i32") /\ Fatal
  BY <1>2, <1>4, Fatals
<1>5. CASE ~(~Fits(ctl.val, "i32") /\ Fatal)
  <2> DEFINE k == EnsureTemps(ctl.val, "i32")
             f == [Top EXCEPT !.form = "while-body"]
             lines == CondLines(ctl.val, ntemp, Top.lab + 1, Top.lab + 2)
             all == lines \o <<LabelDef(Top.lab + 1)>>
  <2>1. /\ code' = code \o all
        /\ Goto(f) /\ ntemp' = ntemp + k + 1
        /\ ctl' = Call("stmt") /\ UNCHANGED <<nlabel, env, retTy, nodes>>
    BY <1>5 DEF WhileCond, Emit
  <2>2. k + 1 \in Nat /\ ntemp' = ntemp + (k + 1)
    <3>1. k \in {0, 1}
      BY DEF EnsureTemps
    <3> HIDE DEF k
    <3> QED
      BY <1>2, <2>1, <3>1
  <2>3. Grows /\ \A n \in ntemp..ntemp + (k + 1) - 1 : Temp(n) \in Registers'
    <3>1. nlabel' \in Nat /\ nlabel <= nlabel' /\ env' = env
      BY <1>2, <2>1
    <3> DEFINE m == k + 1
    <3>2. m \in Nat /\ ntemp' = ntemp + m
      BY <2>2
    <3> HIDE DEF m
    <3>3. Grows /\ \A n \in ntemp..ntemp + m - 1 : Temp(n) \in Registers'
      BY <1>2, <3>1, <3>2, TempsTaken
    <3> QED
      BY <3>3 DEF m
  <2>4. Top.lab + 1 \in 0..nlabel' - 1 /\ Top.lab + 2 \in 0..nlabel' - 1
    BY <1>3, <2>1
  <2>5. ctl.val \in ValueOf(Registers') /\ Top \in FrameOf(Registers')
    <3>1. Registers \subseteq Registers'
      BY <1>2, <2>3, RegistersKept
    <3>2. Seq(ValueOf(Registers)) \subseteq Seq(ValueOf(Registers')) /\ ValueOf(Registers) \subseteq ValueOf(Registers')
      BY <3>1, MonotoneFrames
    <3> QED
      BY <1>2, <3>2 DEF FrameOf
  <2> DEFINE R2 == Registers'  L2 == 0..nlabel' - 1
  <2>6. lines \in Seq(LineOf(R2, L2)) /\ <<LabelDef(Top.lab + 1)>> \in Seq(LineOf(R2, L2))
    <3> DEFINE a == Top.lab + 1  b == Top.lab + 2
    <3>1. a \in L2 /\ b \in L2
      BY <2>4
    <3>2. ctl.val \in ValueOf(R2) /\ \A n \in ntemp..ntemp + (k + 1) - 1 : Temp(n) \in R2
      BY <2>3, <2>5
    <3> HIDE DEF R2, L2, a, b
    <3>3. CondLines(ctl.val, ntemp, a, b) \in Seq(LineOf(R2, L2)) /\ <<LabelDef(a)>> \in Seq(LineOf(R2, L2))
      BY <1>2, <3>1, <3>2, CondTypes, JumpTypes
    <3> QED
      BY <3>3 DEF a, b
  <2>7. Appends
    <3>1. all \in Seq(LineOf(R2, L2))
      <4> HIDE DEF lines, R2, L2
      <4> QED
        BY <2>6
    <3> HIDE DEF all
    <3> QED
      BY <2>1, <3>1 DEF Appends
  <2>8. f \in FrameOf(Registers') /\ f.form = "while-body"
    <3>1. "while-body" \in FrameForms
      BY DEF FrameForms
    <3>2. Top \in FrameOf(Registers')
      BY <2>5
    <3> QED
      BY <3>1, <3>2 DEF FrameOf
  <2> HIDE DEF f
  <2>9. WellFormed(f)
    BY <2>8 DEF WellFormed, ListForms, OpForms
  <2>10. ctl' \in CtlOf(Registers') /\ Proper(ctl') /\ Awaits(ctl'.mode, f.form)
    BY <2>1, <2>8, CtlTypes DEF Modes, Proper, Call, Awaits, StmtWaiters
  <2>11. nodes' \in 0..MaxNodes /\ Returns(f.form) = Returns(Top.form) /\ (f.form = "body" <=> Top.form = "body")
    BY <1>1, <1>2, <2>1, <2>8, SpendTypes DEF Returns, ExprActivations
  <2> QED
    BY <1>2, <2>1, <2>3, <2>7, <2>8, <2>9, <2>10, <2>11, GotoStep
<1> QED
  BY <1>4, <1>5

\* A name is registered: its slot is a register from now on.
LEMMA Lets ==
    ASSUME TypeInv, Let
    PROVE  TypeInv'
<1>1. ctl.mode = "val" /\ Top.form = "let"
  BY DEF Let, Valued
<1>2. /\ stack # <<>> /\ TypeOK /\ WellFormed(Top) /\ Top.arg \in Names /\ Top.ty \in BaseTypes
      /\ ctl.val \in ValueOf(Registers) /\ ctl.val.reg \in SUBSET Registers
      /\ ntemp \in Nat /\ nlabel \in Nat /\ env \in Seq(ParamRec) /\ Len(env) \in Nat
  BY <1>1, TopFacts DEF WellFormed
<1> DEFINE slot == Slot(Top.arg, Len(env) + 1)
           deref == ctl.val.ty = PtrTo[Top.ty]
           init == IF deref THEN {Temp(ntemp)} ELSE ctl.val.reg
           k == IF deref THEN 1 ELSE 0
           entry == [name |-> Top.arg, ty |-> Top.ty]
           l1 == <<Inst({slot}, {})>>
           l2 == IF deref THEN <<Inst({Temp(ntemp)}, ctl.val.reg)>> ELSE <<>>
           l3 == <<Inst({}, {slot} \cup init)>>
<1>3. /\ env' = Append(env, entry) /\ code' = code \o (l1 \o l2 \o l3)
      /\ ntemp' = ntemp + k /\ nlabel' = nlabel /\ retTy' = retTy /\ nodes' = nodes
      /\ Goto(ListFrame("do")) /\ ctl' = Call("items")
  BY <1>2 DEF Let, Emit, LetLines
<1>4. Len(env') = Len(env) + 1 /\ env' \in Seq(ParamRec)
  <2>1. entry \in ParamRec
    BY <1>2 DEF ParamRec
  <2> HIDE DEF entry
  <2> QED
    BY <1>2, <1>3, <2>1
<1>5. Grows
  <2>1. ntemp' \in Nat /\ ntemp <= ntemp' /\ Len(env) <= Len(env')
    BY <1>2, <1>3, <1>4
  <2> QED
    BY <1>2, <1>3, <1>4, <2>1 DEF Grows
<1>6. slot \in Registers'
  <2>1. Len(env) + 1 \in 0..Len(env')
    BY <1>2, <1>4
  <2> QED
    BY <1>2, <2>1 DEF Registers, RegistersOf
<1>7. deref => Temp(ntemp) \in Registers'
  <2>1. deref => ntemp \in 0..ntemp' - 1
    BY <1>2, <1>3
  <2> HIDE DEF deref
  <2> QED
    BY <2>1 DEF Registers, RegistersOf
<1>8. ctl.val.reg \in SUBSET Registers'
  BY <1>2, <1>5, RegistersKept
<1> DEFINE R2 == Registers'  L2 == 0..nlabel' - 1
<1>9. l1 \in Seq(LineOf(R2, L2)) /\ l2 \in Seq(LineOf(R2, L2)) /\ l3 \in Seq(LineOf(R2, L2))
  <2>1. slot \in R2 /\ (deref => Temp(ntemp) \in R2) /\ ctl.val.reg \in SUBSET R2
    BY <1>6, <1>7, <1>8
  <2> HIDE DEF R2, L2, deref, slot
  <2>2. \A d, u \in SUBSET R2 : Inst(d, u) \in LineOf(R2, L2)
    BY LineTypes
  <2>3. {slot} \cup init \in SUBSET R2 /\ {} \in SUBSET R2 /\ {slot} \in SUBSET R2
    BY <2>1
  <2>4. l1 \in Seq(LineOf(R2, L2)) /\ l3 \in Seq(LineOf(R2, L2))
    <3> HIDE DEF init
    <3> QED
      BY <2>2, <2>3
  <2>5. l2 \in Seq(LineOf(R2, L2))
    <3>1. deref => {Temp(ntemp)} \in SUBSET R2
      BY <2>1
    <3> QED
      BY <2>1, <2>2, <3>1
  <2> QED
    BY <2>4, <2>5
<1>10. Appends
  <2> DEFINE all == l1 \o l2 \o l3
  <2>1. all \in Seq(LineOf(R2, L2))
    <3> HIDE DEF l1, l2, l3, R2, L2
    <3> QED
      BY <1>9
  <2>2. code' = code \o all
    BY <1>3
  <2> HIDE DEF all
  <2> QED
    BY <2>1, <2>2 DEF Appends
<1>11. ListFrame("do") \in FrameOf(Registers') /\ WellFormed(ListFrame("do")) /\ ListFrame("do").form = "do"
  <2>1. "do" \in FrameForms /\ "?" \in Args
    BY DEF FrameForms, Args
  <2> QED
    BY <2>1, FrameTypes, StatementFrames
<1>12. Returns("do") = Returns(Top.form) /\ Top.form # "body"
  BY <1>1 DEF Returns, ExprActivations
<1>13. ctl' \in CtlOf(Registers') /\ Proper(ctl') /\ Awaits(ctl'.mode, "do")
  BY <1>3, CtlTypes DEF Modes, Proper, Call, Awaits, ListForms
<1>14. nodes' \in 0..MaxNodes
  BY <1>2, <1>3, SpendTypes
<1> QED
  BY <1>2, <1>3, <1>5, <1>10, <1>11, <1>12, <1>13, <1>14, GotoStep

-----------------------------------------------------------------------------
(* Lists of statements.                                                    *)

LEMMA NextItems ==
    ASSUME TypeInv, NextItem
    PROVE  TypeInv'
<1>1. ctl.mode = "items"
  BY DEF NextItem
<1>2. stack # <<>> /\ TypeOK /\ Top.form \in ListForms
  BY <1>1, TopFacts DEF StackDiscipline, Awaits
<1>3. Grows /\ Registers' = Registers /\ Appends /\ nodes' \in 0..MaxNodes
  BY <1>2, UnchangedGrows, SpendTypes DEF NextItem, Appends
<1>4. ctl' = Call(IF Top.form = "block" THEN "item" ELSE "stmt")
  BY DEF NextItem
<1>5. ctl' \in CtlOf(Registers') /\ Proper(ctl') /\ Awaits(ctl'.mode, Top.form)
  BY <1>2, <1>4, CtlTypes DEF Modes, Proper, Call, Awaits, ListForms, StmtWaiters
<1> QED
  BY <1>2, <1>3, <1>5, StayStep DEF NextItem

LEMMA ItemsDone ==
    ASSUME TypeInv, ItemDone
    PROVE  TypeInv'
<1>1. ctl.mode \in {"did", "val"} /\ Top.form \in ListForms
  BY DEF ItemDone, InList, ListForms
<1>2. /\ stack # <<>> /\ TypeOK /\ Top \in FrameOf(Registers) /\ WellFormed(Top)
      /\ ctl.val \in ValueOf(Registers)
  BY <1>1, TopFacts
<1>3. Grows /\ Registers' = Registers /\ Appends /\ nodes' \in 0..MaxNodes
  BY <1>2, UnchangedGrows, SpendTypes DEF ItemDone, Appends
<1> DEFINE f == IF ctl.val.ty = "none" THEN Top ELSE [Top EXCEPT !.vals = <<ctl.val>>]
<1>4. f \in FrameOf(Registers') /\ f.form = Top.form /\ Len(f.vals) = 1
  <2>1. Top \in FrameOf(Registers') /\ Len(Top.vals) = 1 /\ <<ctl.val>> \in Seq(ValueOf(Registers')) /\ Len(<<ctl.val>>) = 1
    BY <1>1, <1>2, <1>3 DEF WellFormed
  <2> QED
    BY <2>1 DEF FrameOf
<1>5. Goto(f) /\ ctl' = Call("items") /\ retTy' = retTy
  BY DEF ItemDone
<1> HIDE DEF f
<1>6. WellFormed(f)
  BY <1>1, <1>4 DEF WellFormed, ListForms, OpForms
<1>7. ctl' \in CtlOf(Registers') /\ Proper(ctl') /\ Awaits(ctl'.mode, f.form)
  BY <1>1, <1>4, <1>5, CtlTypes DEF Modes, Proper, Call, Awaits
<1> QED
  BY <1>2, <1>3, <1>4, <1>5, <1>6, <1>7, GotoStep

LEMMA ListsEnd ==
    ASSUME TypeInv, ItemReturned \/ EndDo \/ EndBlock
    PROVE  TypeInv'
<1>1. ctl.mode # "done" /\ Top.form \in {"do", "block"}
  BY DEF ItemReturned, EndDo, EndBlock, InList
<1>2. stack # <<>> /\ TypeOK /\ Top \in FrameOf(Registers) /\ WellFormed(Top)
  BY <1>1, TopFacts
<1>3. /\ Grows /\ Registers' = Registers /\ Appends /\ nodes' \in 0..MaxNodes
      /\ stack' = Below /\ retTy' = retTy
  BY <1>2, UnchangedGrows, SpendTypes DEF ItemReturned, EndDo, EndBlock, Appends, Finish
<1>4. LastValue \in ValueOf(Registers) /\ LastValue.ty \in Types
  <2>1. Len(Top.vals) = 1 /\ Top.vals \in Seq(ValueOf(Registers))
    BY <1>1, <1>2 DEF WellFormed, FrameOf, ListForms
  <2>2. Top.vals[1] \in ValueOf(Registers)
    BY <2>1
  <2> QED
    BY <2>2 DEF LastValue, ValueOf
<1>5. NoValue \in ValueOf(Registers) /\ Const(0) \in ValueOf(Registers) /\ Const(0).ty = "i32"
  BY CtlTypes DEF Const, Value
<1>6. CASE ItemReturned
  <2>1. ctl' = IF Top.form = "do" THEN Did(TRUE, NoValue) ELSE Yield(Const(0))
    BY <1>6 DEF ItemReturned, Finish, ListReturned
  <2>2. ctl' \in CtlOf(Registers') /\ Proper(ctl') /\ ctl'.mode = Returns(Top.form)
    BY <1>1, <1>3, <1>5, <2>1, CtlTypes DEF Proper, Did, Yield, Returns, ExprActivations, BaseTypes
  <2> QED
    BY <1>1, <1>2, <1>3, <2>2, FinishStep
<1>7. CASE EndDo
  <2>1. ctl' = Did(FALSE, LastValue) /\ Top.form = "do"
    BY <1>7 DEF EndDo, Finish, InList
  <2>2. ctl' \in CtlOf(Registers') /\ Proper(ctl') /\ ctl'.mode = Returns(Top.form)
    BY <1>3, <1>4, <2>1, CtlTypes DEF Proper, Did, Returns, ExprActivations
  <2> QED
    BY <1>1, <1>2, <1>3, <2>2, FinishStep
<1>8. CASE EndBlock
  <2> DEFINE v == IF LastValue.ty = "none" THEN Const(0) ELSE LastValue
  <2>1. ctl' = Yield(v) /\ Top.form = "block"
    BY <1>8 DEF EndBlock, Finish, InList
  <2>2. v \in ValueOf(Registers)
    BY <1>4, <1>5
  <2>3. Top.form = "block" => Returns(Top.form) = "val"
    BY DEF Returns, ExprActivations
  <2>4. v.ty \in BaseTypes \cup PtrTypes
    BY <1>4, <1>5 DEF Types, BaseTypes
  <2> HIDE DEF v
  <2>5. ctl' \in CtlOf(Registers') /\ Proper(ctl') /\ ctl'.mode = Returns(Top.form)
    BY <1>3, <2>1, <2>2, <2>3, <2>4, CtlTypes DEF Proper, Yield
  <2> QED
    BY <1>1, <1>2, <1>3, <2>5, FinishStep
<1> QED
  BY <1>6, <1>7, <1>8

\* The body is the last activation, so the function is complete without it.
LEMMA DoneStep ==
    ASSUME TypeInv, stack # <<>>, Top.form = "body", Grows, Appends, retTy' = retTy,
           nodes' \in 0..MaxNodes, stack' = Below, ctl' = Call("done")
    PROVE  TypeInv'
<1>1. TypeOK /\ StackDiscipline /\ stack \in Seq(FrameOf(Registers))
  BY DEF TypeInv, TypeOK
<1>2. Len(stack) = 1
  <2>1. Len(stack) \in DOMAIN stack /\ Len(stack) \in Nat
    BY <1>1
  <2> QED
    BY <1>1, <2>1 DEF StackDiscipline, Top
<1>3. stack' = <<>>
  BY <1>1, <1>2 DEF Below
<1>4. ctl' \in CtlOf(Registers') /\ ctl'.mode = "done" /\ ~ctl'.ret
  BY CtlTypes DEF Modes, Call
<1>5. stack' \in Seq(FrameOf(Registers'))
  BY <1>3
<1>6. TypeOK'
  BY <1>1, <1>4, <1>5, StepTypes
<1>7. StackDiscipline'
  BY <1>3, <1>4 DEF StackDiscipline
<1> QED
  BY <1>6, <1>7 DEF TypeInv

LEMMA BodyEnds ==
    ASSUME TypeInv, BodyReturned \/ EndBody
    PROVE  TypeInv'
<1>1. ctl.mode # "done" /\ Top.form = "body"
  BY DEF BodyReturned, EndBody, InList
<1>2. stack # <<>> /\ TypeOK /\ Top \in FrameOf(Registers) /\ WellFormed(Top) /\ ntemp \in Nat
  BY <1>1, TopFacts
<1>3. CASE BodyReturned
  <2>1. /\ Grows /\ Appends /\ nodes' \in 0..MaxNodes /\ retTy' = retTy
        /\ stack' = Below /\ ctl' = Call("done")
    BY <1>2, <1>3, UnchangedGrows, SpendTypes DEF BodyReturned, Appends, Finish
  <2> QED
    BY <1>1, <1>2, <2>1, DoneStep
<1>4. CASE EndBody
  <2> DEFINE implicit == retTy # "void" /\ LastValue.ty # "none"
             v == LastValue
             k == EnsureTemps(v, retTy)
             e == Ensured(v, retTy, ntemp)
             l1 == EnsureLines(v, retTy, ntemp)
             lines == IF implicit THEN l1 \o <<Ret(e.reg)>> ELSE <<Ret({})>>
  <2>1. CASE implicit /\ ~Fits(v, retTy) /\ Fatal
    BY <1>2, <2>1, Fatals
  <2>2. CASE ~(implicit /\ ~Fits(v, retTy) /\ Fatal)
    <3>1. /\ code' = code \o lines
          /\ ntemp' = IF implicit THEN ntemp + k ELSE ntemp
          /\ stack' = Below /\ ctl' = Call("done") /\ UNCHANGED <<nlabel, env, retTy, nodes>>
      BY <1>4, <2>2 DEF EndBody, Emit, Finish
    <3>2. k \in {0, 1} /\ (v.ty = retTy \/ k = 1)
      BY DEF EnsureTemps
    <3> DEFINE m == IF implicit THEN k ELSE 0
    <3>3. Grows /\ \A n \in ntemp..ntemp + m - 1 : Temp(n) \in Registers'
      <4>1. m \in Nat /\ ntemp' = ntemp + m
        <5> HIDE DEF k, implicit
        <5> QED
          BY <1>2, <3>1, <3>2
      <4>2. nlabel' \in Nat /\ nlabel <= nlabel' /\ env' = env
        BY <1>2, <3>1 DEF TypeOK
      <4> HIDE DEF m
      <4> QED
        BY <1>2, <4>1, <4>2, TempsTaken
    <3>4. v \in ValueOf(Registers')
      <4>1. Len(Top.vals) = 1 /\ Top.vals \in Seq(ValueOf(Registers))
        BY <1>1, <1>2 DEF WellFormed, FrameOf, ListForms
      <4>2. Top.vals[1] \in ValueOf(Registers)
        BY <4>1
      <4> QED
        BY <1>2, <3>3, <4>2, NextTypes DEF LastValue
    <3> DEFINE R2 == Registers'  L2 == 0..nlabel' - 1
    <3>5. implicit => v.ty = retTy \/ Temp(ntemp) \in R2
      <4>1. implicit /\ k = 1 => ntemp \in ntemp..ntemp + m - 1
        <5> HIDE DEF k, implicit
        <5> QED
          BY <1>2, <3>2
      <4> QED
        BY <3>2, <3>3, <4>1
    <3>6. implicit => retTy \in Types
      <4>1. retTy \in BaseTypes \cup {"void"}
        BY <1>2, TypesAssumption DEF TypeOK
      <4> QED
        BY <4>1 DEF Types
    <3>7. implicit => e.reg \in SUBSET R2 /\ l1 \in Seq(LineOf(R2, L2))
      <4>1. v \in ValueOf(R2)
        BY <3>4
      <4> HIDE DEF R2, L2, implicit, v
      <4> QED
        BY <1>2, <3>5, <3>6, <4>1, EnsuredType
    <3>8. \A u \in SUBSET R2 : <<Ret(u)>> \in Seq(LineOf(R2, L2))
      <4> HIDE DEF R2, L2
      <4>1. \A u \in SUBSET R2 : Ret(u) \in LineOf(R2, L2)
        BY LineTypes
      <4> QED
        BY <4>1
    <3>9. lines \in Seq(LineOf(R2, L2))
      <4>1. {} \in SUBSET R2
        OBVIOUS
      <4> HIDE DEF R2, L2, implicit, l1, e
      <4> QED
        BY <3>7, <3>8, <4>1
    <3>10. Appends
      <4> HIDE DEF lines
      <4> QED
        BY <3>1, <3>9 DEF Appends
    <3>11. nodes' \in 0..MaxNodes /\ retTy' = retTy
      BY <1>2, <3>1, SpendTypes
    <3> QED
      BY <1>1, <1>2, <3>1, <3>3, <3>10, <3>11, DoneStep
  <2> QED
    BY <2>1, <2>2
<1> QED
  BY <1>3, <1>4

\* The entry env_find answers with.
LEMMA NewestParam ==
    ASSUME NEW p \in 1..Len(Params)
    PROVE  /\ Find(Params, Params[p].name) \in 1..Len(Params)
           /\ Find(Params, Params[p].name) \in 0..Len(Params)
           /\ (\A q \in 1..Len(Params) : Params[q].name = Params[p].name => q <= p)
                 => Find(Params, Params[p].name) = p
<1> DEFINE x == Params[p].name
           k == Find(Params, x)
           T == {i \in 1..Len(Params) : Params[i].name = x}
<1>1. T \in SUBSET (1..Len(Params)) /\ Len(Params) \in Nat /\ p \in T
  BY ParamsAssumption
<1>2. \E i \in T : \A j \in T : j <= i
  <2> HIDE DEF T
  <2> QED
    BY <1>1, Greatest
<1>3. \E i \in 1..Len(Params) : Params[i].name = x /\ \A j \in 1..Len(Params) : Params[j].name = x => j <= i
  BY <1>2
<1>4. /\ k \in 1..Len(Params) /\ Params[k].name = x
      /\ \A j \in 1..Len(Params) : Params[j].name = x => j <= k
  <2> HIDE DEF x
  <2> QED
    BY <1>3 DEF Find
<1>5. (\A q \in 1..Len(Params) : Params[q].name = x => q <= p) => k = p
  <2> HIDE DEF k
  <2> QED
    BY <1>1, <1>4
<1> QED
  BY <1>1, <1>4, <1>5

\* The allocas of the parameters.
LEMMA HeaderTypes ==
    Header \in Seq(LineOf(RegistersOf(0, Len(Params)), 0..0 - 1))
<1> DEFINE R == RegistersOf(0, Len(Params))  L == 0..0 - 1
           n == Len(Params)
<1>1. n \in Nat /\ Params \in Seq(ParamRec)
  BY ParamsAssumption
<1>2. ASSUME NEW i \in 1..2 * n
      PROVE  Header[i] \in LineOf(R, L)
  <2> DEFINE p == (i + 1) \div 2
             r == ParamSlot(p)
  <2>1. p \in 1..n
    BY <1>1
  <2>2. Params[p].name \in Names
    <3>1. Params[p] \in ParamRec
      BY <1>1, <2>1
    <3> QED
      BY <3>1 DEF ParamRec
  <2>3. r \in R
    <3>1. Find(Params, Params[p].name) \in 0..n
      <4> HIDE DEF p
      <4> QED
        BY <1>1, <2>1, NewestParam
    <3> HIDE DEF p
    <3> QED
      BY <2>2, <3>1 DEF RegistersOf, ParamSlot
  <2>4. Header[i] = IF i % 2 = 1 THEN Inst({r}, {}) ELSE Inst({}, {r})
    BY DEF Header
  <2>5. Inst({r}, {}) \in LineOf(R, L) /\ Inst({}, {r}) \in LineOf(R, L)
    <3> HIDE DEF R, L, r
    <3> QED
      BY <2>3, LineTypes
  <2> QED
    BY <2>4, <2>5
<1>3. DOMAIN Header = 1..2 * n
  BY DEF Header
<1>4. Header = [i \in 1..2 * n |-> Header[i]]
  BY DEF Header
<1>5. 2 * n \in Nat
  BY <1>1
<1> HIDE DEF R, L, n
<1>6. Header \in [1..2 * n -> LineOf(R, L)]
  BY <1>2, <1>4
<1>7. Header \in Seq(LineOf(R, L))
  BY <1>5, <1>6
<1> QED
  BY <1>7 DEF R, L

-----------------------------------------------------------------------------
(* The invariant: the type of every variable, the order of the activations  *)
(* and the labels the activations hold.                                     *)

FrameHeld(f, n) == f.form \in BranchForms => f.lab + 3 <= n

\* How a step may change the activations when none of them loses its labels.
HoldsLabels ==
    \/ stack' = stack
    \/ stack' = Below
    \/ \E f : FrameHeld(f, nlabel') /\ (stack' = Append(stack, f) \/ Goto(f))

LEMMA HeldStep ==
    ASSUME TypeOK, LabelsHeld, stack # <<>>, nlabel' \in Nat, nlabel <= nlabel', HoldsLabels
    PROVE  LabelsHeld'
<1>1. stack \in Seq(FrameOf(Registers)) /\ Len(stack) \in Nat /\ Len(stack) > 0 /\ DOMAIN stack = 1..Len(stack)
  BY DEF TypeOK
<1>2. \A i \in 1..Len(stack) : stack[i].lab \in Nat
  <2>1. \A i \in 1..Len(stack) : stack[i] \in FrameOf(Registers)
    BY <1>1
  <2> QED
    BY <2>1 DEF FrameOf
<1>3. \A i \in 1..Len(stack) : FrameHeld(stack[i], nlabel')
  <2>1. nlabel \in Nat /\ nlabel' \in Nat /\ nlabel <= nlabel'
    BY DEF TypeOK
  <2> QED
    BY <1>1, <1>2, <2>1 DEF LabelsHeld, FrameHeld
<1>4. CASE stack' = stack
  BY <1>1, <1>3, <1>4 DEF LabelsHeld, FrameHeld
<1>5. CASE stack' = Below
  <2>1. DOMAIN stack' = 1..Len(stack) - 1 /\ \A i \in 1..Len(stack) - 1 : stack'[i] = stack[i]
    <3>1. /\ Below \in Seq(FrameOf(Registers))
          /\ Len(Below) = Len(stack) - 1
          /\ \A i \in 1..Len(stack) - 1 : Below[i] = stack[i]
      BY <1>1, BelowIs DEF Below
    <3> QED
      BY <1>5, <3>1
  <2>2. \A i \in 1..Len(stack) - 1 : i \in 1..Len(stack)
    BY <1>1
  <2> QED
    BY <1>3, <2>1, <2>2 DEF LabelsHeld, FrameHeld
<1>6. ASSUME NEW f, FrameHeld(f, nlabel'), stack' = Append(stack, f)
      PROVE  LabelsHeld'
  <2>1. /\ DOMAIN stack' = 1..Len(stack) + 1
        /\ \A i \in 1..Len(stack) : stack'[i] = stack[i]
        /\ stack'[Len(stack) + 1] = f
    BY <1>1, <1>6
  <2>2. \A i \in 1..Len(stack) + 1 : i \in 1..Len(stack) \/ i = Len(stack) + 1
    BY <1>1
  <2> QED
    BY <1>3, <1>6, <2>1, <2>2 DEF LabelsHeld, FrameHeld
<1>7. ASSUME NEW f, FrameHeld(f, nlabel'), Goto(f)
      PROVE  LabelsHeld'
  <2> DEFINE n == Append(SubSeq(stack, 1, Len(stack) - 1), f)
  <2>1. stack' = n
    BY <1>7 DEF Goto, Below
  <2>2. /\ DOMAIN n = 1..Len(stack)
        /\ \A i \in 1..Len(stack) : i # Len(stack) => n[i] = stack[i]
        /\ n[Len(stack)] = f
    <3> DEFINE S == FrameOf(Registers)
    <3>1. stack \in Seq(S) /\ stack # <<>>
      BY <1>1
    <3> HIDE DEF S
    <3> QED
      BY <3>1, ReplacedTopIs
  <2> HIDE DEF n
  <2> QED
    BY <1>3, <1>7, <2>1, <2>2 DEF LabelsHeld, FrameHeld
<1> QED
  BY <1>4, <1>5, <1>6, <1>7 DEF HoldsLabels

LEMMA Held ==
    ASSUME TypeInv, LabelsHeld, Next
    PROVE  LabelsHeld'
<1>1. TypeOK /\ nlabel \in Nat
  BY DEF TypeInv, TypeOK
<1>2. ASSUME ctl.mode # "done", nlabel' = nlabel, HoldsLabels
      PROVE  LabelsHeld'
  <2>1. stack # <<>>
    BY <1>2, TopFacts
  <2> QED
    BY <1>1, <1>2, <2>1, HeldStep
<1>3. ASSUME NEW form \in FrameForms \ BranchForms, NEW arg, NEW n
      PROVE  /\ FrameHeld(Frame(form, arg), n) /\ FrameHeld(ListFrame(form), n)
             /\ \A ty : FrameHeld([Frame(form, arg) EXCEPT !.ty = ty], n)
  BY <1>3 DEF FrameHeld, Frame, ListFrame
<1>4. /\ {"return", "store", "let", "set", "do", "if-cond", "expr"} \subseteq FrameForms \ BranchForms
      /\ {"block", "arith", "logic", "cmp", "load", "ptr-add", "bitcast", "call"} \subseteq FrameForms \ BranchForms
  BY DEF FrameForms, BranchForms
<1>5. CASE CallReturn \/ CallStore \/ CallLet \/ CallSet \/ CallDo \/ CallIf \/ CallExprStmt
  <2>1. ctl.mode # "done" /\ nlabel' = nlabel
    BY <1>5 DEF CallReturn, CallStore, CallLet, CallSet, CallDo, CallIf, CallExprStmt, StmtCalled
  <2>2. HoldsLabels
    BY <1>3, <1>4, <1>5 DEF HoldsLabels, CallReturn, CallStore, CallLet, CallSet, CallDo, CallIf, CallExprStmt, Enter
  <2> QED
    BY <1>2, <2>1, <2>2
<1>6. CASE ExprBlock \/ ExprOp
  <2>1. ctl.mode # "done" /\ nlabel' = nlabel
    BY <1>6 DEF ExprBlock, ExprOp, ExprCalled
  <2>2. HoldsLabels
    BY <1>3, <1>4, <1>6 DEF HoldsLabels, ExprBlock, ExprOp, Enter
  <2> QED
    BY <1>2, <2>1, <2>2
<1>7. CASE CallWhile
  <2> DEFINE f == [Frame("while-cond", "?") EXCEPT !.lab = nlabel]
  <2>1. stack' = Append(stack, f) /\ nlabel' = nlabel + 3 /\ ctl.mode # "done"
    BY <1>7 DEF CallWhile, Enter, StmtCalled, FreshLabels
  <2>2. f.lab = nlabel
    BY StatementFrames
  <2> HIDE DEF f
  <2>3. FrameHeld(f, nlabel') /\ nlabel' \in Nat /\ nlabel <= nlabel'
    BY <1>1, <2>1, <2>2 DEF FrameHeld
  <2>4. stack # <<>>
    BY <2>1, TopFacts
  <2> QED
    BY <1>1, <2>1, <2>3, <2>4, HeldStep DEF HoldsLabels
<1>8. CASE StmtSkip \/ ExprConst \/ ExprVar \/ ExprString \/ ExprAddr \/ ExprAddrOf \/ ExprGetField
           \/ CallNoArgs \/ NextItem
  BY <1>2, <1>8 DEF HoldsLabels, StmtSkip, ExprConst, ExprVar, ExprString, ExprAddr, ExprAddrOf,
                    ExprGetField, CallNoArgs, NextItem, ExprCalled
<1>9. CASE Return \/ Set \/ ExprStmt \/ IfElse \/ WhileBody \/ ItemReturned \/ EndDo \/ EndBlock
           \/ BodyReturned
  BY <1>2, <1>9 DEF HoldsLabels, Return, Set, ExprStmt, IfElse, WhileBody, ItemReturned, EndDo,
                    EndBlock, BodyReturned, Finish, Valued
<1>10. CASE EndBody
  BY <1>2, <1>10 DEF HoldsLabels, EndBody, Finish, Fatal
<1>11. ASSUME ctl.mode # "done"
       PROVE  \A g : g.form = Top.form /\ g.lab = Top.lab => FrameHeld(g, nlabel)
  <2>1. stack # <<>> /\ Len(stack) \in DOMAIN stack
    BY <1>1, <1>11, TopFacts DEF TypeOK
  <2> QED
    BY <2>1 DEF LabelsHeld, FrameHeld, Top
<1>12. ASSUME ctl.mode # "done"
       PROVE  /\ \A vs : LET g == [Top EXCEPT !.vals = vs] IN g.form = Top.form /\ g.lab = Top.lab
              /\ \A form, r : LET g == [Top EXCEPT !.form = form, !.ret = r] IN g.form = form /\ g.lab = Top.lab
              /\ \A form : LET g == [Top EXCEPT !.form = form] IN g.form = form /\ g.lab = Top.lab
              /\ \A form, l : LET g == [Top EXCEPT !.form = form, !.lab = l] IN g.form = form /\ g.lab = l
  BY <1>12, TopFacts DEF FrameOf
<1>13. CASE Let
  BY <1>2, <1>3, <1>4, <1>13 DEF HoldsLabels, Let, Valued
<1>14. CASE ItemDone
  <2>1. ctl.mode # "done" /\ nlabel' = nlabel
    BY <1>14 DEF ItemDone
  <2> DEFINE f == IF ctl.val.ty = "none" THEN Top ELSE [Top EXCEPT !.vals = <<ctl.val>>]
  <2>2. FrameHeld(f, nlabel)
    BY <1>11, <1>12, <2>1
  <2>3. Goto(f)
    BY <1>14 DEF ItemDone
  <2> QED
    BY <1>2, <2>1, <2>2, <2>3 DEF HoldsLabels
<1>15. CASE IfThen
  <2>1. ctl.mode # "done" /\ nlabel' = nlabel /\ Top.form = "if-then"
    BY <1>15 DEF IfThen
  <2> DEFINE f == [Top EXCEPT !.form = "if-else", !.ret = ctl.ret]
  <2>2. f.form = "if-else" /\ f.lab = Top.lab
    BY <1>12, <2>1
  <2>3. Goto(f)
    BY <1>15 DEF IfThen
  <2> HIDE DEF f
  <2>4. FrameHeld(Top, nlabel)
    BY <1>11, <2>1
  <2>5. FrameHeld(f, nlabel)
    BY <2>1, <2>2, <2>4 DEF FrameHeld, BranchForms
  <2> QED
    BY <1>2, <2>1, <2>3, <2>5 DEF HoldsLabels
<1>16. CASE WhileCond
  <2>1. ctl.mode # "done" /\ nlabel' = nlabel /\ Top.form = "while-cond"
    BY <1>16 DEF WhileCond, Valued, Fatal
  <2> DEFINE f == [Top EXCEPT !.form = "while-body"]
  <2>2. f.form = "while-body" /\ f.lab = Top.lab
    BY <1>12, <2>1
  <2>3. Goto(f) \/ stack' = stack
    BY <1>16 DEF WhileCond, Fatal
  <2> HIDE DEF f
  <2>4. FrameHeld(Top, nlabel)
    BY <1>11, <2>1
  <2>5. FrameHeld(f, nlabel)
    BY <2>1, <2>2, <2>4 DEF FrameHeld, BranchForms
  <2> QED
    BY <1>2, <2>1, <2>3, <2>5 DEF HoldsLabels
<1>17. CASE IfCond
  <2>1. ctl.mode # "done"
    BY <1>17 DEF IfCond, Valued
  <2> DEFINE f == [Top EXCEPT !.form = "if-then", !.lab = nlabel]
  <2>2. f.lab = nlabel
    BY <1>12, <2>1
  <2>3. (Goto(f) /\ nlabel' = nlabel + 3) \/ (stack' = stack /\ nlabel' = nlabel)
    BY <1>17 DEF IfCond, Fatal, FreshLabels
  <2> HIDE DEF f
  <2>4. FrameHeld(f, nlabel + 3)
    BY <1>1, <2>2 DEF FrameHeld
  <2>5. nlabel' \in Nat /\ nlabel <= nlabel' /\ HoldsLabels
    BY <1>1, <2>3, <2>4 DEF HoldsLabels
  <2>6. stack # <<>>
    BY <2>1, TopFacts
  <2> QED
    BY <1>1, <2>5, <2>6, HeldStep
<1>18. CASE Operand
  <2>1. ctl.mode # "done" /\ nlabel' = nlabel
    BY <1>18 DEF Operand, Fatal
  <2>2. stack' = stack \/ stack' = Below \/ \E vs : Goto([Top EXCEPT !.vals = vs])
    BY <1>18 DEF Operand, Fatal
  <2>3. \A vs : FrameHeld([Top EXCEPT !.vals = vs], nlabel)
    BY <1>11, <1>12, <2>1
  <2> QED
    BY <1>2, <2>1, <2>2, <2>3 DEF HoldsLabels
<1>19. CASE Finished
  BY <1>19 DEF Finished, vars, LabelsHeld
<1> QED
  BY <1>5, <1>6, <1>7, <1>8, <1>9, <1>10, <1>13, <1>14, <1>15, <1>16, <1>17, <1>18, <1>19
     DEF Next, Statements, Expressions, Results, Lists

LEMMA Initially ==
    ASSUME Init
    PROVE  TypeInv /\ LabelsHeld
<1> DEFINE R == RegistersOf(0, Len(Params))
<1>1. Registers = R /\ ntemp = 0 /\ nlabel = 0 /\ env = Params
  BY DEF Init, Registers
<1>2. code \in Seq(LineOf(Registers, 0..nlabel - 1))
  BY <1>1, HeaderTypes DEF Init
<1>3. ListFrame("body") \in FrameOf(Registers) /\ ListFrame("body").form = "body" /\ Len(ListFrame("body").vals) = 1
  <2>1. "body" \in FrameForms /\ "?" \in Args
    BY DEF FrameForms, Args
  <2> QED
    BY <2>1, FrameTypes DEF ListFrame, Frame
<1>4. stack \in Seq(FrameOf(Registers)) /\ Len(stack) = 1 /\ Top = ListFrame("body") /\ stack # <<>>
      /\ DOMAIN stack = {1} /\ stack[1] = ListFrame("body")
  BY <1>3 DEF Init, Top
<1>5. ctl = Call("items") /\ ctl \in CtlOf(Registers)
  BY CtlTypes DEF Init, Modes
<1>6. TypeOK
  BY <1>1, <1>2, <1>4, <1>5, ParamsAssumption, BoundsAssumption DEF TypeOK, Init, CtlOf
<1>7. WellFormed(ListFrame("body"))
  BY <1>3 DEF WellFormed, ListForms, OpForms
<1>8. StackDiscipline
  BY <1>3, <1>4, <1>5, <1>7 DEF StackDiscipline, Call, Awaits, ListForms
<1>9. LabelsHeld
  BY <1>3, <1>4 DEF LabelsHeld, BranchForms
<1> QED
  BY <1>6, <1>8, <1>9 DEF TypeInv

IInv == TypeInv /\ LabelsHeld

LEMMA Inductive ==
    ASSUME IInv, [Next]_vars
    PROVE  IInv'
<1>1. TypeInv /\ LabelsHeld
  BY DEF IInv
<1>2. CASE Statements
  BY <1>1, <1>2, Skips, StatementCalls, WhileCalls, Held DEF Statements, Next, IInv
<1>3. CASE Expressions
  BY <1>1, <1>3, Atoms, ExpressionCalls, CallsNoArgs, Operands, Held DEF Expressions, Next, IInv
<1>4. CASE Results
  BY <1>1, <1>4, Returning, Lets, Setting, ExprStmts, IfConds, IfThens, IfElses, WhileConds,
     WhileBodies, Held DEF Results, Next, IInv
<1>5. CASE Lists
  BY <1>1, <1>5, NextItems, ItemsDone, ListsEnd, BodyEnds, Held DEF Lists, Next, IInv
<1>6. CASE UNCHANGED vars
  <2>1. TypeOK' /\ LabelsHeld'
    BY <1>1, <1>6 DEF TypeInv, TypeOK, LabelsHeld, vars, Registers
  <2>2. StackDiscipline'
    BY <1>1, <1>6 DEF TypeInv, StackDiscipline, vars, Top
  <2> QED
    BY <2>1, <2>2 DEF IInv, TypeInv
<1> QED
  BY <1>2, <1>3, <1>4, <1>5, <1>6 DEF Next, Finished

\* Every line, value and activation mentions only registers and labels that
\* ir_fresh_temp, ir_fresh_label and env_add have handed out, for every
\* program (ir.c:22-32, env.c:82-94).
THEOREM TypeCorrect == Spec => []TypeOK
<1>1. Init => IInv
  BY Initially DEF IInv
<1>2. IInv /\ [Next]_vars => IInv'
  BY Inductive
<1>3. IInv => TypeOK
  BY DEF IInv, TypeInv
<1> QED
  BY <1>1, <1>2, <1>3, PTL DEF Spec

-----------------------------------------------------------------------------
(* Pieces of text. A step of the code writes one piece at the end.         *)

\* A sequence, of lines of any kind.
IsText(s) == \E S : s \in Seq(S)
\* A label line names a label.
Named(s) == \A i \in DOMAIN s : s[i].op = "label" => s[i].to # {}
\* Lines that neither define a label nor branch.
Plain(s) == \E S : s \in Seq(S) /\ \A line \in S : line.op \in {"inst", "ret"}
Closes(s) == s # <<>> /\ IsTerminator(s[Len(s)])
\* The blocks of a piece are closed, but for the one before it when the piece
\* starts with a label.
Continues(s) == \A i \in DOMAIN s : s[i].op = "label" => i = 1 \/ IsTerminator(s[i - 1])

\* What a piece adds to the text: the labels D and branches to the labels E.
Piece(s, D, E) == /\ IsText(s)
                  /\ Labels(s) = D /\ Targets(s) = E
                  /\ UniqueLabels(s) /\ Named(s) /\ Continues(s)

\* The lines of a text made of two.
LEMMA Joined ==
    ASSUME NEW a, NEW b, IsText(a), IsText(b)
    PROVE  /\ IsText(a \o b)
           /\ Len(a) \in Nat /\ Len(b) \in Nat /\ Len(a \o b) = Len(a) + Len(b)
           /\ DOMAIN a = 1..Len(a) /\ DOMAIN b = 1..Len(b) /\ DOMAIN (a \o b) = 1..Len(a) + Len(b)
           /\ \A i \in 1..Len(a) : (a \o b)[i] = a[i]
           /\ \A i \in 1..Len(b) : Len(a) + i \in 1..Len(a) + Len(b) /\ (a \o b)[Len(a) + i] = b[i]
           /\ \A i \in 1..Len(a) + Len(b) : i \in 1..Len(a) \/ \E j \in 1..Len(b) : i = Len(a) + j
           /\ a = <<>> => a \o b = b
           /\ b = <<>> => a \o b = a
<1>0. PICK S : a \in Seq(S) /\ b \in Seq(S)
  <2>1. PICK T, U : a \in Seq(T) /\ b \in Seq(U)
    BY DEF IsText
  <2>2. a \in Seq(T \cup U) /\ b \in Seq(T \cup U)
    BY <2>1
  <2> QED
    BY <2>2
<1> USE <1>0
<1>1. Len(a) \in Nat /\ Len(b) \in Nat
  OBVIOUS
<1>2. \A i \in 1..Len(b) : Len(a) + i \in 1..Len(a) + Len(b) /\ (a \o b)[Len(a) + i] = b[i]
  OBVIOUS
<1>3. ASSUME NEW i \in 1..Len(a) + Len(b), i \notin 1..Len(a)
      PROVE  \E j \in 1..Len(b) : i = Len(a) + j
  <2>1. i - Len(a) \in 1..Len(b) /\ i = Len(a) + (i - Len(a))
    BY <1>1, <1>3
  <2> QED
    BY <2>1
<1>4. IsText(a \o b)
  BY DEF IsText
<1> QED
  BY <1>1, <1>2, <1>3, <1>4

LEMMA JoinedLabels ==
    ASSUME NEW a, NEW b, IsText(a), IsText(b)
    PROVE  /\ Labels(a \o b) = Labels(a) \cup Labels(b)
           /\ Targets(a \o b) = Targets(a) \cup Targets(b)
<1> DEFINE c == a \o b
<1>0. /\ IsText(c) /\ Len(c) = Len(a) + Len(b)
      /\ DOMAIN a = 1..Len(a) /\ DOMAIN b = 1..Len(b) /\ DOMAIN c = 1..Len(a) + Len(b)
      /\ Len(a) \in Nat /\ Len(b) \in Nat
      /\ \A i \in 1..Len(a) : c[i] = a[i]
      /\ \A i \in 1..Len(b) : Len(a) + i \in 1..Len(a) + Len(b) /\ c[Len(a) + i] = b[i]
      /\ \A i \in 1..Len(a) + Len(b) : i \in 1..Len(a) \/ \E j \in 1..Len(b) : i = Len(a) + j
  BY Joined
<1> HIDE DEF c
<1> DEFINE Of(s, op) == UNION {s[i].to : i \in {j \in DOMAIN s : s[j].op = op}}
<1>1. ASSUME NEW op
      PROVE  Of(c, op) = Of(a, op) \cup Of(b, op)
  <2>2. \A i \in 1..Len(a) : i \in 1..Len(a) + Len(b)
    BY <1>0
  <2>3. ASSUME NEW l
        PROVE  l \in Of(c, op) <=> l \in Of(a, op) \/ l \in Of(b, op)
    <3>1. \A s : l \in Of(s, op) <=> \E i \in DOMAIN s : s[i].op = op /\ l \in s[i].to
      OBVIOUS
    <3> HIDE DEF Of
    <3>2. l \in Of(c, op) => l \in Of(a, op) \/ l \in Of(b, op)
      <4> SUFFICES ASSUME NEW i \in 1..Len(a) + Len(b), c[i].op = op, l \in c[i].to
                   PROVE  l \in Of(a, op) \/ l \in Of(b, op)
        BY <1>0, <3>1
      <4>1. CASE i \in 1..Len(a)
        <5>1. a[i].op = op /\ l \in a[i].to
          BY <1>0, <4>1
        <5> QED
          BY <1>0, <3>1, <4>1, <5>1
      <4>2. CASE i \notin 1..Len(a)
        <5>1. PICK j \in 1..Len(b) : i = Len(a) + j
          BY <1>0, <4>2
        <5>2. b[j].op = op /\ l \in b[j].to
          BY <1>0, <5>1
        <5> QED
          BY <1>0, <3>1, <5>2
      <4> QED
        BY <4>1, <4>2
    <3>3. l \in Of(a, op) => l \in Of(c, op)
      <4> SUFFICES ASSUME NEW i \in 1..Len(a), a[i].op = op, l \in a[i].to
                   PROVE  l \in Of(c, op)
        BY <1>0, <3>1
      <4>1. i \in DOMAIN c /\ c[i] = a[i]
        BY <1>0, <2>2
      <4> QED
        BY <3>1, <4>1
    <3>4. l \in Of(b, op) => l \in Of(c, op)
      <4> SUFFICES ASSUME NEW i \in 1..Len(b), b[i].op = op, l \in b[i].to
                   PROVE  l \in Of(c, op)
        BY <1>0, <3>1
      <4>1. Len(a) + i \in 1..Len(a) + Len(b) /\ c[Len(a) + i] = b[i]
        BY <1>0
      <4> QED
        BY <1>0, <3>1, <4>1
    <3> QED
      BY <3>2, <3>3, <3>4
  <2> HIDE DEF Of
  <2> QED
    BY <2>3
<1>2. \A s : Labels(s) = Of(s, "label") /\ Targets(s) = Of(s, "br")
  BY DEF Labels, Targets
<1> HIDE DEF Of
<1>3. /\ Labels(c) = Labels(a) \cup Labels(b)
      /\ Targets(c) = Targets(a) \cup Targets(b)
  BY <1>1, <1>2
<1> QED
  BY <1>3 DEF c

\* Two pieces that define different labels make one, when the second does not
\* start with a label or the first has closed its last block.
LEMMA JoinedPieces ==
    ASSUME NEW a, NEW b, NEW D1, NEW E1, NEW D2, NEW E2,
           Piece(a, D1, E1), Piece(b, D2, E2), D1 \cap D2 = {},
           Closes(a) \/ BlocksClosed(b)
    PROVE  /\ Piece(a \o b, D1 \cup D2, E1 \cup E2)
           /\ BlocksClosed(a) => BlocksClosed(a \o b)
           /\ Closes(b) => Closes(a \o b)
<1> DEFINE c == a \o b
<1>0. IsText(a) /\ IsText(b)
  BY DEF Piece
<1>1. /\ IsText(c)
      /\ DOMAIN a = 1..Len(a) /\ DOMAIN b = 1..Len(b) /\ DOMAIN c = 1..Len(a) + Len(b)
      /\ Len(a) \in Nat /\ Len(b) \in Nat /\ Len(c) = Len(a) + Len(b)
      /\ \A i \in 1..Len(a) : c[i] = a[i]
      /\ \A i \in 1..Len(b) : Len(a) + i \in 1..Len(a) + Len(b) /\ c[Len(a) + i] = b[i]
      /\ \A i \in 1..Len(a) + Len(b) : i \in 1..Len(a) \/ \E j \in 1..Len(b) : i = Len(a) + j
  BY <1>0, Joined
<1>2. Labels(c) = D1 \cup D2 /\ Targets(c) = E1 \cup E2
  BY <1>0, JoinedLabels DEF Piece
<1>3. Named(c)
  <2> HIDE DEF c
  <2>1. /\ \A i \in 1..Len(a) : a[i].op = "label" => a[i].to # {}
        /\ \A i \in 1..Len(b) : b[i].op = "label" => b[i].to # {}
    BY <1>1 DEF Piece, Named
  <2>2. ASSUME NEW i \in 1..Len(a) + Len(b), c[i].op = "label"
        PROVE  c[i].to # {}
    <3>1. CASE i \in 1..Len(a)
      BY <1>1, <2>1, <2>2, <3>1
    <3>2. CASE i \notin 1..Len(a)
      <4>1. PICK j \in 1..Len(b) : i = Len(a) + j
        BY <1>1, <3>2
      <4>2. c[i] = b[j]
        BY <1>1, <4>1
      <4> QED
        BY <2>1, <2>2, <4>2
    <3> QED
      BY <3>1, <3>2
  <2> QED
    BY <1>1, <2>2 DEF Named
<1>4. UniqueLabels(c)
  <2>1. \A i \in DOMAIN a : a[i].op = "label" => a[i].to \subseteq D1 /\ a[i].to # {}
    BY DEF Piece, Labels, Named
  <2>2. \A i \in DOMAIN b : b[i].op = "label" => b[i].to \subseteq D2 /\ b[i].to # {}
    BY DEF Piece, Labels, Named
  <2>3. \A i \in DOMAIN a, j \in DOMAIN b : a[i].op = "label" /\ b[j].op = "label" => a[i].to # b[j].to
    BY <2>1, <2>2
  <2>4. UniqueLabels(a) /\ UniqueLabels(b)
    BY DEF Piece
  <2> HIDE DEF c
  <2> SUFFICES ASSUME NEW i \in 1..Len(a) + Len(b), NEW j \in 1..Len(a) + Len(b),
                      c[i].op = "label", c[j].op = "label", c[i].to = c[j].to
               PROVE  i = j
    BY <1>1 DEF UniqueLabels
  <2>5. CASE i \in 1..Len(a) /\ j \in 1..Len(a)
    BY <1>1, <2>4, <2>5 DEF UniqueLabels
  <2>6. CASE i \in 1..Len(a) /\ j \notin 1..Len(a)
    <3>1. PICK k \in 1..Len(b) : j = Len(a) + k
      BY <1>1, <2>6
    <3>2. c[j] = b[k] /\ c[i] = a[i]
      BY <1>1, <2>6, <3>1
    <3>3. i \in DOMAIN a /\ k \in DOMAIN b
      BY <1>1, <2>6, <3>1
    <3>4. a[i].op = "label" /\ b[k].op = "label" /\ a[i].to = b[k].to
      BY <3>2
    <3> QED
      BY <2>3, <3>3, <3>4
  <2>7. CASE i \notin 1..Len(a) /\ j \in 1..Len(a)
    <3>1. PICK k \in 1..Len(b) : i = Len(a) + k
      BY <1>1, <2>7
    <3>2. c[i] = b[k] /\ c[j] = a[j]
      BY <1>1, <2>7, <3>1
    <3> QED
      BY <1>1, <2>3, <2>7, <3>2
  <2>8. CASE i \notin 1..Len(a) /\ j \notin 1..Len(a)
    <3>1. PICK k \in 1..Len(b), m \in 1..Len(b) : i = Len(a) + k /\ j = Len(a) + m
      BY <1>1, <2>8
    <3>2. c[i] = b[k] /\ c[j] = b[m]
      BY <1>1, <3>1
    <3>3. k = m
      BY <1>1, <2>4, <3>2 DEF UniqueLabels
    <3> QED
      BY <3>1, <3>3
  <2> QED
    BY <2>5, <2>6, <2>7, <2>8
<1>5. ASSUME NEW i \in 1..Len(a) + Len(b), c[i].op = "label"
      PROVE  /\ i = 1 \/ IsTerminator(c[i - 1])
             /\ BlocksClosed(a) => i > 1 /\ IsTerminator(c[i - 1])
  <2>1. CASE i \in 1..Len(a)
    <3>1. a[i].op = "label" /\ (i = 1 \/ IsTerminator(a[i - 1]))
      BY <1>1, <1>5, <2>1 DEF Piece, Continues
    <3>2. i # 1 => i > 1 /\ c[i - 1] = a[i - 1]
      <4>1. i # 1 => i - 1 \in 1..Len(a)
        BY <1>1, <2>1
      <4> HIDE DEF c
      <4> QED
        BY <1>1, <2>1, <4>1
    <3>3. BlocksClosed(a) => i > 1
      BY <1>1, <2>1, <3>1 DEF BlocksClosed
    <3> HIDE DEF c
    <3> QED
      BY <2>1, <3>1, <3>2, <3>3
  <2>2. CASE i \notin 1..Len(a)
    <3>1. PICK j \in 1..Len(b) : i = Len(a) + j
      BY <1>1, <2>2
    <3>2. b[j].op = "label"
      <4>1. c[i] = b[j]
        BY <1>1, <3>1
      <4> QED
        BY <1>5, <4>1
    <3>3. CASE j = 1
      <4>1. Closes(a)
        <5>1. BlocksClosed(b) => j > 1
          BY <1>1, <3>2 DEF BlocksClosed
        <5> QED
          BY <3>3, <5>1
      <4>2. Len(a) > 0 /\ IsTerminator(a[Len(a)]) /\ Len(a) \in 1..Len(a)
        <5>1. Len(a) # 0
          BY <4>1 DEF Closes
        <5> QED
          BY <1>1, <4>1, <5>1 DEF Closes
      <4>3. i - 1 = Len(a) /\ i > 1
        BY <1>1, <3>1, <3>3, <4>2
      <4>4. c[i - 1] = a[Len(a)]
        BY <1>1, <4>2, <4>3
      <4> HIDE DEF c
      <4> QED
        BY <4>2, <4>3, <4>4
    <3>4. CASE j # 1
      <4>1. IsTerminator(b[j - 1])
        BY <1>1, <3>2, <3>4 DEF Piece, Continues
      <4>2. j - 1 \in 1..Len(b) /\ i - 1 = Len(a) + (j - 1) /\ i > 1
        BY <1>1, <3>1, <3>4
      <4>3. c[i - 1] = b[j - 1]
        <5> HIDE DEF c
        <5> QED
          BY <1>1, <4>2
      <4> HIDE DEF c
      <4> QED
        BY <4>1, <4>2, <4>3
    <3> QED
      BY <3>3, <3>4
  <2> QED
    BY <2>1, <2>2
<1>6. Continues(c) /\ (BlocksClosed(a) => BlocksClosed(c))
  BY <1>1, <1>5 DEF Continues, BlocksClosed
<1>7. Closes(b) => Closes(c)
  <2> SUFFICES ASSUME Closes(b) PROVE Closes(c)
    OBVIOUS
  <2>1. Len(b) # 0
    BY DEF Closes
  <2>2. Len(b) \in 1..Len(b) /\ Len(c) # 0
    BY <1>1, <2>1
  <2>3. c[Len(c)] = b[Len(b)] /\ c # <<>>
    BY <1>1, <2>2
  <2> QED
    BY <2>3 DEF Closes
<1> QED
  BY <1>1, <1>2, <1>3, <1>4, <1>6, <1>7 DEF Piece

\* Lines without labels and branches, in which no block ends or begins.
LEMMA PlainPiece ==
    ASSUME NEW s, Plain(s)
    PROVE  Piece(s, {}, {}) /\ BlocksClosed(s)
<1>1. PICK S : s \in Seq(S) /\ \A line \in S : line.op \in {"inst", "ret"}
  BY DEF Plain
<1>2. \A i \in DOMAIN s : s[i].op # "label" /\ s[i].op # "br"
  BY <1>1
<1>3. Labels(s) = {} /\ Targets(s) = {}
  BY <1>2 DEF Labels, Targets
<1>4. IsText(s)
  BY <1>1 DEF IsText
<1> QED
  BY <1>2, <1>3, <1>4 DEF Piece, UniqueLabels, Named, Continues, BlocksClosed

LEMMA PlainJoined ==
    ASSUME NEW a, NEW b, Plain(a), Plain(b)
    PROVE  Plain(a \o b)
<1>1. PICK S, T : /\ a \in Seq(S) /\ \A line \in S : line.op \in {"inst", "ret"}
                  /\ b \in Seq(T) /\ \A line \in T : line.op \in {"inst", "ret"}
  BY DEF Plain
<1>2. a \in Seq(S \cup T) /\ b \in Seq(S \cup T) /\ \A line \in S \cup T : line.op \in {"inst", "ret"}
  BY <1>1
<1>3. a \o b \in Seq(S \cup T)
  BY <1>2
<1> QED
  BY <1>2, <1>3 DEF Plain

LEMMA PlainLines ==
    /\ Plain(<<>>)
    /\ \A d, u : Plain(<<Inst(d, u)>>)
    /\ \A u : Plain(<<Ret(u)>>) /\ Closes(<<Ret(u)>>)
    /\ \A v, ty, t : Plain(EnsureLines(v, ty, t))
<1>1. Plain(<<>>)
  <2> DEFINE s == <<>>
             T == {}
  <2>1. s \in Seq(T) /\ \A line \in T : line.op \in {"inst", "ret"}
    OBVIOUS
  <2>2. \E S : s \in Seq(S) /\ \A line \in S : line.op \in {"inst", "ret"}
    <3> HIDE DEF s, T
    <3> QED
      BY <2>1
  <2> QED
    BY <2>2 DEF Plain
<1>2. ASSUME NEW x, x.op \in {"inst", "ret"}
      PROVE  Plain(<<x>>)
  <2>1. <<x>> \in Seq({x}) /\ \A line \in {x} : line.op \in {"inst", "ret"}
    BY <1>2
  <2> DEFINE s == <<x>>
             T == {x}
  <2>2. \E S : s \in Seq(S) /\ \A line \in S : line.op \in {"inst", "ret"}
    <3>1. s \in Seq(T) /\ \A line \in T : line.op \in {"inst", "ret"}
      BY <2>1
    <3> HIDE DEF s, T
    <3> QED
      BY <3>1
  <2> QED
    BY <2>2 DEF Plain
<1>3. \A d, u : Plain(<<Inst(d, u)>>)
  BY <1>2 DEF Inst, Line
<1>4. \A u : Plain(<<Ret(u)>>)
  BY <1>2 DEF Ret, Line
<1>5. \A u : Closes(<<Ret(u)>>)
  <2>1. ASSUME NEW u
        PROVE  Closes(<<Ret(u)>>)
    <3>1. <<Ret(u)>> # <<>> /\ Len(<<Ret(u)>>) = 1 /\ <<Ret(u)>>[1] = Ret(u)
      OBVIOUS
    <3>2. IsTerminator(Ret(u))
      BY DEF Ret, Line, IsTerminator
    <3> QED
      BY <3>1, <3>2 DEF Closes
  <2> QED
    BY <2>1
<1>6. \A v, ty, t : Plain(EnsureLines(v, ty, t))
  BY <1>1, <1>3 DEF EnsureLines
<1> QED
  BY <1>1, <1>3, <1>4, <1>5, <1>6

\* No instruction branches.
LEMMA PlainOps ==
    ASSUME NEW f, f.form \in OpForms, NEW vs, NEW t
    PROVE  Plain(OpLines(f, vs, t))
<1>1. ASSUME NEW d1, NEW u1, NEW d2, NEW u2
      PROVE  Plain(<<Inst(d1, u1), Inst(d2, u2)>>)
  <2> DEFINE S == {Inst(d1, u1), Inst(d2, u2)}
             s == <<Inst(d1, u1), Inst(d2, u2)>>
  <2>1. s \in Seq(S)
    OBVIOUS
  <2>2. \A line \in S : line.op \in {"inst", "ret"}
    BY DEF Inst, Line
  <2>3. \E X : s \in Seq(X) /\ \A line \in X : line.op \in {"inst", "ret"}
    <3> HIDE DEF S, s
    <3> QED
      BY <2>1, <2>2
  <2> QED
    BY <2>3 DEF Plain
<1>2. ASSUME f.form = "cmp"
      PROVE  Plain(CmpLines(f, vs, t))
  <2> DEFINE ty  == CmpType(f, vs)
             t2  == t + 2 + EnsureTemps(vs[1], ty)
             l1 == EnsureLines(vs[1], ty, t + 2)
             l2 == EnsureLines(vs[2], ty, t2)
             l3 == <<Inst({Temp(t)}, Ensured(vs[1], ty, t + 2).reg \cup Ensured(vs[2], ty, t2).reg),
                     Inst({Temp(t + 1)}, {Temp(t)})>>
  <2>1. Plain(l1) /\ Plain(l2) /\ Plain(l3)
    BY <1>1, PlainLines
  <2>2. CmpLines(f, vs, t) = l1 \o l2 \o l3
    BY DEF CmpLines
  <2> HIDE DEF l1, l2, l3
  <2>3. Plain(l1 \o l2)
    BY <2>1, PlainJoined
  <2>4. Plain((l1 \o l2) \o l3)
    BY <2>1, <2>3, PlainJoined
  <2> QED
    BY <2>2, <2>4
<1>3. Plain(LogicLines(vs, t))
  <2> DEFINE l1 == <<Inst({Temp(t)}, vs[1].reg), Inst({Temp(t + 1)}, vs[2].reg)>>
             l2 == <<Inst({Temp(t + 2)}, {Temp(t), Temp(t + 1)}), Inst({Temp(t + 3)}, {Temp(t + 2)})>>
  <2>1. LogicLines(vs, t) = l1 \o l2
    BY DEF LogicLines
  <2>2. Plain(l1) /\ Plain(l2)
    BY <1>1
  <2> HIDE DEF l1, l2
  <2> QED
    BY <2>1, <2>2, PlainJoined
<1> QED
  BY <1>2, <1>3, PlainLines DEF OpLines, OpForms

-----------------------------------------------------------------------------
(* What the activations owe to the text.                                   *)

\* The labels an activation has still to define, those of them that the text
\* branches to, and the label of the condition to which a loop jumps back.
Pending(f) ==
    CASE f.form \in {"if-then", "while-cond"} -> {f.lab + 1, f.lab + 2}
      [] f.form \in {"if-else", "while-body"} -> {f.lab + 2}
      [] OTHER -> {}
Promised(f) ==
    CASE f.form = "if-then" -> {f.lab + 1}
      [] f.form = "if-else" /\ ~f.ret -> {f.lab + 2}
      [] f.form = "while-body" -> {f.lab + 2}
      [] OTHER -> {}
Heads(f) == IF f.form \in {"while-cond", "while-body"} THEN {f.lab} ELSE {}

\* The blocks of the text so far.
TextHeld == UniqueLabels(code) /\ Named(code) /\ BlocksClosed(code)

\* A branch lands on a label of the text or on one an activation will define.
LandingHeld == \A l \in Targets(code) : \/ l \in Labels(code)
                                       \/ \E i \in DOMAIN stack : l \in Promised(stack[i])

\* A label is defined once and owed once.
DuesHeld ==
    /\ \A i \in DOMAIN stack : /\ Pending(stack[i]) \cap Labels(code) = {}
                               /\ Heads(stack[i]) \subseteq Labels(code)
    /\ \A i, j \in DOMAIN stack : i # j => Pending(stack[i]) \cap Pending(stack[j]) = {}

\* The function is complete with a terminator.
DoneHeld == ctl.mode = "done" => EndsInTerminator(code)

TextInv == TextHeld /\ LandingHeld /\ DuesHeld /\ ReturnFlagSound /\ DoneHeld

\* A step writes a piece that continues the text.
Writes(D, E) == \E s : /\ Piece(s, D, E) /\ code' = code \o s
                       /\ BlocksClosed(s) \/ Closes(code)

LEMMA CodeIs ==
    ASSUME TypeOK
    PROVE  /\ IsText(code) /\ Labels(code) \subseteq 0..nlabel - 1 /\ nlabel \in Nat
           /\ TextHeld => Piece(code, Labels(code), Targets(code))
<1>1. code \in Seq(LineOf(Registers, 0..nlabel - 1)) /\ nlabel \in Nat
  BY DEF TypeOK
<1>2. IsText(code)
  BY <1>1 DEF IsText
<1>3. Labels(code) \subseteq 0..nlabel - 1
  <2>1. \A i \in DOMAIN code : code[i] \in LineOf(Registers, 0..nlabel - 1)
    BY <1>1
  <2>2. \A i \in DOMAIN code : code[i].to \subseteq 0..nlabel - 1
    BY <2>1 DEF LineOf
  <2> QED
    BY <2>2 DEF Labels
<1> QED
  BY <1>1, <1>2, <1>3 DEF Piece, TextHeld, Continues, BlocksClosed

LEMMA TextWritten ==
    ASSUME TypeOK, TextHeld, NEW D, NEW E, Writes(D, E), D \cap Labels(code) = {}
    PROVE  /\ TextHeld'
           /\ Labels(code') = Labels(code) \cup D
           /\ Targets(code') = Targets(code) \cup E
<1>1. PICK s : Piece(s, D, E) /\ code' = code \o s /\ (BlocksClosed(s) \/ Closes(code))
  BY DEF Writes
<1>2. Piece(code, Labels(code), Targets(code)) /\ BlocksClosed(code)
  BY CodeIs DEF TextHeld
<1>3. Piece(code', Labels(code) \cup D, Targets(code) \cup E) /\ BlocksClosed(code')
  BY <1>1, <1>2, JoinedPieces
<1> QED
  BY <1>3 DEF Piece, TextHeld

\* What the activations under the top one owe is theirs alone: neither the top
\* one's nor a label that is handed out later.
LEMMA OthersOwe ==
    ASSUME TypeOK, LabelsHeld, NEW i \in DOMAIN stack
    PROVE  /\ \A l \in Pending(stack[i]) : l \in 0..nlabel - 1
           /\ Promised(stack[i]) \subseteq Pending(stack[i])
<1>1. stack[i].lab \in Nat /\ nlabel \in Nat
  <2>1. stack[i] \in FrameOf(Registers) /\ nlabel \in Nat
    BY DEF TypeOK
  <2> QED
    BY <2>1 DEF FrameOf
<1>2. stack[i].form \in BranchForms => stack[i].lab + 3 <= nlabel
  BY DEF LabelsHeld
<1>3. Pending(stack[i]) # {} => stack[i].form \in BranchForms
  BY DEF Pending, BranchForms
<1>4. \A l \in Pending(stack[i]) : l = stack[i].lab + 1 \/ l = stack[i].lab + 2
  BY DEF Pending
<1>5. \A l \in Pending(stack[i]) : l \in 0..nlabel - 1
  BY <1>1, <1>2, <1>3, <1>4
<1> QED
  BY <1>5 DEF Promised, Pending

\* The labels a step may define: those the top activation owes, and new ones.
Mine(f) == Pending(f) \cup {n \in Nat : nlabel <= n}

LEMMA NotMine ==
    ASSUME TypeOK, LabelsHeld, DuesHeld, NEW i \in DOMAIN stack, i # Len(stack)
    PROVE  Pending(stack[i]) \cap Mine(Top) = {}
<1>1. Len(stack) \in DOMAIN stack /\ nlabel \in Nat
  BY DEF TypeOK
<1>2. Pending(stack[i]) \cap Pending(Top) = {}
  BY <1>1 DEF DuesHeld, Top
<1>3. \A l \in Pending(stack[i]) : l \in 0..nlabel - 1
  BY OthersOwe
<1> QED
  BY <1>1, <1>2, <1>3 DEF Mine

\* The step defines the labels D and branches to the labels E.
Written(D, E) == Labels(code') = Labels(code) \cup D /\ Targets(code') = Targets(code) \cup E

LEMMA DuesKept ==
    ASSUME LandingHeld, DuesHeld, stack' = stack, Written({}, {})
    PROVE  LandingHeld' /\ DuesHeld'
<1>1. Labels(code') = Labels(code) /\ Targets(code') = Targets(code)
  BY DEF Written
<1>2. LandingHeld'
  BY <1>1 DEF LandingHeld
<1>3. DuesHeld'
  BY <1>1 DEF DuesHeld
<1> QED
  BY <1>2, <1>3

LEMMA DuesPushed ==
    ASSUME TypeOK, LabelsHeld, LandingHeld, DuesHeld, NEW f, stack' = Append(stack, f),
           NEW D, NEW E, Written(D, E), \A l \in D \cup Pending(f) : l \in Nat /\ nlabel <= l,
           Pending(f) \cap D = {}, Heads(f) \subseteq Labels(code'),
           E \subseteq Labels(code') \cup Promised(f)
    PROVE  LandingHeld' /\ DuesHeld'
<1> DEFINE n == Len(stack)
<1>1. /\ n \in Nat /\ DOMAIN stack = 1..n /\ DOMAIN stack' = 1..n + 1
      /\ \A i \in 1..n : stack'[i] = stack[i]
      /\ stack'[n + 1] = f
      /\ n + 1 \in 1..n + 1 /\ \A i \in 1..n : i \in 1..n + 1 /\ i # n + 1
      /\ \A i \in 1..n + 1 : i \in 1..n \/ i = n + 1
  BY DEF TypeOK
<1>2. \A i \in 1..n : \A l \in Pending(stack[i]) : l \in 0..nlabel - 1
  BY <1>1, OthersOwe
<1>3. Labels(code) \subseteq 0..nlabel - 1 /\ nlabel \in Nat
  BY CodeIs
<1>4. \A l \in D \cup Pending(f) : l \notin 0..nlabel - 1
  BY <1>3
<1> HIDE DEF n
<1>5. LandingHeld'
  <2> SUFFICES ASSUME NEW l \in Targets(code'), l \notin Labels(code')
               PROVE  \E i \in DOMAIN stack' : l \in Promised(stack'[i])
    BY DEF LandingHeld
  <2>1. CASE l \in Targets(code)
    <3>1. PICK i \in 1..n : l \in Promised(stack[i])
      BY <1>1, <2>1 DEF LandingHeld, Written
    <3> QED
      BY <1>1, <3>1
  <2>2. CASE l \in E
    BY <1>1, <2>2
  <2> QED
    BY <2>1, <2>2 DEF Written
<1>6. ASSUME NEW i \in 1..n + 1
      PROVE  Pending(stack'[i]) \cap Labels(code') = {} /\ Heads(stack'[i]) \subseteq Labels(code')
  <2>1. CASE i \in 1..n
    BY <1>1, <1>2, <1>4, <2>1 DEF DuesHeld, Written
  <2>2. CASE i = n + 1
    BY <1>1, <1>3, <1>4, <2>2 DEF Written
  <2> QED
    BY <1>1, <2>1, <2>2
<1>7. ASSUME NEW i \in 1..n + 1, NEW j \in 1..n + 1, i # j
      PROVE  Pending(stack'[i]) \cap Pending(stack'[j]) = {}
  <2>1. CASE i \in 1..n /\ j \in 1..n
    BY <1>1, <1>7, <2>1 DEF DuesHeld
  <2>2. CASE i \in 1..n /\ j = n + 1
    BY <1>1, <1>2, <1>4, <2>2
  <2>3. CASE i = n + 1 /\ j \in 1..n
    BY <1>1, <1>2, <1>4, <2>3
  <2> QED
    BY <1>1, <1>7, <2>1, <2>2, <2>3
<1>8. DuesHeld'
  BY <1>1, <1>6, <1>7 DEF DuesHeld
<1> QED
  BY <1>5, <1>8

LEMMA DuesReplaced ==
    ASSUME TypeOK, LabelsHeld, LandingHeld, DuesHeld, stack # <<>>, NEW f, Goto(f),
           NEW D, NEW E, Written(D, E), D \subseteq Mine(Top), Pending(f) \subseteq Mine(Top),
           Pending(f) \cap (Labels(code) \cup D) = {}, Heads(f) \subseteq Labels(code'),
           E \cup Promised(Top) \subseteq Labels(code') \cup Promised(f)
    PROVE  LandingHeld' /\ DuesHeld'
<1> DEFINE n == Len(stack)
<1>1. n \in Nat /\ n > 0 /\ DOMAIN stack = 1..n /\ n \in 1..n /\ Top = stack[n]
  BY DEF TypeOK, Top
<1>2. /\ DOMAIN stack' = 1..n
      /\ \A i \in 1..n : i # n => stack'[i] = stack[i]
      /\ stack'[n] = f
  <2> DEFINE S == FrameOf(Registers)
  <2>1. stack \in Seq(S) /\ stack' = Append(SubSeq(stack, 1, Len(stack) - 1), f)
    BY DEF TypeOK, Goto, Below
  <2> HIDE DEF S
  <2> QED
    BY <2>1, ReplacedTopIs
<1>3. \A i \in 1..n : i # n => Pending(stack[i]) \cap Mine(Top) = {}
  BY <1>1, NotMine
<1> HIDE DEF n
<1>5. LandingHeld'
  <2> SUFFICES ASSUME NEW l \in Targets(code'), l \notin Labels(code')
               PROVE  \E i \in DOMAIN stack' : l \in Promised(stack'[i])
    BY DEF LandingHeld
  <2>1. CASE l \in Targets(code)
    <3>1. PICK i \in 1..n : l \in Promised(stack[i])
      BY <1>1, <2>1 DEF LandingHeld, Written
    <3>2. CASE i = n
      BY <1>1, <1>2, <3>1, <3>2
    <3> QED
      BY <1>2, <3>1, <3>2
  <2>2. CASE l \in E
    BY <1>1, <1>2, <2>2
  <2> QED
    BY <2>1, <2>2 DEF Written
<1>6. ASSUME NEW i \in 1..n
      PROVE  Pending(stack'[i]) \cap Labels(code') = {} /\ Heads(stack'[i]) \subseteq Labels(code')
  <2>1. CASE i # n
    <3>1. Pending(stack[i]) \cap D = {}
      BY <1>3, <2>1
    <3> QED
      BY <1>1, <1>2, <2>1, <3>1 DEF DuesHeld, Written
  <2>2. CASE i = n
    BY <1>2, <2>2 DEF Written
  <2> QED
    BY <2>1, <2>2
<1>7. ASSUME NEW i \in 1..n, NEW j \in 1..n, i # j
      PROVE  Pending(stack'[i]) \cap Pending(stack'[j]) = {}
  <2>1. CASE i # n /\ j # n
    BY <1>1, <1>2, <1>7, <2>1 DEF DuesHeld
  <2>2. CASE i # n /\ j = n
    BY <1>2, <1>3, <2>2
  <2>3. CASE i = n /\ j # n
    BY <1>2, <1>3, <2>3
  <2> QED
    BY <1>7, <2>1, <2>2, <2>3
<1>8. DuesHeld'
  BY <1>2, <1>6, <1>7 DEF DuesHeld
<1> QED
  BY <1>5, <1>8

LEMMA DuesEnded ==
    ASSUME TypeOK, LabelsHeld, LandingHeld, DuesHeld, stack # <<>>, stack' = Below,
           NEW D, NEW E, Written(D, E), D \subseteq Mine(Top),
           E \cup Promised(Top) \subseteq Labels(code')
    PROVE  LandingHeld' /\ DuesHeld'
<1> DEFINE n == Len(stack)
<1>1. n \in Nat /\ n > 0 /\ DOMAIN stack = 1..n /\ Top = stack[n] /\ \A i \in 1..n - 1 : i \in 1..n /\ i # n
  BY DEF TypeOK, Top
<1>2. DOMAIN stack' = 1..n - 1 /\ \A i \in 1..n - 1 : stack'[i] = stack[i]
  <2> DEFINE S == FrameOf(Registers)
  <2>1. stack \in Seq(S) /\ stack' = SubSeq(stack, 1, Len(stack) - 1)
    BY DEF TypeOK, Below
  <2> HIDE DEF S
  <2>2. stack' \in Seq(S) /\ Len(stack') = n - 1 /\ \A i \in 1..n - 1 : stack'[i] = stack[i]
    BY <2>1, BelowIs
  <2> QED
    BY <2>2
<1>3. \A i \in 1..n : i # n => Pending(stack[i]) \cap Mine(Top) = {}
  BY <1>1, NotMine
<1> HIDE DEF n
<1>4. \A i \in 1..n : i # n => i \in 1..n - 1
  BY <1>1
<1>5. LandingHeld'
  <2> SUFFICES ASSUME NEW l \in Targets(code'), l \notin Labels(code')
               PROVE  \E i \in DOMAIN stack' : l \in Promised(stack'[i])
    BY DEF LandingHeld
  <2>1. l \in Targets(code)
    BY DEF Written
  <2>2. PICK i \in 1..n : l \in Promised(stack[i])
    BY <1>1, <2>1 DEF LandingHeld, Written
  <2>3. i # n
    BY <1>1, <2>2
  <2> QED
    BY <1>2, <1>4, <2>2, <2>3
<1>6. ASSUME NEW i \in 1..n - 1
      PROVE  Pending(stack'[i]) \cap Labels(code') = {} /\ Heads(stack'[i]) \subseteq Labels(code')
  <2>1. Pending(stack[i]) \cap D = {} /\ i \in 1..n
    BY <1>1, <1>3
  <2> QED
    BY <1>1, <1>2, <2>1 DEF DuesHeld, Written
<1>7. DuesHeld'
  BY <1>1, <1>2, <1>6 DEF DuesHeld
<1> QED
  BY <1>5, <1>7

-----------------------------------------------------------------------------
(* Steps that neither define a label nor branch.                           *)

\* What such a step does to the activations.
Unbranched ==
    \/ stack' = stack
    \/ \E f : f.form \notin BranchForms /\ stack' = Append(stack, f)
    \/ Top.form \notin BranchForms /\ \E f : f.form \notin BranchForms /\ Goto(f)
    \/ Top.form \notin BranchForms /\ stack' = Below

\* The result a step hands on is true of the text it leaves.
Tells == /\ ctl'.mode = "did" /\ ctl'.ret => code' # <<>> /\ code'[Len(code')].op = "ret"
         /\ ctl'.mode = "done" => EndsInTerminator(code')

LEMMA PlainStep ==
    ASSUME IInv, TextInv, ctl.mode # "done", nlabel' = nlabel,
           NEW s, Plain(s), code' = code \o s, Unbranched, Tells
    PROVE  TextInv'
<1>1. TypeOK /\ LabelsHeld /\ stack # <<>>
  BY TopFacts DEF IInv
<1>2. TextHeld /\ LandingHeld /\ DuesHeld
  BY DEF TextInv
<1>3. Writes({}, {})
  BY PlainPiece DEF Writes
<1>4. TextHeld' /\ Written({}, {})
  BY <1>1, <1>2, <1>3, TextWritten DEF Written
<1>5. \A f : f.form \notin BranchForms => Pending(f) = {} /\ Promised(f) = {} /\ Heads(f) = {}
  BY DEF BranchForms, Pending, Promised, Heads
<1>6. ASSUME stack' = stack
      PROVE  LandingHeld' /\ DuesHeld'
  BY <1>2, <1>4, <1>6, DuesKept
<1>7. ASSUME NEW f, f.form \notin BranchForms, stack' = Append(stack, f)
      PROVE  LandingHeld' /\ DuesHeld'
  BY <1>1, <1>2, <1>4, <1>5, <1>7, DuesPushed
<1>8. ASSUME Top.form \notin BranchForms, NEW f, f.form \notin BranchForms, Goto(f)
      PROVE  LandingHeld' /\ DuesHeld'
  <2>2. /\ Pending(f) = {} /\ Heads(f) = {} /\ Promised(Top) = {}
    BY <1>5, <1>8
  <2> QED
    BY <1>1, <1>2, <1>4, <1>8, <2>2, DuesReplaced
<1>9. ASSUME Top.form \notin BranchForms, stack' = Below
      PROVE  LandingHeld' /\ DuesHeld'
  <2>1. Promised(Top) = {}
    BY <1>5, <1>9
  <2> QED
    BY <1>1, <1>2, <1>4, <1>9, <2>1, DuesEnded
<1>10. LandingHeld' /\ DuesHeld'
  BY <1>6, <1>7, <1>8, <1>9 DEF Unbranched
<1>11. ReturnFlagSound' /\ DoneHeld'
  BY DEF Tells, ReturnFlagSound, DoneHeld
<1> QED
  BY <1>4, <1>10, <1>11 DEF TextInv

\* A step that writes nothing.
LEMMA SilentStep ==
    ASSUME IInv, TextInv, ctl.mode # "done", nlabel' = nlabel, code' = code, Unbranched, Tells
    PROVE  TextInv'
<1>1. code \o <<>> = code
  <2>1. IsText(code) /\ IsText(<<>>)
    <3>1. <<>> \in Seq({})
      OBVIOUS
    <3> QED
      BY <3>1, CodeIs DEF IsText, IInv, TypeInv
  <2> QED
    BY <2>1, Joined
<1>2. Plain(<<>>) /\ code' = code \o <<>>
  BY <1>1, PlainLines
<1> QED
  BY <1>2, PlainStep

\* A step that calls or yields says nothing of a return.
LEMMA TellsNothing ==
    ASSUME ctl'.mode \notin {"did", "done"} \/ (ctl'.mode = "did" /\ ctl'.ret = FALSE)
    PROVE  Tells
BY DEF Tells

LEMMA TextCalls ==
    ASSUME IInv, TextInv,
           \/ StmtSkip \/ CallReturn \/ CallStore \/ CallLet \/ CallSet \/ CallDo \/ CallIf \/ CallExprStmt
           \/ ExprConst \/ ExprAddr \/ ExprAddrOf \/ ExprGetField \/ ExprBlock \/ ExprOp
           \/ NextItem
    PROVE  TextInv'
<1>1. ctl.mode # "done"
  BY DEF StmtSkip, CallReturn, CallStore, CallLet, CallSet, CallDo, CallIf, CallExprStmt, ExprConst,
         ExprAddr, ExprAddrOf, ExprGetField, ExprBlock, ExprOp, NextItem, StmtCalled, ExprCalled
<1>2. nlabel' = nlabel /\ code' = code
  BY DEF StmtSkip, CallReturn, CallStore, CallLet, CallSet, CallDo, CallIf, CallExprStmt, ExprConst,
         ExprAddr, ExprAddrOf, ExprGetField, ExprBlock, ExprOp, NextItem
<1>3. ASSUME NEW form, form \notin BranchForms, NEW arg
      PROVE  /\ Frame(form, arg).form \notin BranchForms
             /\ ListFrame(form).form \notin BranchForms
             /\ \A ty : [Frame(form, arg) EXCEPT !.ty = ty].form \notin BranchForms
  BY <1>3 DEF Frame, ListFrame
<1>4. /\ "return" \notin BranchForms /\ "store" \notin BranchForms /\ "let" \notin BranchForms
      /\ "set" \notin BranchForms /\ "do" \notin BranchForms /\ "if-cond" \notin BranchForms
      /\ "expr" \notin BranchForms /\ "block" \notin BranchForms /\ "arith" \notin BranchForms
      /\ "logic" \notin BranchForms /\ "cmp" \notin BranchForms /\ "load" \notin BranchForms
      /\ "ptr-add" \notin BranchForms /\ "bitcast" \notin BranchForms /\ "call" \notin BranchForms
  BY DEF BranchForms
<1>5. \A mode \in {"expr", "items", "list", "stmt", "item"} : Call(mode).mode \notin {"did", "done"}
  BY DEF Call
<1>6. \A v : Yield(v).mode \notin {"did", "done"} /\ Did(FALSE, v).mode = "did" /\ Did(FALSE, v).ret = FALSE
  BY DEF Yield, Did
<1>7. CASE CallReturn \/ CallStore \/ CallLet \/ CallSet \/ CallDo \/ CallIf \/ CallExprStmt
  <2>1. Unbranched
    BY <1>3, <1>4, <1>7 DEF Unbranched, CallReturn, CallStore, CallLet, CallSet, CallDo, CallIf,
       CallExprStmt, Enter
  <2>2. \E mode \in {"expr", "items", "list"} : ctl' = Call(mode)
    BY <1>7 DEF CallReturn, CallStore, CallLet, CallSet, CallDo, CallIf, CallExprStmt, Enter
  <2> QED
    BY <1>1, <1>2, <1>5, <2>1, <2>2, TellsNothing, SilentStep
<1>8. CASE ExprBlock \/ ExprOp
  <2>1. Unbranched
    BY <1>3, <1>4, <1>8 DEF Unbranched, ExprBlock, ExprOp, Enter
  <2>2. \E mode \in {"expr", "items", "list"} : ctl' = Call(mode)
    BY <1>8 DEF ExprBlock, ExprOp, Enter
  <2> QED
    BY <1>1, <1>2, <1>5, <2>1, <2>2, TellsNothing, SilentStep
<1>9. CASE StmtSkip \/ ExprConst \/ ExprAddr \/ ExprAddrOf \/ ExprGetField \/ NextItem
  <2>1. Unbranched
    BY <1>9 DEF Unbranched, StmtSkip, ExprConst, ExprAddr, ExprAddrOf, ExprGetField, NextItem
  <2>2. \/ \E v : ctl' = Yield(v)
        \/ ctl' = Did(FALSE, NoValue)
        \/ \E mode \in {"stmt", "item"} : ctl' = Call(mode)
    BY <1>9 DEF StmtSkip, ExprConst, ExprAddr, ExprAddrOf, ExprGetField, NextItem
  <2>3. Tells
    BY <1>5, <1>6, <2>2, TellsNothing
  <2> QED
    BY <1>1, <1>2, <2>1, <2>3, SilentStep
<1> QED
  BY <1>7, <1>8, <1>9

LEMMA TextLoads ==
    ASSUME IInv, TextInv, ExprVar \/ ExprString \/ CallNoArgs
    PROVE  TextInv'
<1>1. ctl.mode # "done" /\ nlabel' = nlabel /\ stack' = stack
  BY DEF ExprVar, ExprString, CallNoArgs, ExprCalled
<1>2. \E s : Plain(s) /\ code' = code \o s
  <2>1. ExprVar \/ ExprString => \E d, u : code' = code \o <<Inst(d, u)>>
    BY DEF ExprVar, ExprString, Emit
  <2>2. CallNoArgs => \E fn : code' = code \o OpLines(Frame("call", fn), <<>>, ntemp)
    BY DEF CallNoArgs, Emit
  <2>3. \A fn : Frame("call", fn).form \in OpForms
    BY DEF Frame, OpForms
  <2> QED
    BY <2>1, <2>2, <2>3, PlainLines, PlainOps
<1>3. Tells
  <2>1. ExprVar \/ ExprString => ctl'.mode = "val"
    <3>1. ExprVar \/ ExprString => \E v : ctl' = Yield(v)
      BY DEF ExprVar, ExprString
    <3> QED
      BY <3>1 DEF Yield
  <2>2. CallNoArgs => \E fn : ctl' = OpResult(Frame("call", fn), <<>>, ntemp)
    BY DEF CallNoArgs
  <2>3. \A fn : OpResult(Frame("call", fn), <<>>, ntemp).mode = "val"
    BY DEF OpResult, Frame, Yield
  <2> QED
    BY <2>1, <2>2, <2>3, TellsNothing
<1> QED
  BY <1>1, <1>2, <1>3, PlainStep DEF Unbranched

LEMMA TextOperands ==
    ASSUME IInv, TextInv, Operand
    PROVE  TextInv'
<1>1. ctl.mode # "done" /\ nlabel' = nlabel /\ Top.form \in OpForms /\ Top.form \notin BranchForms
  BY DEF Operand, Fatal, OpForms, BranchForms
<1>2. \E s : Plain(s) /\ code' = code \o s
  <2>1. \/ code' = code
        \/ \E v, ty, t : code' = code \o EnsureLines(v, ty, t)
        \/ \E v, ty, t, vs, t2 : code' = code \o (EnsureLines(v, ty, t) \o OpLines(Top, vs, t2))
    BY DEF Operand, Emit, Fatal
  <2>2. code \o <<>> = code
    <3>1. IsText(code) /\ IsText(<<>>)
      <4>1. <<>> \in Seq({})
        OBVIOUS
      <4> QED
        BY <4>1, CodeIs DEF IsText, IInv, TypeInv
    <3> QED
      BY <3>1, Joined
  <2>3. \A v, ty, t, vs, t2 : Plain(EnsureLines(v, ty, t) \o OpLines(Top, vs, t2))
    BY <1>1, PlainLines, PlainOps, PlainJoined
  <2> QED
    BY <2>1, <2>2, <2>3, PlainLines
<1>3. Tells
  <2>1. \/ ctl' = Call("fatal") \/ ctl' = Call("expr")
        \/ \E vs, t : ctl' = OpResult(Top, vs, t)
    BY DEF Operand, Fatal
  <2>2. ASSUME NEW vs, NEW t
        PROVE  OpResult(Top, vs, t).mode = "val"
               \/ (OpResult(Top, vs, t).mode = "did" /\ OpResult(Top, vs, t).ret = FALSE)
    <3>1. OpResult(Top, vs, t) = Did(FALSE, NoValue) \/ \E v : OpResult(Top, vs, t) = Yield(v)
      BY <1>1 DEF OpResult, OpForms
    <3> QED
      BY <3>1 DEF Yield, Did
  <2>3. Call("fatal").mode = "fatal" /\ Call("expr").mode = "expr"
    BY DEF Call
  <2> QED
    BY <2>1, <2>2, <2>3, TellsNothing
<1>4. Unbranched
  <2>1. \A vs : [Top EXCEPT !.vals = vs].form = Top.form
    BY <1>1, TopFacts DEF FrameOf, IInv
  <2>2. stack' = stack \/ stack' = Below \/ \E vs : Goto([Top EXCEPT !.vals = vs])
    BY DEF Operand, Fatal
  <2> QED
    BY <1>1, <2>1, <2>2 DEF Unbranched
<1> QED
  BY <1>1, <1>2, <1>3, <1>4, PlainStep

LEMMA LastJoined ==
    ASSUME NEW a, NEW b, IsText(a), IsText(b), b # <<>>
    PROVE  a \o b # <<>> /\ (a \o b)[Len(a \o b)] = b[Len(b)]
<1> DEFINE c == a \o b
<1>1. /\ Len(a) \in Nat /\ Len(b) \in Nat /\ Len(c) = Len(a) + Len(b) /\ IsText(c)
      /\ \A i \in 1..Len(b) : c[Len(a) + i] = b[i]
  BY Joined
<1>2. Len(b) # 0
  BY DEF IsText
<1> HIDE DEF c
<1>3. Len(b) \in 1..Len(b) /\ Len(c) # 0
  BY <1>1, <1>2
<1>4. c[Len(c)] = b[Len(b)] /\ c # <<>>
  BY <1>1, <1>3
<1> QED
  BY <1>4 DEF c

\* The text ends with the ret a step writes last.
LEMMA EndsWithRet ==
    ASSUME TypeOK, NEW s, Plain(s), NEW u, code' = code \o (s \o <<Ret(u)>>)
    PROVE  /\ code' # <<>> /\ code'[Len(code')].op = "ret" /\ EndsInTerminator(code')
           /\ Plain(s \o <<Ret(u)>>)
<1> DEFINE r == <<Ret(u)>>
<1>1. Plain(r) /\ r # <<>> /\ r[Len(r)] = Ret(u)
  BY PlainLines
<1>2. IsText(s) /\ IsText(r) /\ IsText(code)
  BY <1>1, CodeIs DEF Plain, IsText
<1> HIDE DEF r
<1>3. IsText(s \o r) /\ s \o r # <<>> /\ (s \o r)[Len(s \o r)] = Ret(u) /\ Plain(s \o r)
  BY <1>1, <1>2, Joined, LastJoined, PlainJoined
<1> DEFINE b == s \o r
<1>4. IsText(b) /\ b # <<>> /\ b[Len(b)] = Ret(u) /\ code' = code \o b
  BY <1>3 DEF r
<1> HIDE DEF b
<1>5. code' # <<>> /\ code'[Len(code')] = Ret(u)
  BY <1>2, <1>4, LastJoined
<1> QED
  BY <1>3, <1>5 DEF Ret, Line, EndsInTerminator, IsTerminator, r

LEMMA TextReturns ==
    ASSUME IInv, TextInv, Return
    PROVE  TextInv'
<1>1. ctl.mode # "done" /\ nlabel' = nlabel /\ Top.form \notin BranchForms /\ stack' = Below /\ TypeOK
  BY DEF Return, Valued, BranchForms, Finish, IInv, TypeInv
<1>2. PICK u : code' = code \o <<Ret(u)>>
  BY DEF Return, Emit
<1>3. <<>> \o <<Ret(u)>> = <<Ret(u)>> /\ Plain(<<>>)
  <2>1. Plain(<<>>) /\ Plain(<<Ret(u)>>)
    BY PlainLines
  <2>2. IsText(<<>>) /\ IsText(<<Ret(u)>>)
    BY <2>1 DEF Plain, IsText
  <2> QED
    BY <2>1, <2>2, Joined
<1>4. code' = code \o (<<>> \o <<Ret(u)>>)
  BY <1>2, <1>3
<1>5. code' # <<>> /\ code'[Len(code')].op = "ret" /\ Plain(<<>> \o <<Ret(u)>>)
  BY <1>1, <1>3, <1>4, EndsWithRet
<1>6. ctl'.mode = "did"
  BY DEF Return, Finish, Did
<1> QED
  BY <1>1, <1>4, <1>5, <1>6, PlainStep DEF Tells, Unbranched

LEMMA PlainLet ==
    ASSUME NEW slot, NEW reg, NEW deref, NEW t
    PROVE  Plain(LetLines(slot, reg, deref, t))
<1> DEFINE l1 == <<Inst({slot}, {})>>
           l2 == IF deref THEN <<Inst({Temp(t)}, reg)>> ELSE <<>>
           l3 == <<Inst({}, {slot} \cup (IF deref THEN {Temp(t)} ELSE reg))>>
<1>1. Plain(l1) /\ Plain(l2) /\ Plain(l3)
  BY PlainLines
<1>2. LetLines(slot, reg, deref, t) = l1 \o l2 \o l3
  BY DEF LetLines
<1> HIDE DEF l1, l2, l3
<1>3. Plain(l1 \o l2)
  BY <1>1, PlainJoined
<1>4. Plain((l1 \o l2) \o l3)
  BY <1>1, <1>3, PlainJoined
<1> QED
  BY <1>2, <1>4

LEMMA TextLets ==
    ASSUME IInv, TextInv, Let
    PROVE  TextInv'
<1>1. ctl.mode # "done" /\ nlabel' = nlabel /\ Top.form \notin BranchForms
  BY DEF Let, Valued, BranchForms
<1>2. \E slot, reg, deref, t : code' = code \o LetLines(slot, reg, deref, t)
  BY DEF Let, Emit
<1>3. Goto(ListFrame("do")) /\ ListFrame("do").form \notin BranchForms
  BY DEF Let, ListFrame, Frame, BranchForms
<1>4. ctl'.mode = "items"
  BY DEF Let, Call
<1> QED
  BY <1>1, <1>2, <1>3, <1>4, PlainLet, PlainStep, TellsNothing DEF Unbranched

LEMMA TextSets ==
    ASSUME IInv, TextInv, Set \/ ExprStmt
    PROVE  TextInv'
<1>1. /\ ctl.mode # "done" /\ nlabel' = nlabel /\ Top.form \notin BranchForms /\ stack' = Below
      /\ ctl'.mode = "did" /\ ctl'.ret = FALSE
  BY DEF Set, ExprStmt, Valued, BranchForms, Finish, Did
<1>2. Tells /\ Unbranched
  BY <1>1, TellsNothing DEF Unbranched
<1>3. CASE Set
  <2>1. \E d, u : code' = code \o <<Inst(d, u)>>
    BY <1>3 DEF Set, Emit
  <2> QED
    BY <1>1, <1>2, <2>1, PlainLines, PlainStep
<1>4. CASE ExprStmt
  BY <1>1, <1>2, <1>4, SilentStep DEF ExprStmt
<1> QED
  BY <1>3, <1>4

\* What ends a list of statements.
LEMMA TextLists ==
    ASSUME IInv, TextInv, ItemDone \/ ItemReturned \/ EndDo \/ EndBlock \/ BodyReturned
    PROVE  TextInv'
<1>1. ctl.mode # "done" /\ nlabel' = nlabel /\ code' = code /\ Top.form \in ListForms
  BY DEF ItemDone, ItemReturned, EndDo, EndBlock, BodyReturned, InList, ListForms
<1>2. Top.form \notin BranchForms
  BY <1>1 DEF ListForms, BranchForms
<1>3. CASE ItemDone
  <2>1. \A vs : [Top EXCEPT !.vals = vs].form = Top.form
    BY <1>1, TopFacts DEF FrameOf, IInv
  <2>2. \E f : f.form = Top.form /\ Goto(f)
    BY <1>3, <2>1 DEF ItemDone
  <2>3. ctl'.mode = "items"
    BY <1>3 DEF ItemDone, Call
  <2> QED
    BY <1>1, <1>2, <2>2, <2>3, TellsNothing, SilentStep DEF Unbranched
<1>4. CASE ItemReturned \/ BodyReturned
  <2>1. code # <<>> /\ code[Len(code)].op = "ret"
    BY <1>4 DEF TextInv, ReturnFlagSound, ItemReturned, BodyReturned
  <2>2. Tells
    BY <1>1, <2>1 DEF Tells, EndsInTerminator, IsTerminator
  <2>3. stack' = Below
    BY <1>4 DEF ItemReturned, BodyReturned, Finish
  <2> QED
    BY <1>1, <1>2, <2>2, <2>3, SilentStep DEF Unbranched
<1>5. CASE EndDo \/ EndBlock
  <2>1. stack' = Below /\ \E v : ctl' = Did(FALSE, v) \/ ctl' = Yield(v)
    BY <1>5 DEF EndDo, EndBlock, Finish
  <2>2. \A v : Did(FALSE, v).mode = "did" /\ Did(FALSE, v).ret = FALSE /\ Yield(v).mode = "val"
    BY DEF Did, Yield
  <2> QED
    BY <1>1, <1>2, <2>1, <2>2, TellsNothing, SilentStep DEF Unbranched
<1> QED
  BY <1>3, <1>4, <1>5

\* A diagnostic ends the compilation where it stands.
LEMMA TextFatals ==
    ASSUME IInv, TextInv, ctl.mode # "done", Fatal
    PROVE  TextInv'
<1>1. nlabel' = nlabel /\ code' = code /\ stack' = stack /\ ctl'.mode = "fatal"
  BY DEF Fatal, Call
<1> QED
  BY <1>1, TellsNothing, SilentStep DEF Unbranched

LEMMA TextEnds ==
    ASSUME IInv, TextInv, EndBody
    PROVE  TextInv'
<1>1. ctl.mode # "done" /\ Top.form \notin BranchForms /\ TypeOK
  BY DEF EndBody, InList, BranchForms, IInv, TypeInv
<1>2. CASE Fatal
  BY <1>1, <1>2, TextFatals
<1>3. CASE nlabel' = nlabel /\ Finish(Call("done")) /\ \E s, u : Plain(s) /\ code' = code \o (s \o <<Ret(u)>>)
  <2>1. PICK s, u : Plain(s) /\ code' = code \o (s \o <<Ret(u)>>)
    BY <1>3
  <2>2. EndsInTerminator(code') /\ Plain(s \o <<Ret(u)>>)
    BY <1>1, <2>1, EndsWithRet
  <2>3. stack' = Below /\ ctl'.mode = "done"
    BY <1>3 DEF Finish, Call
  <2> QED
    BY <1>1, <1>3, <2>1, <2>2, <2>3, PlainStep DEF Tells, Unbranched
<1>4. \A u : <<>> \o <<Ret(u)>> = <<Ret(u)>>
  <2>1. ASSUME NEW u
        PROVE  <<>> \o <<Ret(u)>> = <<Ret(u)>>
    <3>1. Plain(<<>>) /\ Plain(<<Ret(u)>>)
      BY PlainLines
    <3>2. IsText(<<>>) /\ IsText(<<Ret(u)>>)
      BY <3>1 DEF Plain, IsText
    <3> QED
      BY <3>2, Joined
  <2> QED
    BY <2>1
<1>5. ~Fatal => nlabel' = nlabel /\ Finish(Call("done")) /\ \E s, u : Plain(s) /\ code' = code \o (s \o <<Ret(u)>>)
  <2>1. ~Fatal => nlabel' = nlabel /\ Finish(Call("done"))
    BY DEF EndBody
  <2>2. ~Fatal => \/ code' = code \o <<Ret({})>>
                  \/ \E v, ty, t, u : code' = code \o (EnsureLines(v, ty, t) \o <<Ret(u)>>)
    BY DEF EndBody, Emit
  <2>3. code \o <<Ret({})>> = code \o (<<>> \o <<Ret({})>>)
    BY <1>4
  <2> QED
    BY <2>1, <2>2, <2>3, PlainLines
<1> QED
  BY <1>2, <1>3, <1>5

-----------------------------------------------------------------------------
(* Branches and labels.                                                    *)

LEMMA LinePiece ==
    ASSUME NEW x, x.op = "label" => x.to # {}
    PROVE  /\ Piece(<<x>>, IF x.op = "label" THEN x.to ELSE {}, IF x.op = "br" THEN x.to ELSE {})
           /\ x.op # "label" => BlocksClosed(<<x>>)
           /\ IsTerminator(x) => Closes(<<x>>)
<1> DEFINE s == <<x>>
<1>1. DOMAIN s = {1} /\ s[1] = x /\ Len(s) = 1 /\ s # <<>> /\ IsText(s)
  <2>1. s \in Seq({x})
    OBVIOUS
  <2>2. IsText(s)
    <3> HIDE DEF s
    <3> QED
      BY <2>1 DEF IsText
  <2> QED
    BY <2>2
<1> HIDE DEF s
<1>2. Labels(s) = IF x.op = "label" THEN x.to ELSE {}
  BY <1>1 DEF Labels
<1>3. Targets(s) = IF x.op = "br" THEN x.to ELSE {}
  BY <1>1 DEF Targets
<1>4. UniqueLabels(s) /\ Named(s) /\ Continues(s)
  BY <1>1 DEF UniqueLabels, Named, Continues
<1>5. (x.op # "label" => BlocksClosed(s)) /\ (IsTerminator(x) => Closes(s))
  BY <1>1 DEF BlocksClosed, Closes
<1> QED
  BY <1>1, <1>2, <1>3, <1>4, <1>5 DEF Piece, s

LEMMA BranchLines ==
    /\ \A l : Piece(<<LabelDef(l)>>, {l}, {})
    /\ \A l : Piece(<<Br(l)>>, {}, {l}) /\ BlocksClosed(<<Br(l)>>) /\ Closes(<<Br(l)>>)
    /\ \A r, a, b : /\ Piece(<<CondBr(r, a, b)>>, {}, {a, b}) /\ BlocksClosed(<<CondBr(r, a, b)>>)
                    /\ Closes(<<CondBr(r, a, b)>>)
<1>1. ASSUME NEW l
      PROVE  Piece(<<LabelDef(l)>>, {l}, {})
  <2>1. LabelDef(l).op = "label" /\ LabelDef(l).to = {l}
    BY DEF LabelDef, Line
  <2> HIDE DEF LabelDef
  <2> QED
    BY <2>1, LinePiece
<1>2. ASSUME NEW x, x.op = "br"
      PROVE  Piece(<<x>>, {}, x.to) /\ BlocksClosed(<<x>>) /\ Closes(<<x>>)
  BY <1>2, LinePiece DEF IsTerminator
<1>3. \A l : Br(l).op = "br" /\ Br(l).to = {l}
  BY DEF Br, Line
<1>4. \A r, a, b : CondBr(r, a, b).op = "br" /\ CondBr(r, a, b).to = {a, b}
  BY DEF CondBr, Line
<1>5. ASSUME NEW l
      PROVE  Piece(<<Br(l)>>, {}, {l}) /\ BlocksClosed(<<Br(l)>>) /\ Closes(<<Br(l)>>)
  <2> DEFINE x == Br(l)
  <2>1. x.op = "br" /\ x.to = {l}
    BY <1>3
  <2> HIDE DEF x
  <2>2. Piece(<<x>>, {}, {l}) /\ BlocksClosed(<<x>>) /\ Closes(<<x>>)
    BY <1>2, <2>1
  <2> QED
    BY <2>2 DEF x
<1>6. ASSUME NEW r, NEW a, NEW b
      PROVE  /\ Piece(<<CondBr(r, a, b)>>, {}, {a, b}) /\ BlocksClosed(<<CondBr(r, a, b)>>)
             /\ Closes(<<CondBr(r, a, b)>>)
  <2> DEFINE x == CondBr(r, a, b)
  <2>1. x.op = "br" /\ x.to = {a, b}
    BY <1>4
  <2> HIDE DEF x
  <2>2. Piece(<<x>>, {}, {a, b}) /\ BlocksClosed(<<x>>) /\ Closes(<<x>>)
    BY <1>2, <2>1
  <2> QED
    BY <2>2 DEF x
<1> QED
  BY <1>1, <1>5, <1>6

\* A piece may be followed by a label when it closes its block.
LEMMA ThenLabel ==
    ASSUME NEW s, NEW E, Piece(s, {}, E), BlocksClosed(s), Closes(s), NEW l
    PROVE  Piece(s \o <<LabelDef(l)>>, {l}, E) /\ BlocksClosed(s \o <<LabelDef(l)>>)
<1> DEFINE b == <<LabelDef(l)>>
<1>1. Piece(b, {l}, {})
  BY BranchLines
<1> HIDE DEF b
<1>2. Piece(s \o b, {} \cup {l}, E \cup {}) /\ BlocksClosed(s \o b)
  BY <1>1, JoinedPieces
<1>3. {} \cup {l} = {l} /\ E \cup {} = E
  OBVIOUS
<1> QED
  BY <1>2, <1>3 DEF b

\* A condition branches to both labels, one of which follows.
LEMMA CondPiece ==
    ASSUME NEW v, NEW t, NEW a, NEW b, NEW l
    PROVE  /\ Piece(CondLines(v, t, a, b) \o <<LabelDef(l)>>, {l}, {a, b})
           /\ BlocksClosed(CondLines(v, t, a, b) \o <<LabelDef(l)>>)
<1> DEFINE c == t + EnsureTemps(v, "i32")
           l1 == EnsureLines(v, "i32", t)
           l2 == <<Inst({Temp(c)}, Ensured(v, "i32", t).reg)>>
           l3 == <<CondBr(Temp(c), a, b)>>
           l4 == <<Inst({Temp(c)}, Ensured(v, "i32", t).reg), CondBr(Temp(c), a, b)>>
<1>1. CondLines(v, t, a, b) = l1 \o l4 /\ l4 = l2 \o l3
  BY DEF CondLines
<1>2. Plain(l1) /\ Plain(l2)
  BY PlainLines
<1>3. Piece(l3, {}, {a, b}) /\ BlocksClosed(l3) /\ Closes(l3)
  BY BranchLines
<1> HIDE DEF l1, l2, l3, l4
<1>4. Piece(l2 \o l3, {} \cup {}, {} \cup {a, b}) /\ BlocksClosed(l2 \o l3) /\ Closes(l2 \o l3)
  <2>1. Piece(l2, {}, {}) /\ BlocksClosed(l2)
    BY <1>2, PlainPiece
  <2> QED
    BY <1>3, <2>1, JoinedPieces
<1>5. {} \cup {} = {} /\ {} \cup {a, b} = {a, b}
  OBVIOUS
<1>6. Piece(l4, {}, {a, b}) /\ BlocksClosed(l4) /\ Closes(l4)
  BY <1>1, <1>4, <1>5
<1>7. Piece(l1 \o l4, {} \cup {}, {} \cup {a, b}) /\ BlocksClosed(l1 \o l4) /\ Closes(l1 \o l4)
  <2>1. Piece(l1, {}, {}) /\ BlocksClosed(l1)
    BY <1>2, PlainPiece
  <2> QED
    BY <1>6, <2>1, JoinedPieces
<1> DEFINE s == l1 \o l4
<1>8. Piece(s, {}, {a, b}) /\ BlocksClosed(s) /\ Closes(s)
  BY <1>5, <1>7
<1> HIDE DEF s
<1>9. Piece(s \o <<LabelDef(l)>>, {l}, {a, b}) /\ BlocksClosed(s \o <<LabelDef(l)>>)
  BY <1>8, ThenLabel
<1> QED
  BY <1>1, <1>9 DEF s

\* A branch that did not return jumps before the next label.
LEMMA JumpWritten ==
    ASSUME TypeOK, ReturnFlagSound, ctl.mode = "did", NEW l, NEW m,
           code' = code \o (JumpUnless(ctl.ret, l) \o <<LabelDef(m)>>)
    PROVE  Writes({m}, IF ctl.ret THEN {} ELSE {l})
<1> DEFINE b == <<LabelDef(m)>>
<1>1. Piece(b, {m}, {})
  BY BranchLines
<1>2. CASE ctl.ret
  <2>1. JumpUnless(ctl.ret, l) \o b = b
    <3>1. IsText(b) /\ IsText(<<>>)
      <4>1. Plain(<<>>)
        BY PlainLines
      <4> QED
        BY <1>1, <4>1 DEF Piece, Plain, IsText
    <3>2. JumpUnless(ctl.ret, l) = <<>>
      BY <1>2 DEF JumpUnless
    <3> HIDE DEF b
    <3> QED
      BY <3>1, <3>2, Joined
  <2>2. Closes(code)
    BY <1>2 DEF ReturnFlagSound, Closes, IsTerminator
  <2> QED
    BY <1>1, <1>2, <2>1, <2>2 DEF Writes
<1>3. CASE ~ctl.ret
  <2> DEFINE s == <<Br(l)>>
  <2>1. JumpUnless(ctl.ret, l) = s
    BY <1>3 DEF JumpUnless
  <2>2. Piece(s, {}, {l}) /\ BlocksClosed(s) /\ Closes(s)
    BY BranchLines
  <2> HIDE DEF s
  <2>3. Piece(s \o b, {m}, {l}) /\ BlocksClosed(s \o b)
    BY <2>2, ThenLabel
  <2> QED
    BY <1>3, <2>1, <2>3 DEF Writes
<1> QED
  BY <1>2, <1>3

\* What is known of the activation on top when it branches.
LEMMA TopDues ==
    ASSUME IInv, TextInv, ctl.mode # "done"
    PROVE  /\ TypeOK /\ LabelsHeld /\ TextHeld /\ LandingHeld /\ DuesHeld /\ ReturnFlagSound /\ stack # <<>>
           /\ nlabel \in Nat /\ Top.lab \in Nat /\ Top \in FrameOf(Registers)
           /\ Labels(code) \subseteq 0..nlabel - 1
           /\ Pending(Top) \cap Labels(code) = {} /\ Heads(Top) \subseteq Labels(code)
<1>1. TypeInv /\ TypeOK /\ LabelsHeld /\ TextHeld /\ LandingHeld /\ DuesHeld /\ ReturnFlagSound
  BY DEF IInv, TypeInv, TextInv
<1>2. stack # <<>> /\ nlabel \in Nat /\ Top.lab \in Nat /\ Top \in FrameOf(Registers)
  BY <1>1, TopFacts
<1>3. Labels(code) \subseteq 0..nlabel - 1
  BY <1>1, CodeIs
<1>4. Pending(Top) \cap Labels(code) = {} /\ Heads(Top) \subseteq Labels(code)
  <2>1. Len(stack) \in DOMAIN stack
    BY <1>1, <1>2 DEF TypeOK
  <2> QED
    BY <1>1, <2>1 DEF DuesHeld, Top
<1> QED
  BY <1>1, <1>2, <1>3, <1>4

\* The jump to the condition and its label come before the condition.
LEMMA TextWhiles ==
    ASSUME IInv, TextInv, CallWhile
    PROVE  TextInv'
<1> DEFINE f == [Frame("while-cond", "?") EXCEPT !.lab = nlabel]
<1>1. ctl.mode # "done" /\ stack' = Append(stack, f) /\ ctl'.mode = "expr"
      /\ code' = code \o <<Br(nlabel), LabelDef(nlabel)>>
  BY DEF CallWhile, StmtCalled, Enter, Call, Emit
<1>2. TypeOK /\ LabelsHeld /\ TextHeld /\ LandingHeld /\ DuesHeld /\ nlabel \in Nat
      /\ Labels(code) \subseteq 0..nlabel - 1
  BY <1>1, TopDues
<1>3. Writes({nlabel}, {nlabel})
  <2> DEFINE s == <<Br(nlabel)>>
             b == <<LabelDef(nlabel)>>
  <2>1. Piece(s \o b, {nlabel}, {nlabel}) /\ BlocksClosed(s \o b)
    <3>1. Piece(s, {}, {nlabel}) /\ BlocksClosed(s) /\ Closes(s)
      BY BranchLines
    <3> HIDE DEF s
    <3> QED
      BY <3>1, ThenLabel
  <2>2. <<Br(nlabel), LabelDef(nlabel)>> = s \o b
    OBVIOUS
  <2> QED
    BY <1>1, <2>1, <2>2 DEF Writes
<1>4. f.lab = nlabel /\ f.form = "while-cond"
  BY DEF Frame
<1> HIDE DEF f
<1>5. Pending(f) = {nlabel + 1, nlabel + 2} /\ Heads(f) = {nlabel}
  BY <1>4 DEF Pending, Heads
<1>6. {nlabel} \cap Labels(code) = {} /\ \A l \in {nlabel} \cup Pending(f) : l \in Nat /\ nlabel <= l
  BY <1>2, <1>5
<1>7. TextHeld' /\ Written({nlabel}, {nlabel})
  BY <1>2, <1>3, <1>6, TextWritten DEF Written
<1>8. Pending(f) \cap {nlabel} = {}
  BY <1>2, <1>5
<1>9. Heads(f) \subseteq Labels(code') /\ {nlabel} \subseteq Labels(code') \cup Promised(f)
  BY <1>5, <1>7 DEF Written
<1>10. LandingHeld' /\ DuesHeld'
  BY <1>1, <1>2, <1>6, <1>7, <1>8, <1>9, DuesPushed
<1> QED
  BY <1>1, <1>7, <1>10 DEF TextInv, ReturnFlagSound, DoneHeld

\* The branch of an if opens with the label that its condition branches to.
LEMMA TextIfs ==
    ASSUME IInv, TextInv, IfCond
    PROVE  TextInv'
<1>1. ctl.mode # "done" /\ Top.form = "if-cond"
  BY DEF IfCond, Valued
<1>2. CASE Fatal
  BY <1>1, <1>2, TextFatals
<1>3. CASE ~Fatal
  <2> DEFINE f == [Top EXCEPT !.form = "if-then", !.lab = nlabel]
             D == {nlabel}
             E == {nlabel, nlabel + 1}
  <2>1. Goto(f) /\ ctl'.mode = "stmt"
    BY <1>3 DEF IfCond, Call
  <2>2. Writes(D, E)
    <3>1. code' = code \o (CondLines(ctl.val, ntemp, nlabel, nlabel + 1) \o <<LabelDef(nlabel)>>)
      BY <1>3 DEF IfCond, Emit
    <3> QED
      BY <3>1, CondPiece DEF Writes
  <2>3. /\ TypeOK /\ LabelsHeld /\ TextHeld /\ LandingHeld /\ DuesHeld /\ nlabel \in Nat /\ stack # <<>>
        /\ Labels(code) \subseteq 0..nlabel - 1 /\ Top \in FrameOf(Registers)
    BY <1>1, TopDues
  <2>4. f.lab = nlabel /\ f.form = "if-then"
    BY <2>3 DEF FrameOf
  <2>5. Promised(Top) = {}
    BY <1>1 DEF Promised
  <2> HIDE DEF f
  <2>6. Pending(f) = {nlabel + 1, nlabel + 2} /\ Heads(f) = {} /\ Promised(f) = {nlabel + 1}
    BY <2>4 DEF Pending, Heads, Promised
  <2>7. D \cap Labels(code) = {} /\ D \subseteq Mine(Top) /\ Pending(f) \subseteq Mine(Top)
    BY <2>3, <2>6 DEF Mine
  <2>8. Pending(f) \cap (Labels(code) \cup D) = {}
    BY <2>3, <2>6
  <2>9. TextHeld' /\ Written(D, E)
    BY <2>2, <2>3, <2>7, TextWritten DEF Written
  <2>10. E \cup Promised(Top) \subseteq Labels(code') \cup Promised(f) /\ Heads(f) \subseteq Labels(code')
    BY <2>5, <2>6, <2>9 DEF Written
  <2> HIDE DEF D, E
  <2>11. LandingHeld' /\ DuesHeld'
    BY <2>1, <2>3, <2>7, <2>8, <2>9, <2>10, DuesReplaced
  <2> QED
    BY <2>1, <2>9, <2>11 DEF TextInv, ReturnFlagSound, DoneHeld
<1> QED
  BY <1>2, <1>3

LEMMA TextThens ==
    ASSUME IInv, TextInv, IfThen
    PROVE  TextInv'
<1> DEFINE f == [Top EXCEPT !.form = "if-else", !.ret = ctl.ret]
           m == Top.lab + 1
           l == Top.lab + 2
           D == {m}
           E == IF ctl.ret THEN {} ELSE {l}
<1>1. /\ ctl.mode = "did" /\ Top.form = "if-then" /\ Goto(f) /\ ctl'.mode = "stmt"
      /\ code' = code \o (JumpUnless(ctl.ret, l) \o <<LabelDef(m)>>)
  BY DEF IfThen, Call, Emit
<1>2. /\ TypeOK /\ LabelsHeld /\ TextHeld /\ LandingHeld /\ DuesHeld /\ nlabel \in Nat /\ stack # <<>>
      /\ ReturnFlagSound /\ Top \in FrameOf(Registers) /\ Top.lab \in Nat
      /\ Pending(Top) \cap Labels(code) = {}
  BY <1>1, TopDues
<1>3. Writes(D, E)
  <2> HIDE DEF l, m, f
  <2> QED
    BY <1>1, <1>2, JumpWritten
<1>4. f.lab = Top.lab /\ f.form = "if-else" /\ f.ret = ctl.ret
  BY <1>2 DEF FrameOf
<1> HIDE DEF f
<1>5. Pending(Top) = {m, l} /\ Promised(Top) = {m} /\ Pending(f) = {l} /\ Heads(f) = {} /\ m # l
  BY <1>1, <1>2, <1>4 DEF Pending, Heads, Promised
<1>6. Promised(f) = IF ctl.ret THEN {} ELSE {l}
  BY <1>4 DEF Promised
<1> HIDE DEF l, m
<1>7. D \cap Labels(code) = {} /\ D \subseteq Mine(Top) /\ Pending(f) \subseteq Mine(Top)
  BY <1>2, <1>5 DEF Mine
<1>8. Pending(f) \cap (Labels(code) \cup D) = {}
  BY <1>2, <1>5
<1>9. TextHeld' /\ Written(D, E)
  BY <1>2, <1>3, <1>7, TextWritten DEF Written
<1>10. E \cup Promised(Top) \subseteq Labels(code') \cup Promised(f) /\ Heads(f) \subseteq Labels(code')
  BY <1>5, <1>6, <1>9 DEF Written
<1> HIDE DEF D, E
<1>11. LandingHeld' /\ DuesHeld'
  BY <1>1, <1>2, <1>7, <1>8, <1>9, <1>10, DuesReplaced
<1> QED
  BY <1>1, <1>9, <1>11 DEF TextInv, ReturnFlagSound, DoneHeld

\* The end label is there unless both branches returned, and then nothing of
\* the text branches to it.
LEMMA TextElses ==
    ASSUME IInv, TextInv, IfElse
    PROVE  TextInv'
<1> DEFINE l == Top.lab + 2
           E == IF ctl.ret THEN {} ELSE {l}
<1>1. /\ ctl.mode = "did" /\ Top.form = "if-else" /\ stack' = Below /\ ctl' = Did(BothReturned, BranchValue)
      /\ code' = code \o (JumpUnless(ctl.ret, l) \o (IF BothReturned THEN <<>> ELSE <<LabelDef(l)>>))
  BY DEF IfElse, Finish, Emit
<1>2. /\ TypeOK /\ LabelsHeld /\ TextHeld /\ LandingHeld /\ DuesHeld /\ nlabel \in Nat /\ stack # <<>>
      /\ ReturnFlagSound /\ Pending(Top) \cap Labels(code) = {}
  BY <1>1, TopDues
<1>3. Pending(Top) = {l} /\ Promised(Top) = IF Top.ret THEN {} ELSE {l}
  BY <1>1 DEF Pending, Promised
<1>4. ctl'.mode = "did" /\ ctl'.ret = BothReturned
  BY <1>1 DEF Did
<1> HIDE DEF l
<1>5. CASE BothReturned
  <2>1. Top.ret /\ ctl.ret
    BY <1>5 DEF BothReturned
  <2>2. code' = code
    <3>1. IsText(code) /\ IsText(<<>>)
      <4>1. Plain(<<>>)
        BY PlainLines
      <4> QED
        BY <1>2, <4>1, CodeIs DEF Plain, IsText
    <3>2. <<>> \o <<>> = <<>> /\ code \o <<>> = code
      BY <3>1, Joined
    <3>3. JumpUnless(ctl.ret, l) = <<>>
      BY <2>1 DEF JumpUnless
    <3> QED
      BY <1>1, <1>5, <3>2, <3>3
  <2>3. Promised(Top) = {}
    BY <1>3, <2>1
  <2>4. Written({}, {})
    BY <2>2 DEF Written
  <2>5. LandingHeld' /\ DuesHeld'
    BY <1>1, <1>2, <2>3, <2>4, DuesEnded
  <2>6. TextHeld'
    BY <1>2, <2>2 DEF TextHeld
  <2>7. ReturnFlagSound'
    BY <1>1, <1>2, <2>1, <2>2 DEF ReturnFlagSound
  <2> QED
    BY <1>4, <2>5, <2>6, <2>7 DEF TextInv, DoneHeld
<1>6. CASE ~BothReturned
  <2>1. Writes({l}, E)
    <3>1. code' = code \o (JumpUnless(ctl.ret, l) \o <<LabelDef(l)>>)
      BY <1>1, <1>6
    <3> QED
      BY <1>1, <1>2, <3>1, JumpWritten
  <2>2. {l} \cap Labels(code) = {} /\ {l} \subseteq Mine(Top)
    BY <1>2, <1>3 DEF Mine
  <2>3. TextHeld' /\ Written({l}, E)
    BY <1>2, <2>1, <2>2, TextWritten DEF Written
  <2>4. E \cup Promised(Top) \subseteq Labels(code')
    BY <1>3, <2>3 DEF Written
  <2> HIDE DEF E
  <2>5. LandingHeld' /\ DuesHeld'
    BY <1>1, <1>2, <2>2, <2>3, <2>4, DuesEnded
  <2> QED
    BY <1>4, <1>6, <2>3, <2>5 DEF TextInv, ReturnFlagSound, DoneHeld
<1> QED
  BY <1>5, <1>6

LEMMA TextWhileConds ==
    ASSUME IInv, TextInv, WhileCond
    PROVE  TextInv'
<1>1. ctl.mode # "done" /\ Top.form = "while-cond"
  BY DEF WhileCond, Valued
<1>2. CASE Fatal
  BY <1>1, <1>2, TextFatals
<1>3. CASE ~Fatal
  <2> DEFINE f == [Top EXCEPT !.form = "while-body"]
             m == Top.lab + 1
             l == Top.lab + 2
             D == {m}
             E == {m, l}
  <2>1. Goto(f) /\ ctl'.mode = "stmt"
    BY <1>3 DEF WhileCond, Call
  <2>2. Writes(D, E)
    <3>1. code' = code \o (CondLines(ctl.val, ntemp, m, l) \o <<LabelDef(m)>>)
      BY <1>3 DEF WhileCond, Emit
    <3> HIDE DEF m, l
    <3> QED
      BY <3>1, CondPiece DEF Writes
  <2>3. /\ TypeOK /\ LabelsHeld /\ TextHeld /\ LandingHeld /\ DuesHeld /\ nlabel \in Nat /\ stack # <<>>
        /\ Top \in FrameOf(Registers) /\ Top.lab \in Nat
        /\ Pending(Top) \cap Labels(code) = {} /\ Heads(Top) \subseteq Labels(code)
    BY <1>1, TopDues
  <2>4. f.lab = Top.lab /\ f.form = "while-body"
    BY <2>3 DEF FrameOf
  <2> HIDE DEF f
  <2>5. /\ Pending(Top) = {m, l} /\ Promised(Top) = {} /\ Heads(Top) = {Top.lab} /\ m # l
        /\ Pending(f) = {l} /\ Heads(f) = {Top.lab} /\ Promised(f) = {l}
    BY <1>1, <2>3, <2>4 DEF Pending, Heads, Promised
  <2> HIDE DEF m, l
  <2>7. D \cap Labels(code) = {} /\ D \subseteq Mine(Top) /\ Pending(f) \subseteq Mine(Top)
    BY <2>3, <2>5 DEF Mine
  <2>8. Pending(f) \cap (Labels(code) \cup D) = {}
    BY <2>3, <2>5
  <2>9. TextHeld' /\ Written(D, E)
    BY <2>2, <2>3, <2>7, TextWritten DEF Written
  <2>10. E \cup Promised(Top) \subseteq Labels(code') \cup Promised(f) /\ Heads(f) \subseteq Labels(code')
    BY <2>3, <2>5, <2>9 DEF Written
  <2> HIDE DEF D, E
  <2>11. LandingHeld' /\ DuesHeld'
    BY <2>1, <2>3, <2>7, <2>8, <2>9, <2>10, DuesReplaced
  <2> QED
    BY <2>1, <2>9, <2>11 DEF TextInv, ReturnFlagSound, DoneHeld
<1> QED
  BY <1>2, <1>3

\* The jump back lands on the label of the condition.
LEMMA TextWhileBodies ==
    ASSUME IInv, TextInv, WhileBody
    PROVE  TextInv'
<1> DEFINE l == Top.lab + 2
           h == Top.lab
           E == IF ctl.ret THEN {} ELSE {h}
<1>1. /\ ctl.mode = "did" /\ Top.form = "while-body" /\ stack' = Below
      /\ ctl'.mode = "did" /\ ctl'.ret = FALSE
      /\ code' = code \o (JumpUnless(ctl.ret, h) \o <<LabelDef(l)>>)
  BY DEF WhileBody, Finish, Emit, LoopHead, LoopReturned, Did
<1>2. /\ TypeOK /\ LabelsHeld /\ TextHeld /\ LandingHeld /\ DuesHeld /\ nlabel \in Nat /\ stack # <<>>
      /\ ReturnFlagSound /\ Pending(Top) \cap Labels(code) = {} /\ Heads(Top) \subseteq Labels(code)
  BY <1>1, TopDues
<1>3. Pending(Top) = {l} /\ Promised(Top) = {l} /\ Heads(Top) = {h}
  BY <1>1 DEF Pending, Promised, Heads
<1> HIDE DEF l, h
<1>4. Writes({l}, E)
  BY <1>1, <1>2, JumpWritten
<1>5. {l} \cap Labels(code) = {} /\ {l} \subseteq Mine(Top)
  BY <1>2, <1>3 DEF Mine
<1>6. TextHeld' /\ Written({l}, E)
  BY <1>2, <1>4, <1>5, TextWritten DEF Written
<1>7. E \cup Promised(Top) \subseteq Labels(code')
  BY <1>2, <1>3, <1>6 DEF Written
<1> HIDE DEF E
<1>8. LandingHeld' /\ DuesHeld'
  BY <1>1, <1>2, <1>5, <1>6, <1>7, DuesEnded
<1> QED
  BY <1>1, <1>6, <1>8 DEF TextInv, ReturnFlagSound, DoneHeld

\* The text starts as the allocas of the parameters.
LEMMA TextInitially ==
    ASSUME Init
    PROVE  TextInv
<1>1. TypeOK /\ code = Header /\ nlabel = 0 /\ stack = <<ListFrame("body")>> /\ ctl = Call("items")
  BY Initially DEF Init, TypeInv
<1>2. \A i \in DOMAIN code : code[i].op = "inst"
  <2>1. \A i \in DOMAIN Header : Header[i].op = "inst"
    BY DEF Header, Inst, Line
  <2> QED
    BY <1>1, <2>1
<1>3. TextHeld /\ Targets(code) = {} /\ Labels(code) = {}
  BY <1>2 DEF TextHeld, UniqueLabels, Named, BlocksClosed, Targets, Labels
<1>4. DOMAIN stack = {1} /\ stack[1] = ListFrame("body") /\ ListFrame("body").form = "body"
  BY <1>1 DEF ListFrame, Frame
<1>5. LandingHeld
  BY <1>3 DEF LandingHeld
<1>6. DuesHeld
  BY <1>3, <1>4 DEF DuesHeld, Pending, Heads
<1>7. ReturnFlagSound /\ DoneHeld
  BY <1>1 DEF ReturnFlagSound, DoneHeld, Call
<1> QED
  BY <1>3, <1>5, <1>6, <1>7 DEF TextInv

LEMMA TextInductive ==
    ASSUME IInv, TextInv, [Next]_vars
    PROVE  TextInv'
<1>1. CASE Statements
  BY <1>1, TextCalls, TextWhiles DEF Statements
<1>2. CASE Expressions
  BY <1>2, TextCalls, TextLoads, TextOperands DEF Expressions
<1>3. CASE Results
  BY <1>3, TextReturns, TextLets, TextSets, TextIfs, TextThens, TextElses, TextWhileConds,
     TextWhileBodies DEF Results
<1>4. CASE Lists
  BY <1>4, TextCalls, TextLists, TextEnds DEF Lists
<1>5. CASE UNCHANGED vars
  BY <1>5 DEF TextInv, vars, TextHeld, LandingHeld, DuesHeld, ReturnFlagSound, DoneHeld
<1> QED
  BY <1>1, <1>2, <1>3, <1>4, <1>5 DEF Next, Finished

\* The blocks of every text are what LLVM takes for a function, for every
\* program: no label is defined twice, no block falls into a label, and when
\* the function is complete every branch has its label and the last block its
\* terminator (stmt.c:197-283, program.c:258-283).
THEOREM WellFormedBlocks == Spec => []BlocksWellFormed
<1>1. Init => IInv /\ TextInv
  BY Initially, TextInitially DEF IInv
<1>2. IInv /\ TextInv /\ [Next]_vars => IInv' /\ TextInv'
  BY Inductive, TextInductive
<1>3. IInv /\ TextInv => BlocksWellFormed
  <2> SUFFICES ASSUME IInv, TextInv
               PROVE  BlocksWellFormed
    OBVIOUS
  <2>1. LabelsOnce /\ NoFallThrough
    BY DEF TextInv, TextHeld, DoneHeld, LabelsOnce, NoFallThrough
  <2>2. BranchesLand
    <3> SUFFICES ASSUME ctl.mode = "done"
                 PROVE  Targets(code) \subseteq Labels(code)
      BY DEF BranchesLand
    <3>1. DOMAIN stack = {}
      BY DEF IInv, TypeInv, StackDiscipline
    <3> QED
      BY <3>1 DEF TextInv, LandingHeld
  <2> QED
    BY <2>1, <2>2 DEF BlocksWellFormed
<1> QED
  BY <1>1, <1>2, <1>3, PTL DEF Spec

\* A statement that is reported to have returned left a ret at the end of the
\* text, so what stops emitting after it leaves no block open.
THEOREM ReturnsTold == Spec => []ReturnFlagSound
<1>1. Init => IInv /\ TextInv
  BY Initially, TextInitially DEF IInv
<1>2. IInv /\ TextInv /\ [Next]_vars => IInv' /\ TextInv'
  BY Inductive, TextInductive
<1>3. TextInv => ReturnFlagSound
  BY DEF TextInv
<1> QED
  BY <1>1, <1>2, <1>3, PTL DEF Spec

-----------------------------------------------------------------------------
(* Registers.                                                              *)

\* The registers that lines define.
Defs(s) == UNION {s[i].def : i \in DOMAIN s}
\* Every line reads registers of R only.
Reads(s, R) == \A i \in DOMAIN s : s[i].use \subseteq R
\* Every register is assigned by one line only.
SingleAssignment(s) == \A i, j \in DOMAIN s : s[i].def \cap s[j].def # {} => i = j
\* Lines that define temporaries numbered in T, each once.
Takes(s, T) == /\ IsText(s) /\ SingleAssignment(s)
               /\ \A r \in Defs(s) : \E n \in T : r = Temp(n)

\* What the next line may read when t temporaries are taken: temporaries, what
\* a line of the text defines, and the register of a name nothing declares.
Usable(t) == {Temp(n) : n \in 0..t - 1} \cup {Slot(x, 0) : x \in Names} \cup Defs(code)
Ready == Usable(ntemp)

\* What an activation has evaluated is ready.
FrameReady(f, R) == \A i \in DOMAIN f.vals : f.vals[i].reg \subseteq R

\* No later entry has the name of this one.
Newest(e, k) == \A j \in DOMAIN e : e[j].name = e[k].name => j <= k
\* Every name the environment holds has its alloca in the text.
EnvReady == \A k \in DOMAIN env : Newest(env, k) => Slot(env[k].name, k) \in Defs(code)

RegInv == /\ AssignedOnce /\ AllocaFirst /\ EnvReady
          /\ \A i \in DOMAIN stack : FrameReady(stack[i], Ready)
          /\ ctl.val.reg \subseteq Ready

LEMMA RegisterNames ==
    /\ \A n, m : Temp(n) = Temp(m) => n = m
    /\ \A x, y, i, j : Slot(x, i) = Slot(y, j) => x = y /\ i = j
    /\ \A n, x, i : Temp(n) # Slot(x, i)
BY DEF Temp, Slot

LEMMA JoinedDefs ==
    ASSUME NEW a, NEW b, IsText(a), IsText(b)
    PROVE  Defs(a \o b) = Defs(a) \cup Defs(b)
<1> DEFINE c == a \o b
<1>1. /\ IsText(c) /\ Len(c) = Len(a) + Len(b)
      /\ DOMAIN a = 1..Len(a) /\ DOMAIN b = 1..Len(b) /\ DOMAIN c = 1..Len(a) + Len(b)
      /\ Len(a) \in Nat /\ Len(b) \in Nat
      /\ \A i \in 1..Len(a) : c[i] = a[i]
      /\ \A i \in 1..Len(b) : Len(a) + i \in 1..Len(a) + Len(b) /\ c[Len(a) + i] = b[i]
      /\ \A i \in 1..Len(a) + Len(b) : i \in 1..Len(a) \/ \E j \in 1..Len(b) : i = Len(a) + j
  BY Joined
<1>2. \A i \in 1..Len(a) : i \in 1..Len(a) + Len(b)
  BY <1>1
<1> HIDE DEF c
<1>3. \A s, r : r \in Defs(s) <=> \E i \in DOMAIN s : r \in s[i].def
  BY DEF Defs
<1>4. ASSUME NEW r \in Defs(c)
      PROVE  r \in Defs(a) \cup Defs(b)
  <2>1. PICK i \in 1..Len(a) + Len(b) : r \in c[i].def
    BY <1>1, <1>3
  <2>2. CASE i \in 1..Len(a)
    <3>1. r \in a[i].def
      BY <1>1, <2>1, <2>2
    <3> QED
      BY <1>1, <1>3, <2>2, <3>1
  <2>3. CASE i \notin 1..Len(a)
    <3>1. PICK j \in 1..Len(b) : i = Len(a) + j
      BY <1>1, <2>3
    <3>2. r \in b[j].def
      BY <1>1, <2>1, <3>1
    <3> QED
      BY <1>1, <1>3, <3>2
  <2> QED
    BY <2>2, <2>3
<1>5. \A r \in Defs(a) : r \in Defs(c)
  BY <1>1, <1>2, <1>3
<1>6. ASSUME NEW r \in Defs(b)
      PROVE  r \in Defs(c)
  <2>1. PICK j \in 1..Len(b) : r \in b[j].def
    BY <1>1, <1>3
  <2>2. Len(a) + j \in 1..Len(a) + Len(b) /\ c[Len(a) + j] = b[j]
    BY <1>1
  <2> QED
    BY <1>1, <1>3, <2>1, <2>2
<1>7. Defs(c) = Defs(a) \cup Defs(b)
  BY <1>4, <1>5, <1>6
<1> QED
  BY <1>7 DEF c

\* Lines that define different registers.
LEMMA JoinedOnce ==
    ASSUME NEW a, NEW b, IsText(a), IsText(b), SingleAssignment(a), SingleAssignment(b),
           Defs(a) \cap Defs(b) = {}
    PROVE  SingleAssignment(a \o b)
<1> DEFINE c == a \o b
<1>1. /\ DOMAIN a = 1..Len(a) /\ DOMAIN b = 1..Len(b) /\ DOMAIN c = 1..Len(a) + Len(b)
      /\ Len(a) \in Nat /\ Len(b) \in Nat
      /\ \A i \in 1..Len(a) : c[i] = a[i]
      /\ \A i \in 1..Len(b) : Len(a) + i \in 1..Len(a) + Len(b) /\ c[Len(a) + i] = b[i]
      /\ \A i \in 1..Len(a) + Len(b) : i \in 1..Len(a) \/ \E j \in 1..Len(b) : i = Len(a) + j
  BY Joined
<1> HIDE DEF c
<1>2. \A i \in 1..Len(a), j \in 1..Len(b) : a[i].def \cap b[j].def = {}
  <2>1. (\A i \in 1..Len(a) : a[i].def \subseteq Defs(a)) /\ (\A i \in 1..Len(b) : b[i].def \subseteq Defs(b))
    BY <1>1 DEF Defs
  <2> QED
    BY <2>1
<1> SUFFICES ASSUME NEW i \in 1..Len(a) + Len(b), NEW j \in 1..Len(a) + Len(b),
                    c[i].def \cap c[j].def # {}
             PROVE  i = j
  BY <1>1 DEF SingleAssignment, c
<1>3. CASE i \in 1..Len(a) /\ j \in 1..Len(a)
  BY <1>1, <1>3 DEF SingleAssignment
<1>4. CASE i \in 1..Len(a) /\ j \notin 1..Len(a)
  <2>1. PICK k \in 1..Len(b) : j = Len(a) + k
    BY <1>1, <1>4
  <2>2. c[i] = a[i] /\ c[j] = b[k]
    BY <1>1, <1>4, <2>1
  <2> QED
    BY <1>2, <1>4, <2>2
<1>5. CASE i \notin 1..Len(a) /\ j \in 1..Len(a)
  <2>1. PICK k \in 1..Len(b) : i = Len(a) + k
    BY <1>1, <1>5
  <2>2. c[j] = a[j] /\ c[i] = b[k]
    BY <1>1, <1>5, <2>1
  <2> QED
    BY <1>2, <1>5, <2>2
<1>6. CASE i \notin 1..Len(a) /\ j \notin 1..Len(a)
  <2>1. PICK k \in 1..Len(b), m \in 1..Len(b) : i = Len(a) + k /\ j = Len(a) + m
    BY <1>1, <1>6
  <2>2. c[i] = b[k] /\ c[j] = b[m]
    BY <1>1, <2>1
  <2>3. k = m
    BY <1>1, <2>2 DEF SingleAssignment
  <2> QED
    BY <2>1, <2>3
<1> QED
  BY <1>3, <1>4, <1>5, <1>6

\* New lines added to the text.
LEMMA JoinedAssigns ==
    ASSUME NEW a, NEW b, IsText(a), IsText(b), AssignsOnce(a), SingleAssignment(b),
           Defs(a) \cap Defs(b) = {}
    PROVE  AssignsOnce(a \o b)
<1> DEFINE c == a \o b
<1>1. /\ DOMAIN a = 1..Len(a) /\ DOMAIN b = 1..Len(b) /\ DOMAIN c = 1..Len(a) + Len(b)
      /\ Len(a) \in Nat /\ Len(b) \in Nat
      /\ \A i \in 1..Len(a) : c[i] = a[i]
      /\ \A i \in 1..Len(b) : Len(a) + i \in 1..Len(a) + Len(b) /\ c[Len(a) + i] = b[i]
      /\ \A i \in 1..Len(a) + Len(b) : i \in 1..Len(a) \/ \E j \in 1..Len(b) : i = Len(a) + j
  BY Joined
<1> HIDE DEF c
<1>2. \A i \in 1..Len(a), j \in 1..Len(b) : a[i].def \cap b[j].def = {}
  <2>1. (\A i \in 1..Len(a) : a[i].def \subseteq Defs(a)) /\ (\A i \in 1..Len(b) : b[i].def \subseteq Defs(b))
    BY <1>1 DEF Defs
  <2> QED
    BY <2>1
<1> SUFFICES ASSUME NEW i \in 1..Len(a) + Len(b), NEW j \in 1..Len(a) + Len(b),
                    c[i].def \cap c[j].def # {}
             PROVE  i = j \/ SameParam(i, j)
  BY <1>1 DEF AssignsOnce, c
<1>3. CASE i \in 1..Len(a) /\ j \in 1..Len(a)
  BY <1>1, <1>3 DEF AssignsOnce
<1>4. CASE i \in 1..Len(a) /\ j \notin 1..Len(a)
  <2>1. PICK k \in 1..Len(b) : j = Len(a) + k
    BY <1>1, <1>4
  <2>2. c[i] = a[i] /\ c[j] = b[k]
    BY <1>1, <1>4, <2>1
  <2> QED
    BY <1>2, <1>4, <2>2
<1>5. CASE i \notin 1..Len(a) /\ j \in 1..Len(a)
  <2>1. PICK k \in 1..Len(b) : i = Len(a) + k
    BY <1>1, <1>5
  <2>2. c[j] = a[j] /\ c[i] = b[k]
    BY <1>1, <1>5, <2>1
  <2> QED
    BY <1>2, <1>5, <2>2
<1>6. CASE i \notin 1..Len(a) /\ j \notin 1..Len(a)
  <2>1. PICK k \in 1..Len(b), m \in 1..Len(b) : i = Len(a) + k /\ j = Len(a) + m
    BY <1>1, <1>6
  <2>2. c[i] = b[k] /\ c[j] = b[m]
    BY <1>1, <2>1
  <2>3. k = m
    BY <1>1, <2>2 DEF SingleAssignment
  <2> QED
    BY <2>1, <2>3
<1> QED
  BY <1>3, <1>4, <1>5, <1>6

LEMMA JoinedTakes ==
    ASSUME NEW a, NEW b, NEW T, NEW U, Takes(a, T), Takes(b, U), T \cap U = {}
    PROVE  Takes(a \o b, T \cup U)
<1>1. IsText(a \o b) /\ Defs(a \o b) = Defs(a) \cup Defs(b)
  BY Joined, JoinedDefs DEF Takes
<1>2. Defs(a) \cap Defs(b) = {}
  BY RegisterNames DEF Takes
<1>3. SingleAssignment(a \o b)
  BY <1>2, JoinedOnce DEF Takes
<1> QED
  BY <1>1, <1>3 DEF Takes

LEMMA JoinedReads ==
    ASSUME NEW a, NEW b, NEW R, IsText(a), IsText(b), Reads(a, R), Reads(b, R)
    PROVE  Reads(a \o b, R)
<1> DEFINE c == a \o b
<1>1. /\ DOMAIN a = 1..Len(a) /\ DOMAIN b = 1..Len(b) /\ DOMAIN c = 1..Len(a) + Len(b)
      /\ Len(a) \in Nat /\ Len(b) \in Nat
      /\ \A i \in 1..Len(a) : c[i] = a[i]
      /\ \A i \in 1..Len(b) : Len(a) + i \in 1..Len(a) + Len(b) /\ c[Len(a) + i] = b[i]
      /\ \A i \in 1..Len(a) + Len(b) : i \in 1..Len(a) \/ \E j \in 1..Len(b) : i = Len(a) + j
  BY Joined
<1> HIDE DEF c
<1> SUFFICES ASSUME NEW i \in 1..Len(a) + Len(b)
             PROVE  c[i].use \subseteq R
  BY <1>1 DEF Reads, c
<1>2. CASE i \in 1..Len(a)
  BY <1>1, <1>2 DEF Reads
<1>3. CASE i \notin 1..Len(a)
  <2>1. PICK k \in 1..Len(b) : i = Len(a) + k
    BY <1>1, <1>3
  <2>2. c[i] = b[k]
    BY <1>1, <2>1
  <2> QED
    BY <1>1, <2>2 DEF Reads
<1> QED
  BY <1>2, <1>3

\* What the lines the code emits define and read.
LEMMA LineTakes ==
    ASSUME NEW x, NEW T, x.def = {} \/ \E n \in T : x.def = {Temp(n)}
    PROVE  Takes(<<x>>, T) /\ \A R : x.use \subseteq R => Reads(<<x>>, R)
<1> DEFINE s == <<x>>
<1>1. DOMAIN s = {1} /\ s[1] = x /\ IsText(s)
  <2>1. s \in Seq({x})
    OBVIOUS
  <2>2. IsText(s)
    <3> HIDE DEF s
    <3> QED
      BY <2>1 DEF IsText
  <2> QED
    BY <2>2
<1> HIDE DEF s
<1>2. SingleAssignment(s) /\ \A R : x.use \subseteq R => Reads(s, R)
  BY <1>1 DEF SingleAssignment, Reads
<1>3. Defs(s) = x.def
  BY <1>1 DEF Defs
<1> QED
  BY <1>1, <1>2, <1>3 DEF Takes, s

LEMMA EmptyTakes ==
    ASSUME NEW T
    PROVE  Takes(<<>>, T) /\ \A R : Reads(<<>>, R)
<1> DEFINE s == <<>>
<1>1. DOMAIN s = {}
  OBVIOUS
<1>2. IsText(s)
  <2>1. Plain(s)
    BY PlainLines
  <2> QED
    BY <2>1 DEF Plain, IsText
<1> HIDE DEF s
<1>3. SingleAssignment(s) /\ \A R : Reads(s, R)
  BY <1>1 DEF SingleAssignment, Reads
<1>4. Defs(s) = {}
  BY <1>1 DEF Defs
<1> QED
  BY <1>2, <1>3, <1>4 DEF Takes, s

LEMMA LinesTake ==
    /\ \A t, u, T : t \in T => Takes(<<Inst({Temp(t)}, u)>>, T)
    /\ \A u, T : Takes(<<Inst({}, u)>>, T) /\ Takes(<<Ret(u)>>, T)
    /\ \A l, T : Takes(<<LabelDef(l)>>, T) /\ Takes(<<Br(l)>>, T)
    /\ \A r, a, b, T : Takes(<<CondBr(r, a, b)>>, T)
    /\ \A d, u, R : u \subseteq R => Reads(<<Inst(d, u)>>, R) /\ Reads(<<Ret(u)>>, R)
    /\ \A l, R : Reads(<<LabelDef(l)>>, R) /\ Reads(<<Br(l)>>, R)
    /\ \A r, a, b, R : r \in R => Reads(<<CondBr(r, a, b)>>, R)
<1>1. /\ \A d, u : Inst(d, u).def = d /\ Inst(d, u).use = u
      /\ \A u : Ret(u).def = {} /\ Ret(u).use = u
      /\ \A l : LabelDef(l).def = {} /\ LabelDef(l).use = {} /\ Br(l).def = {} /\ Br(l).use = {}
      /\ \A r, a, b : CondBr(r, a, b).def = {} /\ CondBr(r, a, b).use = {r}
  BY DEF Inst, Ret, LabelDef, Br, CondBr, Line
<1>2. ASSUME NEW x, x.def = {}
      PROVE  (\A T : Takes(<<x>>, T)) /\ \A R : x.use \subseteq R => Reads(<<x>>, R)
  BY <1>2, LineTakes
<1>3. ASSUME NEW t, NEW u, NEW T, t \in T
      PROVE  Takes(<<Inst({Temp(t)}, u)>>, T)
  <2> DEFINE x == Inst({Temp(t)}, u)
  <2>1. x.def = {Temp(t)}
    BY <1>1
  <2> HIDE DEF x
  <2>2. Takes(<<x>>, T)
    BY <1>3, <2>1, LineTakes
  <2> QED
    BY <2>2 DEF x
<1>4. ASSUME NEW x, NEW R, x.use \subseteq R
      PROVE  Reads(<<x>>, R)
  <2> DEFINE s == <<x>>
  <2>1. DOMAIN s = {1} /\ s[1] = x
    OBVIOUS
  <2> HIDE DEF s
  <2>2. Reads(s, R)
    BY <1>4, <2>1 DEF Reads
  <2> QED
    BY <2>2 DEF s
<1>5. \A u, T : Takes(<<Inst({}, u)>>, T)
  BY <1>1, <1>2
<1>6. \A u, T : Takes(<<Ret(u)>>, T)
  BY <1>1, <1>2
<1>7. \A l, T : Takes(<<LabelDef(l)>>, T)
  BY <1>1, <1>2
<1>8. \A l, T : Takes(<<Br(l)>>, T)
  BY <1>1, <1>2
<1>9. \A r, a, b, T : Takes(<<CondBr(r, a, b)>>, T)
  BY <1>1, <1>2
<1>10. \A d, u, R : u \subseteq R => Reads(<<Inst(d, u)>>, R)
  BY <1>1, <1>4
<1>11. \A u, R : u \subseteq R => Reads(<<Ret(u)>>, R)
  BY <1>1, <1>4
<1>12. \A l, R : {} \subseteq R => Reads(<<LabelDef(l)>>, R)
  BY <1>1, <1>4
<1>13. \A l, R : {} \subseteq R => Reads(<<Br(l)>>, R)
  BY <1>1, <1>4
<1>14. \A r, a, b, R : {r} \subseteq R => Reads(<<CondBr(r, a, b)>>, R)
  BY <1>1, <1>4
<1>15. \A u, T : Takes(<<Inst({}, u)>>, T) /\ Takes(<<Ret(u)>>, T)
  BY <1>5, <1>6
<1>16. \A l, T : Takes(<<LabelDef(l)>>, T) /\ Takes(<<Br(l)>>, T)
  BY <1>7, <1>8
<1>17. \A d, u, R : u \subseteq R => Reads(<<Inst(d, u)>>, R) /\ Reads(<<Ret(u)>>, R)
  BY <1>10, <1>11
<1>18. \A l, R : Reads(<<LabelDef(l)>>, R) /\ Reads(<<Br(l)>>, R)
  BY <1>12, <1>13
<1>19. \A r, a, b, R : r \in R => Reads(<<CondBr(r, a, b)>>, R)
  BY <1>14
<1>20. \A t, u, T : t \in T => Takes(<<Inst({Temp(t)}, u)>>, T)
  BY <1>3
<1> HIDE DEF Inst
<1> QED
  BY <1>9, <1>15, <1>16, <1>17, <1>18, <1>19, <1>20

\* A conversion takes the temporary that it was given, if it needs one.
LEMMA EnsureTakes ==
    ASSUME NEW v, NEW ty, NEW t
    PROVE  /\ Takes(EnsureLines(v, ty, t), IF v.ty = ty THEN {} ELSE {t})
           /\ \A R : v.reg \subseteq R => Reads(EnsureLines(v, ty, t), R)
           /\ \A R : v.reg \subseteq R /\ (v.ty = ty \/ Temp(t) \in R) => Ensured(v, ty, t).reg \subseteq R
<1>1. CASE v.ty = ty
  BY <1>1, EmptyTakes DEF EnsureLines, Ensured
<1>2. CASE v.ty # ty
  <2>1. EnsureLines(v, ty, t) = <<Inst({Temp(t)}, v.reg)>>
    BY <1>2 DEF EnsureLines
  <2>2. Ensured(v, ty, t).reg = {Temp(t)}
    BY <1>2 DEF Ensured, TempVal, Value
  <2>3. Takes(<<Inst({Temp(t)}, v.reg)>>, {t}) /\ \A R : v.reg \subseteq R => Reads(<<Inst({Temp(t)}, v.reg)>>, R)
    BY LinesTake
  <2> QED
    BY <1>2, <2>1, <2>2, <2>3
<1> QED
  BY <1>1, <1>2

\* More may be taken than is.
LEMMA TakesMore ==
    ASSUME NEW s, NEW T, NEW U, Takes(s, T), T \subseteq U
    PROVE  Takes(s, U)
BY DEF Takes

\* An instruction takes temporaries from t on, each once.
LEMMA OpTakes ==
    ASSUME NEW f, f.form \in OpForms, NEW vs, NEW t \in Nat
    PROVE  Takes(OpLines(f, vs, t), {n \in Nat : t <= n})
<1> DEFINE U == {n \in Nat : t <= n}
<1>0. t \in U /\ {t} \subseteq U
  OBVIOUS
<1>1. ASSUME f.form = "cmp"
      PROVE  Takes(CmpLines(f, vs, t), U)
  <2> DEFINE ty  == CmpType(f, vs)
             k1  == EnsureTemps(vs[1], ty)
             t2  == t + 2 + k1
             l1 == EnsureLines(vs[1], ty, t + 2)
             l2 == EnsureLines(vs[2], ty, t2)
             u3 == Ensured(vs[1], ty, t + 2).reg \cup Ensured(vs[2], ty, t2).reg
             l3 == <<Inst({Temp(t)}, u3)>>
             l4 == <<Inst({Temp(t + 1)}, {Temp(t)})>>
             l34 == <<Inst({Temp(t)}, u3), Inst({Temp(t + 1)}, {Temp(t)})>>
             T1 == IF vs[1].ty = ty THEN {} ELSE {t + 2}
             T2 == IF vs[2].ty = ty THEN {} ELSE {t2}
  <2>1. Takes(l1, T1) /\ Takes(l2, T2) /\ Takes(l3, {t}) /\ Takes(l4, {t + 1})
    <3>1. Takes(l1, T1)
      BY EnsureTakes
    <3>2. Takes(l2, T2)
      <4> HIDE DEF t2, ty
      <4> QED
        BY EnsureTakes
    <3>3. t \in {t} /\ t + 1 \in {t + 1}
      OBVIOUS
    <3>4. Takes(l3, {t}) /\ Takes(l4, {t + 1})
      <4> HIDE DEF u3
      <4> QED
        BY <3>3, LinesTake
    <3> QED
      BY <3>1, <3>2, <3>4
  <2>2. CmpLines(f, vs, t) = l1 \o l2 \o l34 /\ l34 = l3 \o l4
    BY DEF CmpLines
  <2>3. /\ T1 \cap T2 = {} /\ {t} \cap {t + 1} = {}
        /\ (T1 \cup T2) \cap ({t} \cup {t + 1}) = {}
        /\ (T1 \cup T2) \cup ({t} \cup {t + 1}) \subseteq U
    <3>1. k1 = IF vs[1].ty = ty THEN 0 ELSE 1
      BY DEF EnsureTemps
    <3> HIDE DEF k1, ty
    <3>2. T1 \subseteq {t + 2} /\ T2 \subseteq {t + 2, t + 3} /\ T1 \cap T2 = {}
      BY <3>1
    <3> HIDE DEF T1, T2
    <3> QED
      BY <3>2
  <2> HIDE DEF l1, l2, l3, l4, l34, T1, T2
  <2>4. Takes(l1 \o l2, T1 \cup T2) /\ Takes(l34, {t} \cup {t + 1})
    BY <2>1, <2>2, <2>3, JoinedTakes
  <2>5. Takes((l1 \o l2) \o l34, (T1 \cup T2) \cup ({t} \cup {t + 1}))
    BY <2>3, <2>4, JoinedTakes
  <2> HIDE DEF U
  <2> QED
    BY <2>2, <2>3, <2>5, TakesMore
<1>2. Takes(LogicLines(vs, t), U)
  <2> DEFINE l1 == <<Inst({Temp(t)}, vs[1].reg)>>
             l2 == <<Inst({Temp(t + 1)}, vs[2].reg)>>
             l3 == <<Inst({Temp(t + 2)}, {Temp(t), Temp(t + 1)})>>
             l4 == <<Inst({Temp(t + 3)}, {Temp(t + 2)})>>
  <2>1. Takes(l1, {t}) /\ Takes(l2, {t + 1}) /\ Takes(l3, {t + 2}) /\ Takes(l4, {t + 3})
    BY LinesTake
  <2>2. LogicLines(vs, t) = ((l1 \o l2) \o l3) \o l4
    BY DEF LogicLines
  <2>3. /\ {t} \cap {t + 1} = {} /\ ({t} \cup {t + 1}) \cap {t + 2} = {}
        /\ (({t} \cup {t + 1}) \cup {t + 2}) \cap {t + 3} = {}
        /\ (({t} \cup {t + 1}) \cup {t + 2}) \cup {t + 3} \subseteq U
    OBVIOUS
  <2> HIDE DEF l1, l2, l3, l4
  <2>4. Takes(l1 \o l2, {t} \cup {t + 1})
    BY <2>1, <2>3, JoinedTakes
  <2>5. Takes((l1 \o l2) \o l3, ({t} \cup {t + 1}) \cup {t + 2})
    BY <2>1, <2>3, <2>4, JoinedTakes
  <2>6. Takes(((l1 \o l2) \o l3) \o l4, (({t} \cup {t + 1}) \cup {t + 2}) \cup {t + 3})
    BY <2>1, <2>3, <2>5, JoinedTakes
  <2> DEFINE T == (({t} \cup {t + 1}) \cup {t + 2}) \cup {t + 3}
             all == ((l1 \o l2) \o l3) \o l4
  <2>7. Takes(all, T) /\ T \subseteq U
    BY <2>3, <2>6
  <2> HIDE DEF U, T, all
  <2>8. Takes(all, U)
    BY <2>7, TakesMore
  <2> QED
    BY <2>2, <2>8 DEF all
<1> HIDE DEF U
<1>3. \/ OpLines(f, vs, t) = CmpLines(f, vs, t) /\ f.form = "cmp"
      \/ OpLines(f, vs, t) = LogicLines(vs, t)
      \/ OpLines(f, vs, t) = <<>>
      \/ \E u : OpLines(f, vs, t) = <<Inst({Temp(t)}, u)>> \/ OpLines(f, vs, t) = <<Inst({}, u)>>
  BY DEF OpLines, OpForms
<1>4. Takes(<<>>, U)
  BY EmptyTakes
<1>5. \A u : Takes(<<Inst({Temp(t)}, u)>>, U) /\ Takes(<<Inst({}, u)>>, U)
  BY <1>0, LinesTake
<1>6. Takes(OpLines(f, vs, t), U)
  BY <1>1, <1>2, <1>3, <1>4, <1>5
<1> QED
  BY <1>6 DEF U

\* Every line that reads a register of X comes after one that defines it.
ReadsAfter(s, X) == \A i \in DOMAIN s : \A r \in s[i].use \cap X : \E j \in 1..i - 1 : r \in s[j].def

LEMMA JoinedAfter ==
    ASSUME NEW a, NEW b, NEW X, NEW R, IsText(a), IsText(b), ReadsAfter(a, X), Reads(b, R),
           R \cap X \subseteq Defs(a)
    PROVE  ReadsAfter(a \o b, X)
<1> DEFINE c == a \o b
           p == Len(a)
<1>1. /\ DOMAIN a = 1..p /\ DOMAIN b = 1..Len(b) /\ DOMAIN c = 1..p + Len(b)
      /\ p \in Nat /\ Len(b) \in Nat
      /\ \A i \in 1..p : c[i] = a[i]
      /\ \A i \in 1..Len(b) : p + i \in 1..p + Len(b) /\ c[p + i] = b[i]
      /\ \A i \in 1..p + Len(b) : i \in 1..p \/ \E j \in 1..Len(b) : i = p + j
  <2>1. /\ DOMAIN a = 1..Len(a) /\ DOMAIN b = 1..Len(b) /\ DOMAIN (a \o b) = 1..Len(a) + Len(b)
        /\ Len(a) \in Nat /\ Len(b) \in Nat
        /\ \A i \in 1..Len(a) : (a \o b)[i] = a[i]
        /\ \A i \in 1..Len(b) : Len(a) + i \in 1..Len(a) + Len(b) /\ (a \o b)[Len(a) + i] = b[i]
        /\ \A i \in 1..Len(a) + Len(b) : i \in 1..Len(a) \/ \E j \in 1..Len(b) : i = Len(a) + j
    BY ONLY Joined, IsText(a), IsText(b)
  <2> QED
    BY <2>1
<1> HIDE DEF c, p
<1> SUFFICES ASSUME NEW i \in 1..p + Len(b), NEW r \in c[i].use \cap X
             PROVE  \E j \in 1..i - 1 : r \in c[j].def
  BY <1>1 DEF ReadsAfter, c
<1>2. CASE i \in 1..p
  <2>1. PICK j \in 1..i - 1 : r \in a[j].def
    BY <1>1, <1>2 DEF ReadsAfter
  <2>2. j \in 1..p
    BY <1>1, <1>2
  <2> QED
    BY <1>1, <2>1, <2>2
<1>3. CASE i \notin 1..p
  <2>1. PICK m \in 1..Len(b) : i = p + m
    BY <1>1, <1>3
  <2>2. r \in Defs(a)
    <3>1. c[i] = b[m]
      BY <1>1, <2>1
    <3> QED
      BY <1>1, <3>1 DEF Reads
  <2>3. PICK j \in 1..p : r \in a[j].def
    BY <1>1, <2>2 DEF Defs
  <2>4. j \in 1..i - 1
    BY <1>1, <2>1
  <2> QED
    BY <1>1, <2>3, <2>4
<1> QED
  BY <1>2, <1>3

-----------------------------------------------------------------------------
(* Steps that declare no variable.                                         *)

\* The registers of the variables in scope, and AllocaFirst about them.
Slots(e) == {Slot(x, k) : x \in Names, k \in 1..e}

LEMMA AllocaIs ==
    ASSUME TRUE
    PROVE  AllocaFirst <=> ReadsAfter(code, Slots(Len(env)))
BY DEF AllocaFirst, ReadsAfter, Slots

LEMMA AllocaNext ==
    ASSUME NEW c, NEW e, code' = c, Len(env') = e, ReadsAfter(c, Slots(e))
    PROVE  AllocaFirst'
<1>1. AllocaFirst' = \A i \in DOMAIN c : \A x \in Names, k \in 1..e :
        Slot(x, k) \in c[i].use => \E j \in 1..i - 1 : Slot(x, k) \in c[j].def
  BY DEF AllocaFirst
<1> QED
  BY <1>1 DEF ReadsAfter, Slots

LEMMA UsableIs ==
    ASSUME TypeOK, NEW t \in Nat, NEW t2 \in Nat, t <= t2
    PROVE  /\ Usable(t) \subseteq Usable(t2)
           /\ \A n \in 0..t - 1 : Temp(n) \in Usable(t)
           /\ \A x, k : Slot(x, k) \in Usable(t) /\ k # 0 => Slot(x, k) \in Defs(code)
           /\ Defs(code) \subseteq Usable(t) /\ Defs(code) \subseteq Registers
           /\ \A i \in DOMAIN code : code[i].def \subseteq Defs(code) /\ code[i].use \subseteq Registers
<1>1. 0..t - 1 \subseteq 0..t2 - 1
  OBVIOUS
<1>2. Usable(t) \subseteq Usable(t2)
  BY <1>1 DEF Usable
<1>3. \A x, k : Slot(x, k) \in Usable(t) /\ k # 0 => Slot(x, k) \in Defs(code)
  BY RegisterNames DEF Usable
<1>4. \A i \in DOMAIN code : code[i].def \subseteq Registers /\ code[i].use \subseteq Registers
  <2>1. \A i \in DOMAIN code : code[i] \in LineOf(Registers, 0..nlabel - 1)
    BY DEF TypeOK
  <2> QED
    BY <2>1 DEF LineOf
<1>5. Defs(code) \subseteq Registers /\ \A i \in DOMAIN code : code[i].def \subseteq Defs(code)
  BY <1>4 DEF Defs
<1>6. (\A n \in 0..t - 1 : Temp(n) \in Usable(t)) /\ Defs(code) \subseteq Usable(t)
  BY DEF Usable
<1> QED
  BY <1>2, <1>3, <1>4, <1>5, <1>6

LEMMA UsableGrows ==
    ASSUME TypeOK, NEW t \in Nat, ntemp <= t
    PROVE  Ready \subseteq Usable(t) /\ \A n \in 0..t - 1 : Temp(n) \in Usable(t)
<1>1. ntemp \in Nat
  BY DEF TypeOK
<1>2. Usable(ntemp) \subseteq Usable(t)
  BY <1>1, UsableIs
<1> QED
  BY <1>2 DEF Ready, Usable

\* New temporaries are not registers yet.
LEMMA TempsFresh ==
    ASSUME TypeOK, NEW n \in Nat, ntemp <= n
    PROVE  Temp(n) \notin Registers
<1>1. ntemp \in Nat
  BY DEF TypeOK
<1>2. \A m \in 0..ntemp - 1 : m # n
  BY <1>1
<1> QED
  BY <1>2, RegisterNames DEF Registers, RegistersOf

\* What such a step does to the activations.
StackReady(R) == \/ stack' = stack \/ stack' = Below
                 \/ \E f : FrameReady(f, R) /\ (stack' = Append(stack, f) \/ Goto(f))

LEMMA FramesReady ==
    ASSUME TypeOK, stack # <<>>, NEW R, NEW Q, Q \subseteq R, StackReady(R),
           \A i \in DOMAIN stack : FrameReady(stack[i], Q)
    PROVE  \A i \in DOMAIN stack' : FrameReady(stack'[i], R)
<1> DEFINE n == Len(stack)
<1>1. n \in Nat /\ n > 0 /\ DOMAIN stack = 1..n /\ \A i \in 1..n : FrameReady(stack[i], R)
  BY DEF TypeOK, FrameReady
<1>2. CASE stack' = stack
  BY <1>1, <1>2
<1>3. CASE stack' = Below
  <2> DEFINE S == FrameOf(Registers)
  <2>1. stack \in Seq(S) /\ stack' = SubSeq(stack, 1, Len(stack) - 1)
    BY <1>3 DEF TypeOK, Below
  <2> HIDE DEF S
  <2>2. stack' \in Seq(S) /\ Len(stack') = n - 1 /\ \A i \in 1..n - 1 : stack'[i] = stack[i]
    BY <2>1, BelowIs
  <2>3. DOMAIN stack' = 1..n - 1 /\ \A i \in 1..n - 1 : i \in 1..n
    BY <1>1, <2>2
  <2> HIDE DEF n
  <2> QED
    BY <1>1, <2>2, <2>3
<1>4. ASSUME NEW f, FrameReady(f, R), stack' = Append(stack, f)
      PROVE  \A i \in DOMAIN stack' : FrameReady(stack'[i], R)
  <2>1. /\ DOMAIN stack' = 1..n + 1
        /\ \A i \in 1..n : stack'[i] = stack[i]
        /\ stack'[n + 1] = f /\ \A i \in 1..n + 1 : i \in 1..n \/ i = n + 1
    BY <1>1, <1>4 DEF TypeOK
  <2> HIDE DEF n
  <2> QED
    BY <1>1, <1>4, <2>1
<1>5. ASSUME NEW f, FrameReady(f, R), Goto(f)
      PROVE  \A i \in DOMAIN stack' : FrameReady(stack'[i], R)
  <2> DEFINE S == FrameOf(Registers)
  <2>1. stack \in Seq(S) /\ stack' = Append(SubSeq(stack, 1, Len(stack) - 1), f)
    BY <1>5 DEF TypeOK, Goto, Below
  <2> HIDE DEF S
  <2>2. /\ DOMAIN stack' = 1..n
        /\ \A i \in 1..n : i # n => stack'[i] = stack[i]
        /\ stack'[n] = f
    BY <2>1, ReplacedTopIs
  <2> HIDE DEF n
  <2> QED
    BY <1>1, <1>5, <2>2
<1> QED
  BY <1>2, <1>3, <1>4, <1>5 DEF StackReady

LEMMA RegStep ==
    ASSUME TypeOK, RegInv, stack # <<>>, env' = env, ntemp' \in Nat, ntemp <= ntemp',
           NEW s, Takes(s, {n \in Nat : ntemp <= n}), Reads(s, Usable(ntemp')), code' = code \o s,
           StackReady(Usable(ntemp')), ctl'.val.reg \subseteq Usable(ntemp')
    PROVE  RegInv'
<1>1. /\ ntemp \in Nat /\ IsText(code) /\ IsText(s) /\ Defs(code) \subseteq Registers
      /\ Ready \subseteq Usable(ntemp')
  BY CodeIs, UsableIs DEF TypeOK, Takes, Ready
<1>2. Defs(code') = Defs(code) \cup Defs(s)
  BY <1>1, JoinedDefs
<1>3. Usable(ntemp') \subseteq Ready'
  BY <1>2 DEF Ready, Usable
<1>4. AssignedOnce'
  <2>1. Defs(code) \cap Defs(s) = {}
    BY <1>1, TempsFresh DEF Takes
  <2> QED
    BY <1>1, <2>1, JoinedAssigns DEF Takes, RegInv, AssignedOnce
<1>5. EnvReady'
  BY <1>2 DEF RegInv, EnvReady
<1>6. \A i \in DOMAIN stack' : FrameReady(stack'[i], Ready')
  <2>1. \A i \in DOMAIN stack' : FrameReady(stack'[i], Usable(ntemp'))
    <3> DEFINE R == Usable(ntemp')
    <3>1. StackReady(R) /\ Ready \subseteq R /\ \A i \in DOMAIN stack : FrameReady(stack[i], Ready)
      BY <1>1 DEF RegInv
    <3> HIDE DEF R
    <3>2. \A i \in DOMAIN stack' : FrameReady(stack'[i], R)
      BY <3>1, FramesReady
    <3> QED
      BY <3>2 DEF R
  <2> QED
    BY <1>3, <2>1 DEF FrameReady
<1>7. ctl'.val.reg \subseteq Ready'
  BY <1>3
<1>8. AllocaFirst'
  <2> DEFINE X == Slots(Len(env))
             R == Usable(ntemp')
  <2>1. R \cap X \subseteq Defs(code)
    <3>1. \A x, k : Slot(x, k) \in R /\ k # 0 => Slot(x, k) \in Defs(code)
      BY <1>1, UsableIs
    <3> HIDE DEF R
    <3> QED
      BY <3>1 DEF Slots
  <2>2. ReadsAfter(code, X) /\ Reads(s, R)
    BY AllocaIs DEF RegInv
  <2> HIDE DEF X, R
  <2>3. ReadsAfter(code \o s, X)
    BY <1>1, <2>1, <2>2, JoinedAfter
  <2>4. ReadsAfter(code', Slots(Len(env'))) /\ Len(env') = Len(env')
    BY <2>3 DEF X
  <2> QED
    BY <2>4, AllocaNext
<1> QED
  BY <1>4, <1>5, <1>6, <1>7, <1>8 DEF RegInv

\* A step that writes nothing and takes nothing.
LEMMA RegSilent ==
    ASSUME TypeOK, RegInv, stack # <<>>, UNCHANGED <<code, ntemp, env>>,
           StackReady(Ready), ctl'.val.reg \subseteq Ready
    PROVE  RegInv'
<1>1. code' = code \o <<>>
  <2>1. IsText(code) /\ IsText(<<>>)
    BY CodeIs, EmptyTakes DEF Takes
  <2> QED
    BY <2>1, Joined
<1>2. ntemp \in Nat /\ ntemp' = ntemp
  BY DEF TypeOK
<1>3. \A T, R : Takes(<<>>, T) /\ Reads(<<>>, R)
  BY EmptyTakes
<1>4. StackReady(Usable(ntemp')) /\ ctl'.val.reg \subseteq Usable(ntemp')
  BY <1>2 DEF Ready
<1> DEFINE s == <<>>
<1>5. /\ code' = code \o s /\ Takes(s, {n \in Nat : ntemp <= n}) /\ Reads(s, Usable(ntemp'))
      /\ env' = env /\ ntemp' \in Nat /\ ntemp <= ntemp'
  BY <1>1, <1>2, <1>3
<1> HIDE DEF s
<1> QED
  BY <1>4, <1>5, RegStep

\* What the activation on top and the result in hand read is ready.
LEMMA TopReady ==
    ASSUME IInv, RegInv, ctl.mode # "done", NEW t \in Nat, ntemp <= t
    PROVE  /\ TypeOK /\ stack # <<>> /\ ntemp \in Nat
           /\ ctl.val \in ValueOf(Usable(t)) /\ ctl.val.reg \subseteq Usable(t)
           /\ Top.vals \in Seq(ValueOf(Usable(t)))
           /\ \A i \in DOMAIN Top.vals : Top.vals[i].reg \subseteq Usable(t)
           /\ \A n \in 0..t - 1 : Temp(n) \in Usable(t)
<1> DEFINE R == Usable(t)
<1>1. /\ stack # <<>> /\ TypeOK /\ Top \in FrameOf(Registers) /\ ctl.val \in ValueOf(Registers)
      /\ ntemp \in Nat
  BY TopFacts DEF IInv
<1>2. Ready \subseteq R /\ \A n \in 0..t - 1 : Temp(n) \in R
  BY <1>1, UsableIs DEF Ready
<1>3. FrameReady(Top, Ready) /\ ctl.val.reg \subseteq Ready
  <2>1. Len(stack) \in DOMAIN stack
    BY <1>1 DEF TypeOK
  <2> QED
    BY <2>1 DEF RegInv, Top
<1> HIDE DEF R
<1>4. ctl.val \in ValueOf(R) /\ ctl.val.reg \subseteq R
  BY <1>1, <1>2, <1>3 DEF ValueOf
<1>5. \A i \in DOMAIN Top.vals : Top.vals[i].reg \subseteq R
  BY <1>2, <1>3 DEF FrameReady
<1>6. Top.vals \in Seq(ValueOf(R))
  <2> DEFINE vs == Top.vals
  <2>1. vs \in Seq(ValueOf(Registers))
    BY <1>1 DEF FrameOf
  <2>2. \A i \in DOMAIN vs : vs[i] \in ValueOf(Registers) /\ vs[i].reg \subseteq R
    BY <1>5, <2>1
  <2>3. \A i \in DOMAIN vs : vs[i] \in ValueOf(R)
    BY <2>2 DEF ValueOf
  <2> HIDE DEF vs
  <2>4. vs \in Seq(ValueOf(R))
    BY <2>1, <2>3
  <2> QED
    BY <2>4 DEF vs
<1> QED
  BY <1>1, <1>2, <1>4, <1>5, <1>6 DEF R

LEMMA NewFramesReady ==
    ASSUME NEW R
    PROVE  /\ \A form, arg : FrameReady(Frame(form, arg), R) /\ FrameReady(ListFrame(form), R)
           /\ \A form, arg, ty : FrameReady([Frame(form, arg) EXCEPT !.ty = ty], R)
           /\ \A form, arg, l : FrameReady([Frame(form, arg) EXCEPT !.lab = l], R)
           /\ \A mode : Call(mode).val.reg \subseteq R
           /\ \A r, v : v.reg \subseteq R => Did(r, v).val.reg \subseteq R /\ Yield(v).val.reg \subseteq R
           /\ NoValue.reg \subseteq R /\ \A n : Const(n).reg \subseteq R
           /\ \A ty, n : Temp(n) \in R => TempVal(ty, n).reg \subseteq R
<1>1. /\ \A form, arg : Frame(form, arg).vals = <<>> /\ ListFrame(form).vals = <<NoValue>>
      /\ \A form, arg, ty : [Frame(form, arg) EXCEPT !.ty = ty].vals = <<>>
      /\ \A form, arg, l : [Frame(form, arg) EXCEPT !.lab = l].vals = <<>>
  BY DEF Frame, ListFrame
<1>2. NoValue.reg = {} /\ (\A n : Const(n).reg = {}) /\ \A ty, n : TempVal(ty, n).reg = {Temp(n)}
  BY DEF NoValue, Const, TempVal, Value
<1>3. DOMAIN <<>> = {} /\ DOMAIN <<NoValue>> = {1} /\ <<NoValue>>[1] = NoValue
  OBVIOUS
<1>4. ASSUME NEW f, f.vals = <<>> \/ f.vals = <<NoValue>>
      PROVE  FrameReady(f, R)
  BY <1>2, <1>3, <1>4 DEF FrameReady
<1>5. /\ \A mode : Call(mode).val = NoValue
      /\ \A r, v : Did(r, v).val = v /\ Yield(v).val = v
  BY DEF Call, Did, Yield
<1>6. \A form, arg : FrameReady(Frame(form, arg), R) /\ FrameReady(ListFrame(form), R)
  BY <1>1, <1>4
<1>7. ASSUME NEW form, NEW arg, NEW ty
      PROVE  FrameReady([Frame(form, arg) EXCEPT !.ty = ty], R)
  <2> DEFINE g == [Frame(form, arg) EXCEPT !.ty = ty]
  <2>1. g.vals = <<>>
    BY <1>1
  <2> HIDE DEF g
  <2>2. FrameReady(g, R)
    BY <1>4, <2>1
  <2> QED
    BY <2>2 DEF g
<1>8. ASSUME NEW form, NEW arg, NEW l
      PROVE  FrameReady([Frame(form, arg) EXCEPT !.lab = l], R)
  <2> DEFINE g == [Frame(form, arg) EXCEPT !.lab = l]
  <2>1. g.vals = <<>>
    BY <1>1
  <2> HIDE DEF g
  <2>2. FrameReady(g, R)
    BY <1>4, <2>1
  <2> QED
    BY <2>2 DEF g
<1>9. \A mode : Call(mode).val.reg \subseteq R
  BY <1>2, <1>5
<1>10. \A r, v : v.reg \subseteq R => Did(r, v).val.reg \subseteq R /\ Yield(v).val.reg \subseteq R
  BY <1>5
<1> QED
  BY <1>2, <1>6, <1>7, <1>8, <1>9, <1>10

\* What the environment answers for a name is ready.
LEMMA EnvSlotReady ==
    ASSUME TypeOK, EnvReady, NEW x \in Names
    PROVE  EnvSlot(env, x) \in Ready
<1> DEFINE T == {i \in 1..Len(env) : env[i].name = x}
<1>1. T \in SUBSET (1..Len(env)) /\ Len(env) \in Nat /\ DOMAIN env = 1..Len(env)
  BY DEF TypeOK
<1>2. CASE Bound(env, x)
  <2>1. T # {}
    BY <1>2 DEF Bound
  <2>2. \E i \in T : \A j \in T : j <= i
    <3> HIDE DEF T
    <3> QED
      BY <1>1, <2>1, Greatest
  <2>3. \E i \in 1..Len(env) : env[i].name = x /\ \A j \in 1..Len(env) : env[j].name = x => j <= i
    BY <2>2
  <2>4. Find(env, x) \in 1..Len(env) /\ env[Find(env, x)].name = x
    BY <2>3 DEF Find
  <2>5. Slot(x, Find(env, x)) \in Defs(code)
    <3>1. \A j \in 1..Len(env) : env[j].name = x => j <= Find(env, x)
      BY <2>3 DEF Find
    <3> QED
      BY <1>1, <2>4, <3>1 DEF EnvReady, Newest
  <2> QED
    BY <1>2, <2>5 DEF EnvSlot, Ready, Usable
<1>3. CASE ~Bound(env, x)
  BY <1>3 DEF EnvSlot, Ready, Usable
<1> QED
  BY <1>2, <1>3

LEMMA RegFatals ==
    ASSUME IInv, RegInv, ctl.mode # "done", Fatal
    PROVE  RegInv'
<1>1. TypeOK /\ stack # <<>>
  BY TopFacts DEF IInv
<1>2. stack' = stack /\ ctl' = Call("fatal") /\ UNCHANGED <<code, ntemp, env>>
  BY DEF Fatal
<1> QED
  BY <1>1, <1>2, NewFramesReady, RegSilent DEF StackReady

LEMMA RegCalls ==
    ASSUME IInv, RegInv,
           \/ StmtSkip \/ CallReturn \/ CallStore \/ CallLet \/ CallSet \/ CallDo \/ CallIf \/ CallExprStmt
           \/ ExprConst \/ ExprAddr \/ ExprAddrOf \/ ExprGetField \/ ExprBlock \/ ExprOp
           \/ NextItem
    PROVE  RegInv'
<1>1. ctl.mode # "done"
  BY DEF StmtSkip, CallReturn, CallStore, CallLet, CallSet, CallDo, CallIf, CallExprStmt, ExprConst,
         ExprAddr, ExprAddrOf, ExprGetField, ExprBlock, ExprOp, NextItem, StmtCalled, ExprCalled
<1>2. UNCHANGED <<code, ntemp, env>>
  BY DEF StmtSkip, CallReturn, CallStore, CallLet, CallSet, CallDo, CallIf, CallExprStmt, ExprConst,
         ExprAddr, ExprAddrOf, ExprGetField, ExprBlock, ExprOp, NextItem
<1>3. TypeOK /\ stack # <<>>
  BY <1>1, TopFacts DEF IInv
<1>4. CASE CallReturn \/ CallStore \/ CallLet \/ CallSet \/ CallDo \/ CallIf \/ CallExprStmt
  <2>1. StackReady(Ready)
    BY <1>4, NewFramesReady DEF StackReady, CallReturn, CallStore, CallLet, CallSet, CallDo, CallIf,
       CallExprStmt, Enter
  <2>2. \E mode : ctl' = Call(mode)
    BY <1>4 DEF CallReturn, CallStore, CallLet, CallSet, CallDo, CallIf, CallExprStmt, Enter
  <2> QED
    BY <1>2, <1>3, <2>1, <2>2, NewFramesReady, RegSilent
<1>5. CASE ExprBlock \/ ExprOp
  <2>1. StackReady(Ready)
    BY <1>5, NewFramesReady DEF StackReady, ExprBlock, ExprOp, Enter
  <2>2. \E mode : ctl' = Call(mode)
    BY <1>5 DEF ExprBlock, ExprOp, Enter
  <2> QED
    BY <1>2, <1>3, <2>1, <2>2, NewFramesReady, RegSilent
<1>6. CASE StmtSkip \/ ExprConst \/ ExprGetField \/ NextItem
  <2>1. StackReady(Ready)
    BY <1>6 DEF StackReady, StmtSkip, ExprConst, ExprGetField, NextItem
  <2>2. \/ \E n : ctl' = Yield(Const(n))
        \/ ctl' = Did(FALSE, NoValue)
        \/ \E mode : ctl' = Call(mode)
    BY <1>6 DEF StmtSkip, ExprConst, ExprGetField, NextItem
  <2>3. ctl'.val.reg \subseteq Ready
    BY <2>2, NewFramesReady
  <2> QED
    BY <1>2, <1>3, <2>1, <2>3, RegSilent
<1>7. CASE ExprAddr \/ ExprAddrOf
  <2>1. StackReady(Ready)
    BY <1>7 DEF StackReady, ExprAddr, ExprAddrOf
  <2>2. \/ ctl' = Yield(Const(0))
        \/ \E x \in Names : \E ty : ctl' = Yield(Value(ty, {EnvSlot(env, x)}, 0))
    BY <1>7 DEF ExprAddr, ExprAddrOf
  <2>3. \A x \in Names : \A ty : Value(ty, {EnvSlot(env, x)}, 0).reg \subseteq Ready
    <3>1. \A x \in Names : EnvSlot(env, x) \in Ready
      BY <1>3, EnvSlotReady DEF RegInv
    <3>2. \A ty, r, n : Value(ty, r, n).reg = r
      BY DEF Value
    <3> QED
      BY <3>1, <3>2
  <2>4. ctl'.val.reg \subseteq Ready
    BY <2>2, <2>3, NewFramesReady
  <2> QED
    BY <1>2, <1>3, <2>1, <2>4, RegSilent
<1> QED
  BY <1>4, <1>5, <1>6, <1>7

LEMMA RegLists ==
    ASSUME IInv, RegInv, ItemDone \/ ItemReturned \/ EndDo \/ EndBlock \/ BodyReturned \/ ExprStmt
    PROVE  RegInv'
<1>1. ctl.mode # "done" /\ UNCHANGED <<code, ntemp, env>>
  BY DEF ItemDone, ItemReturned, EndDo, EndBlock, BodyReturned, ExprStmt, Valued
<1>2. /\ TypeOK /\ stack # <<>> /\ Top \in FrameOf(Registers) /\ ctl.val.reg \subseteq Ready
      /\ FrameReady(Top, Ready) /\ WellFormed(Top)
  BY <1>1, TopFacts, TopReady DEF IInv, Ready, FrameReady
<1>3. CASE ItemDone
  <2>1. FrameReady([Top EXCEPT !.vals = <<ctl.val>>], Ready)
    <3>1. [Top EXCEPT !.vals = <<ctl.val>>].vals = <<ctl.val>>
      BY <1>2 DEF FrameOf
    <3>2. DOMAIN <<ctl.val>> = {1} /\ <<ctl.val>>[1] = ctl.val
      OBVIOUS
    <3> QED
      BY <1>2, <3>1, <3>2 DEF FrameReady
  <2>2. StackReady(Ready)
    BY <1>2, <1>3, <2>1 DEF StackReady, ItemDone
  <2>3. ctl'.val.reg \subseteq Ready
    BY <1>3, NewFramesReady DEF ItemDone
  <2> QED
    BY <1>1, <1>2, <2>2, <2>3, RegSilent
<1>4. CASE ItemReturned \/ BodyReturned \/ ExprStmt
  <2>1. StackReady(Ready)
    BY <1>4 DEF StackReady, ItemReturned, BodyReturned, ExprStmt, Finish
  <2>2. \/ \E n, r : ctl' = Did(r, NoValue) \/ ctl' = Yield(Const(n))
        \/ ctl' = Call("done") \/ ctl' = Did(FALSE, ctl.val)
    BY <1>4 DEF ItemReturned, BodyReturned, ExprStmt, Finish, ListReturned
  <2>3. ctl'.val.reg \subseteq Ready
    BY <1>2, <2>2, NewFramesReady
  <2> QED
    BY <1>1, <1>2, <2>1, <2>3, RegSilent
<1>5. CASE EndDo \/ EndBlock
  <2>1. StackReady(Ready)
    BY <1>5 DEF StackReady, EndDo, EndBlock, Finish
  <2>2. LastValue.reg \subseteq Ready
    <3>1. Top.form \in ListForms
      BY <1>5 DEF EndDo, EndBlock, InList, ListForms
    <3>2. Len(Top.vals) = 1 /\ Top.vals \in Seq(ValueOf(Registers))
      BY <1>2, <3>1 DEF WellFormed, FrameOf
    <3> QED
      BY <1>2, <3>2 DEF FrameReady, LastValue
  <2>3. ctl' = Did(FALSE, LastValue) \/ ctl' = Yield(Const(0)) \/ ctl' = Yield(LastValue)
    BY <1>5 DEF EndDo, EndBlock, Finish
  <2>4. ctl'.val.reg \subseteq Ready
    BY <2>2, <2>3, NewFramesReady
  <2> QED
    BY <1>1, <1>2, <2>1, <2>4, RegSilent
<1> QED
  BY <1>3, <1>4, <1>5

\* Steps that write one line.
LEMMA RegLoads ==
    ASSUME IInv, RegInv, ExprVar \/ ExprString
    PROVE  RegInv'
<1>1. /\ ctl.mode # "done" /\ stack' = stack /\ env' = env /\ ntemp' = ntemp + 1
  BY DEF ExprVar, ExprString, ExprCalled
<1>2. TypeOK /\ stack # <<>> /\ ntemp \in Nat /\ EnvReady
  BY <1>1, TopFacts DEF IInv, RegInv
<1>3. ntemp' \in Nat /\ ntemp <= ntemp' /\ ntemp \in 0..ntemp' - 1
  BY <1>1, <1>2
<1>4. Ready \subseteq Usable(ntemp') /\ Temp(ntemp) \in Usable(ntemp')
  BY <1>2, <1>3, UsableGrows
<1>5. PICK u, ty : /\ u \subseteq Ready /\ code' = code \o <<Inst({Temp(ntemp)}, u)>>
                   /\ ctl' = Yield(TempVal(ty, ntemp))
  <2>1. CASE ExprVar
    <3>1. \A x \in Names : {EnvSlot(env, x)} \subseteq Ready
      BY <1>2, EnvSlotReady
    <3> QED
      BY <2>1, <3>1 DEF ExprVar, Emit
  <2>2. CASE ExprString
    <3>1. {} \subseteq Ready
      OBVIOUS
    <3> QED
      BY <2>2, <3>1 DEF ExprString, Emit
  <2> QED
    BY <2>1, <2>2
<1> DEFINE s == <<Inst({Temp(ntemp)}, u)>>
           R == Usable(ntemp')
           T == {n \in Nat : ntemp <= n}
<1>6. Takes(s, T) /\ Reads(s, R)
  <2>1. ntemp \in T /\ u \subseteq R
    BY <1>2, <1>4, <1>5
  <2> HIDE DEF T, R
  <2> QED
    BY <2>1, LinesTake
<1>7. ctl'.val.reg \subseteq R
  BY <1>4, <1>5, NewFramesReady
<1>8. code' = code \o s /\ StackReady(R)
  BY <1>1, <1>5 DEF StackReady
<1> HIDE DEF s
<1> QED
  BY <1>1, <1>2, <1>3, <1>6, <1>7, <1>8, RegStep

LEMMA RegReturns ==
    ASSUME IInv, RegInv, Return \/ Set
    PROVE  RegInv'
<1>1. ctl.mode # "done" /\ ntemp' = ntemp /\ env' = env /\ stack' = Below
  BY DEF Return, Set, Valued, Finish
<1>2. /\ TypeOK /\ stack # <<>> /\ ntemp \in Nat /\ EnvReady /\ ctl.val.reg \subseteq Ready
      /\ WellFormed(Top)
  BY <1>1, TopFacts, TopReady DEF IInv, RegInv, Ready
<1> DEFINE T == {n \in Nat : ntemp <= n}
<1>3. \E s : Takes(s, T) /\ Reads(s, Ready) /\ code' = code \o s
  <2>1. CASE Return
    <3>1. PICK u : u \subseteq Ready /\ code' = code \o <<Ret(u)>>
      BY <1>2, <2>1 DEF Return, Emit
    <3> HIDE DEF T
    <3> QED
      BY <3>1, LinesTake
  <2>2. CASE Set
    <3>1. Top.arg \in Names
      BY <1>2, <2>2 DEF Set, Valued, WellFormed
    <3>2. EnvSlot(env, Top.arg) \in Ready
      BY <1>2, <3>1, EnvSlotReady
    <3>3. PICK u : u \subseteq Ready /\ code' = code \o <<Inst({}, u)>>
      BY <1>2, <2>2, <3>2 DEF Set, Emit
    <3> HIDE DEF T
    <3> QED
      BY <3>3, LinesTake
  <2> QED
    BY <2>1, <2>2
<1>4. ctl'.val.reg \subseteq Ready
  <2>1. ctl' = Did(TRUE, ctl.val) \/ ctl' = Did(FALSE, NoValue)
    BY DEF Return, Set, Finish
  <2> QED
    BY <1>2, <2>1, NewFramesReady
<1>5. PICK s : Takes(s, T) /\ Reads(s, Ready) /\ code' = code \o s
  BY <1>3
<1>6. StackReady(Ready) /\ Ready = Usable(ntemp') /\ ntemp' \in Nat /\ ntemp <= ntemp'
  BY <1>1, <1>2 DEF StackReady, Ready
<1> QED
  BY <1>1, <1>2, <1>4, <1>5, <1>6, RegStep

\* Lines over ready registers read ready registers.
LEMMA ReadsIs ==
    ASSUME NEW R, NEW L, NEW s \in Seq(LineOf(R, L))
    PROVE  Reads(s, R)
<1>1. \A i \in DOMAIN s : s[i] \in LineOf(R, L)
  OBVIOUS
<1> QED
  BY <1>1 DEF Reads, LineOf

LEMMA RegCallsNoArgs ==
    ASSUME IInv, RegInv, CallNoArgs
    PROVE  RegInv'
<1>1. ctl.mode # "done" /\ stack' = stack /\ env' = env
  BY DEF CallNoArgs, ExprCalled
<1>2. TypeOK /\ stack # <<>> /\ ntemp \in Nat
  BY <1>1, TopFacts DEF IInv
<1>3. PICK fn \in DOMAIN Fns :
          /\ Fns[fn].params = <<>>
          /\ ctl' = OpResult(Frame("call", fn), <<>>, ntemp)
          /\ code' = code \o OpLines(Frame("call", fn), <<>>, ntemp)
          /\ ntemp' = ntemp + OpTemps(Frame("call", fn), <<>>)
  BY DEF CallNoArgs, Emit
<1> DEFINE f == Frame("call", fn)
           k == OpTemps(f, <<>>)
<1>4. f.form = "call" /\ f.arg = fn /\ f.form \in OpForms
  BY DEF Frame, OpForms
<1>5. OperandTypes(f) = <<>>
  BY <1>3, <1>4 DEF OperandTypes
<1>6. ctl' = OpResult(f, <<>>, ntemp) /\ ntemp' = ntemp + k /\ code' = code \o OpLines(f, <<>>, ntemp)
  BY <1>3
<1> HIDE DEF f
<1>7. k \in 0..4
  BY <1>4, OpTempsType
<1>8. ntemp' \in Nat /\ ntemp <= ntemp'
  <2> HIDE DEF k
  <2> QED
    BY <1>2, <1>6, <1>7
<1> DEFINE R == Usable(ntemp')
           L == {}
<1>9. OpLines(f, <<>>, ntemp) \in Seq(LineOf(R, L)) /\ OpResult(f, <<>>, ntemp) \in CtlOf(R)
  <2>1. \A n \in ntemp..ntemp + k - 1 : Temp(n) \in R
    <3>1. \A n \in 0..ntemp' - 1 : Temp(n) \in R
      BY <1>2, <1>8, UsableGrows
    <3>2. \A n \in ntemp..ntemp + k - 1 : n \in 0..ntemp' - 1
      <4> HIDE DEF k
      <4> QED
        BY <1>2, <1>6, <1>7
    <3> QED
      BY <3>1, <3>2
  <2>2. Len(<<>>) = Len(OperandTypes(f)) /\ <<>> \in Seq(ValueOf(R))
    BY <1>5
  <2> HIDE DEF R, L
  <2>3. (f.form # "call" => WellFormed(f)) /\ (f.form = "call" => f.arg \in DOMAIN Fns)
    BY <1>4
  <2>4. ASSUME NEW vs \in Seq(ValueOf(R)), NEW t \in Nat,
               Len(vs) = Len(OperandTypes(f)),
               \A n \in t..t + OpTemps(f, vs) - 1 : Temp(n) \in R
        PROVE  OpLines(f, vs, t) \in Seq(LineOf(R, L)) /\ OpResult(f, vs, t) \in CtlOf(R)
    BY <1>4, <2>3, <2>4, OpTypes
  <2> QED
    BY <1>2, <2>1, <2>2, <2>4
<1> DEFINE s == OpLines(f, <<>>, ntemp)
<1>10. Takes(s, {n \in Nat : ntemp <= n}) /\ Reads(s, R) /\ code' = code \o s
  <2>1. Takes(s, {n \in Nat : ntemp <= n})
    BY <1>2, <1>4, OpTakes
  <2>2. Reads(s, R)
    <3> HIDE DEF s, R, L
    <3>1. s \in Seq(LineOf(R, L))
      BY <1>9 DEF s
    <3> QED
      BY <3>1, ReadsIs
  <2> QED
    BY <1>6, <2>1, <2>2
<1>11. ctl'.val.reg \subseteq R
  <2> HIDE DEF R
  <2>1. ctl' \in CtlOf(R)
    BY <1>6, <1>9
  <2> QED
    BY <2>1 DEF CtlOf, ValueOf
<1>12. StackReady(R)
  BY <1>1 DEF StackReady
<1> HIDE DEF s
<1> QED
  BY <1>1, <1>2, <1>8, <1>10, <1>11, <1>12, RegStep

\* Two pieces, the second on the temporaries that the first leaves.
LEMMA TakesTwo ==
    ASSUME NEW a, NEW b, NEW t \in Nat, NEW k \in {0, 1}, NEW T,
           Takes(a, IF k = 0 THEN {} ELSE {t}), Takes(b, {n \in Nat : t + k <= n})
    PROVE  Takes(a \o b, {n \in Nat : t <= n})
<1> DEFINE T1 == IF k = 0 THEN {} ELSE {t}
           T2 == {n \in Nat : t + k <= n}
           U  == {n \in Nat : t <= n}
<1>1. T1 \cap T2 = {} /\ T1 \cup T2 \subseteq U
  OBVIOUS
<1> HIDE DEF T1, T2, U
<1>2. Takes(a, T1) /\ Takes(b, T2)
  BY DEF T1, T2
<1>3. Takes(a \o b, T1 \cup T2)
  BY <1>1, <1>2, JoinedTakes
<1>4. Takes(a \o b, U)
  BY <1>1, <1>3, TakesMore
<1> QED
  BY <1>4 DEF U

\* A converted value and its lines, over ready registers.
LEMMA EnsureReady ==
    ASSUME NEW v, NEW ty \in Types, NEW t \in Nat, NEW R, v \in ValueOf(R),
           NEW t2 \in Nat, t + EnsureTemps(v, ty) <= t2, \A n \in 0..t2 - 1 : Temp(n) \in R
    PROVE  /\ EnsureTemps(v, ty) \in {0, 1}
           /\ Ensured(v, ty, t) \in ValueOf(R) /\ Ensured(v, ty, t).reg \subseteq R
           /\ Reads(EnsureLines(v, ty, t), R)
           /\ Takes(EnsureLines(v, ty, t), IF EnsureTemps(v, ty) = 0 THEN {} ELSE {t})
           /\ Takes(EnsureLines(v, ty, t), {n \in Nat : t <= n})
<1>1. EnsureTemps(v, ty) = IF v.ty = ty THEN 0 ELSE 1
  BY DEF EnsureTemps
<1>2. v.ty = ty \/ Temp(t) \in R
  <2>1. v.ty # ty => t \in 0..t2 - 1
    BY <1>1
  <2> QED
    BY <2>1
<1> DEFINE L == {}
<1>3. Ensured(v, ty, t) \in ValueOf(R) /\ EnsureLines(v, ty, t) \in Seq(LineOf(R, L))
  <2> HIDE DEF L
  <2> QED
    BY <1>2, EnsuredType
<1>4. Reads(EnsureLines(v, ty, t), R)
  <2> HIDE DEF L
  <2> QED
    BY <1>3, ReadsIs
<1>5. Takes(EnsureLines(v, ty, t), IF v.ty = ty THEN {} ELSE {t})
  BY EnsureTakes
<1>6. Takes(EnsureLines(v, ty, t), IF EnsureTemps(v, ty) = 0 THEN {} ELSE {t})
  BY <1>1, <1>5
<1>7. Takes(EnsureLines(v, ty, t), {n \in Nat : t <= n})
  <2> DEFINE T == IF v.ty = ty THEN {} ELSE {t}
             U == {n \in Nat : t <= n}
  <2>1. T \subseteq U /\ Takes(EnsureLines(v, ty, t), T)
    BY <1>5
  <2> HIDE DEF T, U
  <2>2. Takes(EnsureLines(v, ty, t), U)
    BY <2>1, TakesMore
  <2> QED
    BY <2>2 DEF U
<1> QED
  BY <1>1, <1>3, <1>4, <1>6, <1>7 DEF ValueOf

LEMMA RegOperands ==
    ASSUME IInv, RegInv, Operand
    PROVE  RegInv'
<1> DEFINE f   == Top
           ty  == TargetType
           v   == Ensured(ctl.val, ty, ntemp)
           vs  == Append(f.vals, v)
           k   == EnsureTemps(ctl.val, ty)
           t   == ntemp + k
           pre == EnsureLines(ctl.val, ty, ntemp)
<1>1. ctl.mode # "done" /\ ctl.mode = "val" /\ f.form \in OpForms
  BY DEF Operand
<1>2. /\ TypeOK /\ stack # <<>> /\ ntemp \in Nat /\ ty \in Types /\ f \in FrameOf(Registers)
      /\ WellFormed(f)
  BY <1>1, TopFacts, TargetTypes DEF IInv
<1>3. k \in {0, 1} /\ t \in Nat
  BY <1>2 DEF EnsureTemps
<1>4. ASSUME NEW u \in Nat, t <= u
      PROVE  /\ v \in ValueOf(Usable(u)) /\ vs \in Seq(ValueOf(Usable(u)))
             /\ (\A i \in DOMAIN vs : vs[i].reg \subseteq Usable(u))
             /\ Reads(pre, Usable(u)) /\ (\A n \in 0..u - 1 : Temp(n) \in Usable(u))
             /\ Takes(pre, IF k = 0 THEN {} ELSE {ntemp}) /\ Takes(pre, {n \in Nat : ntemp <= n})
  <2> DEFINE R == Usable(u)
  <2>1. ntemp <= u
    <3> HIDE DEF k
    <3> QED
      BY <1>2, <1>3, <1>4
  <2>2. ctl.val \in ValueOf(R) /\ f.vals \in Seq(ValueOf(R)) /\ \A n \in 0..u - 1 : Temp(n) \in R
    BY <1>1, <2>1, TopReady
  <2>3. ntemp + EnsureTemps(ctl.val, ty) <= u
    BY <1>4
  <2> HIDE DEF R, ty
  <2>4. /\ v \in ValueOf(R) /\ Reads(pre, R)
        /\ Takes(pre, IF k = 0 THEN {} ELSE {ntemp}) /\ Takes(pre, {n \in Nat : ntemp <= n})
    BY <1>2, <2>2, <2>3, EnsureReady
  <2>5. vs \in Seq(ValueOf(R)) /\ \A i \in DOMAIN vs : vs[i] \in ValueOf(R)
    <3> HIDE DEF v
    <3> QED
      BY <2>2, <2>4
  <2>6. \A i \in DOMAIN vs : vs[i].reg \subseteq R
    <3> HIDE DEF vs
    <3> QED
      BY <2>5 DEF ValueOf
  <2> QED
    BY <2>2, <2>4, <2>5, <2>6 DEF R
<1>5. CASE Fatal
  BY <1>1, <1>5, RegFatals
<1>6. CASE /\ Goto([f EXCEPT !.vals = vs])
           /\ ctl' = Call("expr")
           /\ Emit(pre)
           /\ ntemp' = t
           /\ UNCHANGED <<nlabel, env, retTy, nodes>>
  <2>1. ntemp' \in Nat /\ ntemp <= ntemp' /\ t <= ntemp'
    <3> HIDE DEF k
    <3> QED
      BY <1>2, <1>3, <1>6
  <2> DEFINE R == Usable(ntemp')
             g == [f EXCEPT !.vals = vs]
  <2>2. Takes(pre, {n \in Nat : ntemp <= n}) /\ Reads(pre, R) /\ \A i \in DOMAIN vs : vs[i].reg \subseteq R
    BY <1>4, <2>1
  <2>3. g.vals = vs
    <3> HIDE DEF vs
    <3> QED
      BY <1>2 DEF FrameOf
  <2>4. StackReady(R)
    <3>1. Goto(g)
      BY <1>6
    <3>2. FrameReady(g, R)
      BY <2>2, <2>3 DEF FrameReady
    <3> QED
      BY <3>1, <3>2 DEF StackReady
  <2>5. ctl'.val.reg \subseteq R /\ code' = code \o pre /\ env' = env
    BY <1>6, NewFramesReady DEF Emit
  <2> HIDE DEF pre, g
  <2> QED
    BY <1>2, <2>1, <2>2, <2>4, <2>5, RegStep
<1>7. CASE /\ Len(vs) = Len(OperandTypes(f))
           /\ stack' = Below
           /\ ctl' = OpResult(f, vs, t)
           /\ Emit(pre \o OpLines(f, vs, t))
           /\ ntemp' = t + OpTemps(f, vs)
           /\ UNCHANGED <<nlabel, env, retTy, nodes>>
  <2> DEFINE m == OpTemps(f, vs)
             ls == OpLines(f, vs, t)
             R == Usable(ntemp')
             L == {}
  <2>1. m \in 0..4
    BY <1>1, OpTempsType
  <2>2. ntemp' \in Nat /\ ntemp <= ntemp' /\ t <= ntemp'
    <3>1. ntemp' = ntemp + k + m
      BY <1>7
    <3> HIDE DEF k, m
    <3> QED
      BY <1>2, <1>3, <2>1, <3>1
  <2>3. /\ vs \in Seq(ValueOf(R)) /\ Reads(pre, R)
        /\ Takes(pre, IF k = 0 THEN {} ELSE {ntemp}) /\ \A n \in 0..ntemp' - 1 : Temp(n) \in R
    BY <1>4, <2>2
  <2>4. \A n \in t..t + m - 1 : Temp(n) \in R
    <3>1. \A n \in t..t + m - 1 : n \in 0..ntemp' - 1
      <4>1. ntemp' = t + m
        BY <1>7
      <4> HIDE DEF t, m
      <4> QED
        BY <1>3, <2>1, <4>1
    <3> QED
      BY <2>3, <3>1
  <2>5. ls \in Seq(LineOf(R, L)) /\ OpResult(f, vs, t) \in CtlOf(R)
    <3>1. f.form = "call" => f.arg \in DOMAIN Fns
      BY <1>2 DEF WellFormed
    <3>2. Len(vs) = Len(OperandTypes(f)) /\ \A n \in t..t + OpTemps(f, vs) - 1 : Temp(n) \in R
      BY <1>7, <2>4
    <3>3. f.form \in OpForms /\ WellFormed(f) /\ t \in Nat
      BY <1>1, <1>2, <1>3
    <3> HIDE DEF R, L, f, vs, t, m
    <3> QED
      BY <2>3, <3>1, <3>2, <3>3, OpTypes
  <2>6. Reads(ls, R)
    <3> HIDE DEF ls, R, L
    <3> QED
      BY <2>5, ReadsIs
  <2>7. Takes(ls, {n \in Nat : ntemp + k <= n})
    <3>1. Takes(ls, {n \in Nat : t <= n})
      <4> HIDE DEF f, vs, t
      <4> QED
        BY <1>1, <1>3, OpTakes
    <3> QED
      BY <3>1
  <2>8. Takes(pre \o ls, {n \in Nat : ntemp <= n})
    <3> HIDE DEF pre, ls, k
    <3> QED
      BY <1>2, <1>3, <2>3, <2>7, TakesTwo
  <2>9. Reads(pre \o ls, R)
    <3>1. IsText(pre) /\ IsText(ls)
      BY <2>3, <2>7 DEF Takes
    <3> HIDE DEF pre, ls, R
    <3> QED
      BY <2>3, <2>6, <3>1, JoinedReads
  <2>10. ctl'.val.reg \subseteq R
    <3>1. ctl' \in CtlOf(R)
      BY <1>7, <2>5
    <3> HIDE DEF R
    <3> QED
      BY <3>1 DEF CtlOf, ValueOf
  <2>11. StackReady(R) /\ env' = env
    BY <1>7 DEF StackReady
  <2> DEFINE s == pre \o ls
  <2>12. code' = code \o s /\ Takes(s, {n \in Nat : ntemp <= n}) /\ Reads(s, R)
    BY <1>7, <2>8, <2>9 DEF Emit
  <2> HIDE DEF s
  <2> QED
    BY <1>2, <2>2, <2>10, <2>11, <2>12, RegStep
<1> QED
  BY <1>5, <1>6, <1>7 DEF Operand, TargetType

\* The lines of a condition.
LEMMA CondTakes ==
    ASSUME NEW v, NEW t \in Nat, NEW R, v \in ValueOf(R), NEW a, NEW b,
           \A n \in 0..t + EnsureTemps(v, "i32") : Temp(n) \in R
    PROVE  /\ Takes(CondLines(v, t, a, b), {n \in Nat : t <= n}) /\ Reads(CondLines(v, t, a, b), R)
           /\ t + EnsureTemps(v, "i32") + 1 \in Nat /\ t <= t + EnsureTemps(v, "i32") + 1
<1> DEFINE k == EnsureTemps(v, "i32")
           c == t + k
           w == Ensured(v, "i32", t)
           l1 == EnsureLines(v, "i32", t)
           l2 == <<Inst({Temp(c)}, w.reg)>>
           l3 == <<CondBr(Temp(c), a, b)>>
           l23 == <<Inst({Temp(c)}, w.reg), CondBr(Temp(c), a, b)>>
           U == {n \in Nat : t + k <= n}
<1>0. k \in {0, 1} /\ c \in Nat
  BY DEF EnsureTemps
<1>1. "i32" \in Types
  BY DEF Types, BaseTypes
<1>2. (\A n \in 0..c + 1 - 1 : Temp(n) \in R) /\ c + 1 \in Nat /\ c <= c + 1 /\ c \in 0..c + 1 - 1
  <2>1. c + 1 - 1 = c
    BY <1>0
  <2> HIDE DEF c
  <2>2. c + 1 \in Nat /\ c <= c + 1 /\ c \in 0..c
    BY <1>0
  <2> QED
    BY <2>1, <2>2 DEF c
<1>3. w.reg \subseteq R /\ Reads(l1, R) /\ Takes(l1, IF k = 0 THEN {} ELSE {t})
  <2> DEFINE t2 == c + 1
  <2>1. t2 \in Nat /\ t + EnsureTemps(v, "i32") <= t2 /\ \A n \in 0..t2 - 1 : Temp(n) \in R
    BY <1>2
  <2> HIDE DEF t2
  <2> QED
    BY <1>1, <2>1, EnsureReady
<1>4. Temp(c) \in R
  BY <1>2
<1>5. Takes(l2, {c}) /\ Takes(l3, {}) /\ Reads(l2, R) /\ Reads(l3, R)
  <2>1. c \in {c}
    OBVIOUS
  <2> HIDE DEF w, c
  <2> QED
    BY <1>3, <1>4, <2>1, LinesTake
<1>6. l23 = l2 \o l3
  OBVIOUS
<1>7. CondLines(v, t, a, b) = l1 \o l23
  BY DEF CondLines
<1>8. Takes(l23, U) /\ Reads(l23, R)
  <2>1. {c} \cap {} = {} /\ {c} \cup {} \subseteq U
    BY <1>0
  <2> HIDE DEF l2, l3, l23, c, U
  <2>2. Takes(l2 \o l3, {c} \cup {})
    BY <1>5, <2>1, JoinedTakes
  <2>3. Takes(l2 \o l3, U)
    BY <2>1, <2>2, TakesMore
  <2>4. IsText(l2) /\ IsText(l3)
    BY <1>5 DEF Takes
  <2>5. Reads(l2 \o l3, R)
    BY <1>5, <2>4, JoinedReads
  <2> QED
    BY <1>6, <2>3, <2>5
<1>9. Takes(l1 \o l23, {n \in Nat : t <= n})
  <2>1. Takes(l23, {n \in Nat : t + k <= n})
    BY <1>8
  <2> HIDE DEF l1, l23, k
  <2> QED
    BY <1>0, <1>3, <2>1, TakesTwo
<1>10. Reads(l1 \o l23, R)
  <2>1. IsText(l1) /\ IsText(l23)
    BY <1>3, <1>8 DEF Takes
  <2> HIDE DEF l1, l23
  <2> QED
    BY <1>3, <1>8, <2>1, JoinedReads
<1>11. t + k + 1 \in Nat /\ t <= t + k + 1
  <2> HIDE DEF k
  <2> QED
    BY <1>0
<1> QED
  BY <1>7, <1>9, <1>10, <1>11

\* A label after a piece.
LEMMA LabelTakes ==
    ASSUME NEW s, NEW T, NEW R, Takes(s, T), Reads(s, R), NEW l
    PROVE  Takes(s \o <<LabelDef(l)>>, T) /\ Reads(s \o <<LabelDef(l)>>, R)
<1> DEFINE l1 == <<LabelDef(l)>>
<1>1. Takes(l1, {}) /\ Reads(l1, R)
  BY LinesTake
<1>2. IsText(s) /\ IsText(l1) /\ T \cap {} = {} /\ T \cup {} = T
  BY <1>1 DEF Takes
<1> HIDE DEF l1
<1>3. Takes(s \o l1, T \cup {}) /\ Reads(s \o l1, R)
  BY <1>1, <1>2, JoinedTakes, JoinedReads
<1> QED
  BY <1>2, <1>3 DEF l1

\* IfCond and WhileCond.
LEMMA RegConds ==
    ASSUME IInv, RegInv, IfCond \/ WhileCond
    PROVE  RegInv'
<1>1. ctl.mode # "done"
  BY DEF IfCond, WhileCond, Valued
<1>2. /\ TypeOK /\ stack # <<>> /\ ntemp \in Nat /\ Top \in FrameOf(Registers)
  BY <1>1, TopFacts DEF IInv
<1>3. CASE Fatal
  BY <1>1, <1>3, RegFatals
<1>4. CASE ~Fatal
  <2> DEFINE k == EnsureTemps(ctl.val, "i32")
             t == ntemp + k + 1
  <2>1. PICK a, b, l, g : /\ g.vals = Top.vals /\ Goto(g)
                          /\ code' = code \o (CondLines(ctl.val, ntemp, a, b) \o <<LabelDef(l)>>)
    <3>1. /\ \A form, l : [Top EXCEPT !.form = form, !.lab = l].vals = Top.vals
          /\ \A form : [Top EXCEPT !.form = form].vals = Top.vals
      BY <1>2 DEF FrameOf
    <3>2. \/ \E form, l : Goto([Top EXCEPT !.form = form, !.lab = l])
          \/ \E form : Goto([Top EXCEPT !.form = form])
      BY <1>4 DEF IfCond, WhileCond
    <3>3. \E a, b, l : code' = code \o (CondLines(ctl.val, ntemp, a, b) \o <<LabelDef(l)>>)
      BY <1>4 DEF IfCond, WhileCond, Emit
    <3>4. \E g : g.vals = Top.vals /\ Goto(g)
      BY <3>1, <3>2
    <3> QED
      BY <3>3, <3>4
  <2>2. env' = env /\ ctl' = Call("stmt") /\ ntemp' = t
    BY <1>4 DEF IfCond, WhileCond
  <2>3. k \in {0, 1}
    BY DEF EnsureTemps
  <2>4. ntemp' \in Nat /\ ntemp <= ntemp' /\ ntemp' - 1 = ntemp + k
    <3> HIDE DEF k
    <3> QED
      BY <1>2, <2>2, <2>3
  <2> DEFINE R == Usable(ntemp')
  <2>5. /\ ctl.val \in ValueOf(R) /\ \A n \in 0..ntemp + k : Temp(n) \in R
    <3>1. ctl.val \in ValueOf(R) /\ \A n \in 0..ntemp' - 1 : Temp(n) \in R
      BY <1>1, <2>4, TopReady
    <3> HIDE DEF R, k
    <3> QED
      BY <2>4, <3>1
  <2> DEFINE cl == CondLines(ctl.val, ntemp, a, b)
             s == cl \o <<LabelDef(l)>>
             T == {n \in Nat : ntemp <= n}
  <2>6. Takes(cl, T) /\ Reads(cl, R)
    <3> HIDE DEF R
    <3> QED
      BY <1>2, <2>5, CondTakes
  <2>7. Takes(s, T) /\ Reads(s, R)
    <3> HIDE DEF cl, T, R
    <3> QED
      BY <2>6, LabelTakes
  <2>8. StackReady(R) /\ ctl'.val.reg \subseteq R
    <3>1. \A i \in DOMAIN Top.vals : Top.vals[i].reg \subseteq R
      BY <1>1, <2>4, TopReady
    <3>2. FrameReady(g, R)
      BY <2>1, <3>1 DEF FrameReady
    <3> QED
      BY <2>1, <2>2, <3>2, NewFramesReady DEF StackReady
  <2>9. code' = code \o s
    BY <2>1
  <2> HIDE DEF s
  <2> QED
    BY <1>2, <2>2, <2>4, <2>7, <2>8, <2>9, RegStep
<1> QED
  BY <1>3, <1>4

\* Steps that write jumps and labels.
LEMMA RegJumps ==
    ASSUME IInv, RegInv, CallWhile \/ IfThen \/ IfElse \/ WhileBody
    PROVE  RegInv'
<1>1. ctl.mode # "done" /\ env' = env /\ ntemp' = ntemp
  BY DEF CallWhile, IfThen, IfElse, WhileBody, StmtCalled
<1>2. /\ TypeOK /\ stack # <<>> /\ ntemp \in Nat /\ Top \in FrameOf(Registers) /\ FrameReady(Top, Ready)
  BY <1>1, TopFacts, TopReady DEF IInv, Ready, FrameReady
<1> DEFINE T == {n \in Nat : ntemp <= n}
<1>3. \A r, l : Takes(JumpUnless(r, l), T) /\ Reads(JumpUnless(r, l), Ready)
  <2> HIDE DEF T
  <2> QED
    BY LinesTake, EmptyTakes DEF JumpUnless
<1>4. PICK s : Takes(s, T) /\ Reads(s, Ready) /\ code' = code \o s
  <2> HIDE DEF T
  <2>1. ASSUME NEW r, NEW l, NEW m
        PROVE  LET s == JumpUnless(r, l) \o <<LabelDef(m)>>
               IN Takes(s, T) /\ Reads(s, Ready)
    <3> DEFINE j == JumpUnless(r, l)
    <3>1. Takes(j, T) /\ Reads(j, Ready)
      BY <1>3
    <3> HIDE DEF j
    <3>2. Takes(j \o <<LabelDef(m)>>, T) /\ Reads(j \o <<LabelDef(m)>>, Ready)
      BY <3>1, LabelTakes
    <3> QED
      BY <3>2 DEF j
  <2>2. CASE CallWhile
    <3> DEFINE l1 == <<Br(nlabel)>>
               l2 == <<LabelDef(nlabel)>>
               l12 == l1 \o l2
    <3>1. Takes(l1, T) /\ Reads(l1, Ready)
      BY LinesTake
    <3>2. Takes(l12, T) /\ Reads(l12, Ready)
      <4> HIDE DEF l1
      <4> QED
        BY <3>1, LabelTakes
    <3>3. <<Br(nlabel), LabelDef(nlabel)>> = l1 \o l2
      OBVIOUS
    <3>4. code' = code \o l12
      BY <2>2, <3>3 DEF CallWhile, Emit
    <3> QED
      BY <3>2, <3>4
  <2>3. CASE IfThen \/ WhileBody
    <3>1. \E r, l, m : code' = code \o (JumpUnless(r, l) \o <<LabelDef(m)>>)
      BY <2>3 DEF IfThen, WhileBody, Emit
    <3> QED
      BY <2>1, <3>1
  <2>4. CASE IfElse
    <3> DEFINE j == JumpUnless(ctl.ret, Top.lab + 2)
    <3>1. code' = code \o (j \o <<LabelDef(Top.lab + 2)>>) \/ code' = code \o (j \o <<>>)
      BY <2>4 DEF IfElse, Emit
    <3>2. Takes(j, T) /\ Reads(j, Ready)
      BY <1>3
    <3>3. j \o <<>> = j
      <4>1. IsText(j) /\ IsText(<<>>)
        BY <3>2, EmptyTakes DEF Takes
      <4> HIDE DEF j
      <4> QED
        BY <4>1, Joined
    <3> QED
      BY <2>1, <3>1, <3>2, <3>3
  <2> QED
    BY <2>2, <2>3, <2>4
<1>5. StackReady(Ready)
  <2>1. CASE CallWhile
    <3>1. \E l : stack' = Append(stack, [Frame("while-cond", "?") EXCEPT !.lab = l])
      BY <2>1 DEF CallWhile, Enter
    <3> QED
      BY <3>1, NewFramesReady DEF StackReady
  <2>2. CASE IfThen
    <3> DEFINE g == [Top EXCEPT !.form = "if-else", !.ret = ctl.ret]
    <3>1. g.vals = Top.vals /\ Goto(g)
      BY <1>2, <2>2 DEF IfThen, FrameOf
    <3>2. FrameReady(g, Ready)
      BY <1>2, <3>1 DEF FrameReady
    <3> QED
      BY <3>1, <3>2 DEF StackReady
  <2>3. CASE IfElse \/ WhileBody
    BY <2>3 DEF StackReady, IfElse, WhileBody, Finish
  <2> QED
    BY <2>1, <2>2, <2>3
<1>6. ctl'.val.reg \subseteq Ready
  <2>1. (\E mode : ctl' = Call(mode)) \/ (\E r : ctl' = Did(r, NoValue))
    BY DEF CallWhile, Enter, IfThen, IfElse, WhileBody, Finish, BranchValue
  <2> QED
    BY <2>1, NewFramesReady
<1>7. Ready = Usable(ntemp') /\ ntemp' \in Nat /\ ntemp <= ntemp'
  BY <1>1, <1>2 DEF Ready
<1> QED
  BY <1>1, <1>2, <1>4, <1>5, <1>6, <1>7, RegStep

LEMMA RegEnds ==
    ASSUME IInv, RegInv, EndBody
    PROVE  RegInv'
<1>1. ctl.mode # "done"
  BY DEF EndBody
<1>2. /\ TypeOK /\ stack # <<>> /\ ntemp \in Nat /\ Top \in FrameOf(Registers) /\ WellFormed(Top)
      /\ retTy \in RetTypes
  BY <1>1, TopFacts DEF IInv, TypeOK
<1>3. CASE Fatal
  BY <1>1, <1>3, RegFatals
<1> DEFINE implicit == retTy # "void" /\ LastValue.ty # "none"
           v == LastValue
<1>4. CASE ~Fatal /\ implicit
  <2> DEFINE k == EnsureTemps(v, retTy)
             l1 == EnsureLines(v, retTy, ntemp)
             l2 == <<Ret(Ensured(v, retTy, ntemp).reg)>>
             R == Usable(ntemp')
  <2>1. /\ code' = code \o (l1 \o l2) /\ ntemp' = ntemp + k /\ env' = env
        /\ stack' = Below /\ ctl' = Call("done")
    BY <1>4 DEF EndBody, Emit, Finish
  <2>2. retTy \in Types /\ k \in {0, 1}
    BY <1>2, <1>4, TypesAssumption DEF Types, BaseTypes, EnsureTemps
  <2>3. ntemp' \in Nat /\ ntemp <= ntemp' /\ ntemp + k <= ntemp'
    <3> HIDE DEF k
    <3> QED
      BY <1>2, <2>1, <2>2
  <2>4. v \in ValueOf(R) /\ \A n \in 0..ntemp' - 1 : Temp(n) \in R
    <3>1. Top.form \in ListForms
      BY DEF EndBody, InList, ListForms
    <3>2. Len(Top.vals) = 1
      BY <1>2, <3>1 DEF WellFormed
    <3>3. Top.vals \in Seq(ValueOf(R)) /\ \A n \in 0..ntemp' - 1 : Temp(n) \in R
      BY <1>1, <2>3, TopReady
    <3> HIDE DEF R
    <3> QED
      BY <3>2, <3>3 DEF LastValue
  <2> DEFINE T == {n \in Nat : ntemp <= n}
  <2>5. /\ Takes(l1, T) /\ Reads(l1, R) /\ Ensured(v, retTy, ntemp).reg \subseteq R
        /\ Takes(l1, IF k = 0 THEN {} ELSE {ntemp})
    <3> HIDE DEF R, v
    <3> QED
      BY <1>2, <2>2, <2>3, <2>4, EnsureReady
  <2>6. Takes(l2, {n \in Nat : ntemp + k <= n}) /\ Reads(l2, R)
    <3> HIDE DEF R
    <3> QED
      BY <2>5, LinesTake
  <2>7. Takes(l1 \o l2, T) /\ Reads(l1 \o l2, R)
    <3>1. IsText(l1) /\ IsText(l2)
      BY <2>5, <2>6 DEF Takes
    <3> HIDE DEF l1, l2, R, k
    <3> QED
      BY <1>2, <2>2, <2>5, <2>6, <3>1, TakesTwo, JoinedReads
  <2>8. StackReady(R) /\ ctl'.val.reg \subseteq R
    BY <2>1, NewFramesReady DEF StackReady
  <2> HIDE DEF l1, l2
  <2> DEFINE s == l1 \o l2
  <2>9. code' = code \o s /\ Takes(s, T) /\ Reads(s, R)
    BY <2>1, <2>7
  <2> HIDE DEF s
  <2> QED
    BY <1>2, <2>1, <2>3, <2>8, <2>9, RegStep
<1>5. CASE ~Fatal /\ ~implicit
  <2> DEFINE s == <<Ret({})>>
  <2>1. /\ code' = code \o s /\ ntemp' = ntemp /\ env' = env
        /\ stack' = Below /\ ctl' = Call("done")
    BY <1>5 DEF EndBody, Emit, Finish
  <2>2. Takes(s, {n \in Nat : ntemp <= n}) /\ Reads(s, Usable(ntemp'))
    <3>1. \A T, R : {} \subseteq R => Takes(s, T) /\ Reads(s, R)
      BY LinesTake
    <3> QED
      BY <3>1
  <2>3. StackReady(Usable(ntemp')) /\ ctl'.val.reg \subseteq Usable(ntemp')
    BY <2>1, NewFramesReady DEF StackReady
  <2>4. ntemp' \in Nat /\ ntemp <= ntemp'
    BY <1>2, <2>1
  <2> HIDE DEF s
  <2> QED
    BY <1>2, <2>1, <2>2, <2>3, <2>4, RegStep
<1> QED
  BY <1>3, <1>4, <1>5

-----------------------------------------------------------------------------
(* A let writes the alloca of its variable first, then lines that may read  *)
(* it.                                                                      *)

From(t) == {n \in Nat : t <= n}
\* Lines that define a slot, then lines that take temporaries from t on.
Declares(lines, slot, t, R) == \E s : /\ lines = <<Inst({slot}, {})>> \o s
                                      /\ Takes(s, From(t)) /\ Reads(s, R \cup {slot})

LEMMA LetPieces ==
    ASSUME NEW slot, NEW reg, NEW u, NEW t \in Nat, NEW R, reg \subseteq R, u \subseteq R \cup {slot},
           NEW l2, l2 = <<>> \/ l2 = <<Inst({Temp(t)}, reg)>>
    PROVE  Declares(<<Inst({slot}, {})>> \o l2 \o <<Inst({}, u)>>, slot, t, R)
<1> DEFINE l1 == <<Inst({slot}, {})>>
           l3 == <<Inst({}, u)>>
           T == From(t)
           Q == R \cup {slot}
<1>1. u \subseteq Q /\ reg \subseteq Q /\ t \in T
  BY DEF From
<1>2. Takes(l2, T) /\ Reads(l2, Q) /\ Takes(l3, {}) /\ Reads(l3, Q)
  <2> HIDE DEF T, Q
  <2>1. Takes(<<>>, T) /\ Reads(<<>>, Q)
    BY EmptyTakes
  <2>2. Takes(<<Inst({Temp(t)}, reg)>>, T) /\ Reads(<<Inst({Temp(t)}, reg)>>, Q)
    BY <1>1, LinesTake
  <2>3. Takes(l3, {}) /\ Reads(l3, Q)
    BY <1>1, LinesTake
  <2> QED
    BY <2>1, <2>2, <2>3
<1>3. IsText(l1) /\ IsText(l2) /\ IsText(l3)
  <2>1. Plain(l1)
    BY PlainLines
  <2> QED
    BY <1>2, <2>1 DEF Takes, Plain, IsText
<1> HIDE DEF l1, l3, T, Q
<1>4. l1 \o l2 \o l3 = l1 \o (l2 \o l3)
  BY <1>3 DEF IsText
<1>5. Takes(l2 \o l3, T \cup {}) /\ Reads(l2 \o l3, Q)
  <2>1. T \cap {} = {}
    OBVIOUS
  <2> QED
    BY <1>2, <1>3, <2>1, JoinedTakes, JoinedReads
<1>6. T \cup {} = T
  OBVIOUS
<1> QED
  BY <1>4, <1>5, <1>6 DEF T, Q, l1, l3, Declares

LEMMA RegLets ==
    ASSUME IInv, RegInv, Let
    PROVE  RegInv'
<1>1. ctl.mode # "done" /\ Top.form = "let"
  BY DEF Let, Valued
<1>2. /\ stack # <<>> /\ TypeOK /\ WellFormed(Top) /\ ctl.val.reg \subseteq Ready
      /\ ntemp \in Nat /\ env \in Seq(ParamRec) /\ Len(env) \in Nat /\ Top.arg \in Names
      /\ IsText(code) /\ Defs(code) \subseteq Registers
  BY <1>1, TopFacts, TopReady, CodeIs, UsableIs DEF IInv, Ready, WellFormed
<1> DEFINE e == Len(env)
           slot == Slot(Top.arg, e + 1)
           deref == ctl.val.ty = PtrTo[Top.ty]
           k == IF deref THEN 1 ELSE 0
           entry == [name |-> Top.arg, ty |-> Top.ty]
           l1 == <<Inst({slot}, {})>>
<1>3. /\ env' = Append(env, entry) /\ code' = code \o LetLines(slot, ctl.val.reg, deref, ntemp)
      /\ ntemp' = ntemp + k
      /\ Goto(ListFrame("do")) /\ ctl' = Call("items")
  BY <1>2 DEF Let, Emit
<1>4. ntemp' \in Nat /\ ntemp <= ntemp' /\ (deref => ntemp \in 0..ntemp' - 1)
  BY <1>2, <1>3
<1> DEFINE R == Usable(ntemp')
<1>5. Ready \subseteq R /\ \A n \in 0..ntemp' - 1 : Temp(n) \in R
  <2>1. TypeOK /\ ntemp' \in Nat /\ ntemp <= ntemp'
    BY <1>2, <1>4
  <2> QED
    BY <2>1, UsableGrows
<1>6. PICK s : /\ LetLines(slot, ctl.val.reg, deref, ntemp) = l1 \o s
               /\ Takes(s, {n \in Nat : ntemp <= n}) /\ Reads(s, R \cup {slot})
  <2>1. ctl.val.reg \subseteq R /\ (deref => Temp(ntemp) \in R)
    <3> HIDE DEF R, deref
    <3> QED
      BY <1>2, <1>4, <1>5
  <2> DEFINE reg == ctl.val.reg
             l2 == IF deref THEN <<Inst({Temp(ntemp)}, reg)>> ELSE <<>>
             u == {slot} \cup (IF deref THEN {Temp(ntemp)} ELSE reg)
             all == <<Inst({slot}, {})>> \o l2 \o <<Inst({}, u)>>
  <2>2. LetLines(slot, reg, deref, ntemp) = all
    BY DEF LetLines
  <2>3. (l2 = <<>> \/ l2 = <<Inst({Temp(ntemp)}, reg)>>) /\ reg \subseteq R /\ u \subseteq R \cup {slot}
    <3> HIDE DEF R, deref, slot
    <3> QED
      BY <2>1
  <2> HIDE DEF R, slot, reg, l2, u
  <2>4. Declares(all, slot, ntemp, R)
    BY <1>2, <2>3, LetPieces
  <2>5. \E s : all = <<Inst({slot}, {})>> \o s /\ Takes(s, From(ntemp)) /\ Reads(s, R \cup {slot})
    <3> HIDE DEF all
    <3> QED
      BY <2>4 DEF Declares
  <2> QED
    BY <2>2, <2>5 DEF reg, From
<1>7. slot \notin Registers
  <2>1. \A j \in 0..e : j # e + 1
    BY <1>2
  <2> HIDE DEF e
  <2>2. \A n, m : Temp(n) # Slot(Top.arg, m)
    BY RegisterNames
  <2>3. \A x, j : Slot(x, j) = Slot(Top.arg, e + 1) => j = e + 1
    BY RegisterNames
  <2> QED
    BY <2>1, <2>2, <2>3 DEF Registers, RegistersOf, e
<1>8. IsText(l1) /\ SingleAssignment(l1) /\ Defs(l1) = {slot} /\ Reads(l1, {})
  <2>1. DOMAIN l1 = {1} /\ l1[1] = Inst({slot}, {}) /\ Inst({slot}, {}).def = {slot} /\ Inst({slot}, {}).use = {}
    BY DEF Inst, Line
  <2>2. IsText(l1)
    <3>1. Plain(l1)
      BY PlainLines
    <3> QED
      BY <3>1 DEF Plain, IsText
  <2> HIDE DEF l1
  <2> QED
    BY <2>1, <2>2 DEF SingleAssignment, Defs, Reads
<1> DEFINE c1 == code \o l1
<1>9. /\ IsText(c1) /\ Defs(c1) = Defs(code) \cup {slot} /\ AssignsOnce(c1)
  <2> HIDE DEF l1, slot
  <2>1. Defs(code) \cap Defs(l1) = {}
    BY <1>2, <1>7, <1>8
  <2>2. AssignsOnce(code)
    BY DEF RegInv, AssignedOnce
  <2> QED
    BY <1>2, <1>8, <2>1, <2>2, Joined, JoinedDefs, JoinedAssigns
<1>10. code' = c1 \o s
  <2> DEFINE a == code  b == l1
  <2>1. IsText(a) /\ IsText(b) /\ IsText(s)
    BY <1>2, <1>6, <1>8 DEF Takes
  <2>2. code' = a \o (b \o s)
    BY <1>3, <1>6
  <2> HIDE DEF a, b
  <2>3. a \o (b \o s) = (a \o b) \o s
    BY <2>1 DEF IsText
  <2> QED
    BY <2>2, <2>3 DEF a, b
<1>11. Defs(c1) \cap Defs(s) = {} /\ IsText(s) /\ SingleAssignment(s)
  <2>1. \A r \in Defs(s) : \E n \in Nat : ntemp <= n /\ r = Temp(n)
    BY <1>6 DEF Takes
  <2>2. \A n : Temp(n) # slot
    BY RegisterNames
  <2>3. \A n \in Nat : ntemp <= n => Temp(n) \notin Registers
    BY <1>2, TempsFresh
  <2> HIDE DEF slot, c1
  <2>4. Defs(c1) \cap Defs(s) = {}
    BY <1>2, <1>9, <2>1, <2>2, <2>3
  <2> QED
    BY <1>6, <2>4 DEF Takes
<1>12. Defs(code') = (Defs(code) \cup {slot}) \cup Defs(s)
  <2> HIDE DEF c1, slot
  <2> QED
    BY <1>9, <1>10, <1>11, JoinedDefs
<1>13. AssignedOnce'
  <2> HIDE DEF c1
  <2>1. AssignsOnce(c1 \o s)
    BY <1>9, <1>11, JoinedAssigns
  <2> QED
    BY <1>10, <2>1 DEF AssignedOnce
<1>14. Len(env') = e + 1 /\ DOMAIN env = 1..e /\ DOMAIN env' = 1..e + 1
       /\ (\A i \in 1..e : env'[i] = env[i]) /\ env'[e + 1].name = Top.arg
       /\ \A i \in 1..e + 1 : i \in 1..e \/ i = e + 1
  <2> HIDE DEF entry
  <2>1. Len(env') = e + 1 /\ DOMAIN env = 1..e /\ DOMAIN env' = 1..e + 1
        /\ (\A i \in 1..e : env'[i] = env[i]) /\ env'[e + 1] = entry
        /\ \A i \in 1..e + 1 : i \in 1..e \/ i = e + 1
    BY <1>2, <1>3
  <2> QED
    BY <2>1 DEF entry
<1>15. EnvReady'
  <2> SUFFICES ASSUME NEW i \in 1..e + 1, Newest(env', i)
               PROVE  Slot(env'[i].name, i) \in Defs(code')
    BY <1>14 DEF EnvReady
  <2>1. CASE i \in 1..e
    <3>1. \A j \in 1..e : j \in 1..e + 1
      BY <1>2
    <3> HIDE DEF e, slot
    <3>2. Newest(env, i)
      BY <1>14, <2>1, <3>1 DEF Newest
    <3> QED
      BY <1>12, <1>14, <2>1, <3>2 DEF RegInv, EnvReady
  <2>2. CASE i = e + 1
    BY <1>12, <1>14, <2>2
  <2> QED
    BY <1>14, <2>1, <2>2
<1>16. AllocaFirst'
  <2> DEFINE X == Slots(e + 1)
             Q == R \cup {slot}
  <2>1. ReadsAfter(code, X)
    <3>1. ReadsAfter(code, Slots(e)) /\ \A i \in DOMAIN code : code[i].use \subseteq Registers
      BY <1>2, AllocaIs, UsableIs DEF RegInv
    <3>2. Registers \cap X \subseteq Slots(e)
      <4>1. \A j \in 0..e : j \in 1..e + 1 => j \in 1..e
        BY <1>2
      <4> HIDE DEF e
      <4> QED
        BY <4>1, RegisterNames DEF Registers, RegistersOf, Slots, e
    <3> HIDE DEF X, e
    <3> QED
      BY <3>1, <3>2 DEF ReadsAfter
  <2>2. ReadsAfter(c1, X)
    <3>1. {} \cap X \subseteq Defs(code)
      OBVIOUS
    <3> HIDE DEF l1, X
    <3> QED
      BY <1>2, <1>8, <2>1, <3>1, JoinedAfter
  <2>3. Q \cap X \subseteq Defs(c1)
    <3>1. \A x, j : Slot(x, j) \in R /\ j # 0 => Slot(x, j) \in Defs(code)
      <4>1. TypeOK /\ ntemp' \in Nat /\ ntemp' <= ntemp'
        BY <1>2, <1>4
      <4> QED
        BY <4>1, UsableIs
    <3>2. \A r \in X : \E x, j : j # 0 /\ r = Slot(x, j)
      <4>1. \A j \in 1..e + 1 : j # 0
        BY <1>2
      <4> HIDE DEF e
      <4> QED
        BY <4>1 DEF Slots
    <3> HIDE DEF R, X, slot
    <3> QED
      BY <1>9, <3>1, <3>2
  <2>4. ReadsAfter(c1 \o s, X)
    <3> HIDE DEF c1, Q, X
    <3> QED
      BY <1>6, <1>9, <1>11, <2>2, <2>3, JoinedAfter DEF Q
  <2>5. ReadsAfter(code', Slots(Len(env')))
    BY <1>10, <1>14, <2>4
  <2> QED
    BY <2>5, AllocaNext
<1>17. R \subseteq Ready'
  BY <1>12 DEF Ready, Usable
<1>18. \A i \in DOMAIN stack' : FrameReady(stack'[i], Ready')
  <2>1. StackReady(R)
    BY <1>3, NewFramesReady DEF StackReady
  <2>2. \A i \in DOMAIN stack : FrameReady(stack[i], Ready)
    BY DEF RegInv
  <2> HIDE DEF R
  <2>3. \A i \in DOMAIN stack' : FrameReady(stack'[i], R)
    BY <1>2, <1>5, <2>1, <2>2, FramesReady
  <2> QED
    BY <1>17, <2>3 DEF FrameReady
<1>19. ctl'.val.reg \subseteq Ready'
  BY <1>3, NewFramesReady
<1> QED
  BY <1>13, <1>15, <1>16, <1>18, <1>19 DEF RegInv

\* The allocas of the parameters, each before the store into it.
LEMMA HeaderIs ==
    /\ Len(Params) \in Nat /\ DOMAIN Header = 1..2 * Len(Params)
    /\ \A i \in 1..2 * Len(Params) : \E p \in 1..Len(Params) :
          \/ i = 2 * p - 1 /\ Header[i].def = {ParamSlot(p)} /\ Header[i].use = {}
          \/ i = 2 * p /\ Header[i].def = {} /\ Header[i].use = {ParamSlot(p)}
    /\ \A p \in 1..Len(Params) : /\ 2 * p - 1 \in 1..2 * Len(Params)
                                  /\ Header[2 * p - 1].def = {ParamSlot(p)}
<1> DEFINE n == Len(Params)
<1>1. n \in Nat /\ DOMAIN Header = 1..2 * n
  BY ParamsAssumption DEF Header
<1>2. ASSUME NEW d, NEW u
      PROVE  Inst(d, u).def = d /\ Inst(d, u).use = u
  BY DEF Inst, Line
<1>3. ASSUME NEW i \in 1..2 * n
      PROVE  \E p \in 1..n :
               \/ i = 2 * p - 1 /\ Header[i].def = {ParamSlot(p)} /\ Header[i].use = {}
               \/ i = 2 * p /\ Header[i].def = {} /\ Header[i].use = {ParamSlot(p)}
  <2> DEFINE p == (i + 1) \div 2
             r == ParamSlot(p)
  <2>1. p \in 1..n /\ (i % 2 = 1 => i = 2 * p - 1) /\ (i % 2 # 1 => i = 2 * p)
    BY <1>1
  <2>2. Header[i] = IF i % 2 = 1 THEN Inst({r}, {}) ELSE Inst({}, {r})
    BY DEF Header
  <2>3. \/ i = 2 * p - 1 /\ Header[i].def = {r} /\ Header[i].use = {}
        \/ i = 2 * p /\ Header[i].def = {} /\ Header[i].use = {r}
    <3> HIDE DEF p, r
    <3> QED
      BY <1>2, <2>1, <2>2
  <2> HIDE DEF p, n
  <2> QED
    BY <2>1, <2>3
<1>4. ASSUME NEW p \in 1..n
      PROVE  2 * p - 1 \in 1..2 * n /\ Header[2 * p - 1].def = {ParamSlot(p)}
  <2> DEFINE i == 2 * p - 1
  <2>1. i \in 1..2 * n /\ \A q \in 1..n : i # 2 * q /\ (i = 2 * q - 1 => q = p)
    BY <1>1
  <2> HIDE DEF i, n
  <2>2. Header[i].def = {ParamSlot(p)}
    BY <1>3, <2>1
  <2> QED
    BY <2>1, <2>2 DEF i
<1> QED
  BY <1>1, <1>3, <1>4

LEMMA RegInitially ==
    ASSUME Init
    PROVE  RegInv
<1> DEFINE n == Len(Params)
           r(p) == ParamSlot(p)
<1>1. /\ n \in Nat /\ DOMAIN code = 1..2 * n
      /\ \A i \in 1..2 * n : \E p \in 1..n :
            \/ i = 2 * p - 1 /\ code[i].def = {r(p)} /\ code[i].use = {}
            \/ i = 2 * p /\ code[i].def = {} /\ code[i].use = {r(p)}
      /\ \A p \in 1..n : 2 * p - 1 \in 1..2 * n /\ code[2 * p - 1].def = {r(p)}
  BY HeaderIs DEF Init
<1>2. \A p, q : r(p) = r(q) => Params[p].name = Params[q].name
  BY RegisterNames DEF ParamSlot
<1>8. \A p \in 1..n : Params[p].name \in Names
  <2>1. \A p \in 1..n : Params[p] \in ParamRec
    BY ParamsAssumption
  <2> QED
    BY <2>1 DEF ParamRec
<1>9. ASSUME NEW p \in 1..n, Newest(Params, p)
      PROVE  r(p) = Slot(Params[p].name, p)
  <2>1. DOMAIN Params = 1..n
    BY ParamsAssumption
  <2> QED
    BY <1>9, <2>1, NewestParam DEF ParamSlot, Newest
<1> HIDE DEF n, r
<1>3. AssignedOnce
  <2> SUFFICES ASSUME NEW i \in 1..2 * n, NEW j \in 1..2 * n, code[i].def \cap code[j].def # {}
               PROVE  i = j \/ SameParam(i, j)
    BY <1>1 DEF AssignedOnce, AssignsOnce
  <2>1. PICK p \in 1..n : i = 2 * p - 1 /\ code[i].def = {r(p)}
    BY <1>1
  <2>2. PICK q \in 1..n : j = 2 * q - 1 /\ code[j].def = {r(q)}
    BY <1>1
  <2>3. Params[p].name = Params[q].name
    BY <1>2, <2>1, <2>2
  <2> QED
    BY <1>8, <2>1, <2>2, <2>3 DEF SameParam, AllocaLines, n
<1>4. AllocaFirst
  <2> SUFFICES ASSUME NEW i \in 1..2 * n, NEW x \in Names, NEW k, Slot(x, k) \in code[i].use
               PROVE  \E j \in 1..i - 1 : Slot(x, k) \in code[j].def
    BY <1>1 DEF AllocaFirst
  <2>1. PICK p \in 1..n : i = 2 * p /\ code[i].use = {r(p)}
    BY <1>1
  <2>2. 2 * p - 1 \in 1..i - 1 /\ code[2 * p - 1].def = {r(p)}
    BY <1>1, <2>1
  <2> QED
    BY <2>1, <2>2
<1>5. EnvReady
  <2> SUFFICES ASSUME NEW p \in 1..n, Newest(Params, p)
               PROVE  r(p) \in Defs(code)
    BY <1>9, ParamsAssumption DEF EnvReady, Init, n
  <2> QED
    BY <1>1 DEF Defs
<1>6. \A i \in DOMAIN stack : FrameReady(stack[i], Ready)
  <2>1. DOMAIN stack = {1} /\ stack[1] = ListFrame("body")
    BY DEF Init
  <2> QED
    BY <2>1, NewFramesReady
<1>7. ctl.val.reg \subseteq Ready
  BY NewFramesReady DEF Init
<1> QED
  BY <1>3, <1>4, <1>5, <1>6, <1>7 DEF RegInv

LEMMA RegInductive ==
    ASSUME IInv, RegInv, [Next]_vars
    PROVE  RegInv'
<1>1. CASE Statements
  BY <1>1, RegCalls, RegJumps DEF Statements
<1>2. CASE Expressions
  BY <1>2, RegCalls, RegLoads, RegCallsNoArgs, RegOperands DEF Expressions
<1>3. CASE Results
  BY <1>3, RegReturns, RegLets, RegLists, RegConds, RegJumps DEF Results
<1>4. CASE Lists
  BY <1>4, RegCalls, RegLists, RegEnds DEF Lists
<1>5. CASE UNCHANGED vars
  BY <1>5 DEF vars, RegInv, AssignedOnce, AssignsOnce, AllocaFirst, EnvReady, Newest, Defs, Ready, Usable, FrameReady
<1> QED
  BY <1>1, <1>2, <1>3, <1>4, <1>5 DEF Next, Finished

\* No register is assigned twice and an alloca precedes every line that mentions
\* its variable (ir_fresh_temp, make_ssa_name, the let of cg_stmt): every line
\* reads temporaries, registers that the text defines and registers of names
\* that nothing declares.
THEOREM RegistersAssigned == Spec => []RegistersSound
<1>1. Init => IInv /\ RegInv
  BY Initially, RegInitially DEF IInv
<1>2. IInv /\ RegInv /\ [Next]_vars => IInv' /\ RegInv'
  BY Inductive, RegInductive
<1>3. RegInv => RegistersSound
  BY DEF RegInv, RegistersSound
<1> QED
  BY <1>1, <1>2, <1>3, PTL DEF Spec

-----------------------------------------------------------------------------
(* Reachable lines.                                                        *)

\* Control that is in one of these lines stays in them, but for the lines avoided.
Closed(c, K, avoid) == \A i \in K : Successors(c, i) \ avoid \subseteq K

\* The lines reachable are the least such set that holds the first ones.
LEMMA Reachable ==
    ASSUME NEW c, NEW n \in Nat, DOMAIN c = 1..n, NEW from \in SUBSET (1..n), NEW avoid
    PROVE  /\ from \ avoid \subseteq Reach(c, from, avoid)
           /\ Reach(c, from, avoid) \subseteq 1..n
           /\ Closed(c, Reach(c, from, avoid), avoid)
           /\ \A K \in SUBSET (1..n) : from \ avoid \subseteq K /\ Closed(c, K, avoid)
                                          => Reach(c, from, avoid) \subseteq K
<1> DEFINE D == DOMAIN c
           T(S) == S \cup ((UNION {Successors(c, i) : i \in S}) \ avoid)
           grow[S \in SUBSET DOMAIN c] ==
              LET U == S \cup ((UNION {Successors(c, i) : i \in S}) \ avoid)
              IN IF U = S THEN S ELSE grow[U]
<1>1. Reach(c, from, avoid) = grow[from \ avoid]
  BY DEF Reach
<1>2. \A i \in D : Successors(c, i) \in SUBSET D
  BY DEF Successors
<1>3. \A S \in SUBSET D : T(S) \in SUBSET D /\ S \subseteq T(S)
  BY <1>2
<1>0. \A S, x : x \in T(S) <=> x \in S \/ (x \notin avoid /\ \E i \in S : x \in Successors(c, i))
  <2> DEFINE U(S) == UNION {Successors(c, i) : i \in S}
  <2>1. \A S, x : x \in U(S) <=> \E i \in S : x \in Successors(c, i)
    OBVIOUS
  <2>2. \A S : T(S) = S \cup (U(S) \ avoid)
    OBVIOUS
  <2> HIDE DEF T, U
  <2> QED
    BY <2>1, <2>2
<1>4. ASSUME NEW S \in SUBSET D
      PROVE  T(S) = S <=> Closed(c, S, avoid)
  <2> HIDE DEF T, D
  <2>1. T(S) = S <=> \A x \in T(S) : x \in S
    BY <1>0
  <2> QED
    BY <1>0, <2>1 DEF Closed
<1>5. ASSUME NEW S \in SUBSET D, NEW K \in SUBSET D, Closed(c, K, avoid), S \subseteq K
      PROVE  T(S) \subseteq K
  <2> HIDE DEF T, D
  <2> QED
    BY <1>0, <1>5 DEF Closed
<1>6. grow = CHOOSE h : h = [S \in SUBSET D |-> IF T(S) = S THEN S ELSE h[T(S)]]
  BY DEF grow
<1> HIDE DEF grow, T
<1> DEFINE Smallest(S) == {x \in D : \A K \in SUBSET D : S \subseteq K /\ Closed(c, K, avoid) => x \in K}
           h0 == [S \in SUBSET D |-> Smallest(S)]
<1>7. h0 = [S \in SUBSET D |-> IF T(S) = S THEN S ELSE h0[T(S)]]
  <2>1. ASSUME NEW S \in SUBSET D
        PROVE  Smallest(S) = IF T(S) = S THEN S ELSE Smallest(T(S))
    <3>1. CASE T(S) = S
      <4>1. Closed(c, S, avoid)
        BY <1>4, <3>1
      <4>2. Smallest(S) = S
        BY <4>1
      <4> QED
        BY <3>1, <4>2
    <3>2. CASE T(S) # S
      <4>1. \A K \in SUBSET D : Closed(c, K, avoid) => (S \subseteq K <=> T(S) \subseteq K)
        BY <1>3, <1>5
      <4>2. Smallest(S) = Smallest(T(S))
        BY <4>1
      <4> QED
        BY <3>2, <4>2
    <3> QED
      BY <3>1, <3>2
  <2> HIDE DEF Smallest
  <2>2. \A S \in SUBSET D : T(S) \in SUBSET D
    BY <1>3
  <2> QED
    BY <2>1, <2>2
<1>8. grow = [S \in SUBSET D |-> IF T(S) = S THEN S ELSE grow[T(S)]]
  <2> HIDE DEF h0
  <2>1. \E h : h = [S \in SUBSET D |-> IF T(S) = S THEN S ELSE h[T(S)]]
    BY <1>7
  <2> QED
    BY <1>6, <2>1
<1>9. \A S \in SUBSET D : grow[S] = IF T(S) = S THEN S ELSE grow[T(S)]
  BY <1>8
<1> DEFINE Good(S) == /\ S \subseteq grow[S] /\ grow[S] \subseteq D /\ Closed(c, grow[S], avoid)
                      /\ \A K \in SUBSET D : S \subseteq K /\ Closed(c, K, avoid) => grow[S] \subseteq K
<1>10. ASSUME NEW S \in SUBSET D, T(S) = S \/ Good(T(S))
       PROVE  Good(S)
  <2>1. CASE T(S) = S
    <3>1. grow[S] = S /\ Closed(c, S, avoid)
      BY <1>4, <1>9, <2>1
    <3> QED
      BY <3>1
  <2>2. CASE T(S) # S /\ Good(T(S))
    <3>1. grow[S] = grow[T(S)] /\ S \subseteq T(S)
      BY <1>3, <1>9, <2>2
    <3>2. \A K \in SUBSET D : Closed(c, K, avoid) /\ S \subseteq K => T(S) \subseteq K
      BY <1>5
    <3> QED
      BY <2>2, <3>1, <3>2
  <2> QED
    BY <1>10, <2>1, <2>2
<1> HIDE DEF Good
<1>11. IsFiniteSet(D)
  BY FS_Interval
<1> DEFINE left(S) == Cardinality(D \ S)
           bad == {S \in SUBSET D : ~Good(S)}
           M == {left(S) : S \in bad}
<1>12. \A S \in SUBSET D : left(S) \in Nat
  <2>1. \A S \in SUBSET D : IsFiniteSet(D \ S)
    BY <1>11, FS_Subset
  <2> QED
    BY <2>1, FS_CardinalityType
<1>13. \A S \in SUBSET D : T(S) # S => left(T(S)) < left(S)
  <2> SUFFICES ASSUME NEW S \in SUBSET D, T(S) # S
               PROVE  left(T(S)) < left(S)
    OBVIOUS
  <2> DEFINE A == D \ S  B == D \ T(S)
  <2>1. IsFiniteSet(A) /\ B \in SUBSET A /\ B # A
    BY <1>3, <1>11, FS_Subset
  <2>2. Cardinality(A) \in Nat /\ Cardinality(B) \in Nat
    BY <1>3, <1>12
  <2> HIDE DEF A, B
  <2>3. Cardinality(B) <= Cardinality(A) /\ Cardinality(A) # Cardinality(B)
    BY <2>1, FS_Subset
  <2>4. Cardinality(B) < Cardinality(A)
    BY <2>2, <2>3
  <2> QED
    BY <2>4 DEF A, B
<1> HIDE DEF left
<1>14. bad = {}
  <2> SUFFICES ASSUME bad # {}
               PROVE  FALSE
    OBVIOUS
  <2>1. M \in SUBSET Nat /\ M # {}
    BY <1>12
  <2>2. PICK x \in M : \A y \in M : x <= y
    <3> HIDE DEF M
    <3>1. \E x \in M : \A y \in M : x <= y
      BY <2>1, Least
    <3> QED
      BY <3>1
  <2>3. PICK S \in bad : x = left(S)
    OBVIOUS
  <2>4. T(S) # S /\ T(S) \in bad
    BY <1>3, <1>10
  <2>5. left(T(S)) \in M /\ left(T(S)) < left(S)
    BY <1>13, <2>4
  <2>6. left(S) <= left(T(S)) /\ left(S) \in Nat /\ left(T(S)) \in Nat
    BY <1>3, <1>12, <2>2, <2>3, <2>5
  <2> QED
    BY <2>5, <2>6
<1>15. Good(from \ avoid)
  <2>1. from \ avoid \in SUBSET D
    OBVIOUS
  <2> HIDE DEF D
  <2> QED
    BY <1>14, <2>1
<1> QED
  BY <1>1, <1>15 DEF Good

-----------------------------------------------------------------------------
(* Temporaries that may be read at the end of a text, whatever follows.    *)

Temps == {Temp(n) : n \in Nat}
Lands(c, j, l) == c[j].op = "label" /\ l \in c[j].to
Jumps(c, j, l) == c[j].op = "br" /\ l \in c[j].to

\* Control enters the lines after d and before e through d only: what branches to
\* their labels is one of them, and none of the labels is one of H, which later
\* lines may still branch to.
Guarded(c, d, e, H) == \A j \in d + 1..e - 1 : \A l : Lands(c, j, l) =>
                           l \notin H /\ \A b \in DOMAIN c : Jumps(c, b, l) => d < b /\ b < e

\* The register is assigned on every way to the end of the text, and stays so when
\* the labels of P are added and the ones of H branched to.
Live(c, r, H, P) == \E d \in DOMAIN c : /\ r \in c[d].def /\ Guarded(c, d, Len(c) + 1, H)
                                        /\ \A b \in 1..d : \A l \in P : ~Jumps(c, b, l)

\* Every temporary that a line reads is assigned on every way to the line.
UsesSound(c, H) == \A i \in DOMAIN c : \A r \in c[i].use \cap Temps :
                      c[i].op # "label" /\ \E d \in 1..i - 1 : r \in c[d].def /\ Guarded(c, d, i, H)

LEMMA LabelsAre ==
    ASSUME NEW c, NEW i \in DOMAIN c, NEW l
    PROVE  (Lands(c, i, l) => l \in Labels(c)) /\ (Jumps(c, i, l) => l \in Targets(c))
BY DEF Lands, Jumps, Labels, Targets

\* A register that is live stays so when a piece is added.
LEMMA LiveOn ==
    ASSUME NEW c, NEW s, IsText(c), IsText(s), NEW r, NEW H, NEW P, Live(c, r, H, P),
           NEW H2, H2 \cap Labels(c) \subseteq H, H2 \cap Labels(s) = {},
           Labels(s) \cap Targets(c) \subseteq P,
           NEW P2, P2 \cap Targets(c) \subseteq P
    PROVE  Live(c \o s, r, H2, P2)
<1> DEFINE e == c \o s
           n == Len(c)
<1>1. /\ n \in Nat /\ Len(s) \in Nat /\ DOMAIN c = 1..n /\ DOMAIN s = 1..Len(s)
      /\ Len(e) = n + Len(s) /\ DOMAIN e = 1..n + Len(s)
      /\ \A i \in 1..n : e[i] = c[i]
      /\ \A i \in 1..Len(s) : e[n + i] = s[i]
      /\ \A i \in 1..n + Len(s) : i \in 1..n \/ \E j \in 1..Len(s) : i = n + j
  <2>1. /\ DOMAIN c = 1..Len(c) /\ DOMAIN s = 1..Len(s) /\ DOMAIN (c \o s) = 1..Len(c) + Len(s)
        /\ Len(c) \in Nat /\ Len(s) \in Nat /\ Len(c \o s) = Len(c) + Len(s)
        /\ \A i \in 1..Len(c) : (c \o s)[i] = c[i]
        /\ \A i \in 1..Len(s) : (c \o s)[Len(c) + i] = s[i]
        /\ \A i \in 1..Len(c) + Len(s) : i \in 1..Len(c) \/ \E j \in 1..Len(s) : i = Len(c) + j
    BY ONLY Joined, IsText(c), IsText(s)
  <2> QED
    BY <2>1
<1>2. PICK d \in 1..n : /\ r \in c[d].def /\ Guarded(c, d, n + 1, H)
                        /\ \A b \in 1..d : \A l \in P : ~Jumps(c, b, l)
  BY <1>1 DEF Live
<1> HIDE DEF e, n
<1>3. \A i \in 1..n : \A l : (Jumps(e, i, l) <=> Jumps(c, i, l)) /\ (Lands(e, i, l) <=> Lands(c, i, l))
  BY <1>1 DEF Jumps, Lands
<1>4. Guarded(e, d, Len(e) + 1, H2)
  <2> SUFFICES ASSUME NEW j \in d + 1..(Len(e) + 1) - 1, NEW l, Lands(e, j, l)
               PROVE  l \notin H2 /\ \A b \in 1..n + Len(s) : Jumps(e, b, l) => d < b /\ b < Len(e) + 1
    BY <1>1, Zenon DEF Guarded
  <2>0. \A b \in 1..n + Len(s) : b < Len(e) + 1 /\ (b \notin 1..n => d < b)
    BY <1>1
  <2>1. CASE j \in 1..n
    <3>1. Lands(c, j, l) /\ j \in d + 1..(n + 1) - 1
      BY <1>1, <1>3, <2>1
    <3>2. l \notin H /\ \A b \in 1..n : Jumps(c, b, l) => d < b
      BY <1>1, <1>2, <3>1 DEF Guarded
    <3>3. l \in Labels(c)
      BY <1>1, <2>1, <3>1, LabelsAre
    <3> QED
      BY <1>1, <1>3, <2>0, <3>2, <3>3
  <2>2. CASE j \notin 1..n
    <3>1. PICK k \in 1..Len(s) : j = n + k
      BY <1>1, <2>2
    <3>2. Lands(s, k, l)
      BY <1>1, <3>1 DEF Lands
    <3>3. l \in Labels(s)
      BY <1>1, <3>2, LabelsAre
    <3>4. \A b \in 1..n : Jumps(c, b, l) => l \in P
      BY <1>1, <3>3, LabelsAre
    <3>5. \A b \in 1..n : Jumps(c, b, l) => d < b
      BY <1>1, <1>2, <3>4
    <3> QED
      BY <1>1, <1>3, <2>0, <3>3, <3>5
  <2> QED
    BY <2>1, <2>2
<1>5. \A b \in 1..d : \A l \in P2 : ~Jumps(e, b, l)
  <2> SUFFICES ASSUME NEW b \in 1..d, NEW l \in P2, Jumps(e, b, l)
               PROVE  FALSE
    OBVIOUS
  <2>1. b \in 1..n
    BY <1>1
  <2>2. Jumps(c, b, l) /\ l \in Targets(c)
    BY <1>1, <1>3, <2>1, LabelsAre
  <2> QED
    BY <1>2, <2>2
<1>6. d \in DOMAIN e /\ r \in e[d].def
  BY <1>1, <1>2
<1> QED
  BY <1>4, <1>5, <1>6 DEF Live, e

\* A register that a piece without labels assigns is live.
LEMMA LiveBorn ==
    ASSUME NEW c, NEW s, IsText(c), IsText(s), NEW r \in Defs(s), Labels(s) = {},
           NEW H, NEW P, P \cap (Targets(c) \cup Targets(s)) = {}
    PROVE  Live(c \o s, r, H, P)
<1> DEFINE e == c \o s
           n == Len(c)
<1>1. /\ n \in Nat /\ Len(s) \in Nat /\ DOMAIN c = 1..n /\ DOMAIN s = 1..Len(s)
      /\ Len(e) = n + Len(s) /\ DOMAIN e = 1..n + Len(s)
      /\ \A i \in 1..n : e[i] = c[i]
      /\ \A i \in 1..Len(s) : n + i \in 1..n + Len(s) /\ e[n + i] = s[i]
      /\ \A i \in 1..n + Len(s) : i \in 1..n \/ \E j \in 1..Len(s) : i = n + j
  BY Joined
<1>2. Targets(e) = Targets(c) \cup Targets(s)
  BY JoinedLabels
<1> HIDE DEF e, n
<1>3. PICK k \in 1..Len(s) : r \in s[k].def
  BY <1>1 DEF Defs
<1> DEFINE d == n + k
<1>4. d \in DOMAIN e /\ r \in e[d].def
  BY <1>1, <1>3
<1>5. Guarded(e, d, Len(e) + 1, H)
  <2> SUFFICES ASSUME NEW j \in d + 1..(Len(e) + 1) - 1, NEW l, Lands(e, j, l)
               PROVE  FALSE
    BY <1>1, Zenon DEF Guarded
  <2>1. PICK m \in 1..Len(s) : j = n + m
    BY <1>1
  <2>2. Lands(s, m, l)
    BY <1>1, <2>1 DEF Lands
  <2> QED
    BY <1>1, <2>2, LabelsAre
<1>6. \A b \in 1..d : \A l \in P : ~Jumps(e, b, l)
  <2> SUFFICES ASSUME NEW b \in 1..d, NEW l \in P, Jumps(e, b, l)
               PROVE  FALSE
    OBVIOUS
  <2>1. b \in DOMAIN e
    BY <1>1
  <2> QED
    BY <1>2, <2>1, LabelsAre
<1> HIDE DEF d
<1> QED
  BY <1>4, <1>5, <1>6 DEF Live, e

\* Every temporary that a line of a piece reads is one of X, or an earlier line
\* of the piece assigns it; no label comes before a line that reads.
ReadsHeld(s, X) == \A p \in DOMAIN s : \A r \in s[p].use \cap Temps :
                      /\ r \in X \/ \E q \in 1..p - 1 : r \in s[q].def
                      /\ \A q \in 1..p : s[q].op # "label"

LEMMA UsesOn ==
    ASSUME NEW c, NEW s, IsText(c), IsText(s), NEW H, UsesSound(c, H), NEW H2,
           H2 \cap Labels(c) \subseteq H, Targets(s) \cap Labels(c) \subseteq H,
           NEW X, ReadsHeld(s, X), \A r \in X : Live(c, r, H, {})
    PROVE  UsesSound(c \o s, H2)
<1> DEFINE e == c \o s
           n == Len(c)
<1>1. /\ n \in Nat /\ Len(s) \in Nat /\ DOMAIN c = 1..n /\ DOMAIN s = 1..Len(s)
      /\ Len(e) = n + Len(s) /\ DOMAIN e = 1..n + Len(s)
      /\ \A i \in 1..n : e[i] = c[i]
      /\ \A i \in 1..Len(s) : n + i \in 1..n + Len(s) /\ e[n + i] = s[i]
      /\ \A i \in 1..n + Len(s) : i \in 1..n \/ \E j \in 1..Len(s) : i = n + j
  BY Joined
<1> HIDE DEF e, n
<1>2. \A i \in 1..n : \A l : (Jumps(e, i, l) <=> Jumps(c, i, l)) /\ (Lands(e, i, l) <=> Lands(c, i, l))
  BY <1>1 DEF Jumps, Lands
<1>3. \A i \in 1..Len(s) : \A l : Jumps(e, n + i, l) => l \in Targets(s)
  <2>1. \A i \in 1..Len(s) : \A l : Jumps(e, n + i, l) => Jumps(s, i, l)
    BY <1>1 DEF Jumps
  <2> QED
    BY <1>1, <2>1, LabelsAre
<1>4. ASSUME NEW j \in 1..n, NEW l, Lands(e, j, l), l \notin H
      PROVE  l \notin H2 /\ \A b \in 1..n + Len(s) : Jumps(e, b, l) => b \in 1..n /\ Jumps(c, b, l)
  <2>1. l \in Labels(c)
    BY <1>1, <1>2, <1>4, LabelsAre
  <2>2. \A b \in 1..n + Len(s) : b \notin 1..n => ~Jumps(e, b, l)
    BY <1>1, <1>3, <1>4, <2>1
  <2> QED
    BY <1>2, <1>4, <2>1, <2>2
<1> SUFFICES ASSUME NEW i \in 1..n + Len(s), NEW r \in e[i].use \cap Temps
             PROVE  e[i].op # "label" /\ \E d \in 1..i - 1 : r \in e[d].def /\ Guarded(e, d, i, H2)
  BY <1>1, Zenon DEF UsesSound, e
<1>5. CASE i \in 1..n
  <2>1. PICK d \in 1..i - 1 : r \in c[d].def /\ Guarded(c, d, i, H) /\ c[i].op # "label"
    BY <1>1, <1>5 DEF UsesSound
  <2>2. d \in 1..n /\ e[d] = c[d] /\ e[i] = c[i]
    BY <1>1, <1>5
  <2>3. Guarded(e, d, i, H2)
    <3> SUFFICES ASSUME NEW j \in d + 1..i - 1, NEW l, Lands(e, j, l)
                 PROVE  l \notin H2 /\ \A b \in 1..n + Len(s) : Jumps(e, b, l) => d < b /\ b < i
      BY <1>1, Zenon DEF Guarded
    <3>1. j \in 1..n
      BY <1>1, <1>5
    <3>2. l \notin H /\ \A b \in 1..n : Jumps(c, b, l) => d < b /\ b < i
      BY <1>1, <1>2, <2>1, <3>1 DEF Guarded
    <3> QED
      BY <1>4, <3>1, <3>2
  <2> QED
    BY <2>1, <2>2, <2>3
<1>6. CASE i \notin 1..n
  <2>1. PICK p \in 1..Len(s) : i = n + p
    BY <1>1, <1>6
  <2>2. r \in s[p].use \cap Temps /\ e[i] = s[p]
    BY <1>1, <2>1
  <2>3. (r \in X \/ \E q \in 1..p - 1 : r \in s[q].def) /\ \A q \in 1..p : s[q].op # "label"
    BY <1>1, <2>2 DEF ReadsHeld
  <2>4. \A j \in 1..i : j \notin 1..n => \A l : ~Lands(e, j, l)
    <3> SUFFICES ASSUME NEW j \in 1..i, j \notin 1..n, NEW l, Lands(e, j, l)
                 PROVE  FALSE
      OBVIOUS
    <3>1. j \in 1..n + Len(s)
      BY <1>1
    <3>2. PICK q \in 1..Len(s) : j = n + q
      BY <1>1, <3>1
    <3>3. q \in 1..p
      BY <1>1, <2>1, <3>2
    <3> QED
      BY <1>1, <2>3, <3>2, <3>3 DEF Lands
  <2>5. e[i].op # "label"
    BY <1>1, <2>2, <2>3
  <2>6. CASE r \in X
    <3>1. PICK d \in 1..n : r \in c[d].def /\ Guarded(c, d, n + 1, H)
      BY <1>1, <2>6 DEF Live, n
    <3>2. d \in 1..i - 1 /\ e[d] = c[d]
      BY <1>1, <2>1
    <3>3. Guarded(e, d, i, H2)
      <4> SUFFICES ASSUME NEW j \in d + 1..i - 1, NEW l, Lands(e, j, l)
                   PROVE  l \notin H2 /\ \A b \in 1..n + Len(s) : Jumps(e, b, l) => d < b /\ b < i
        BY <1>1, Zenon DEF Guarded
      <4>1. j \in 1..n
        BY <1>1, <2>4
      <4>2. j \in d + 1..(n + 1) - 1 /\ Lands(c, j, l)
        BY <1>1, <1>2, <4>1
      <4>3. l \notin H /\ \A b \in 1..n : Jumps(c, b, l) => d < b
        BY <1>1, <3>1, <4>2 DEF Guarded
      <4>4. \A b \in 1..n : b < i
        BY <1>1, <2>1
      <4> QED
        BY <1>4, <4>1, <4>3, <4>4
    <3> QED
      BY <2>5, <3>1, <3>2, <3>3
  <2>7. CASE \E q \in 1..p - 1 : r \in s[q].def
    <3>1. PICK q \in 1..p - 1 : r \in s[q].def
      BY <2>7
    <3> DEFINE d == n + q
    <3>2. d \in 1..i - 1 /\ r \in e[d].def
      BY <1>1, <2>1, <3>1
    <3>3. Guarded(e, d, i, H2)
      <4> SUFFICES ASSUME NEW j \in d + 1..i - 1, NEW l, Lands(e, j, l)
                   PROVE  FALSE
        BY Zenon DEF Guarded
      <4>1. j \in 1..i /\ j \notin 1..n
        BY <1>1, <2>1
      <4> QED
        BY <2>4, <4>1
    <3> HIDE DEF d
    <3> QED
      BY <2>5, <3>2, <3>3
  <2> QED
    BY <2>3, <2>6, <2>7
<1> QED
  BY <1>5, <1>6

-----------------------------------------------------------------------------
(* What the activations hold and what they may still branch to.            *)

\* The loops that the activations under the k-th one are in, by their labels, and
\* the labels that the activations from the k-th one on have still to define.
Under(st, k) == UNION {Heads(st[m]) : m \in {x \in DOMAIN st : x < k}}
Owed(st, k) == UNION {Pending(st[m]) : m \in {x \in DOMAIN st : x >= k}}

\* The temporaries an activation holds, and the ones the next line may read.
Holds(f) == Uses(f.vals) \cap Temps
Now == {r \in Temps : Live(code, r, Under(stack, Len(stack) + 1), {})}

\* Every line that reads a temporary comes after the line that assigns it on every
\* way to it, and so will the lines that read what the activations hold.
FlowInv == /\ UsesSound(code, Under(stack, Len(stack) + 1))
           /\ \A k \in DOMAIN stack : \A r \in Holds(stack[k]) :
                 Live(code, r, Under(stack, k), Owed(stack, k))
           /\ ctl.val.reg \cap Temps \subseteq Now

LEMMA UnderIs ==
    ASSUME NEW st, NEW k
    PROVE  /\ \A l : l \in Under(st, k) <=> \E m \in DOMAIN st : m < k /\ l \in Heads(st[m])
           /\ \A l : l \in Owed(st, k) <=> \E m \in DOMAIN st : m >= k /\ l \in Pending(st[m])
BY DEF Under, Owed

\* Less may be branched to, fewer labels may be added.
LEMMA LiveLess ==
    ASSUME NEW c, NEW r, NEW H, NEW P, Live(c, r, H, P), NEW H2, NEW P2, H2 \subseteq H, P2 \subseteq P
    PROVE  Live(c, r, H2, P2)
<1>1. PICK d \in DOMAIN c : /\ r \in c[d].def /\ Guarded(c, d, Len(c) + 1, H)
                            /\ \A b \in 1..d : \A l \in P : ~Jumps(c, b, l)
  BY DEF Live
<1>2. Guarded(c, d, Len(c) + 1, H2)
  BY <1>1 DEF Guarded
<1> QED
  BY <1>1, <1>2 DEF Live

\* Labels that are handed out later.
New == {n \in Nat : nlabel <= n}

\* What a step that writes s does to the activations.
Moves(s) ==
    \/ stack' = stack
    \/ stack' = Below
    \/ \E f : stack' = Append(stack, f) /\ Holds(f) = {} /\ Heads(f) \cup Pending(f) \subseteq New
    \/ \E f : /\ Goto(f) /\ Heads(f) \subseteq Heads(Top) /\ Pending(f) \subseteq Mine(Top)
              /\ \/ f.vals = Top.vals
                 \/ Holds(f) \subseteq Now \cup Defs(s) /\ Pending(f) = {} /\ Labels(s) = {}

\* The activations after the step: one holds what it held, and owes no other label
\* than before or a new one, or it holds what it may.
LEMMA Moved ==
    ASSUME TypeOK, stack # <<>>, NEW s, Moves(s)
    PROVE  /\ Len(stack) \in Nat /\ Len(stack') \in Nat /\ DOMAIN stack' = 1..Len(stack')
           /\ Under(stack', Len(stack') + 1) \subseteq Under(stack, Len(stack) + 1) \cup New
           /\ \A k \in DOMAIN stack' :
                 /\ Holds(stack'[k]) # {} => Under(stack', k) \subseteq Under(stack, k)
                 /\ \/ Holds(stack'[k]) = {}
                    \/ /\ k \in DOMAIN stack /\ Holds(stack'[k]) = Holds(stack[k])
                       /\ Owed(stack', k) \subseteq Owed(stack, k) \cup New
                    \/ /\ Holds(stack'[k]) \subseteq Now \cup Defs(s)
                       /\ Labels(s) = {} /\ Owed(stack', k) = {} /\ k = Len(stack)
<1> DEFINE n == Len(stack)
<1>1. /\ n \in Nat /\ n > 0 /\ DOMAIN stack = 1..n /\ Top = stack[n]
      /\ \A k \in 1..n : k < n + 1 /\ (k # n => k < n) /\ (k < n => k \in 1..n - 1)
      /\ n \in 1..n
  BY DEF TypeOK, Top
<1>2. CASE stack' = stack
  BY <1>1, <1>2
<1>3. CASE stack' = Below
  <2> DEFINE S == FrameOf(Registers)
  <2>1. stack \in Seq(S) /\ stack' = SubSeq(stack, 1, Len(stack) - 1)
    BY <1>3 DEF TypeOK, Below
  <2> HIDE DEF S
  <2>2. stack' \in Seq(S) /\ Len(stack') = n - 1 /\ \A i \in 1..n - 1 : stack'[i] = stack[i]
    BY <2>1, BelowIs
  <2>3. DOMAIN stack' = 1..n - 1 /\ n - 1 \in Nat /\ \A i \in 1..n - 1 : i \in 1..n /\ i < n
    <3>1. DOMAIN stack' = 1..Len(stack')
      BY <2>2
    <3> HIDE DEF n
    <3> QED
      BY <1>1, <2>2, <3>1
  <2>5. \A k, l : l \in Under(stack', k) => l \in Under(stack, k) /\ l \in Under(stack, n + 1)
    <3> HIDE DEF n
    <3> QED
      BY <1>1, <2>2, <2>3, UnderIs
  <2>6. \A k, l : l \in Owed(stack', k) => l \in Owed(stack, k)
    <3> HIDE DEF n
    <3> QED
      BY <1>1, <2>2, <2>3, UnderIs
  <2>7. \A k \in DOMAIN stack' : k \in DOMAIN stack /\ Holds(stack'[k]) = Holds(stack[k])
    BY <1>1, <2>2, <2>3
  <2> HIDE DEF n
  <2> QED
    BY <1>1, <2>2, <2>3, <2>5, <2>6, <2>7 DEF n
<1>4. ASSUME NEW f, stack' = Append(stack, f), Holds(f) = {}, Heads(f) \cup Pending(f) \subseteq New
      PROVE  /\ Len(stack') = n + 1 /\ DOMAIN stack' = 1..n + 1
             /\ Under(stack', n + 1 + 1) \subseteq Under(stack, n + 1) \cup New
             /\ \A k \in 1..n + 1 :
                 \/ Holds(stack'[k]) = {}
                 \/ /\ k \in DOMAIN stack /\ Holds(stack'[k]) = Holds(stack[k])
                    /\ Under(stack', k) \subseteq Under(stack, k)
                    /\ Owed(stack', k) \subseteq Owed(stack, k) \cup New
  <2>1. /\ Len(stack') = n + 1 /\ DOMAIN stack' = 1..n + 1
        /\ \A i \in 1..n : stack'[i] = stack[i] /\ i < n + 1
        /\ stack'[n + 1] = f
        /\ \A i \in 1..n + 1 : i \in 1..n \/ i = n + 1
    BY <1>4 DEF TypeOK
  <2>2. ASSUME NEW l \in Under(stack', n + 1 + 1)
        PROVE  l \in Under(stack, n + 1) \cup New
    <3> HIDE DEF n
    <3>1. PICK m \in 1..n + 1 : l \in Heads(stack'[m])
      BY <2>1, UnderIs
    <3>2. CASE m \in 1..n
      <4>1. l \in Heads(stack[m]) /\ m \in DOMAIN stack /\ m < n + 1
        BY <1>1, <2>1, <3>1, <3>2
      <4> QED
        BY <4>1, UnderIs
    <3>3. CASE m = n + 1
      BY <1>4, <2>1, <3>1, <3>3
    <3> QED
      BY <2>1, <3>2, <3>3
  <2>3. \A k \in 1..n : \A l : l \in Under(stack', k) => l \in Under(stack, k)
    <3> HIDE DEF n
    <3>1. \A k \in 1..n : ~(n + 1 < k)
      BY <1>1
    <3> QED
      BY <1>1, <2>1, <3>1, UnderIs
  <2>4. ASSUME NEW k \in 1..n, NEW l \in Owed(stack', k)
        PROVE  l \in Owed(stack, k) \cup New
    <3> HIDE DEF n
    <3>1. PICK m \in 1..n + 1 : m >= k /\ l \in Pending(stack'[m])
      BY <2>1, UnderIs
    <3>2. CASE m \in 1..n
      <4>1. l \in Pending(stack[m]) /\ m \in DOMAIN stack /\ m >= k
        BY <1>1, <2>1, <3>1, <3>2
      <4> QED
        BY <4>1, UnderIs
    <3>3. CASE m = n + 1
      BY <1>4, <2>1, <3>1, <3>3
    <3> QED
      BY <2>1, <3>2, <3>3
  <2> HIDE DEF n
  <2> QED
    BY <1>1, <1>4, <2>1, <2>2, <2>3, <2>4
<1>5. ASSUME NEW f, Goto(f), Heads(f) \subseteq Heads(Top), Pending(f) \subseteq Mine(Top)
      PROVE  /\ Len(stack') = n /\ DOMAIN stack' = 1..n /\ stack'[n] = f
             /\ \A k \in 1..n : k # n => stack'[k] = stack[k]
             /\ \A k : Under(stack', k) \subseteq Under(stack, k)
             /\ \A k \in 1..n : Owed(stack', k) \subseteq Owed(stack, k) \cup New
             /\ \A l : l \in Owed(stack', n) => l \in Pending(f)
  <2> DEFINE S == FrameOf(Registers)
  <2>1. stack \in Seq(S) /\ stack' = Append(SubSeq(stack, 1, Len(stack) - 1), f)
    BY <1>5 DEF TypeOK, Goto, Below
  <2> HIDE DEF S
  <2>2. /\ DOMAIN stack' = 1..n
        /\ \A i \in 1..n : i # n => stack'[i] = stack[i]
        /\ stack'[n] = f
    BY <2>1, ReplacedTopIs
  <2>3. Len(stack') = n
    BY <2>1, ReplacedTopIs
  <2>4. \A k, l : l \in Under(stack', k) => l \in Under(stack, k)
    <3> HIDE DEF n
    <3> QED
      BY <1>1, <1>5, <2>2, UnderIs
  <2>5. \A k \in 1..n : \A l : l \in Owed(stack', k) => l \in Owed(stack, k) \cup New
    <3>1. \A l \in Pending(f) : l \in Pending(stack[n]) \/ l \in New
      BY <1>1, <1>5 DEF Mine, New
    <3> HIDE DEF n
    <3>2. \A k \in 1..n : n >= k
      BY <1>1
    <3> QED
      BY <1>1, <2>2, <3>1, <3>2, UnderIs
  <2>6. \A l : l \in Owed(stack', n) => l \in Pending(f)
    <3> HIDE DEF n
    <3>1. \A k \in 1..n : k >= n => k = n
      BY <1>1
    <3> QED
      BY <2>2, <3>1, UnderIs
  <2> HIDE DEF n
  <2> QED
    BY <2>2, <2>3, <2>4, <2>5, <2>6
<1>6. ASSUME NEW f, Goto(f), Heads(f) \subseteq Heads(Top), Pending(f) \subseteq Mine(Top), f.vals = Top.vals
      PROVE  \A k \in 1..n : Holds(stack'[k]) = Holds(stack[k])
  <2>1. Holds(f) = Holds(stack[n])
    BY <1>1, <1>6 DEF Holds
  <2> HIDE DEF n
  <2> QED
    BY <1>5, <1>6, <2>1
<1> DEFINE G == /\ Len(stack) \in Nat /\ Len(stack') \in Nat /\ DOMAIN stack' = 1..Len(stack')
           /\ Under(stack', Len(stack') + 1) \subseteq Under(stack, Len(stack) + 1) \cup New
           /\ \A k \in DOMAIN stack' :
                 /\ Holds(stack'[k]) # {} => Under(stack', k) \subseteq Under(stack, k)
                 /\ \/ Holds(stack'[k]) = {}
                    \/ /\ k \in DOMAIN stack /\ Holds(stack'[k]) = Holds(stack[k])
                       /\ Owed(stack', k) \subseteq Owed(stack, k) \cup New
                    \/ /\ Holds(stack'[k]) \subseteq Now \cup Defs(s)
                       /\ Labels(s) = {} /\ Owed(stack', k) = {} /\ k = Len(stack)
<1>7. G
  <2>1. ASSUME NEW f, stack' = Append(stack, f), Holds(f) = {}, Heads(f) \cup Pending(f) \subseteq New
        PROVE  G
    <3>1. n + 1 \in Nat
      <4> HIDE DEF n
      <4> QED
        BY <1>1
    <3> QED
      BY <1>1, <1>4, <2>1, <3>1
  <2>2. ASSUME NEW f, Goto(f), Heads(f) \subseteq Heads(Top), Pending(f) \subseteq Mine(Top), f.vals = Top.vals
        PROVE  G
    BY <1>1, <1>5, <1>6, <2>2
  <2>3. ASSUME NEW f, Goto(f), Heads(f) \subseteq Heads(Top), Pending(f) \subseteq Mine(Top),
               Holds(f) \subseteq Now \cup Defs(s), Pending(f) = {}, Labels(s) = {}
        PROVE  G
    <3>1. ASSUME NEW k \in 1..n, k # n
          PROVE  Holds(stack'[k]) = Holds(stack[k])
      BY <1>5, <2>3, <3>1
    <3>2. Owed(stack', n) = {}
      BY <1>5, <2>3
    <3>3. \A k : Under(stack', k) \subseteq Under(stack, k)
      BY <1>5, <2>3
    <3>4. Len(stack') = n /\ DOMAIN stack' = 1..n /\ stack'[n] = f
      BY <1>5, <2>3
    <3>5. \A k \in 1..n : Owed(stack', k) \subseteq Owed(stack, k) \cup New
      BY <1>5, <2>3
    <3> HIDE DEF n
    <3> QED
      BY <1>1, <2>3, <3>1, <3>2, <3>3, <3>4, <3>5 DEF n
  <2> QED
    BY <1>2, <1>3, <2>1, <2>2, <2>3 DEF Moves
<1> QED
  BY <1>7

\* A step that writes s leaves what its lines and the activations hold assigned.
LEMMA FlowStep ==
    ASSUME TypeOK, LabelsHeld, DuesHeld, stack # <<>>, FlowInv,
           NEW s, IsText(s), code' = code \o s, ReadsHeld(s, Now), Moves(s),
           Labels(s) \cap Labels(code) = {}, Labels(s) \subseteq Mine(Top),
           Targets(s) \cap Labels(code) \subseteq Under(stack, Len(stack) + 1),
           \/ ctl'.val.reg \cap Temps = {}
           \/ Labels(s) = {} /\ ctl'.val.reg \cap Temps \subseteq Now \cup Defs(s)
    PROVE  FlowInv'
<1> DEFINE n == Len(stack)
           H == Under(stack, n + 1)
           H2 == Under(stack', Len(stack') + 1)
<1>1. /\ n \in Nat /\ n \in DOMAIN stack /\ Top = stack[n] /\ DOMAIN stack = 1..n
      /\ \A k \in DOMAIN stack : n >= k
  BY DEF TypeOK, Top
<1>2. /\ H2 \subseteq H \cup New
      /\ \A k \in DOMAIN stack' :
            /\ Holds(stack'[k]) # {} => Under(stack', k) \subseteq Under(stack, k)
            /\ \/ Holds(stack'[k]) = {}
               \/ /\ k \in DOMAIN stack /\ Holds(stack'[k]) = Holds(stack[k])
                  /\ Owed(stack', k) \subseteq Owed(stack, k) \cup New
               \/ /\ Holds(stack'[k]) \subseteq Now \cup Defs(s)
                  /\ Labels(s) = {} /\ Owed(stack', k) = {} /\ k = Len(stack)
  BY Moved
<1>3. IsText(code) /\ Labels(code) \cap New = {} /\ Targets(code) \cap New = {}
  <2>1. code \in Seq(LineOf(Registers, 0..nlabel - 1)) /\ nlabel \in Nat
    BY DEF TypeOK
  <2>2. \A i \in DOMAIN code : code[i].to \subseteq 0..nlabel - 1
    <3>1. \A i \in DOMAIN code : code[i] \in LineOf(Registers, 0..nlabel - 1)
      BY <2>1
    <3> QED
      BY <3>1 DEF LineOf
  <2>3. Labels(code) \subseteq 0..nlabel - 1 /\ Targets(code) \subseteq 0..nlabel - 1
    BY <2>2 DEF Labels, Targets
  <2>4. \A l \in New : l \notin 0..nlabel - 1
    BY <2>1 DEF New
  <2> QED
    BY <2>3, <2>4, CodeIs
<1>4. \A k : Under(stack, k) \subseteq Labels(code)
  BY UnderIs DEF DuesHeld
<1>5. \A k \in DOMAIN stack : Labels(s) \cap Targets(code) \subseteq Owed(stack, k)
  <2>1. Labels(s) \cap Targets(code) \subseteq Pending(Top)
    BY <1>3 DEF Mine, New
  <2> HIDE DEF n
  <2> QED
    BY <1>1, <2>1, UnderIs
<1>6. \A r \in Now : Live(code, r, H, {})
  BY DEF Now
<1>7. UsesSound(code', H2)
  <2> HIDE DEF H, H2
  <2>1. H2 \cap Labels(code) \subseteq H
    BY <1>2, <1>3
  <2>2. UsesSound(code, H) /\ Targets(s) \cap Labels(code) \subseteq H
    BY DEF FlowInv, H, n
  <2>3. UsesSound(code \o s, H2)
    BY <1>3, <1>6, <2>1, <2>2, UsesOn
  <2> QED
    BY <2>3
<1>8. ASSUME NEW r \in Now \cup Defs(s), r \in Temps, Labels(s) = {}, NEW K, K \cap Labels(code) \subseteq H
      PROVE  Live(code', r, K, {})
  <2> HIDE DEF H, H2
  <2>1. CASE r \in Now
    <3>1. Live(code, r, H, {})
      BY <1>6, <2>1
    <3>2. Live(code \o s, r, K, {})
      BY <1>3, <1>8, <3>1, LiveOn
    <3> QED
      BY <3>2
  <2>2. CASE r \in Defs(s)
    <3>1. Live(code \o s, r, K, {})
      BY <1>3, <1>8, <2>2, LiveBorn
    <3> QED
      BY <3>1
  <2> QED
    BY <1>8, <2>1, <2>2
<1>9. ctl'.val.reg \cap Temps \subseteq Now'
  <2> SUFFICES ASSUME NEW r \in ctl'.val.reg \cap Temps
               PROVE  Live(code', r, H2, {})
    BY DEF Now
  <2> HIDE DEF H, H2
  <2> QED
    BY <1>2, <1>3, <1>8
<1>10. ASSUME NEW k \in DOMAIN stack', NEW r \in Holds(stack'[k])
       PROVE  Live(code', r, Under(stack', k), Owed(stack', k))
  <2>0. r \in Temps /\ Under(stack', k) \subseteq Under(stack, k)
    BY <1>2, <1>10 DEF Holds
  <2>1. CASE /\ k \in DOMAIN stack /\ Holds(stack'[k]) = Holds(stack[k])
             /\ Owed(stack', k) \subseteq Owed(stack, k) \cup New
    <3> DEFINE A == Under(stack, k)  A2 == Under(stack', k)  P == Owed(stack, k)  P2 == Owed(stack', k)
    <3>1. Live(code, r, A, P)
      BY <1>10, <2>1 DEF FlowInv
    <3>2. /\ A2 \cap Labels(code) \subseteq A /\ A2 \cap Labels(s) = {}
          /\ Labels(s) \cap Targets(code) \subseteq P /\ P2 \cap Targets(code) \subseteq P
      BY <1>3, <1>4, <1>5, <2>0, <2>1
    <3> HIDE DEF A, A2, P, P2
    <3>3. Live(code \o s, r, A2, P2)
      BY <1>3, <3>1, <3>2, LiveOn
    <3> QED
      BY <3>3 DEF A2, P2
  <2>2. CASE /\ Holds(stack'[k]) \subseteq Now \cup Defs(s)
             /\ Labels(s) = {} /\ Owed(stack', k) = {} /\ k = Len(stack)
    <3>1. Under(stack, k) \subseteq H
      <4>1. \A m \in DOMAIN stack : m < n => m < n + 1
        BY <1>1
      <4> HIDE DEF n
      <4> QED
        BY <2>2, <4>1, UnderIs DEF n
    <3>2. Live(code', r, Under(stack', k), {})
      <4> DEFINE K == Under(stack', k)
      <4>1. K \cap Labels(code) \subseteq H
        BY <2>0, <3>1
      <4>2. r \in Now \cup Defs(s) /\ Labels(s) = {} /\ r \in Temps
        BY <1>10, <2>0, <2>2
      <4> HIDE DEF K, H
      <4>3. Live(code', r, K, {})
        BY <1>8, <4>1, <4>2
      <4> QED
        BY <4>3 DEF K
    <3> QED
      BY <2>2, <3>2
  <2> QED
    BY <1>2, <1>10, <2>1, <2>2
<1> QED
  BY <1>7, <1>9, <1>10 DEF FlowInv

-----------------------------------------------------------------------------
(* The lines the code emits read what is held.                             *)

\* A piece without labels reads temporaries of X and what it assigned before.
Flows(s, X) == IsText(s) /\ (\A i \in DOMAIN s : s[i].op # "label") /\ ReadsHeld(s, X)

LEMMA LineFlows ==
    ASSUME NEW x, x.op # "label", NEW X, x.use \cap Temps \subseteq X
    PROVE  Flows(<<x>>, X) /\ Defs(<<x>>) = x.def
<1> DEFINE s == <<x>>
<1>1. DOMAIN s = {1} /\ s[1] = x /\ IsText(s)
  <2>1. s \in Seq({x})
    OBVIOUS
  <2>2. IsText(s)
    <3> HIDE DEF s
    <3> QED
      BY <2>1 DEF IsText
  <2> QED
    BY <2>2
<1> HIDE DEF s
<1>2. Defs(s) = x.def
  BY <1>1 DEF Defs
<1>3. \A p \in DOMAIN s : \A q \in 1..p : q \in DOMAIN s
  BY <1>1
<1>4. ReadsHeld(s, X) /\ \A i \in DOMAIN s : s[i].op # "label"
  BY <1>1, <1>3 DEF ReadsHeld
<1> QED
  BY <1>1, <1>2, <1>4 DEF Flows, s

LEMMA EmptyFlows ==
    ASSUME NEW X
    PROVE  Flows(<<>>, X) /\ Defs(<<>>) = {}
<1> DEFINE s == <<>>
<1>1. DOMAIN s = {} /\ IsText(s)
  <2>1. IsText(s)
    BY EmptyTakes DEF Takes
  <2> QED
    BY <2>1
<1> HIDE DEF s
<1> QED
  BY <1>1 DEF Flows, ReadsHeld, Defs, s

LEMMA JoinedFlows ==
    ASSUME NEW a, NEW b, NEW X, Flows(a, X), Flows(b, X \cup Defs(a))
    PROVE  Flows(a \o b, X) /\ Defs(a \o b) = Defs(a) \cup Defs(b)
<1> DEFINE c == a \o b
           n == Len(a)
<1>1. /\ DOMAIN a = 1..n /\ DOMAIN b = 1..Len(b) /\ DOMAIN c = 1..n + Len(b)
      /\ n \in Nat /\ Len(b) \in Nat /\ IsText(c)
      /\ \A i \in 1..n : c[i] = a[i]
      /\ \A i \in 1..Len(b) : n + i \in 1..n + Len(b) /\ c[n + i] = b[i]
      /\ \A i \in 1..n + Len(b) : i \in 1..n \/ \E j \in 1..Len(b) : i = n + j
  <2>1. IsText(a) /\ IsText(b)
    BY DEF Flows
  <2>2. /\ DOMAIN a = 1..Len(a) /\ DOMAIN b = 1..Len(b) /\ DOMAIN (a \o b) = 1..Len(a) + Len(b)
        /\ Len(a) \in Nat /\ Len(b) \in Nat
        /\ \A i \in 1..Len(a) : (a \o b)[i] = a[i]
        /\ \A i \in 1..Len(b) : Len(a) + i \in 1..Len(a) + Len(b) /\ (a \o b)[Len(a) + i] = b[i]
        /\ \A i \in 1..Len(a) + Len(b) : i \in 1..Len(a) \/ \E j \in 1..Len(b) : i = Len(a) + j
    BY ONLY Joined, <2>1
  <2>3. IsText(a \o b)
    BY <2>1, Joined
  <2> QED
    BY <2>2, <2>3
<1>2. Defs(c) = Defs(a) \cup Defs(b)
  BY JoinedDefs DEF Flows
<1> HIDE DEF c, n
<1>3. ASSUME NEW i \in 1..n + Len(b)
      PROVE  c[i].op # "label"
  <2>1. CASE i \in 1..n
    BY <1>1, <2>1 DEF Flows
  <2>2. CASE i \notin 1..n
    <3>1. PICK j \in 1..Len(b) : i = n + j
      BY <1>1, <2>2
    <3>2. c[i] = b[j] /\ b[j].op # "label"
      BY <1>1, <3>1 DEF Flows
    <3> QED
      BY <3>2
  <2> QED
    BY <2>1, <2>2
<1>4. ASSUME NEW p \in 1..n + Len(b), NEW r \in c[p].use \cap Temps
      PROVE  /\ r \in X \/ \E q \in 1..p - 1 : r \in c[q].def
             /\ \A q \in 1..p : c[q].op # "label"
  <2>0. \A q \in 1..p : c[q].op # "label"
    <3>1. \A q \in 1..p : q \in 1..n + Len(b)
      BY <1>1
    <3> QED
      BY <1>3, <3>1
  <2>1. CASE p \in 1..n
    <3>1. r \in X \/ \E q \in 1..p - 1 : r \in a[q].def
      BY <1>1, <1>4, <2>1 DEF Flows, ReadsHeld
    <3>2. \A q \in 1..p - 1 : q \in 1..n
      BY <1>1, <2>1
    <3> QED
      BY <1>1, <2>0, <3>1, <3>2
  <2>2. CASE p \notin 1..n
    <3>1. PICK m \in 1..Len(b) : p = n + m
      BY <1>1, <2>2
    <3>2. r \in X \/ r \in Defs(a) \/ \E q \in 1..m - 1 : r \in b[q].def
      BY <1>1, <1>4, <3>1 DEF Flows, ReadsHeld
    <3>3. ASSUME r \in Defs(a)
          PROVE  \E q \in 1..p - 1 : r \in c[q].def
      <4>1. PICK q \in 1..n : r \in a[q].def
        BY <1>1, <3>3 DEF Defs
      <4>2. q \in 1..p - 1
        BY <1>1, <3>1
      <4> QED
        BY <1>1, <4>1, <4>2
    <3>4. ASSUME NEW q \in 1..m - 1, r \in b[q].def
          PROVE  \E j \in 1..p - 1 : r \in c[j].def
      <4>1. q \in 1..Len(b) /\ n + q \in 1..p - 1
        BY <1>1, <3>1
      <4> QED
        BY <1>1, <3>4, <4>1
    <3> QED
      BY <2>0, <3>2, <3>3, <3>4
  <2> QED
    BY <2>1, <2>2
<1>5. ReadsHeld(c, X)
  BY <1>1, <1>4, Zenon DEF ReadsHeld
<1> QED
  BY <1>1, <1>2, <1>3, <1>5 DEF Flows, c

\* A label after such a piece, and text that reads no temporary.
LEMMA LabelFlows ==
    ASSUME NEW a, NEW X, Flows(a, X), NEW l
    PROVE  ReadsHeld(a \o <<LabelDef(l)>>, X)
<1> DEFINE b == <<LabelDef(l)>>
           c == a \o b
           n == Len(a)
<1>0. IsText(b) /\ Reads(b, {})
  BY LinesTake DEF Takes
<1> HIDE DEF b
<1>1. /\ DOMAIN a = 1..n /\ DOMAIN b = 1..Len(b) /\ DOMAIN c = 1..n + Len(b)
      /\ n \in Nat /\ Len(b) \in Nat
      /\ \A i \in 1..n : c[i] = a[i]
      /\ \A i \in 1..Len(b) : n + i \in 1..n + Len(b) /\ c[n + i] = b[i]
      /\ \A i \in 1..n + Len(b) : i \in 1..n \/ \E j \in 1..Len(b) : i = n + j
  <2>1. IsText(a) /\ IsText(b)
    BY <1>0 DEF Flows
  <2>2. /\ DOMAIN a = 1..Len(a) /\ DOMAIN b = 1..Len(b) /\ DOMAIN (a \o b) = 1..Len(a) + Len(b)
        /\ Len(a) \in Nat /\ Len(b) \in Nat
        /\ \A i \in 1..Len(a) : (a \o b)[i] = a[i]
        /\ \A i \in 1..Len(b) : Len(a) + i \in 1..Len(a) + Len(b) /\ (a \o b)[Len(a) + i] = b[i]
        /\ \A i \in 1..Len(a) + Len(b) : i \in 1..Len(a) \/ \E j \in 1..Len(b) : i = Len(a) + j
    BY ONLY Joined, <2>1
  <2> QED
    BY <2>2
<1> HIDE DEF c, n
<1>2. ASSUME NEW p \in 1..n + Len(b), NEW r \in c[p].use \cap Temps
      PROVE  /\ r \in X \/ \E q \in 1..p - 1 : r \in c[q].def
             /\ \A q \in 1..p : c[q].op # "label"
  <2>1. p \in 1..n
    <3> SUFFICES ASSUME p \notin 1..n
                 PROVE  FALSE
      OBVIOUS
    <3>1. PICK m \in 1..Len(b) : p = n + m
      BY <1>1
    <3> QED
      BY <1>0, <1>1, <1>2, <3>1 DEF Reads
  <2>2. (r \in X \/ \E q \in 1..p - 1 : r \in a[q].def) /\ \A q \in 1..p : a[q].op # "label"
    BY <1>1, <1>2, <2>1 DEF Flows, ReadsHeld
  <2>3. \A q \in 1..p : q \in 1..n
    BY <1>1, <2>1
  <2>4. \A q \in 1..p - 1 : q \in 1..n
    BY <1>1, <2>1
  <2> QED
    BY <1>1, <2>2, <2>3, <2>4
<1>3. ReadsHeld(c, X)
  BY <1>1, <1>2, Zenon DEF ReadsHeld
<1> QED
  BY <1>3 DEF c, b

LEMMA ReadsNone ==
    ASSUME NEW s, NEW X, Reads(s, {})
    PROVE  ReadsHeld(s, X)
BY DEF Reads, ReadsHeld

LEMMA LinesFlow ==
    /\ \A d, u, X : u \cap Temps \subseteq X => Flows(<<Inst(d, u)>>, X) /\ Defs(<<Inst(d, u)>>) = d
    /\ \A u, X : u \cap Temps \subseteq X => Flows(<<Ret(u)>>, X)
    /\ \A r, a, b, X : r \in X => Flows(<<CondBr(r, a, b)>>, X)
<1>1. /\ \A d, u : Inst(d, u).op # "label" /\ Inst(d, u).def = d /\ Inst(d, u).use = u
      /\ \A u : Ret(u).op # "label" /\ Ret(u).use = u
      /\ \A r, a, b : CondBr(r, a, b).op # "label" /\ CondBr(r, a, b).use = {r}
  BY DEF Inst, Ret, CondBr, Line
<1>2. ASSUME NEW d, NEW u, NEW X, u \cap Temps \subseteq X
      PROVE  Flows(<<Inst(d, u)>>, X) /\ Defs(<<Inst(d, u)>>) = d
  <2> DEFINE x == Inst(d, u)
  <2>1. x.op # "label" /\ x.def = d /\ x.use = u
    BY <1>1
  <2> HIDE DEF x
  <2>2. Flows(<<x>>, X) /\ Defs(<<x>>) = d
    BY <1>2, <2>1, LineFlows
  <2> QED
    BY <2>2 DEF x
<1>3. ASSUME NEW u, NEW X, u \cap Temps \subseteq X
      PROVE  Flows(<<Ret(u)>>, X)
  <2> DEFINE x == Ret(u)
  <2>1. x.op # "label" /\ x.use = u
    BY <1>1
  <2> HIDE DEF x
  <2>2. Flows(<<x>>, X)
    BY <1>3, <2>1, LineFlows
  <2> QED
    BY <2>2 DEF x
<1>4. ASSUME NEW r, NEW a, NEW b, NEW X, r \in X
      PROVE  Flows(<<CondBr(r, a, b)>>, X)
  <2> DEFINE x == CondBr(r, a, b)
  <2>1. x.op # "label" /\ x.use \cap Temps \subseteq X
    BY <1>1, <1>4
  <2> HIDE DEF x
  <2>2. Flows(<<x>>, X)
    BY <2>1, LineFlows
  <2> QED
    BY <2>2 DEF x
<1> QED
  BY <1>2, <1>3, <1>4

LEMMA EnsureFlows ==
    ASSUME NEW v, NEW ty, NEW t, NEW X, v.reg \cap Temps \subseteq X
    PROVE  /\ Flows(EnsureLines(v, ty, t), X)
           /\ Ensured(v, ty, t).reg \cap Temps \subseteq X \cup Defs(EnsureLines(v, ty, t))
<1>1. CASE v.ty = ty
  BY <1>1, EmptyFlows DEF EnsureLines, Ensured
<1>2. CASE v.ty # ty
  <2> DEFINE l1 == <<Inst({Temp(t)}, v.reg)>>
  <2>1. EnsureLines(v, ty, t) = l1
    BY <1>2 DEF EnsureLines
  <2>2. Ensured(v, ty, t).reg = {Temp(t)}
    BY <1>2 DEF Ensured, TempVal, Value
  <2>3. Flows(l1, X) /\ Defs(l1) = {Temp(t)}
    BY LinesFlow
  <2> HIDE DEF l1
  <2> QED
    BY <2>1, <2>2, <2>3
<1> QED
  BY <1>1, <1>2

\* The operands of an instruction are held; its result is then assigned.
LEMMA OpFlows ==
    ASSUME NEW f, f.form \in OpForms, NEW X, NEW vs, NEW t,
           \A i \in DOMAIN vs : vs[i].reg \cap Temps \subseteq X,
           f.form \in {"cmp", "logic", "bitcast"} => 1 \in DOMAIN vs,
           f.form \in {"cmp", "logic"} => 2 \in DOMAIN vs
    PROVE  /\ Flows(OpLines(f, vs, t), X)
           /\ OpResult(f, vs, t).val.reg \cap Temps \subseteq X \cup Defs(OpLines(f, vs, t))
<1>0. Uses(vs) \cap Temps \subseteq X
  BY DEF Uses
<1>1. CASE f.form = "cmp"
  <2> DEFINE ty  == CmpType(f, vs)
             t2  == t + 2 + EnsureTemps(vs[1], ty)
             l1 == EnsureLines(vs[1], ty, t + 2)
             l2 == EnsureLines(vs[2], ty, t2)
             u1 == Ensured(vs[1], ty, t + 2).reg
             u2 == Ensured(vs[2], ty, t2).reg
             u3 == u1 \cup u2
             l3 == <<Inst({Temp(t)}, u3)>>
             l4 == <<Inst({Temp(t + 1)}, {Temp(t)})>>
             l34 == <<Inst({Temp(t)}, u3), Inst({Temp(t + 1)}, {Temp(t)})>>
  <2>1. OpLines(f, vs, t) = l1 \o l2 \o l34 /\ l34 = l3 \o l4
    BY <1>1 DEF CmpLines, OpLines
  <2>2. OpResult(f, vs, t).val.reg = {Temp(t + 1)}
    BY <1>1 DEF OpResult, Yield, TempVal, Value
  <2>3. Flows(l1, X) /\ u1 \cap Temps \subseteq X \cup Defs(l1)
    <3>1. vs[1].reg \cap Temps \subseteq X
      BY <1>1
    <3> HIDE DEF ty
    <3> QED
      BY <3>1, EnsureFlows
  <2>4. Flows(l2, X \cup Defs(l1)) /\ u2 \cap Temps \subseteq (X \cup Defs(l1)) \cup Defs(l2)
    <3> DEFINE Y == X \cup Defs(l1)
    <3>1. vs[2].reg \cap Temps \subseteq Y
      BY <1>1
    <3> HIDE DEF ty, t2, Y
    <3>2. Flows(l2, Y) /\ u2 \cap Temps \subseteq Y \cup Defs(l2)
      BY <3>1, EnsureFlows
    <3> QED
      BY <3>2 DEF Y
  <2> HIDE DEF l1, l2, u1, u2
  <2>5. Flows(l1 \o l2, X) /\ Defs(l1 \o l2) = Defs(l1) \cup Defs(l2)
    BY <2>3, <2>4, JoinedFlows
  <2> DEFINE l12 == l1 \o l2
             Y == X \cup Defs(l12)
  <2>6. u3 \cap Temps \subseteq Y
    BY <2>3, <2>4, <2>5
  <2> HIDE DEF u3, Y, l12
  <2>7. Flows(l3, Y) /\ Defs(l3) = {Temp(t)}
    BY <2>6, LinesFlow
  <2>8. Flows(l4, Y \cup Defs(l3)) /\ Defs(l4) = {Temp(t + 1)}
    <3>1. {Temp(t)} \cap Temps \subseteq Y \cup Defs(l3)
      BY <2>7
    <3> HIDE DEF l3
    <3> QED
      BY <3>1, LinesFlow
  <2>9. Flows(l34, Y) /\ Defs(l34) = Defs(l3) \cup Defs(l4)
    <3> HIDE DEF l3, l4, l34
    <3> QED
      BY <2>1, <2>7, <2>8, JoinedFlows
  <2>10. Flows(l12 \o l34, X) /\ Defs(l12 \o l34) = Defs(l12) \cup Defs(l34)
    <3> HIDE DEF l34
    <3> QED
      BY <2>5, <2>9, JoinedFlows DEF l12, Y
  <2> HIDE DEF l3, l4, l34
  <2> QED
    BY <2>1, <2>2, <2>8, <2>9, <2>10 DEF l12
<1>2. CASE f.form = "logic"
  <2> DEFINE l1 == <<Inst({Temp(t)}, vs[1].reg)>>
             l2 == <<Inst({Temp(t + 1)}, vs[2].reg)>>
             l3 == <<Inst({Temp(t + 2)}, {Temp(t), Temp(t + 1)})>>
             l4 == <<Inst({Temp(t + 3)}, {Temp(t + 2)})>>
  <2>1. OpLines(f, vs, t) = ((l1 \o l2) \o l3) \o l4
    BY <1>2 DEF OpLines, LogicLines
  <2>2. OpResult(f, vs, t).val.reg = {Temp(t + 3)}
    BY <1>2 DEF OpResult, Yield, TempVal, Value
  <2>3. vs[1].reg \cap Temps \subseteq X /\ vs[2].reg \cap Temps \subseteq X
    BY <1>2
  <2>4. Flows(l1, X) /\ Defs(l1) = {Temp(t)}
    BY <2>3, LinesFlow
  <2>5. \A Y : X \subseteq Y => Flows(l2, Y) /\ Defs(l2) = {Temp(t + 1)}
    BY <2>3, LinesFlow
  <2>6. \A Y : {Temp(t), Temp(t + 1)} \subseteq Y => Flows(l3, Y) /\ Defs(l3) = {Temp(t + 2)}
    BY LinesFlow
  <2>7. \A Y : {Temp(t + 2)} \subseteq Y => Flows(l4, Y) /\ Defs(l4) = {Temp(t + 3)}
    BY LinesFlow
  <2> HIDE DEF l1, l2, l3, l4
  <2>8. Flows(l1 \o l2, X) /\ Defs(l1 \o l2) = Defs(l1) \cup Defs(l2)
    <3>1. Flows(l2, X \cup Defs(l1))
      BY <2>5
    <3> QED
      BY <2>4, <3>1, JoinedFlows
  <2> DEFINE l12 == l1 \o l2
             l123 == l12 \o l3
  <2>9. Flows(l123, X) /\ Defs(l123) = Defs(l12) \cup Defs(l3)
    <3>1. Defs(l2) = {Temp(t + 1)}
      BY <2>5
    <3>2. {Temp(t), Temp(t + 1)} \subseteq X \cup Defs(l12)
      BY <2>4, <2>8, <3>1
    <3>3. Flows(l3, X \cup Defs(l12))
      BY <2>6, <3>2
    <3> HIDE DEF l12
    <3> QED
      BY <2>8, <3>3, JoinedFlows DEF l12
  <2>10. Flows(l123 \o l4, X) /\ Defs(l123 \o l4) = Defs(l123) \cup Defs(l4)
    <3>1. Defs(l3) = {Temp(t + 2)}
      <4>1. {Temp(t), Temp(t + 1)} \subseteq {Temp(t), Temp(t + 1)}
        OBVIOUS
      <4> QED
        BY <2>6, <4>1
    <3>2. {Temp(t + 2)} \subseteq X \cup Defs(l123)
      BY <2>9, <3>1
    <3>3. Flows(l4, X \cup Defs(l123))
      BY <2>7, <3>2
    <3> HIDE DEF l123
    <3> QED
      BY <2>9, <3>3, JoinedFlows DEF l123
  <2>11. Defs(l4) = {Temp(t + 3)}
    <3>1. {Temp(t + 2)} \subseteq {Temp(t + 2)}
      OBVIOUS
    <3> QED
      BY <2>7, <3>1
  <2> QED
    BY <2>1, <2>2, <2>10, <2>11
<1>3. CASE f.form \notin {"cmp", "logic"}
  <2> DEFINE l1 == <<Inst({Temp(t)}, Uses(vs))>>
             l2 == <<Inst({}, Uses(vs))>>
  <2>1. Flows(l1, X) /\ Defs(l1) = {Temp(t)} /\ Flows(l2, X) /\ Flows(<<>>, X)
    <3> DEFINE u == Uses(vs)
    <3>1. u \cap Temps \subseteq X
      BY <1>0
    <3>2. Flows(<<>>, X)
      BY EmptyFlows
    <3> HIDE DEF u
    <3>3. Flows(<<Inst({Temp(t)}, u)>>, X) /\ Defs(<<Inst({Temp(t)}, u)>>) = {Temp(t)}
      BY <3>1, LinesFlow
    <3>4. Flows(<<Inst({}, u)>>, X)
      BY <3>1, LinesFlow
    <3> QED
      BY <3>2, <3>3, <3>4 DEF u
  <2> HIDE DEF l1, l2
  <2>2. \/ OpLines(f, vs, t) = l1 /\ OpResult(f, vs, t).val.reg \subseteq {Temp(t)}
        \/ OpLines(f, vs, t) = l2 /\ OpResult(f, vs, t).val.reg = {}
        \/ /\ f.form = "bitcast" /\ OpLines(f, vs, t) = <<>>
           /\ OpResult(f, vs, t).val.reg = vs[1].reg
    <3>1. /\ \A ty : Yield(TempVal(ty, t)).val.reg = {Temp(t)}
          /\ \A v : Yield(v).val.reg = v.reg
          /\ Did(FALSE, NoValue).val.reg = {} /\ \A k : Yield(Const(k)).val.reg = {}
      BY DEF Yield, Did, NoValue, Const, TempVal, Value
    <3> QED
      BY <1>3, <3>1 DEF OpLines, OpResult, OpForms, l1, l2
  <2> QED
    BY <1>3, <2>1, <2>2
<1> QED
  BY <1>1, <1>2, <1>3

\* A condition reads its value, converted, and branches on what it compared.
LEMMA CondFlows ==
    ASSUME NEW v, NEW t, NEW X, v.reg \cap Temps \subseteq X, NEW a, NEW b
    PROVE  Flows(CondLines(v, t, a, b), X)
<1> DEFINE c == t + EnsureTemps(v, "i32")
           w == Ensured(v, "i32", t).reg
           l1 == EnsureLines(v, "i32", t)
           l2 == <<Inst({Temp(c)}, w)>>
           l3 == <<CondBr(Temp(c), a, b)>>
           l23 == <<Inst({Temp(c)}, w), CondBr(Temp(c), a, b)>>
<1>1. CondLines(v, t, a, b) = l1 \o l23 /\ l23 = l2 \o l3
  BY DEF CondLines
<1>2. Flows(l1, X) /\ w \cap Temps \subseteq X \cup Defs(l1)
  BY EnsureFlows
<1> HIDE DEF l1, w, c
<1>3. Flows(l2, X \cup Defs(l1)) /\ Defs(l2) = {Temp(c)}
  BY <1>2, LinesFlow
<1>4. Flows(l3, (X \cup Defs(l1)) \cup Defs(l2))
  <2>1. Temp(c) \in (X \cup Defs(l1)) \cup Defs(l2)
    BY <1>3
  <2> HIDE DEF l2
  <2> QED
    BY <2>1, LinesFlow
<1> HIDE DEF l2, l3, l23
<1>5. Flows(l2 \o l3, X \cup Defs(l1))
  BY <1>3, <1>4, JoinedFlows
<1>6. Flows(l1 \o l23, X)
  BY <1>1, <1>2, <1>5, JoinedFlows
<1> QED
  BY <1>1, <1>6

-----------------------------------------------------------------------------
(* Steps that neither define a label nor branch keep what is held.         *)

\* What such a step does to the activations; X is what it may hand on.
MovesPlainly(X) ==
    \/ stack' = stack
    \/ stack' = Below
    \/ \E f : f.form \notin BranchForms /\ Holds(f) = {} /\ stack' = Append(stack, f)
    \/ \E f : f.form \notin BranchForms /\ Holds(f) \subseteq X /\ Goto(f)

LEMMA PlainFlow ==
    ASSUME IInv, TextInv, FlowInv, ctl.mode # "done",
           NEW s, Plain(s), code' = code \o s, ReadsHeld(s, Now), MovesPlainly(Now \cup Defs(s)),
           ctl'.val.reg \cap Temps \subseteq Now \cup Defs(s)
    PROVE  FlowInv'
<1>1. TypeOK /\ LabelsHeld /\ stack # <<>> /\ DuesHeld
  BY TopFacts DEF IInv, TextInv
<1>2. IsText(s) /\ Labels(s) = {} /\ Targets(s) = {}
  BY PlainPiece DEF Piece
<1>3. \A f : f.form \notin BranchForms => Pending(f) = {} /\ Heads(f) = {}
  BY DEF BranchForms, Pending, Heads
<1>4. Moves(s)
  BY <1>2, <1>3 DEF Moves, MovesPlainly
<1> QED
  BY <1>1, <1>2, <1>4, FlowStep

\* A step that writes nothing.
LEMMA SilentFlow ==
    ASSUME IInv, TextInv, FlowInv, ctl.mode # "done", code' = code, MovesPlainly(Now),
           ctl'.val.reg \cap Temps \subseteq Now
    PROVE  FlowInv'
<1> DEFINE s == <<>>
<1>1. code \o s = code
  <2>1. IsText(code) /\ IsText(s)
    BY CodeIs, EmptyTakes DEF IInv, TypeInv, Takes
  <2> HIDE DEF s
  <2> QED
    BY <2>1, Joined DEF s
<1>2. Plain(s) /\ Defs(s) = {} /\ ReadsHeld(s, Now)
  BY PlainLines, EmptyFlows DEF Flows
<1>3. Now \cup Defs(s) = Now
  BY <1>2
<1> HIDE DEF s
<1>4. code' = code \o s /\ MovesPlainly(Now \cup Defs(s)) /\ ctl'.val.reg \cap Temps \subseteq Now \cup Defs(s)
  BY <1>1, <1>3
<1> QED
  BY <1>2, <1>4, PlainFlow

\* The result in hand is held, and what the activation on top holds may be read
\* when it owes no label.
LEMMA TopFlow ==
    ASSUME IInv, FlowInv, ctl.mode # "done"
    PROVE  /\ ctl.val.reg \cap Temps \subseteq Now
           /\ Top.form \notin BranchForms => /\ Holds(Top) \subseteq Now
                                             /\ \A i \in DOMAIN Top.vals : Top.vals[i].reg \cap Temps \subseteq Now
<1> DEFINE n == Len(stack)
<1>1. ctl.val.reg \cap Temps \subseteq Now
  BY DEF FlowInv
<1>2. n \in Nat /\ DOMAIN stack = 1..n /\ n \in 1..n /\ Top = stack[n]
  <2>1. TypeOK /\ stack # <<>>
    BY TopFacts DEF IInv
  <2> QED
    BY <2>1 DEF TypeOK, Top
<1>3. ASSUME Top.form \notin BranchForms
      PROVE  Holds(Top) \subseteq Now
  <2>1. Pending(Top) = {} /\ Heads(Top) = {}
    BY <1>3 DEF BranchForms, Pending, Heads
  <2>2. \A m \in 1..n : (m < n + 1 => m < n \/ m = n) /\ (m >= n => m = n)
    <3> HIDE DEF n
    <3> QED
      BY <1>2
  <2>3. Under(stack, n + 1) \subseteq Under(stack, n)
    <3> HIDE DEF n
    <3> QED
      BY <1>2, <2>1, <2>2, UnderIs
  <2>4. {} \subseteq Owed(stack, n)
    OBVIOUS
  <2>5. \A r \in Holds(Top) : r \in Temps /\ Live(code, r, Under(stack, n), Owed(stack, n))
    BY <1>2 DEF FlowInv, Holds
  <2> DEFINE A == Under(stack, n)  A2 == Under(stack, n + 1)  P == Owed(stack, n)
  <2>6. \A r \in Holds(Top) : Live(code, r, A2, {})
    <3>1. A2 \subseteq A /\ {} \subseteq P /\ \A r \in Holds(Top) : Live(code, r, A, P)
      BY <2>3, <2>5
    <3> HIDE DEF A, A2, P
    <3> QED
      BY <3>1, LiveLess
  <2> QED
    BY <2>5, <2>6 DEF Now
<1>4. \A i \in DOMAIN Top.vals : Top.vals[i].reg \cap Temps \subseteq Holds(Top)
  BY DEF Holds, Uses
<1> QED
  BY <1>1, <1>3, <1>4

\* New activations hold nothing.
LEMMA NewFlow ==
    ASSUME NEW X
    PROVE  /\ \A form, arg : form \notin BranchForms =>
                 /\ Frame(form, arg).form \notin BranchForms /\ Holds(Frame(form, arg)) = {}
                 /\ ListFrame(form).form \notin BranchForms /\ Holds(ListFrame(form)) = {}
           /\ \A form, arg, ty : form \notin BranchForms =>
                 /\ [Frame(form, arg) EXCEPT !.ty = ty].form \notin BranchForms
                 /\ Holds([Frame(form, arg) EXCEPT !.ty = ty]) = {}
           /\ \A form, arg, l : Holds([Frame(form, arg) EXCEPT !.lab = l]) = {}
           /\ \A mode : Call(mode).val.reg \cap Temps \subseteq X
           /\ \A r, n : /\ Did(r, NoValue).val.reg \cap Temps \subseteq X
                        /\ Yield(Const(n)).val.reg \cap Temps \subseteq X
           /\ \A r, v : v.reg \cap Temps \subseteq X => /\ Did(r, v).val.reg \cap Temps \subseteq X
                                                        /\ Yield(v).val.reg \cap Temps \subseteq X
           /\ \A x, k : Slot(x, k) \notin Temps
<1>1. /\ \A form, arg : FrameReady(Frame(form, arg), {}) /\ FrameReady(ListFrame(form), {})
      /\ \A form, arg, ty : FrameReady([Frame(form, arg) EXCEPT !.ty = ty], {})
      /\ \A form, arg, l : FrameReady([Frame(form, arg) EXCEPT !.lab = l], {})
  BY NewFramesReady
<1>2. \A f : FrameReady(f, {}) => Holds(f) = {}
  BY DEF FrameReady, Holds, Uses
<1>3. /\ \A form, arg : Frame(form, arg).form = form /\ ListFrame(form).form = form
      /\ \A form, arg, ty : [Frame(form, arg) EXCEPT !.ty = ty].form = form
  BY DEF Frame, ListFrame
<1>4. /\ \A mode : Call(mode).val.reg = {}
      /\ \A r, n : Did(r, NoValue).val.reg = {} /\ Yield(Const(n)).val.reg = {}
      /\ \A r, v : Did(r, v).val = v /\ Yield(v).val = v
  BY DEF Call, Did, Yield, NoValue, Const, Value
<1>5. \A x, k : Slot(x, k) \notin Temps
  BY RegisterNames DEF Temps
<1>6. \A form, arg : form \notin BranchForms =>
                 /\ Frame(form, arg).form \notin BranchForms /\ Holds(Frame(form, arg)) = {}
                 /\ ListFrame(form).form \notin BranchForms /\ Holds(ListFrame(form)) = {}
  BY <1>1, <1>2, <1>3
<1>7. ASSUME NEW form, form \notin BranchForms, NEW arg, NEW ty
      PROVE  /\ [Frame(form, arg) EXCEPT !.ty = ty].form \notin BranchForms
             /\ Holds([Frame(form, arg) EXCEPT !.ty = ty]) = {}
  BY <1>1, <1>2, <1>3, <1>7
<1>8. ASSUME NEW form, NEW arg, NEW l
      PROVE  Holds([Frame(form, arg) EXCEPT !.lab = l]) = {}
  BY <1>1, <1>2
<1>9. \A mode : Call(mode).val.reg \cap Temps \subseteq X
  BY <1>4
<1>10. \A r, n : /\ Did(r, NoValue).val.reg \cap Temps \subseteq X
                 /\ Yield(Const(n)).val.reg \cap Temps \subseteq X
  BY <1>4
<1>11. \A r, v : v.reg \cap Temps \subseteq X => /\ Did(r, v).val.reg \cap Temps \subseteq X
                                                 /\ Yield(v).val.reg \cap Temps \subseteq X
  BY <1>4
<1> QED
  BY <1>5, <1>6, <1>7, <1>8, <1>9, <1>10, <1>11

LEMMA FlowFatals ==
    ASSUME IInv, TextInv, FlowInv, ctl.mode # "done", Fatal
    PROVE  FlowInv'
<1>1. code' = code /\ stack' = stack /\ ctl' = Call("fatal")
  BY DEF Fatal
<1> QED
  BY <1>1, NewFlow, SilentFlow DEF MovesPlainly

LEMMA FlowCalls ==
    ASSUME IInv, TextInv, FlowInv,
           \/ StmtSkip \/ CallReturn \/ CallStore \/ CallLet \/ CallSet \/ CallDo \/ CallIf \/ CallExprStmt
           \/ ExprConst \/ ExprAddr \/ ExprAddrOf \/ ExprGetField \/ ExprBlock \/ ExprOp
           \/ NextItem
    PROVE  FlowInv'
<1>1. ctl.mode # "done"
  BY DEF StmtSkip, CallReturn, CallStore, CallLet, CallSet, CallDo, CallIf, CallExprStmt, ExprConst,
         ExprAddr, ExprAddrOf, ExprGetField, ExprBlock, ExprOp, NextItem, StmtCalled, ExprCalled
<1>2. code' = code
  BY DEF StmtSkip, CallReturn, CallStore, CallLet, CallSet, CallDo, CallIf, CallExprStmt, ExprConst,
         ExprAddr, ExprAddrOf, ExprGetField, ExprBlock, ExprOp, NextItem
<1>3. /\ "return" \notin BranchForms /\ "store" \notin BranchForms /\ "let" \notin BranchForms
      /\ "set" \notin BranchForms /\ "do" \notin BranchForms /\ "if-cond" \notin BranchForms
      /\ "expr" \notin BranchForms /\ "block" \notin BranchForms /\ "arith" \notin BranchForms
      /\ "logic" \notin BranchForms /\ "cmp" \notin BranchForms /\ "load" \notin BranchForms
      /\ "ptr-add" \notin BranchForms /\ "bitcast" \notin BranchForms /\ "call" \notin BranchForms
  BY DEF BranchForms
<1>4. CASE CallReturn \/ CallStore \/ CallLet \/ CallSet \/ CallDo \/ CallIf \/ CallExprStmt
  <2>1. MovesPlainly(Now)
    BY <1>3, <1>4, NewFlow DEF MovesPlainly, CallReturn, CallStore, CallLet, CallSet, CallDo, CallIf,
       CallExprStmt, Enter
  <2>2. \E mode : ctl' = Call(mode)
    BY <1>4 DEF CallReturn, CallStore, CallLet, CallSet, CallDo, CallIf, CallExprStmt, Enter
  <2>3. ctl'.val.reg \cap Temps \subseteq Now
    BY <2>2, NewFlow
  <2> QED
    BY <1>1, <1>2, <2>1, <2>3, SilentFlow
<1>5. CASE ExprBlock \/ ExprOp
  <2>1. MovesPlainly(Now)
    BY <1>3, <1>5, NewFlow DEF MovesPlainly, ExprBlock, ExprOp, Enter
  <2>2. \E mode : ctl' = Call(mode)
    BY <1>5 DEF ExprBlock, ExprOp, Enter
  <2>3. ctl'.val.reg \cap Temps \subseteq Now
    BY <2>2, NewFlow
  <2> QED
    BY <1>1, <1>2, <2>1, <2>3, SilentFlow
<1>6. CASE StmtSkip \/ ExprConst \/ ExprGetField \/ NextItem \/ ExprAddr \/ ExprAddrOf
  <2>1. MovesPlainly(Now)
    BY <1>6 DEF MovesPlainly, StmtSkip, ExprConst, ExprGetField, NextItem, ExprAddr, ExprAddrOf
  <2>2. \/ \E n : ctl' = Yield(Const(n))
        \/ ctl' = Did(FALSE, NoValue)
        \/ \E mode : ctl' = Call(mode)
        \/ \E x \in Names : \E ty : ctl' = Yield(Value(ty, {EnvSlot(env, x)}, 0))
    BY <1>6 DEF StmtSkip, ExprConst, ExprGetField, NextItem, ExprAddr, ExprAddrOf
  <2>3. \A x, ty : Value(ty, {EnvSlot(env, x)}, 0).reg \cap Temps \subseteq Now
    <3>1. \A x : \E k : EnvSlot(env, x) = Slot(x, k)
      BY DEF EnvSlot
    <3>2. \A x : EnvSlot(env, x) \notin Temps
      BY <3>1, NewFlow
    <3>3. \A ty, r, n : Value(ty, r, n).reg = r
      BY DEF Value
    <3> QED
      BY <3>2, <3>3
  <2>4. ctl'.val.reg \cap Temps \subseteq Now
    BY <2>2, <2>3, NewFlow
  <2> QED
    BY <1>1, <1>2, <2>1, <2>4, SilentFlow
<1> QED
  BY <1>4, <1>5, <1>6

LEMMA FlowLists ==
    ASSUME IInv, TextInv, FlowInv, ItemDone \/ ItemReturned \/ EndDo \/ EndBlock \/ BodyReturned \/ ExprStmt
    PROVE  FlowInv'
<1>1. ctl.mode # "done" /\ code' = code
  BY DEF ItemDone, ItemReturned, EndDo, EndBlock, BodyReturned, ExprStmt, Valued
<1>2. Top \in FrameOf(Registers) /\ WellFormed(Top) /\ ctl.val.reg \cap Temps \subseteq Now
  BY <1>1, TopFacts, TopFlow DEF IInv
<1>3. Top.form \notin BranchForms
  BY DEF ItemDone, ItemReturned, EndDo, EndBlock, BodyReturned, ExprStmt, Valued, InList, ListForms, BranchForms
<1>4. Holds(Top) \subseteq Now /\ \A i \in DOMAIN Top.vals : Top.vals[i].reg \cap Temps \subseteq Now
  BY <1>1, <1>3, TopFlow
<1>5. CASE ItemDone
  <2> DEFINE g == [Top EXCEPT !.vals = <<ctl.val>>]
  <2>1. g.form = Top.form /\ Holds(g) \subseteq Now
    <3>1. g.vals = <<ctl.val>> /\ g.form = Top.form
      BY <1>2 DEF FrameOf
    <3>2. DOMAIN <<ctl.val>> = {1} /\ <<ctl.val>>[1] = ctl.val
      OBVIOUS
    <3> HIDE DEF g
    <3> QED
      BY <1>2, <3>1, <3>2 DEF Holds, Uses
  <2>2. Goto(Top) \/ Goto(g)
    BY <1>5 DEF ItemDone
  <2> HIDE DEF g
  <2>3. MovesPlainly(Now)
    BY <1>3, <1>4, <2>1, <2>2 DEF MovesPlainly
  <2>4. ctl'.val.reg \cap Temps \subseteq Now
    BY <1>5, NewFlow DEF ItemDone
  <2> QED
    BY <1>1, <2>3, <2>4, SilentFlow
<1>6. CASE ItemReturned \/ BodyReturned \/ ExprStmt
  <2>1. MovesPlainly(Now)
    BY <1>6 DEF MovesPlainly, ItemReturned, BodyReturned, ExprStmt, Finish
  <2>2. \/ \E n, r : ctl' = Did(r, NoValue) \/ ctl' = Yield(Const(n))
        \/ ctl' = Call("done") \/ ctl' = Did(FALSE, ctl.val)
    BY <1>6 DEF ItemReturned, BodyReturned, ExprStmt, Finish, ListReturned
  <2>3. ctl'.val.reg \cap Temps \subseteq Now
    BY <1>2, <2>2, NewFlow
  <2> QED
    BY <1>1, <2>1, <2>3, SilentFlow
<1>7. CASE EndDo \/ EndBlock
  <2>1. MovesPlainly(Now)
    BY <1>7 DEF MovesPlainly, EndDo, EndBlock, Finish
  <2>2. LastValue.reg \cap Temps \subseteq Now
    <3>1. Top.form \in ListForms
      BY <1>7 DEF EndDo, EndBlock, InList, ListForms
    <3>2. Len(Top.vals) = 1 /\ Top.vals \in Seq(ValueOf(Registers))
      BY <1>2, <3>1 DEF WellFormed, FrameOf
    <3> QED
      BY <1>4, <3>2 DEF LastValue
  <2>3. ctl' = Did(FALSE, LastValue) \/ ctl' = Yield(Const(0)) \/ ctl' = Yield(LastValue)
    BY <1>7 DEF EndDo, EndBlock, Finish
  <2>4. ctl'.val.reg \cap Temps \subseteq Now
    BY <2>2, <2>3, NewFlow
  <2> QED
    BY <1>1, <2>1, <2>4, SilentFlow
<1> QED
  BY <1>5, <1>6, <1>7

\* Steps that write one line.
LEMMA FlowLoads ==
    ASSUME IInv, TextInv, FlowInv, ExprVar \/ ExprString
    PROVE  FlowInv'
<1>1. ctl.mode # "done" /\ stack' = stack
  BY DEF ExprVar, ExprString, ExprCalled
<1>2. PICK u, ty : /\ u \cap Temps = {} /\ code' = code \o <<Inst({Temp(ntemp)}, u)>>
                   /\ ctl' = Yield(TempVal(ty, ntemp))
  <2>1. CASE ExprVar
    <3>1. \A x : \E k : EnvSlot(env, x) = Slot(x, k)
      BY DEF EnvSlot
    <3>2. \A x : {EnvSlot(env, x)} \cap Temps = {}
      BY <3>1, NewFlow
    <3> QED
      BY <2>1, <3>2 DEF ExprVar, Emit
  <2>2. CASE ExprString
    BY <2>2 DEF ExprString, Emit
  <2> QED
    BY <2>1, <2>2
<1> DEFINE s == <<Inst({Temp(ntemp)}, u)>>
<1>3. Plain(s) /\ ReadsHeld(s, Now) /\ Defs(s) = {Temp(ntemp)}
  <2>1. u \cap Temps \subseteq Now
    BY <1>2
  <2> QED
    BY <2>1, PlainLines, LinesFlow DEF Flows
<1>4. code' = code \o s
  BY <1>2
<1> HIDE DEF s
<1>5. ctl'.val.reg = {Temp(ntemp)}
  BY <1>2 DEF Yield, TempVal, Value
<1> QED
  BY <1>1, <1>3, <1>4, <1>5, PlainFlow DEF MovesPlainly

LEMMA FlowReturns ==
    ASSUME IInv, TextInv, FlowInv, Return \/ Set
    PROVE  FlowInv'
<1>1. ctl.mode # "done" /\ stack' = Below
  BY DEF Return, Set, Valued, Finish
<1>2. ctl.val.reg \cap Temps \subseteq Now
  BY <1>1, TopFlow
<1>3. PICK s : Plain(s) /\ ReadsHeld(s, Now) /\ code' = code \o s
  <2>1. CASE Return
    <3>1. PICK u : u \cap Temps \subseteq Now /\ code' = code \o <<Ret(u)>>
      BY <1>2, <2>1 DEF Return, Emit
    <3> QED
      BY <3>1, PlainLines, LinesFlow DEF Flows
  <2>2. CASE Set
    <3>1. \E k : EnvSlot(env, Top.arg) = Slot(Top.arg, k)
      BY DEF EnvSlot
    <3>2. EnvSlot(env, Top.arg) \notin Temps
      BY <3>1, NewFlow
    <3>3. PICK u : u \cap Temps \subseteq Now /\ code' = code \o <<Inst({}, u)>>
      BY <1>2, <2>2, <3>2 DEF Set, Emit
    <3> QED
      BY <3>3, PlainLines, LinesFlow DEF Flows
  <2> QED
    BY <2>1, <2>2
<1>4. ctl'.val.reg \cap Temps \subseteq Now
  <2>1. ctl' = Did(TRUE, ctl.val) \/ ctl' = Did(FALSE, NoValue)
    BY DEF Return, Set, Finish
  <2> QED
    BY <1>2, <2>1, NewFlow
<1> QED
  BY <1>1, <1>3, <1>4, PlainFlow DEF MovesPlainly

LEMMA FlowCallsNoArgs ==
    ASSUME IInv, TextInv, FlowInv, CallNoArgs
    PROVE  FlowInv'
<1>1. ctl.mode # "done" /\ stack' = stack
  BY DEF CallNoArgs, ExprCalled
<1>2. PICK fn \in DOMAIN Fns :
          /\ ctl' = OpResult(Frame("call", fn), <<>>, ntemp)
          /\ code' = code \o OpLines(Frame("call", fn), <<>>, ntemp)
  BY DEF CallNoArgs, Emit
<1> DEFINE f == Frame("call", fn)
           vs == <<>>
           s == OpLines(f, vs, ntemp)
<1>3. f.form = "call" /\ f.form \in OpForms
  BY DEF Frame, OpForms
<1>4. \A i \in DOMAIN vs : vs[i].reg \cap Temps \subseteq Now
  OBVIOUS
<1>5. ctl' = OpResult(f, vs, ntemp) /\ code' = code \o s
  BY <1>2
<1> HIDE DEF f, vs
<1>6. Flows(s, Now) /\ OpResult(f, vs, ntemp).val.reg \cap Temps \subseteq Now \cup Defs(s)
  BY <1>3, <1>4, OpFlows
<1>7. Plain(s)
  BY <1>3, PlainOps
<1> HIDE DEF s
<1>8. ctl'.val.reg \cap Temps \subseteq Now \cup Defs(s)
  BY <1>5, <1>6
<1> QED
  BY <1>1, <1>5, <1>6, <1>7, <1>8, PlainFlow DEF MovesPlainly, Flows

LEMMA FlowOperands ==
    ASSUME IInv, TextInv, FlowInv, Operand
    PROVE  FlowInv'
<1> DEFINE f   == Top
           ty  == TargetType
           v   == Ensured(ctl.val, ty, ntemp)
           vs  == Append(f.vals, v)
           t   == ntemp + EnsureTemps(ctl.val, ty)
           pre == EnsureLines(ctl.val, ty, ntemp)
           X   == Now \cup Defs(pre)
<1>1. ctl.mode # "done" /\ ctl.mode = "val" /\ f.form \in OpForms /\ f.form \notin BranchForms
  BY DEF Operand, OpForms, BranchForms
<1>2. f \in FrameOf(Registers) /\ WellFormed(f) /\ ntemp \in Nat
  BY <1>1, TopFacts DEF IInv
<1>3. /\ ctl.val.reg \cap Temps \subseteq Now
      /\ \A i \in DOMAIN f.vals : f.vals[i].reg \cap Temps \subseteq Now
  BY <1>1, TopFlow
<1>4. Flows(pre, Now) /\ v.reg \cap Temps \subseteq X /\ Plain(pre)
  <2> HIDE DEF ty
  <2> QED
    BY <1>3, EnsureFlows, PlainLines
<1>5. /\ \A i \in DOMAIN vs : vs[i].reg \cap Temps \subseteq X
      /\ Len(vs) \in Nat /\ DOMAIN vs = 1..Len(vs)
  <2>1. f.vals \in Seq(ValueOf(Registers))
    BY <1>2 DEF FrameOf
  <2> DEFINE us == f.vals
  <2>2. /\ DOMAIN us = 1..Len(us) /\ Len(us) \in Nat
        /\ Len(vs) = Len(us) + 1 /\ DOMAIN vs = 1..Len(us) + 1
        /\ \A i \in 1..Len(us) : vs[i] = us[i]
        /\ vs[Len(us) + 1] = v
        /\ \A i \in 1..Len(us) + 1 : i \in 1..Len(us) \/ i = Len(us) + 1
    <3> HIDE DEF v, f
    <3> QED
      BY <2>1
  <2>3. \A i \in 1..Len(us) : us[i].reg \cap Temps \subseteq X
    BY <1>3, <2>2
  <2> HIDE DEF us, vs, v, X
  <2> QED
    BY <1>4, <2>2, <2>3
<1>6. CASE Fatal
  BY <1>1, <1>6, FlowFatals
<1>7. CASE Goto([f EXCEPT !.vals = vs]) /\ ctl' = Call("expr") /\ Emit(pre)
  <2> DEFINE g == [f EXCEPT !.vals = vs]
  <2>1. g.vals = vs /\ g.form = f.form
    <3> HIDE DEF vs
    <3> QED
      BY <1>2 DEF FrameOf
  <2>2. Holds(g) \subseteq X
    <3> HIDE DEF vs, g, X
    <3> QED
      BY <1>5, <2>1 DEF Holds, Uses
  <2>3. MovesPlainly(X)
    <3>1. Goto(g) /\ g.form \notin BranchForms
      BY <1>1, <1>7, <2>1
    <3> HIDE DEF g, X
    <3> QED
      BY <2>2, <3>1 DEF MovesPlainly
  <2>4. ctl'.val.reg \cap Temps \subseteq X /\ code' = code \o pre /\ ReadsHeld(pre, Now)
    BY <1>4, <1>7, NewFlow DEF Emit, Flows
  <2> HIDE DEF pre
  <2> QED
    BY <1>1, <1>4, <2>3, <2>4, PlainFlow
<1>8. CASE /\ Len(vs) = Len(OperandTypes(f))
           /\ stack' = Below
           /\ ctl' = OpResult(f, vs, t)
           /\ Emit(pre \o OpLines(f, vs, t))
  <2> DEFINE ls == OpLines(f, vs, t)
             s == pre \o ls
  <2>1. /\ f.form \in {"cmp", "logic", "bitcast"} => 1 \in DOMAIN vs
        /\ f.form \in {"cmp", "logic"} => 2 \in DOMAIN vs
    <3>1. /\ f.form \in {"cmp", "logic", "bitcast"} => Len(OperandTypes(f)) >= 1
          /\ f.form \in {"cmp", "logic"} => Len(OperandTypes(f)) >= 2
      <4>1. Len(<<"any", "any">>) = 2 /\ Len(<<"i32", "i32">>) = 2 /\ Len(<<"any">>) = 1
        OBVIOUS
      <4> HIDE DEF f
      <4> QED
        BY <4>1 DEF OperandTypes
    <3> HIDE DEF vs, f
    <3> QED
      BY <1>5, <1>8, <3>1
  <2>2. Flows(ls, X) /\ OpResult(f, vs, t).val.reg \cap Temps \subseteq X \cup Defs(ls) /\ Plain(ls)
    <3> HIDE DEF vs, f, X, t
    <3> QED
      BY <1>1, <1>5, <2>1, OpFlows, PlainOps
  <2>3. Flows(s, Now) /\ Defs(s) = Defs(pre) \cup Defs(ls) /\ Plain(s)
    <3> HIDE DEF pre, ls
    <3> QED
      BY <1>4, <2>2, JoinedFlows, PlainJoined DEF X
  <2>4. ctl'.val.reg \cap Temps \subseteq Now \cup Defs(s)
    <3> HIDE DEF vs, f, t, ls, pre, s
    <3> QED
      BY <1>8, <2>2, <2>3 DEF X
  <2>5. code' = code \o s /\ MovesPlainly(Now \cup Defs(s))
    BY <1>8 DEF Emit, MovesPlainly
  <2> HIDE DEF s
  <2> QED
    BY <1>1, <2>3, <2>4, <2>5, PlainFlow DEF Flows
<1> QED
  BY <1>6, <1>7, <1>8 DEF Operand, TargetType

LEMMA FlowEnds ==
    ASSUME IInv, TextInv, FlowInv, EndBody
    PROVE  FlowInv'
<1>1. ctl.mode # "done" /\ Top.form \notin BranchForms /\ Top.form \in ListForms
  BY DEF EndBody, InList, BranchForms, ListForms
<1>2. CASE Fatal
  BY <1>1, <1>2, FlowFatals
<1>3. LastValue.reg \cap Temps \subseteq Now
  <2>1. Top \in FrameOf(Registers) /\ WellFormed(Top)
    BY <1>1, TopFacts DEF IInv
  <2>2. Len(Top.vals) = 1 /\ Top.vals \in Seq(ValueOf(Registers))
    BY <1>1, <2>1 DEF WellFormed, FrameOf
  <2>3. \A i \in DOMAIN Top.vals : Top.vals[i].reg \cap Temps \subseteq Now
    BY <1>1, TopFlow
  <2> QED
    BY <2>2, <2>3 DEF LastValue
<1> DEFINE v == LastValue
           l1 == EnsureLines(v, retTy, ntemp)
           l2 == <<Ret(Ensured(v, retTy, ntemp).reg)>>
           l0 == <<Ret({})>>
<1>4. CASE ~Fatal
  <2>1. stack' = Below /\ ctl' = Call("done") /\ (code' = code \o (l1 \o l2) \/ code' = code \o l0)
    BY <1>4 DEF EndBody, Emit, Finish
  <2>2. Plain(l0) /\ Flows(l0, Now)
    BY PlainLines, LinesFlow
  <2>3. Plain(l1 \o l2) /\ Flows(l1 \o l2, Now)
    <3>1. Flows(l1, Now) /\ Ensured(v, retTy, ntemp).reg \cap Temps \subseteq Now \cup Defs(l1)
      <4> HIDE DEF v
      <4> QED
        BY <1>3, EnsureFlows DEF v
    <3>2. Flows(l2, Now \cup Defs(l1))
      <4> HIDE DEF l1
      <4> QED
        BY <3>1, LinesFlow
    <3>3. Plain(l1) /\ Plain(l2)
      BY PlainLines
    <3> HIDE DEF l1, l2
    <3> QED
      BY <3>1, <3>2, <3>3, JoinedFlows, PlainJoined
  <2>4. PICK s : Plain(s) /\ ReadsHeld(s, Now) /\ code' = code \o s
    BY <2>1, <2>2, <2>3 DEF Flows
  <2>5. ctl'.val.reg \cap Temps \subseteq Now \cup Defs(s)
    BY <2>1, NewFlow
  <2> QED
    BY <1>1, <2>1, <2>4, <2>5, PlainFlow DEF MovesPlainly
<1> QED
  BY <1>2, <1>4

LEMMA FlowLets ==
    ASSUME IInv, TextInv, FlowInv, Let
    PROVE  FlowInv'
<1>1. ctl.mode # "done"
  BY DEF Let, Valued
<1>2. ctl.val.reg \cap Temps \subseteq Now
  BY <1>1, TopFlow
<1> DEFINE slot == Slot(Top.arg, Len(env) + 1)
           deref == ctl.val.ty = PtrTo[Top.ty]
           reg == ctl.val.reg
           l1 == <<Inst({slot}, {})>>
           l2 == IF deref THEN <<Inst({Temp(ntemp)}, reg)>> ELSE <<>>
           u == {slot} \cup (IF deref THEN {Temp(ntemp)} ELSE reg)
           l3 == <<Inst({}, u)>>
           s == l1 \o l2 \o l3
<1>3. code' = code \o s /\ Goto(ListFrame("do")) /\ ctl' = Call("items")
  BY DEF Let, Emit, LetLines
<1>4. slot \notin Temps
  BY NewFlow
<1> HIDE DEF slot, deref
<1>5. Flows(l1, Now) /\ Plain(l1)
  <2>1. {} \cap Temps \subseteq Now
    OBVIOUS
  <2> QED
    BY <2>1, LinesFlow, PlainLines
<1>6. Flows(l2, Now \cup Defs(l1)) /\ Plain(l2) /\ (deref => Defs(l2) = {Temp(ntemp)})
  <2> DEFINE X == Now \cup Defs(l1)
  <2>1. reg \cap Temps \subseteq X
    BY <1>2
  <2> HIDE DEF X, reg
  <2>2. CASE deref
    <3>1. l2 = <<Inst({Temp(ntemp)}, reg)>>
      BY <2>2
    <3>2. Flows(<<Inst({Temp(ntemp)}, reg)>>, X) /\ Defs(<<Inst({Temp(ntemp)}, reg)>>) = {Temp(ntemp)}
      BY <2>1, LinesFlow
    <3>3. Plain(<<Inst({Temp(ntemp)}, reg)>>)
      BY PlainLines
    <3> QED
      BY <3>1, <3>2, <3>3 DEF X
  <2>3. CASE ~deref
    <3>1. l2 = <<>>
      BY <2>3
    <3>2. Flows(<<>>, X) /\ Plain(<<>>)
      BY EmptyFlows, PlainLines
    <3> QED
      BY <2>3, <3>1, <3>2 DEF X
  <2> QED
    BY <2>2, <2>3
<1> HIDE DEF l1, l2
<1>7. Flows(l1 \o l2, Now) /\ Defs(l1 \o l2) = Defs(l1) \cup Defs(l2) /\ Plain(l1 \o l2)
  BY <1>5, <1>6, JoinedFlows, PlainJoined
<1> DEFINE l12 == l1 \o l2
<1>8. u \cap Temps \subseteq Now \cup Defs(l12)
  BY <1>2, <1>4, <1>6, <1>7
<1>9. Flows(l3, Now \cup Defs(l12)) /\ Plain(l3)
  <2> DEFINE X == Now \cup Defs(l12)
  <2>1. u \cap Temps \subseteq X
    BY <1>8
  <2> HIDE DEF X, u
  <2>2. Flows(l3, X) /\ Plain(l3)
    BY <2>1, LinesFlow, PlainLines
  <2> QED
    BY <2>2 DEF X
<1>10. Flows(l12 \o l3, Now) /\ Plain(l12 \o l3)
  <2>1. Flows(l12, Now) /\ Plain(l12)
    BY <1>7
  <2> HIDE DEF l12, l3
  <2> QED
    BY <1>9, <2>1, JoinedFlows, PlainJoined
<1>11. MovesPlainly(Now \cup Defs(s)) /\ ctl'.val.reg \cap Temps \subseteq Now \cup Defs(s)
  <2>1. "do" \notin BranchForms
    BY DEF BranchForms
  <2> DEFINE X == Now \cup Defs(s)
  <2> HIDE DEF X
  <2>2. MovesPlainly(X) /\ ctl'.val.reg \cap Temps \subseteq X
    BY <1>3, <2>1, NewFlow DEF MovesPlainly
  <2> QED
    BY <2>2 DEF X
<1>12. code' = code \o s /\ Flows(s, Now) /\ Plain(s)
  BY <1>3, <1>10
<1> HIDE DEF s
<1> QED
  BY <1>1, <1>11, <1>12, PlainFlow DEF Flows

-----------------------------------------------------------------------------
(* Steps that branch.                                                      *)

\* Such a step jumps back only to the loop its activation is.
LEMMA JumpFlow ==
    ASSUME IInv, TextInv, FlowInv, ctl.mode # "done",
           NEW s, IsText(s), NEW D, NEW E, Labels(s) = D, Targets(s) \subseteq E,
           code' = code \o s, ReadsHeld(s, Now), Moves(s),
           D \cap Labels(code) = {}, D \subseteq Mine(Top), E \cap Labels(code) \subseteq Heads(Top),
           \/ \E mode : ctl' = Call(mode)
           \/ \E r : ctl' = Did(r, NoValue)
    PROVE  FlowInv'
<1>1. TypeOK /\ LabelsHeld /\ DuesHeld /\ stack # <<>>
  BY TopDues
<1>2. Heads(Top) \subseteq Under(stack, Len(stack) + 1)
  <2> DEFINE n == Len(stack)
  <2>1. n \in DOMAIN stack /\ n < n + 1 /\ Top = stack[n]
    BY <1>1 DEF TypeOK, Top
  <2> HIDE DEF n
  <2>2. Heads(Top) \subseteq Under(stack, n + 1)
    BY <2>1, UnderIs
  <2> QED
    BY <2>2 DEF n
<1>3. ctl'.val.reg \cap Temps = {}
  BY DEF Call, Did, NoValue, Value
<1> QED
  BY <1>1, <1>2, <1>3, FlowStep

\* Lines that define the labels D, branch to labels of E and read what is held.
JumpPiece(s, D, E) == /\ IsText(s) /\ Labels(s) = D /\ Targets(s) \subseteq E
                      /\ ReadsHeld(s, Now)

\* A jump and a label after it read nothing.
LEMMA JumpLines ==
    ASSUME NEW j, NEW l, NEW m, j = <<>> \/ j = <<Br(l)>>
    PROVE  JumpPiece(j, {}, {l}) /\ JumpPiece(j \o <<LabelDef(m)>>, {m}, {l})
<1> DEFINE b == <<LabelDef(m)>>
           z == <<>>
           y == <<Br(l)>>
<1>1. IsText(b) /\ Labels(b) = {m} /\ Targets(b) = {} /\ Reads(b, {})
  BY BranchLines, LinesTake DEF Piece
<1>2. IsText(y) /\ Labels(y) = {} /\ Targets(y) \subseteq {l} /\ Reads(y, {})
  BY BranchLines, LinesTake DEF Piece
<1>3. IsText(z) /\ Reads(z, {}) /\ DOMAIN z = {}
  BY EmptyTakes DEF Takes
<1>4. j = z \/ j = y
  OBVIOUS
<1> HIDE DEF b, z, y
<1>5. Labels(z) = {} /\ Targets(z) \subseteq {l}
  BY <1>3 DEF Labels, Targets
<1>6. IsText(j) /\ Labels(j) = {} /\ Targets(j) \subseteq {l} /\ Reads(j, {})
  BY <1>2, <1>3, <1>4, <1>5
<1>7. IsText(j \o b) /\ Labels(j \o b) = {m} /\ Targets(j \o b) \subseteq {l} /\ Reads(j \o b, {})
  <2>1. Labels(j \o b) = {} \cup {m} /\ Targets(j \o b) = Targets(j) \cup {}
    <3>1. IsText(j) /\ IsText(b)
      BY <1>1, <1>6
    <3>2. Labels(j \o b) = Labels(j) \cup Labels(b) /\ Targets(j \o b) = Targets(j) \cup Targets(b)
      BY ONLY <3>1, JoinedLabels
    <3> QED
      BY <1>1, <1>6, <3>2
  <2> QED
    BY <1>1, <1>6, <2>1, Joined, JoinedReads
<1>8. ReadsHeld(j, Now) /\ ReadsHeld(j \o b, Now)
  BY <1>6, <1>7, ReadsNone
<1> QED
  BY <1>6, <1>7, <1>8 DEF b, JumpPiece

\* IfCond and WhileCond.
LEMMA FlowConds ==
    ASSUME IInv, TextInv, FlowInv, IfCond \/ WhileCond
    PROVE  FlowInv'
<1>1. ctl.mode # "done"
  BY DEF IfCond, WhileCond, Valued
<1>2. CASE Fatal
  BY <1>1, <1>2, FlowFatals
<1>3. /\ TypeOK /\ stack # <<>> /\ nlabel \in Nat /\ Top.lab \in Nat /\ Top \in FrameOf(Registers)
      /\ Labels(code) \subseteq 0..nlabel - 1
      /\ Pending(Top) \cap Labels(code) = {}
  BY <1>1, TopDues
<1>4. ASSUME ~Fatal, NEW a, NEW b, NEW f, Goto(f), f.vals = Top.vals,
             code' = code \o (CondLines(ctl.val, ntemp, a, b) \o <<LabelDef(a)>>),
             Heads(f) \subseteq Heads(Top), Pending(f) \subseteq Mine(Top),
             a \in Mine(Top), {a, b} \cap Labels(code) = {}, ctl' = Call("stmt")
      PROVE  FlowInv'
  <2> DEFINE cl == CondLines(ctl.val, ntemp, a, b)
             s == cl \o <<LabelDef(a)>>
  <2>1. IsText(s) /\ Labels(s) = {a} /\ Targets(s) = {a, b}
    BY CondPiece DEF Piece
  <2>2. ReadsHeld(s, Now)
    <3>1. ctl.val.reg \cap Temps \subseteq Now
      BY <1>1, TopFlow
    <3>2. Flows(cl, Now)
      BY <3>1, CondFlows
    <3> HIDE DEF cl
    <3> QED
      BY <3>2, LabelFlows
  <2>3. Moves(s)
    BY <1>4 DEF Moves
  <2> DEFINE D == {a}
             E == {a, b}
  <2>4. D \cap Labels(code) = {} /\ D \subseteq Mine(Top) /\ E \cap Labels(code) \subseteq Heads(Top)
    BY <1>4
  <2>5. code' = code \o s
    BY <1>4
  <2>6. Labels(s) = D /\ Targets(s) \subseteq E
    BY <2>1
  <2> HIDE DEF s, D, E
  <2> QED
    BY <1>1, <1>4, <2>1, <2>2, <2>3, <2>4, <2>5, <2>6, JumpFlow
<1>5. CASE IfCond /\ ~Fatal
  <2> DEFINE f == [Top EXCEPT !.form = "if-then", !.lab = nlabel]
             b == nlabel + 1
  <2>1. /\ Goto(f) /\ ctl' = Call("stmt")
        /\ code' = code \o (CondLines(ctl.val, ntemp, nlabel, b) \o <<LabelDef(nlabel)>>)
    BY <1>5 DEF IfCond, Emit
  <2>2. f.vals = Top.vals /\ f.lab = nlabel /\ f.form = "if-then"
    BY <1>3 DEF FrameOf
  <2> HIDE DEF f
  <2>3. Heads(f) = {} /\ Pending(f) = {nlabel + 1, nlabel + 2}
    BY <2>2 DEF Heads, Pending
  <2>4. Pending(f) \subseteq Mine(Top) /\ nlabel \in Mine(Top) /\ {nlabel, b} \cap Labels(code) = {}
    BY <1>3, <2>3 DEF Mine
  <2> HIDE DEF b
  <2> QED
    BY <1>4, <1>5, <2>1, <2>2, <2>3, <2>4
<1>6. CASE WhileCond /\ ~Fatal
  <2> DEFINE f == [Top EXCEPT !.form = "while-body"]
             a == Top.lab + 1
             b == Top.lab + 2
  <2>1. /\ Goto(f) /\ ctl' = Call("stmt")
        /\ code' = code \o (CondLines(ctl.val, ntemp, a, b) \o <<LabelDef(a)>>)
        /\ Top.form = "while-cond"
    BY <1>6 DEF WhileCond, Emit, Valued
  <2>2. f.vals = Top.vals /\ f.lab = Top.lab /\ f.form = "while-body"
    BY <1>3 DEF FrameOf
  <2> HIDE DEF f
  <2>3. Heads(f) = Heads(Top) /\ Pending(f) = {b} /\ Pending(Top) = {a, b}
    BY <2>1, <2>2 DEF Heads, Pending
  <2> HIDE DEF a, b
  <2>4. Pending(f) \subseteq Mine(Top) /\ a \in Mine(Top) /\ {a, b} \cap Labels(code) = {}
    BY <1>3, <2>3 DEF Mine
  <2> QED
    BY <1>4, <1>6, <2>1, <2>2, <2>3, <2>4
<1> QED
  BY <1>2, <1>5, <1>6

\* Steps that write jumps and labels.
LEMMA FlowJumps ==
    ASSUME IInv, TextInv, FlowInv, CallWhile \/ IfThen \/ IfElse \/ WhileBody
    PROVE  FlowInv'
<1>1. ctl.mode # "done"
  BY DEF CallWhile, IfThen, IfElse, WhileBody, StmtCalled
<1>2. /\ TypeOK /\ stack # <<>> /\ nlabel \in Nat /\ Top.lab \in Nat /\ Top \in FrameOf(Registers)
      /\ Labels(code) \subseteq 0..nlabel - 1
      /\ Pending(Top) \cap Labels(code) = {}
  BY <1>1, TopDues
<1>3. CASE CallWhile
  <2> DEFINE f == [Frame("while-cond", "?") EXCEPT !.lab = nlabel]
             j == <<Br(nlabel)>>
             b == <<LabelDef(nlabel)>>
             s == j \o b
             D == {nlabel}
  <2>1. stack' = Append(stack, f) /\ ctl' = Call("expr") /\ code' = code \o s
    <3>1. <<Br(nlabel), LabelDef(nlabel)>> = <<Br(nlabel)>> \o b
      OBVIOUS
    <3> QED
      BY <1>3, <3>1 DEF CallWhile, Enter, Emit
  <2>2. IsText(s) /\ Labels(s) = D /\ Targets(s) \subseteq D /\ ReadsHeld(s, Now)
    <3>1. JumpPiece(s, D, D)
      BY JumpLines
    <3> QED
      BY <3>1 DEF JumpPiece
  <2>3. f.lab = nlabel /\ f.form = "while-cond" /\ Holds(f) = {}
    BY NewFlow DEF Frame
  <2> HIDE DEF f
  <2>4. Heads(f) \cup Pending(f) \subseteq New
    BY <1>2, <2>3 DEF Heads, Pending, New
  <2>5. D \cap Labels(code) = {} /\ D \subseteq Mine(Top)
    BY <1>2 DEF Mine
  <2>6. D \cap Labels(code) \subseteq Heads(Top)
    BY <2>5
  <2> HIDE DEF s, D
  <2>7. Moves(s)
    BY <2>1, <2>3, <2>4 DEF Moves
  <2> QED
    BY <1>1, <2>1, <2>2, <2>5, <2>6, <2>7, JumpFlow
<1>4. CASE IfThen
  <2> DEFINE f == [Top EXCEPT !.form = "if-else", !.ret = ctl.ret]
             m == Top.lab + 1
             l == Top.lab + 2
             s == JumpUnless(ctl.ret, l) \o <<LabelDef(m)>>
             D == {m}
             E == {l}
  <2>1. Goto(f) /\ ctl' = Call("stmt") /\ code' = code \o s /\ Top.form = "if-then"
    BY <1>4 DEF IfThen, Emit
  <2>2. IsText(s) /\ Labels(s) = D /\ Targets(s) \subseteq E /\ ReadsHeld(s, Now)
    <3> DEFINE j == JumpUnless(ctl.ret, l)
    <3>1. j = <<>> \/ j = <<Br(l)>>
      BY DEF JumpUnless
    <3>2. s = j \o <<LabelDef(m)>>
      OBVIOUS
    <3> HIDE DEF j, s, m, l
    <3>3. JumpPiece(s, D, E)
      BY <3>1, <3>2, JumpLines DEF D, E
    <3> QED
      BY <3>3 DEF JumpPiece
  <2>3. f.vals = Top.vals /\ f.lab = Top.lab /\ f.form = "if-else"
    BY <1>2 DEF FrameOf
  <2> HIDE DEF f
  <2>4. Heads(f) = {} /\ Pending(f) = {l} /\ Pending(Top) = {m, l}
    BY <2>1, <2>3 DEF Heads, Pending
  <2>5. D \cap Labels(code) = {} /\ D \subseteq Mine(Top) /\ Pending(f) \subseteq Mine(Top)
    BY <1>2, <2>4 DEF Mine
  <2>6. E \cap Labels(code) \subseteq Heads(Top)
    BY <1>2, <2>4
  <2> HIDE DEF s, D, E
  <2>7. Moves(s)
    BY <2>1, <2>3, <2>4, <2>5 DEF Moves
  <2> QED
    BY <1>1, <2>1, <2>2, <2>5, <2>6, <2>7, JumpFlow
<1>5. CASE IfElse
  <2> DEFINE l == Top.lab + 2
             j == JumpUnless(ctl.ret, l)
             b == <<LabelDef(l)>>
             E == {l}
  <2>1. /\ stack' = Below /\ Top.form = "if-else" /\ \E r : ctl' = Did(r, NoValue)
        /\ code' = code \o (j \o b) \/ code' = code \o (j \o <<>>)
    BY <1>5 DEF IfElse, Finish, Emit, BranchValue
  <2>2. j \o <<>> = j
    <3>1. IsText(j) /\ IsText(<<>>)
      BY JumpLines, EmptyTakes DEF Takes, JumpUnless, JumpPiece
    <3> HIDE DEF j
    <3> QED
      BY <3>1, Joined
  <2>3. Pending(Top) = {l}
    BY <2>1 DEF Pending
  <2>4. PICK s, D : /\ IsText(s) /\ Labels(s) = D /\ Targets(s) \subseteq E /\ ReadsHeld(s, Now)
                    /\ D \subseteq {l} /\ code' = code \o s
    <3> DEFINE jb == j \o b
    <3>0. j = <<>> \/ j = <<Br(l)>>
      BY DEF JumpUnless
    <3>1. IsText(jb) /\ Labels(jb) = {l} /\ Targets(jb) \subseteq E /\ ReadsHeld(jb, Now)
      <4> HIDE DEF l, j
      <4> QED
        BY <3>0, JumpLines DEF JumpPiece
    <3>2. IsText(j) /\ Labels(j) = {} /\ Targets(j) \subseteq E /\ ReadsHeld(j, Now)
      <4> HIDE DEF l, j
      <4> QED
        BY <3>0, JumpLines DEF JumpPiece
    <3>3. code' = code \o jb \/ code' = code \o j
      BY <2>1, <2>2
    <3>4. {l} \subseteq {l} /\ {} \subseteq {l}
      OBVIOUS
    <3> HIDE DEF jb, j, E, l
    <3> QED
      BY <3>1, <3>2, <3>3, <3>4
  <2>5. D \cap Labels(code) = {} /\ D \subseteq Mine(Top) /\ E \cap Labels(code) \subseteq Heads(Top)
    <3> HIDE DEF l
    <3> QED
      BY <1>2, <2>3, <2>4 DEF Mine
  <2>6. Moves(s)
    BY <2>1 DEF Moves
  <2> HIDE DEF E
  <2> QED
    BY <1>1, <2>1, <2>4, <2>5, <2>6, JumpFlow
<1>6. CASE WhileBody
  <2> DEFINE l == Top.lab + 2
             h == Top.lab
             s == JumpUnless(ctl.ret, h) \o <<LabelDef(l)>>
             D == {l}
             E == {h}
  <2>1. /\ stack' = Below /\ Top.form = "while-body" /\ \E r : ctl' = Did(r, NoValue)
        /\ code' = code \o s
    BY <1>6 DEF WhileBody, Finish, Emit, LoopHead
  <2>2. IsText(s) /\ Labels(s) = D /\ Targets(s) \subseteq E /\ ReadsHeld(s, Now)
    <3> DEFINE j == JumpUnless(ctl.ret, h)
    <3>1. j = <<>> \/ j = <<Br(h)>>
      BY DEF JumpUnless
    <3>2. s = j \o <<LabelDef(l)>>
      OBVIOUS
    <3> HIDE DEF j, s, l, h
    <3>3. JumpPiece(s, D, E)
      BY <3>1, <3>2, JumpLines DEF D, E
    <3> QED
      BY <3>3 DEF JumpPiece
  <2>3. Pending(Top) = {l} /\ Heads(Top) = {h}
    BY <2>1 DEF Heads, Pending
  <2>4. D \cap Labels(code) = {} /\ D \subseteq Mine(Top) /\ E \cap Labels(code) \subseteq Heads(Top)
    BY <1>2, <2>3 DEF Mine
  <2> HIDE DEF s, D, E
  <2>5. Moves(s)
    BY <2>1 DEF Moves
  <2> QED
    BY <1>1, <2>1, <2>2, <2>4, <2>5, JumpFlow
<1> QED
  BY <1>3, <1>4, <1>5, <1>6

\* The text starts with lines that read the parameters only.
LEMMA FlowInitially ==
    ASSUME Init
    PROVE  FlowInv
<1> DEFINE H == Under(stack, Len(stack) + 1)
<1>1. UsesSound(code, H)
  <2>1. /\ DOMAIN code = 1..2 * Len(Params)
        /\ \A i \in 1..2 * Len(Params) : \E p : code[i].use \subseteq {ParamSlot(p)}
    BY HeaderIs DEF Init
  <2>2. \A p : ParamSlot(p) \notin Temps
    BY NewFlow DEF ParamSlot
  <2>3. \A i \in DOMAIN code : code[i].use \cap Temps = {}
    BY <2>1, <2>2
  <2> HIDE DEF H
  <2> QED
    BY <2>3 DEF UsesSound
<1>2. \A k \in DOMAIN stack : Holds(stack[k]) = {}
  <2>1. DOMAIN stack = {1} /\ stack[1] = ListFrame("body")
    BY DEF Init
  <2>2. "body" \notin BranchForms
    BY DEF BranchForms
  <2> QED
    BY <2>1, <2>2, NewFlow
<1>3. ctl.val.reg \cap Temps \subseteq Now
  BY NewFlow DEF Init
<1> QED
  BY <1>1, <1>2, <1>3 DEF FlowInv

LEMMA FlowInductive ==
    ASSUME IInv, TextInv, FlowInv, [Next]_vars
    PROVE  FlowInv'
<1>1. CASE Statements
  BY <1>1, FlowCalls, FlowJumps DEF Statements
<1>2. CASE Expressions
  BY <1>2, FlowCalls, FlowLoads, FlowCallsNoArgs, FlowOperands DEF Expressions
<1>3. CASE Results
  BY <1>3, FlowReturns, FlowLets, FlowLists, FlowConds, FlowJumps DEF Results
<1>4. CASE Lists
  BY <1>4, FlowCalls, FlowLists, FlowEnds DEF Lists
<1>5. CASE UNCHANGED vars
  BY <1>5 DEF vars, FlowInv, Now
<1> QED
  BY <1>1, <1>2, <1>3, <1>4, <1>5 DEF Next, Finished

\* No way from the first line reaches a read of a temporary around its definer.
LEMMA ReadsDominated ==
    ASSUME NEW c, NEW n \in Nat, DOMAIN c = 1..n, Named(c), UsesSound(c, {}), NEW r \in Temps
    PROVE  Dominated(c, r)
<1> DEFINE A == Definers(c, r)
           from == Entry(c)
<1>1. from \subseteq {1} /\ from \in SUBSET (1..n) /\ \A d \in DOMAIN c : r \in c[d].def => d \in A
  BY DEF Entry, Definers
<1> SUFFICES ASSUME NEW i \in 1..n, r \in c[i].use
             PROVE  i \notin Reach(c, from, A)
  BY DEF Dominated
<1>2. PICK d \in 1..i - 1 : c[i].op # "label" /\ r \in c[d].def /\ Guarded(c, d, i, {})
  BY DEF UsesSound
<1> DEFINE K == (1..n) \ (d..i)
<1>3. d \in 1..n /\ d \in A /\ d \in Nat /\ d >= 1 /\ i \in d..i
  BY <1>1, <1>2
<1>4. from \ A \subseteq K /\ K \in SUBSET (1..n)
  <2>1. ASSUME NEW x \in from \ A
        PROVE  x \in 1..n /\ x \notin d..i
    <3>1. x = 1 /\ x # d /\ x \in 1..n
      BY <1>1, <1>3, <2>1
    <3> HIDE DEF from, A
    <3> QED
      BY <1>3, <3>1
  <2> QED
    BY <2>1
<1> HIDE DEF A, from
<1>5. Closed(c, K, A)
  <2> SUFFICES ASSUME NEW x \in K, NEW y \in Successors(c, x), y \notin A
               PROVE  y \in K
    BY DEF Closed
  <2> SUFFICES ASSUME y \in d..i
               PROVE  FALSE
    BY DEF Successors
  <2>1. y \in d + 1..i /\ x \in 1..n /\ x \notin d..i
    BY <1>3
  <2>2. CASE c[x].op = "ret"
    BY <2>2 DEF Successors
  <2>3. CASE c[x].op = "br"
    <3>1. y \in 1..n /\ c[y].op = "label" /\ c[y].to \subseteq c[x].to
      BY <2>3 DEF Successors
    <3>2. PICK l : l \in c[y].to
      BY <3>1 DEF Named
    <3>3. Lands(c, y, l) /\ Jumps(c, x, l)
      BY <2>3, <3>1, <3>2 DEF Lands, Jumps
    <3>4. y # i /\ y \in d + 1..i - 1
      BY <1>2, <2>1, <3>1
    <3>5. d < x /\ x < i
      BY <1>2, <2>1, <3>3, <3>4 DEF Guarded
    <3> QED
      BY <1>3, <2>1, <3>5
  <2>4. CASE c[x].op \notin {"ret", "br"}
    <3>1. y = x + 1
      BY <2>4 DEF Successors
    <3> QED
      BY <1>3, <2>1, <3>1
  <2> QED
    BY <2>2, <2>3, <2>4
<1>6. Reach(c, from, A) \subseteq K
  <2> HIDE DEF K
  <2> QED
    BY <1>1, <1>4, <1>5, Reachable
<1> QED
  BY <1>3, <1>6

\* In a finished function every way to a read of a temporary passes the line that
\* assigns it, for every program: a branch of an if, a loop body, an operand that
\* is itself converted or a value held while another is compiled never leaves a
\* read that a jump could reach without its definer (stmt.c:197-283, expr.c:792-847).
THEOREM TempsAssigned == Spec => []TempsDominate
<1>1. Init => IInv /\ TextInv /\ FlowInv
  BY Initially, TextInitially, FlowInitially DEF IInv
<1>2. IInv /\ TextInv /\ FlowInv /\ [Next]_vars => IInv' /\ TextInv' /\ FlowInv'
  BY Inductive, TextInductive, FlowInductive
<1>3. IInv /\ TextInv /\ FlowInv => TempsDominate
  <2> SUFFICES ASSUME IInv, TextInv, FlowInv, ctl.mode = "done"
               PROVE  \A n \in 0..ntemp - 1 : Dominated(code, Temp(n))
    BY DEF TempsDominate
  <2>1. stack = <<>> /\ TypeOK
    BY DEF IInv, TypeInv, StackDiscipline
  <2>2. DOMAIN code = 1..Len(code) /\ Len(code) \in Nat /\ ntemp \in Nat
    BY <2>1 DEF TypeOK
  <2>3. UsesSound(code, {})
    <3>1. Under(stack, Len(stack) + 1) = {}
      <4>1. DOMAIN stack = {}
        BY <2>1
      <4> QED
        BY <4>1 DEF Under
    <3> QED
      BY <3>1 DEF FlowInv
  <2>4. Named(code)
    BY DEF TextInv, TextHeld
  <2>5. \A n \in 0..ntemp - 1 : Temp(n) \in Temps
    BY <2>2 DEF Temps
  <2> QED
    BY <2>2, <2>3, <2>4, <2>5, ReadsDominated
<1> QED
  BY <1>1, <1>2, <1>3, PTL DEF Spec

-----------------------------------------------------------------------------
(* Ways to a return.                                                       *)

\* Control at a line comes to a return or to a later line.
Escapes(c, x) == \A K \in SUBSET DOMAIN c : Closed(c, K, {}) /\ x \in K =>
                     \E y \in K : c[y].op = "ret" \/ y > x
\* Control at a line comes to a return or to a branch to the label.
Leaves(c, h, l) == \A K \in SUBSET DOMAIN c : Closed(c, K, {}) /\ h \in K =>
                       \E y \in K : c[y].op = "ret" \/ Jumps(c, y, l)

\* A branch goes on, or to a label that is still to come.
LeadsOn(c) == \A x \in DOMAIN c : c[x].op = "br" => Escapes(c, x) \/ ~(c[x].to \subseteq Labels(c))

IsHead(c, h, l) == h \in DOMAIN c /\ c[h].op = "label" /\ c[h].to = {l}
Within(c, h, L) == \A b \in DOMAIN c : b > h /\ c[b].op = "br" => c[b].to \subseteq L

\* The labels that activations from the k-th one on have promised to branches.
Free(st, k) == UNION {Promised(st[m]) : m \in {x \in DOMAIN st : x >= k}}

\* What follows the head of an open loop branches to labels there are or that the
\* loop will define; from the head of a loop in its body, control comes to the
\* branch that leaves it.
LoopHeld(c, st, k) == \A l \in Heads(st[k]) : \E h :
                         /\ IsHead(c, h, l)
                         /\ Within(c, h, Labels(c) \cup Free(st, k))
                         /\ st[k].form = "while-body" => Leaves(c, h, l + 2)

TrapInv == LeadsOn(code) /\ \A k \in DOMAIN stack : LoopHeld(code, stack, k)

LEMMA FreeIs ==
    ASSUME NEW st, NEW k
    PROVE  \A l : l \in Free(st, k) <=> \E m \in DOMAIN st : m >= k /\ l \in Promised(st[m])
BY DEF Free

\* What is closed in a longer text is closed in its beginning.
LEMMA ClosedPart ==
    ASSUME NEW c, NEW s, IsText(c), IsText(s), NEW K \in SUBSET DOMAIN (c \o s), Closed(c \o s, K, {})
    PROVE  K \cap DOMAIN c \in SUBSET DOMAIN c /\ Closed(c, K \cap DOMAIN c, {})
<1> DEFINE e == c \o s
           K0 == K \cap DOMAIN c
<1>1. /\ \A i \in DOMAIN c : i \in DOMAIN e /\ e[i] = c[i]
  <2>1. /\ DOMAIN c = 1..Len(c) /\ DOMAIN e = 1..Len(c) + Len(s) /\ Len(c) \in Nat /\ Len(s) \in Nat
        /\ \A i \in 1..Len(c) : e[i] = c[i]
    BY ONLY Joined, IsText(c), IsText(s)
  <2> QED
    BY <2>1
<1> HIDE DEF e
<1>2. ASSUME NEW i \in DOMAIN c
      PROVE  Successors(c, i) \subseteq Successors(e, i) \cap DOMAIN c
  BY <1>1 DEF Successors
<1>3. \A i \in K0 : Successors(e, i) \subseteq K
  BY DEF Closed, e
<1> QED
  BY <1>2, <1>3 DEF Closed

LEMMA EscapesOn ==
    ASSUME NEW c, NEW s, IsText(c), IsText(s)
    PROVE  /\ \A x \in DOMAIN c : Escapes(c, x) => Escapes(c \o s, x)
           /\ \A h \in DOMAIN c : \A l : Leaves(c, h, l) => Leaves(c \o s, h, l)
<1> DEFINE e == c \o s
<1>1. \A i \in DOMAIN c : i \in DOMAIN e /\ e[i] = c[i]
  <2>1. /\ DOMAIN c = 1..Len(c) /\ DOMAIN e = 1..Len(c) + Len(s) /\ Len(c) \in Nat /\ Len(s) \in Nat
        /\ \A i \in 1..Len(c) : e[i] = c[i]
    BY ONLY Joined, IsText(c), IsText(s)
  <2> QED
    BY <2>1
<1>2. \A K \in SUBSET DOMAIN e : Closed(e, K, {}) =>
          K \cap DOMAIN c \in SUBSET DOMAIN c /\ Closed(c, K \cap DOMAIN c, {})
  BY ClosedPart
<1> HIDE DEF e
<1>3. ASSUME NEW x \in DOMAIN c, Escapes(c, x)
      PROVE  Escapes(e, x)
  <2> SUFFICES ASSUME NEW K \in SUBSET DOMAIN e, Closed(e, K, {}), x \in K
               PROVE  \E y \in K : e[y].op = "ret" \/ y > x
    BY DEF Escapes
  <2>1. PICK y \in K \cap DOMAIN c : c[y].op = "ret" \/ y > x
    BY <1>2, <1>3 DEF Escapes
  <2> QED
    BY <1>1, <2>1
<1>4. ASSUME NEW h \in DOMAIN c, NEW l, Leaves(c, h, l)
      PROVE  Leaves(e, h, l)
  <2> SUFFICES ASSUME NEW K \in SUBSET DOMAIN e, Closed(e, K, {}), h \in K
               PROVE  \E y \in K : e[y].op = "ret" \/ Jumps(e, y, l)
    BY DEF Leaves
  <2>1. PICK y \in K \cap DOMAIN c : c[y].op = "ret" \/ Jumps(c, y, l)
    BY <1>2, <1>4 DEF Leaves
  <2> QED
    BY <1>1, <2>1 DEF Jumps
<1> QED
  BY <1>3, <1>4 DEF e

\* A label line has one label.
Single(s) == \A i \in DOMAIN s : s[i].op = "label" => \E l : s[i].to = {l}
\* A branch that has one of its labels after it.
Forward(s, i) == \E j \in DOMAIN s : j > i /\ s[j].op = "label" /\ s[j].to \subseteq s[i].to

LEMMA ForwardEscapes ==
    ASSUME NEW c, NEW x \in DOMAIN c, c[x].op = "br", Forward(c, x)
    PROVE  Escapes(c, x)
<1>1. PICK j \in DOMAIN c : j > x /\ j \in Successors(c, x)
  BY DEF Forward, Successors
<1> QED
  BY <1>1 DEF Escapes, Closed

\* Branches keep leading on when a piece is added whose branches do.
LEMMA LeadsOnward ==
    ASSUME NEW c, NEW s, IsText(c), IsText(s), LeadsOn(c), Single(s),
           \A i \in DOMAIN s : s[i].op = "br" => \/ Forward(s, i)
                                                 \/ ~(s[i].to \subseteq Labels(c \o s))
                                                 \/ Escapes(c \o s, Len(c) + i)
    PROVE  LeadsOn(c \o s)
<1> DEFINE e == c \o s
           n == Len(c)
<1>1. /\ n \in Nat /\ Len(s) \in Nat /\ DOMAIN c = 1..n /\ DOMAIN s = 1..Len(s)
      /\ DOMAIN e = 1..n + Len(s)
      /\ \A i \in 1..n : e[i] = c[i] /\ i \in 1..n + Len(s)
      /\ \A i \in 1..Len(s) : n + i \in 1..n + Len(s) /\ e[n + i] = s[i]
      /\ \A i \in 1..n + Len(s) : i \in 1..n \/ \E j \in 1..Len(s) : i = n + j
      /\ \A i \in 1..n : \A j \in 1..Len(s) : n + j > i
      /\ \A i, j \in 1..Len(s) : j > i => n + j > n + i
  <2>1. /\ DOMAIN c = 1..Len(c) /\ DOMAIN s = 1..Len(s) /\ DOMAIN (c \o s) = 1..Len(c) + Len(s)
        /\ Len(c) \in Nat /\ Len(s) \in Nat
        /\ \A i \in 1..Len(c) : (c \o s)[i] = c[i]
        /\ \A i \in 1..Len(s) : Len(c) + i \in 1..Len(c) + Len(s) /\ (c \o s)[Len(c) + i] = s[i]
        /\ \A i \in 1..Len(c) + Len(s) : i \in 1..Len(c) \/ \E j \in 1..Len(s) : i = Len(c) + j
    BY ONLY Joined, IsText(c), IsText(s)
  <2> QED
    BY <2>1
<1>2. Labels(e) = Labels(c) \cup Labels(s)
  BY ONLY JoinedLabels, IsText(c), IsText(s)
<1>3. \A x \in 1..n : Escapes(c, x) => Escapes(e, x)
  BY <1>1, EscapesOn
<1>4. \A i \in 1..Len(s) : s[i].op = "br" => \/ Forward(s, i)
                                             \/ ~(s[i].to \subseteq Labels(e))
                                             \/ Escapes(e, n + i)
  BY <1>1
<1> HIDE DEF e, n
<1>5. ASSUME NEW x \in DOMAIN e, e[x].op = "br", e[x].to \subseteq Labels(e)
      PROVE  Escapes(e, x)
  <2>1. CASE x \in 1..n
    <3>1. CASE Escapes(c, x)
      BY <1>3, <2>1, <3>1
    <3>2. CASE ~(c[x].to \subseteq Labels(c))
      <4>1. PICK l \in c[x].to : l \notin Labels(c)
        BY <3>2
      <4>2. l \in Labels(s) /\ l \in e[x].to
        BY <1>1, <1>2, <1>5, <2>1, <4>1
      <4>3. PICK j \in DOMAIN s : s[j].op = "label" /\ l \in s[j].to
        BY <4>2 DEF Labels
      <4>4. s[j].to = {l}
        BY <4>3 DEF Single
      <4>5. n + j \in DOMAIN e /\ n + j > x /\ e[n + j].op = "label" /\ e[n + j].to \subseteq e[x].to
        BY <1>1, <2>1, <4>2, <4>3, <4>4
      <4>6. Forward(e, x)
        BY <4>5 DEF Forward
      <4> QED
        BY <1>5, <4>6, ForwardEscapes
    <3> QED
      BY <1>1, <1>5, <2>1, <3>1, <3>2 DEF LeadsOn
  <2>2. CASE x \notin 1..n
    <3>1. PICK i \in 1..Len(s) : x = n + i
      BY <1>1, <2>2
    <3>2. CASE Forward(s, i)
      <4>1. PICK j \in 1..Len(s) : j > i /\ s[j].op = "label" /\ s[j].to \subseteq s[i].to
        BY <1>1, <3>2 DEF Forward
      <4>2. n + j \in DOMAIN e /\ n + j > x /\ e[n + j].op = "label" /\ e[n + j].to \subseteq e[x].to
        BY <1>1, <3>1, <4>1
      <4>3. Forward(e, x)
        BY <4>2 DEF Forward
      <4> QED
        BY <1>5, <4>3, ForwardEscapes
    <3> QED
      BY <1>1, <1>4, <1>5, <3>1, <3>2
  <2> QED
    BY <2>1, <2>2
<1> QED
  BY <1>5 DEF LeadsOn, e

LEMMA JoinedAt ==
    ASSUME NEW c, NEW s, IsText(c), IsText(s)
    PROVE  /\ DOMAIN c = 1..Len(c) /\ DOMAIN s = 1..Len(s) /\ DOMAIN (c \o s) = 1..Len(c) + Len(s)
           /\ Len(c) \in Nat /\ Len(s) \in Nat
           /\ \A i \in 1..Len(c) : (c \o s)[i] = c[i]
           /\ \A i \in 1..Len(s) : Len(c) + i \in 1..Len(c) + Len(s) /\ (c \o s)[Len(c) + i] = s[i]
           /\ \A i \in 1..Len(c) + Len(s) : i \in 1..Len(c) \/ \E j \in 1..Len(s) : i = Len(c) + j
BY ONLY Joined, IsText(c), IsText(s)

\* A loop that was open stays as it was.
LEMMA LoopStays ==
    ASSUME NEW c, NEW s, IsText(c), IsText(s), NEW st, NEW k, LoopHeld(c, st, k), NEW st2,
           Heads(st2[k]) \subseteq Heads(st[k]),
           Targets(s) \cup Free(st, k) \subseteq Labels(c \o s) \cup Free(st2, k),
           st2[k].form = "while-body" =>
              \/ st[k].form = "while-body"
              \/ \A l \in Heads(st2[k]) : \A h :
                    IsHead(c, h, l) /\ Within(c, h, Labels(c) \cup Free(st, k)) => Leaves(c \o s, h, l + 2)
    PROVE  LoopHeld(c \o s, st2, k)
<1> DEFINE e == c \o s
           n == Len(c)
<1>1. /\ n \in Nat /\ Len(s) \in Nat /\ DOMAIN c = 1..n /\ DOMAIN s = 1..Len(s)
      /\ DOMAIN e = 1..n + Len(s)
      /\ \A i \in 1..n : e[i] = c[i] /\ i \in 1..n + Len(s)
      /\ \A i \in 1..Len(s) : n + i \in 1..n + Len(s) /\ e[n + i] = s[i]
      /\ \A i \in 1..n + Len(s) : i \in 1..n \/ \E j \in 1..Len(s) : i = n + j
  <2>1. /\ DOMAIN c = 1..Len(c) /\ DOMAIN s = 1..Len(s) /\ DOMAIN (c \o s) = 1..Len(c) + Len(s)
        /\ Len(c) \in Nat /\ Len(s) \in Nat
        /\ \A i \in 1..Len(c) : (c \o s)[i] = c[i]
        /\ \A i \in 1..Len(s) : Len(c) + i \in 1..Len(c) + Len(s) /\ (c \o s)[Len(c) + i] = s[i]
        /\ \A i \in 1..Len(c) + Len(s) : i \in 1..Len(c) \/ \E j \in 1..Len(s) : i = Len(c) + j
    BY ONLY Joined, IsText(c), IsText(s)
  <2> QED
    BY <2>1
<1>2. Labels(e) = Labels(c) \cup Labels(s)
  BY ONLY JoinedLabels, IsText(c), IsText(s)
<1>3. \A h \in 1..n : \A l : Leaves(c, h, l) => Leaves(e, h, l)
  BY <1>1, EscapesOn
<1>4. \A i \in 1..Len(s) : s[i].op = "br" => s[i].to \subseteq Targets(s)
  BY <1>1 DEF Targets
<1> SUFFICES ASSUME NEW l \in Heads(st2[k])
             PROVE  \E h : /\ IsHead(e, h, l)
                           /\ Within(e, h, Labels(e) \cup Free(st2, k))
                           /\ st2[k].form = "while-body" => Leaves(e, h, l + 2)
  BY DEF LoopHeld
<1>5. PICK h : /\ IsHead(c, h, l)
               /\ Within(c, h, Labels(c) \cup Free(st, k))
               /\ st[k].form = "while-body" => Leaves(c, h, l + 2)
  BY DEF LoopHeld
<1>6. Targets(s) \cup Free(st, k) \subseteq Labels(e) \cup Free(st2, k)
  OBVIOUS
<1>7. st2[k].form = "while-body" => st[k].form = "while-body" \/ Leaves(e, h, l + 2)
  BY <1>5
<1> HIDE DEF e, n
<1>8. IsHead(e, h, l) /\ h \in 1..n
  BY <1>1, <1>5 DEF IsHead
<1>9. Within(e, h, Labels(e) \cup Free(st2, k))
  <2> SUFFICES ASSUME NEW b \in 1..n + Len(s), b > h, e[b].op = "br"
               PROVE  e[b].to \subseteq Labels(e) \cup Free(st2, k)
    BY <1>1 DEF Within
  <2>1. CASE b \in 1..n
    <3>1. c[b].to \subseteq Labels(c) \cup Free(st, k)
      BY <1>1, <1>5, <2>1 DEF Within
    <3> QED
      BY <1>1, <1>2, <1>6, <2>1, <3>1
  <2>2. CASE b \notin 1..n
    <3>1. PICK i \in 1..Len(s) : b = n + i
      BY <1>1, <2>2
    <3> QED
      BY <1>1, <1>4, <1>6, <3>1
  <2> QED
    BY <2>1, <2>2
<1>10. st2[k].form = "while-body" => Leaves(e, h, l + 2)
  BY <1>3, <1>5, <1>7, <1>8
<1> QED
  BY <1>8, <1>9, <1>10

\* The condition of a loop ends in a branch that leaves it: control that is at the
\* head cannot stay in the lines before.
LEMMA LoopLeft ==
    ASSUME NEW c, NEW s, IsText(c), IsText(s), LeadsOn(c), NEW h, NEW l, IsHead(c, h, l),
           Within(c, h, Labels(c)), NEW m, NEW p \in DOMAIN s, s[p].op = "br", m \in s[p].to,
           \A q \in DOMAIN s : q < p => s[q].op \in {"inst", "ret"}
    PROVE  Leaves(c \o s, h, m)
<1> DEFINE e == c \o s
           n == Len(c)
<1>1. /\ n \in Nat /\ Len(s) \in Nat /\ DOMAIN c = 1..n /\ DOMAIN s = 1..Len(s) /\ p \in Nat /\ p \in 1..Len(s)
      /\ DOMAIN e = 1..n + Len(s)
      /\ \A i \in 1..n : e[i] = c[i] /\ i \in 1..n + Len(s) /\ i \in 1..n + p
      /\ \A i \in 1..Len(s) : n + i \in 1..n + Len(s) /\ e[n + i] = s[i]
      /\ \A i \in 1..n + p : i \in 1..n \/ \E j \in 1..Len(s) : i = n + j /\ j <= p
  <2>1. /\ DOMAIN c = 1..Len(c) /\ DOMAIN s = 1..Len(s) /\ DOMAIN (c \o s) = 1..Len(c) + Len(s)
        /\ Len(c) \in Nat /\ Len(s) \in Nat
        /\ \A i \in 1..Len(c) : (c \o s)[i] = c[i]
        /\ \A i \in 1..Len(s) : Len(c) + i \in 1..Len(c) + Len(s) /\ (c \o s)[Len(c) + i] = s[i]
        /\ \A i \in 1..Len(c) + Len(s) : i \in 1..Len(c) \/ \E j \in 1..Len(s) : i = Len(c) + j
    BY JoinedAt
  <2>2. p \in 1..Len(s) /\ \A i \in 1..n + p : i \in 1..n + Len(s) /\ \A j \in 1..Len(s) : i = n + j => j <= p
    BY <2>1
  <2>3. p \in Nat /\ \A i \in 1..n : i \in 1..n + p
    BY <2>1, <2>2
  <2> QED
    BY <2>1, <2>2, <2>3
<1>2. \A K \in SUBSET DOMAIN e : Closed(e, K, {}) =>
          K \cap DOMAIN c \in SUBSET DOMAIN c /\ Closed(c, K \cap DOMAIN c, {})
  BY ClosedPart
<1> HIDE DEF e, n
<1> SUFFICES ASSUME NEW K \in SUBSET DOMAIN e, Closed(e, K, {}), h \in K,
                    \A y \in K : e[y].op # "ret" /\ ~Jumps(e, y, m)
             PROVE  FALSE
  BY DEF Leaves, e
<1> DEFINE K1 == K \cap (1..n + p)
<1>3. PICK x \in K1 : \A y \in K1 : y <= x
  <2>1. K1 \in SUBSET (1..n + p) /\ n + p \in Nat /\ h \in K1
    BY <1>1 DEF IsHead
  <2> HIDE DEF K1
  <2> QED
    BY <2>1, Greatest
<1>4. h \in 1..n /\ h <= x /\ e[h].op = "label" /\ x \in 1..n + p
  BY <1>1, <1>3 DEF IsHead
<1>5. ASSUME e[x].op \notin {"br", "ret"}, x # n + p
      PROVE  FALSE
  <2>1. x + 1 \in 1..n + p /\ x + 1 \in DOMAIN e /\ ~(x + 1 <= x)
    <3> DEFINE u == n + p  w == n + Len(s)
    <3>1. u \in Nat /\ w \in Nat /\ u <= w
      BY <1>1
    <3>2. x \in 1..u /\ x # u /\ DOMAIN e = 1..w
      BY <1>1, <1>4, <1>5
    <3> HIDE DEF u, w
    <3>3. x + 1 \in 1..u /\ x + 1 \in 1..w /\ ~(x + 1 <= x)
      BY <3>1, <3>2
    <3> QED
      BY <3>2, <3>3 DEF u
  <2>2. x + 1 \in Successors(e, x)
    BY <1>5, <2>1 DEF Successors
  <2>3. x + 1 \in K
    BY <1>3, <2>2 DEF Closed
  <2> QED
    BY <1>3, <2>1, <2>3
<1>6. CASE x \in 1..n
  <2>1. e[x] = c[x] /\ x # n + p /\ x \in K
    BY <1>1, <1>3, <1>6
  <2>2. c[x].op = "br"
    BY <1>5, <2>1
  <2>3. x > h
    <3>1. x # h
      BY <1>4, <2>1, <2>2
    <3> QED
      BY <1>1, <1>4, <1>6, <3>1
  <2>4. c[x].to \subseteq Labels(c)
    BY <1>1, <1>6, <2>2, <2>3 DEF Within
  <2>5. Escapes(c, x)
    BY <1>1, <1>6, <2>2, <2>4 DEF LeadsOn
  <2>6. PICK y \in K \cap DOMAIN c : c[y].op = "ret" \/ y > x
    BY <1>1, <1>2, <1>6, <2>1, <2>5 DEF Escapes
  <2>7. y \in K1 /\ e[y] = c[y]
    BY <1>1, <2>6
  <2>8. y <= x /\ y \in Nat /\ x \in Nat
    BY <1>1, <1>3, <1>6, <2>6, <2>7
  <2> QED
    BY <2>6, <2>7, <2>8
<1>7. CASE x \notin 1..n
  <2>1. PICK q \in 1..Len(s) : x = n + q /\ q <= p
    BY <1>1, <1>4, <1>7
  <2>2. CASE q = p
    <3>1. Jumps(e, x, m)
      BY <1>1, <2>1, <2>2 DEF Jumps
    <3> QED
      BY <1>3, <3>1
  <2>3. CASE q # p
    <3>1. q < p /\ x # n + p
      BY <1>1, <2>1, <2>3
    <3>2. e[x].op \in {"inst", "ret"}
      BY <1>1, <2>1, <3>1
    <3> QED
      BY <1>3, <1>5, <3>1, <3>2
  <2> QED
    BY <2>2, <2>3
<1> QED
  BY <1>6, <1>7

\* What a step that writes s does to the loops and to what is promised.
MovesOn(s) ==
    \/ stack' = stack /\ Targets(s) \subseteq Labels(code')
    \/ stack' = Below /\ Targets(s) \cup Promised(Top) \subseteq Labels(code')
    \/ \E f : /\ stack' = Append(stack, f) /\ Targets(s) \subseteq Labels(code') \cup Promised(f)
              /\ Heads(f) = {} \/ (f.form # "while-body" /\ \A l \in Heads(f) : IsHead(code', Len(code'), l))
    \/ \E f : /\ Goto(f) /\ Targets(s) \cup Promised(Top) \subseteq Labels(code') \cup Promised(f)
              /\ \/ Heads(f) = {}
                 \/ /\ Heads(f) \subseteq Heads(Top)
                    /\ \A l \in Heads(f) : \A h :
                          IsHead(code, h, l) /\ Within(code, h, Labels(code) \cup Promised(Top))
                              => Leaves(code', h, l + 2)

LEMMA TrapStep ==
    ASSUME TypeOK, stack # <<>>, TrapInv, NEW s, IsText(s), code' = code \o s, MovesOn(s), Single(s),
           \A i \in DOMAIN s : s[i].op = "br" => \/ Forward(s, i)
                                                 \/ ~(s[i].to \subseteq Labels(code'))
                                                 \/ Escapes(code', Len(code) + i)
    PROVE  TrapInv'
<1> DEFINE n == Len(stack)
           L == Labels(code')
           E == Targets(s)
<1>0. IsText(code)
  BY CodeIs
<1>1. LeadsOn(code')
  <2>1. LeadsOn(code) /\ code' = code \o s
    BY DEF TrapInv
  <2> QED
    BY <1>0, <2>1, LeadsOnward
<1>2. /\ n \in Nat /\ n > 0 /\ DOMAIN stack = 1..n /\ Top = stack[n] /\ n \in 1..n
      /\ \A k \in DOMAIN stack : LoopHeld(code, stack, k)
  BY DEF TypeOK, Top, TrapInv
<1>3. \A k : Free(stack, k) = Free(stack, k) /\ \A l : l \in Free(stack, k) <=>
             \E m \in 1..n : m >= k /\ l \in Promised(stack[m])
  BY <1>2, FreeIs
<1>4. ASSUME NEW k \in DOMAIN stack, Heads(stack'[k]) \subseteq Heads(stack[k]),
             stack'[k].form = stack[k].form,
             E \cup Free(stack, k) \subseteq L \cup Free(stack', k)
      PROVE  LoopHeld(code', stack', k)
  <2>1. LoopHeld(code, stack, k) /\ code' = code \o s
    BY <1>2
  <2> HIDE DEF n
  <2>2. LoopHeld(code \o s, stack', k)
    BY <1>0, <1>4, <2>1, LoopStays
  <2> QED
    BY <2>2
<1>5. CASE stack' = stack /\ E \subseteq L
  <2>1. \A k \in DOMAIN stack : LoopHeld(code', stack', k)
    BY <1>4, <1>5
  <2> QED
    BY <1>1, <1>5, <2>1 DEF TrapInv
<1>6. CASE stack' = Below /\ E \cup Promised(Top) \subseteq L
  <2> DEFINE S == FrameOf(Registers)
  <2>1. stack \in Seq(S) /\ stack' = SubSeq(stack, 1, Len(stack) - 1)
    BY <1>6 DEF TypeOK, Below
  <2> HIDE DEF S
  <2>2. stack' \in Seq(S) /\ Len(stack') = n - 1 /\ \A i \in 1..n - 1 : stack'[i] = stack[i]
    BY <2>1, BelowIs
  <2>3. DOMAIN stack' = 1..n - 1 /\ \A i \in 1..n : i \in 1..n - 1 \/ i = n
    <3>1. DOMAIN stack' = 1..Len(stack')
      BY <2>2
    <3> HIDE DEF n
    <3> QED
      BY <1>2, <2>2, <3>1
  <2>4. ASSUME NEW k
        PROVE  Free(stack, k) \subseteq L \cup Free(stack', k)
    <3> SUFFICES ASSUME NEW l \in Free(stack, k)
                 PROVE  l \in L \/ l \in Free(stack', k)
      OBVIOUS
    <3> HIDE DEF n, L
    <3>1. PICK m \in 1..n : m >= k /\ l \in Promised(stack[m])
      BY <1>3
    <3>2. CASE m = n
      BY <1>2, <1>6, <3>1, <3>2
    <3>3. CASE m \in 1..n - 1
      <4>1. m \in DOMAIN stack' /\ l \in Promised(stack'[m])
        BY <2>2, <2>3, <3>1, <3>3
      <4> QED
        BY <3>1, <4>1, FreeIs
    <3> QED
      BY <2>3, <3>2, <3>3
  <2>5. \A k \in DOMAIN stack' : k \in DOMAIN stack /\ stack'[k] = stack[k]
    <3> HIDE DEF n
    <3> QED
      BY <1>2, <2>2, <2>3
  <2>6. \A k \in DOMAIN stack' : LoopHeld(code', stack', k)
    <3> HIDE DEF n, L, E
    <3> QED
      BY <1>4, <1>6, <2>4, <2>5
  <2> QED
    BY <1>1, <2>6 DEF TrapInv
<1>7. ASSUME NEW f, stack' = Append(stack, f), E \subseteq L \cup Promised(f),
             Heads(f) = {} \/ (f.form # "while-body" /\ \A l \in Heads(f) : IsHead(code', Len(code'), l))
      PROVE  TrapInv'
  <2>1. /\ DOMAIN stack' = 1..n + 1 /\ stack'[n + 1] = f /\ n + 1 \in 1..n + 1
        /\ \A i \in 1..n : stack'[i] = stack[i] /\ i \in 1..n + 1 /\ n + 1 >= i
        /\ \A i \in 1..n + 1 : i \in 1..n \/ i = n + 1
    BY <1>2, <1>7 DEF TypeOK
  <2> HIDE DEF n
  <2>2. ASSUME NEW k \in 1..n
        PROVE  E \cup Free(stack, k) \subseteq L \cup Free(stack', k)
    <3>1. Promised(f) \subseteq Free(stack', k)
      BY <2>1, FreeIs
    <3>2. Free(stack, k) \subseteq Free(stack', k)
      <4>1. \A m \in 1..n : m \in DOMAIN stack' /\ Promised(stack'[m]) = Promised(stack[m])
        BY <2>1
      <4> QED
        BY <1>3, <4>1, FreeIs
    <3> QED
      BY <1>7, <3>1, <3>2
  <2>3. \A k \in 1..n : LoopHeld(code', stack', k)
    <3> HIDE DEF E, L
    <3> QED
      BY <1>2, <1>4, <2>1, <2>2
  <2>4. LoopHeld(code', stack', n + 1)
    <3> SUFFICES ASSUME NEW l \in Heads(f)
                 PROVE  \E h : /\ IsHead(code', h, l)
                               /\ Within(code', h, L \cup Free(stack', n + 1))
                               /\ f.form # "while-body"
      BY <2>1 DEF LoopHeld
    <3>1. IsHead(code', Len(code'), l) /\ f.form # "while-body"
      BY <1>7
    <3>2. DOMAIN code' = 1..Len(code') /\ Len(code') \in Nat
      <4>1. /\ DOMAIN (code \o s) = 1..Len(code) + Len(s) /\ Len(code \o s) = Len(code) + Len(s)
            /\ Len(code) \in Nat /\ Len(s) \in Nat
        BY <1>0, Joined
      <4> QED
        BY <4>1
    <3>3. \A b \in DOMAIN code' : ~(b > Len(code'))
      BY <3>2
    <3> QED
      BY <3>1, <3>3 DEF Within
  <2> QED
    BY <1>1, <2>1, <2>3, <2>4 DEF TrapInv
<1>8. ASSUME NEW f, Goto(f), E \cup Promised(Top) \subseteq L \cup Promised(f),
             \/ Heads(f) = {}
             \/ /\ Heads(f) \subseteq Heads(Top)
                /\ \A l \in Heads(f) : \A h :
                      IsHead(code, h, l) /\ Within(code, h, Labels(code) \cup Promised(Top))
                          => Leaves(code', h, l + 2)
      PROVE  TrapInv'
  <2> DEFINE S == FrameOf(Registers)
             b == SubSeq(stack, 1, Len(stack) - 1)
  <2>1. stack \in Seq(S) /\ stack' = Append(b, f)
    BY <1>8 DEF TypeOK, Goto, Below
  <2> HIDE DEF S
  <2>2. b \in Seq(S) /\ Len(b) = n - 1 /\ \A i \in 1..n - 1 : b[i] = stack[i]
    BY <2>1, BelowIs
  <2> HIDE DEF b
  <2>3. /\ DOMAIN stack' = 1..n /\ stack'[n] = f
        /\ \A i \in 1..n : i # n => i \in 1..n - 1 /\ stack'[i] = stack[i]
        /\ \A i \in 1..n : n >= i
    <3>1. n - 1 + 1 = n /\ \A i \in 1..n : i # n => i \in 1..n - 1
      <4> HIDE DEF n
      <4> QED
        BY <1>2
    <3>2. /\ Len(stack') = Len(b) + 1 /\ DOMAIN stack' = 1..Len(b) + 1 /\ stack'[Len(b) + 1] = f
          /\ \A i \in 1..Len(b) : stack'[i] = b[i]
      BY <2>1, <2>2
    <3>3. \A i \in 1..n : n >= i
      <4> HIDE DEF n
      <4> QED
        BY <1>2
    <3> HIDE DEF n
    <3> QED
      BY <2>2, <3>1, <3>2, <3>3
  <2> HIDE DEF n
  <2>4. ASSUME NEW k \in 1..n
        PROVE  E \cup Free(stack, k) \subseteq L \cup Free(stack', k)
    <3>1. Promised(f) \subseteq Free(stack', k)
      BY <1>2, <2>3, FreeIs
    <3>2. ASSUME NEW l \in Free(stack, k)
          PROVE  l \in L \cup Free(stack', k)
      <4>1. PICK m \in 1..n : m >= k /\ l \in Promised(stack[m])
        BY <1>3
      <4>2. CASE m = n
        BY <1>2, <1>8, <3>1, <4>1, <4>2
      <4>3. CASE m # n
        <5>1. m \in DOMAIN stack' /\ l \in Promised(stack'[m])
          BY <2>3, <4>1, <4>3
        <5> QED
          BY <4>1, <5>1, FreeIs
      <4> QED
        BY <4>2, <4>3
    <3> QED
      BY <1>8, <3>1, <3>2
  <2>5. \A k \in 1..n : k # n => LoopHeld(code', stack', k)
    <3> HIDE DEF E, L
    <3> QED
      BY <1>2, <1>4, <2>3, <2>4
  <2>6. LoopHeld(code', stack', n)
    <3>1. CASE Heads(f) = {}
      BY <2>3, <3>1 DEF LoopHeld
    <3>2. CASE Heads(f) # {}
      <4>1. Free(stack, n) = Promised(Top)
        <5>1. \A m \in 1..n : m >= n => m = n
          BY <1>2
        <5>2. n >= n
          BY <1>2
        <5>3. \A l : l \in Free(stack, n) <=> l \in Promised(Top)
          BY <1>2, <1>3, <5>1, <5>2
        <5> QED
          BY <5>3
      <4>2. \A l \in Heads(stack'[n]) : \A h :
               IsHead(code, h, l) /\ Within(code, h, Labels(code) \cup Free(stack, n))
                   => Leaves(code \o s, h, l + 2)
        BY <1>8, <2>3, <3>2, <4>1
      <4>3. Heads(stack'[n]) \subseteq Heads(stack[n]) /\ LoopHeld(code, stack, n)
        BY <1>2, <1>8, <2>3
      <4>4. E \cup Free(stack, n) \subseteq Labels(code \o s) \cup Free(stack', n)
        BY <1>2, <2>4
      <4>5. LoopHeld(code \o s, stack', n)
        BY <1>0, <4>2, <4>3, <4>4, LoopStays
      <4> QED
        BY <4>5
    <3> QED
      BY <3>1, <3>2
  <2> QED
    BY <1>1, <2>3, <2>5, <2>6 DEF TrapInv
<1> QED
  BY <1>5, <1>6, <1>7, <1>8 DEF MovesOn

\* A step that neither defines a label nor branches.
PlainMove == ctl.mode # "done" /\ Unbranched /\ \E s : Plain(s) /\ code' = code \o s

LEMMA SilentMove ==
    ASSUME IInv, code' = code, ctl.mode # "done", Unbranched
    PROVE  PlainMove
<1> DEFINE z == <<>>
<1>1. IsText(code) /\ IsText(z) /\ Plain(z)
  BY CodeIs, EmptyTakes, PlainLines DEF IInv, TypeInv, Takes
<1>2. z = <<>>
  OBVIOUS
<1> HIDE DEF z
<1>3. code \o z = code
  BY <1>1, <1>2, Joined
<1> QED
  BY <1>1, <1>3 DEF PlainMove

LEMMA PlainTrap ==
    ASSUME IInv, TrapInv, PlainMove
    PROVE  TrapInv'
<1>1. PICK s : Plain(s) /\ code' = code \o s
  BY DEF PlainMove
<1>2. TypeOK /\ stack # <<>> /\ ctl.mode # "done"
  BY TopFacts DEF IInv, PlainMove
<1>3. IsText(s) /\ Targets(s) = {} /\ \A i \in DOMAIN s : s[i].op \notin {"label", "br"}
  <2>1. Piece(s, {}, {})
    BY <1>1, PlainPiece
  <2>2. PICK S : s \in Seq(S) /\ \A line \in S : line.op \in {"inst", "ret"}
    BY <1>1 DEF Plain
  <2> QED
    BY <2>1, <2>2 DEF Piece
<1>4. \A f : f.form \notin BranchForms => Promised(f) = {} /\ Heads(f) = {}
  BY DEF BranchForms, Promised, Heads
<1>5. MovesOn(s)
  BY <1>3, <1>4 DEF MovesOn, PlainMove, Unbranched
<1> QED
  BY <1>1, <1>2, <1>3, <1>5, TrapStep DEF Single

LEMMA MovesCalls ==
    ASSUME IInv,
           \/ StmtSkip \/ CallReturn \/ CallStore \/ CallLet \/ CallSet \/ CallDo \/ CallIf \/ CallExprStmt
           \/ ExprConst \/ ExprAddr \/ ExprAddrOf \/ ExprGetField \/ ExprBlock \/ ExprOp
           \/ NextItem
    PROVE  PlainMove
<1>1. ctl.mode # "done"
  BY DEF StmtSkip, CallReturn, CallStore, CallLet, CallSet, CallDo, CallIf, CallExprStmt, ExprConst,
         ExprAddr, ExprAddrOf, ExprGetField, ExprBlock, ExprOp, NextItem, StmtCalled, ExprCalled
<1>2. code' = code
  BY DEF StmtSkip, CallReturn, CallStore, CallLet, CallSet, CallDo, CallIf, CallExprStmt, ExprConst,
         ExprAddr, ExprAddrOf, ExprGetField, ExprBlock, ExprOp, NextItem
<1>3. ASSUME NEW form, form \notin BranchForms, NEW arg
      PROVE  /\ Frame(form, arg).form \notin BranchForms
             /\ ListFrame(form).form \notin BranchForms
             /\ \A ty : [Frame(form, arg) EXCEPT !.ty = ty].form \notin BranchForms
  BY <1>3 DEF Frame, ListFrame
<1>4. /\ "return" \notin BranchForms /\ "store" \notin BranchForms /\ "let" \notin BranchForms
      /\ "set" \notin BranchForms /\ "do" \notin BranchForms /\ "if-cond" \notin BranchForms
      /\ "expr" \notin BranchForms /\ "block" \notin BranchForms /\ "arith" \notin BranchForms
      /\ "logic" \notin BranchForms /\ "cmp" \notin BranchForms /\ "load" \notin BranchForms
      /\ "ptr-add" \notin BranchForms /\ "bitcast" \notin BranchForms /\ "call" \notin BranchForms
  BY DEF BranchForms
<1>5. CASE CallReturn \/ CallStore \/ CallLet \/ CallSet \/ CallDo \/ CallIf \/ CallExprStmt
  BY <1>1, <1>2, <1>3, <1>4, <1>5, SilentMove DEF Unbranched, CallReturn, CallStore, CallLet, CallSet,
     CallDo, CallIf, CallExprStmt, Enter
<1>6. CASE ExprBlock \/ ExprOp
  BY <1>1, <1>2, <1>3, <1>4, <1>6, SilentMove DEF Unbranched, ExprBlock, ExprOp, Enter
<1>7. CASE StmtSkip \/ ExprConst \/ ExprAddr \/ ExprAddrOf \/ ExprGetField \/ NextItem
  BY <1>1, <1>2, <1>7, SilentMove DEF Unbranched, StmtSkip, ExprConst, ExprAddr, ExprAddrOf,
     ExprGetField, NextItem
<1> QED
  BY <1>5, <1>6, <1>7

LEMMA MovesLists ==
    ASSUME IInv, ItemDone \/ ItemReturned \/ EndDo \/ EndBlock \/ BodyReturned \/ ExprStmt
    PROVE  PlainMove
<1>1. ctl.mode # "done" /\ code' = code
  BY DEF ItemDone, ItemReturned, EndDo, EndBlock, BodyReturned, ExprStmt, Valued
<1>2. Top.form \notin BranchForms
  BY DEF ItemDone, ItemReturned, EndDo, EndBlock, BodyReturned, ExprStmt, Valued, InList, ListForms, BranchForms
<1>3. CASE ItemDone
  <2>1. \A vs : [Top EXCEPT !.vals = vs].form = Top.form
    BY <1>1, TopFacts DEF FrameOf, IInv
  <2>2. \E f : f.form = Top.form /\ Goto(f)
    BY <1>3, <2>1 DEF ItemDone
  <2> QED
    BY <1>1, <1>2, <2>2, SilentMove DEF Unbranched
<1>4. CASE ItemReturned \/ BodyReturned \/ ExprStmt \/ EndDo \/ EndBlock
  <2>1. stack' = Below
    BY <1>4 DEF ItemReturned, BodyReturned, ExprStmt, EndDo, EndBlock, Finish
  <2> QED
    BY <1>1, <1>2, <2>1, SilentMove DEF Unbranched
<1> QED
  BY <1>3, <1>4

LEMMA MovesFatal ==
    ASSUME IInv, ctl.mode # "done", Fatal
    PROVE  PlainMove
BY SilentMove DEF Fatal, Unbranched

LEMMA MovesLines ==
    ASSUME IInv, ExprVar \/ ExprString \/ CallNoArgs \/ Return \/ Set \/ Let
    PROVE  PlainMove
<1>1. ctl.mode # "done"
  BY DEF ExprVar, ExprString, CallNoArgs, ExprCalled, Return, Set, Let, Valued
<1>2. CASE ExprVar \/ ExprString \/ Set
  <2>1. \E d, u : code' = code \o <<Inst(d, u)>>
    BY <1>2 DEF ExprVar, ExprString, Set, Emit
  <2>2. stack' = stack \/ (Top.form \notin BranchForms /\ stack' = Below)
    <3>1. CASE ExprVar \/ ExprString
      BY <3>1 DEF ExprVar, ExprString
    <3>2. CASE Set
      BY <3>2 DEF Set, Valued, BranchForms, Finish
    <3> QED
      BY <1>2, <3>1, <3>2
  <2> QED
    BY <1>1, <2>1, <2>2, PlainLines DEF PlainMove, Unbranched
<1>3. CASE CallNoArgs
  <2>1. PICK fn : code' = code \o OpLines(Frame("call", fn), <<>>, ntemp)
    BY <1>3 DEF CallNoArgs, Emit
  <2>2. Frame("call", fn).form \in OpForms
    BY DEF Frame, OpForms
  <2> DEFINE s == OpLines(Frame("call", fn), <<>>, ntemp)
  <2>3. Plain(s)
    BY <2>2, PlainOps
  <2> HIDE DEF s
  <2>4. stack' = stack
    BY <1>3 DEF CallNoArgs
  <2>5. code' = code \o s
    BY <2>1 DEF s
  <2> QED
    BY <1>1, <2>3, <2>4, <2>5 DEF PlainMove, Unbranched
<1>4. CASE Return
  <2>1. \E u : code' = code \o <<Ret(u)>>
    BY <1>4 DEF Return, Emit
  <2>2. Top.form \notin BranchForms /\ stack' = Below
    BY <1>4 DEF Return, Valued, BranchForms, Finish
  <2> QED
    BY <1>1, <2>1, <2>2, PlainLines DEF PlainMove, Unbranched
<1>5. CASE Let
  <2>1. \E slot, reg, deref, t : code' = code \o LetLines(slot, reg, deref, t)
    BY <1>5 DEF Let, Emit
  <2>2. Top.form \notin BranchForms /\ Goto(ListFrame("do")) /\ ListFrame("do").form \notin BranchForms
    BY <1>5 DEF Let, ListFrame, Frame, BranchForms, Valued
  <2> QED
    BY <1>1, <2>1, <2>2, PlainLet DEF PlainMove, Unbranched
<1> QED
  BY <1>2, <1>3, <1>4, <1>5

LEMMA MovesOperands ==
    ASSUME IInv, Operand
    PROVE  PlainMove
<1>1. ctl.mode # "done" /\ Top.form \in OpForms /\ Top.form \notin BranchForms
  BY DEF Operand, OpForms, BranchForms
<1>2. CASE Fatal
  BY <1>1, <1>2, MovesFatal
<1>3. CASE ~Fatal
  <2>1. \/ \E v, ty, t : code' = code \o EnsureLines(v, ty, t)
        \/ \E v, ty, t, vs, t2 : code' = code \o (EnsureLines(v, ty, t) \o OpLines(Top, vs, t2))
    BY <1>3 DEF Operand, Emit
  <2>2. \A v, ty, t, vs, t2 : Plain(EnsureLines(v, ty, t) \o OpLines(Top, vs, t2))
    BY <1>1, PlainLines, PlainOps, PlainJoined
  <2>3. \E s : Plain(s) /\ code' = code \o s
    BY <2>1, <2>2, PlainLines
  <2>4. \A vs : [Top EXCEPT !.vals = vs].form = Top.form
    BY <1>1, TopFacts DEF FrameOf, IInv
  <2>5. stack' = Below \/ \E vs : Goto([Top EXCEPT !.vals = vs])
    BY <1>3 DEF Operand
  <2> QED
    BY <1>1, <2>3, <2>4, <2>5 DEF PlainMove, Unbranched
<1> QED
  BY <1>2, <1>3

LEMMA MovesEnds ==
    ASSUME IInv, EndBody
    PROVE  PlainMove
<1>1. ctl.mode # "done" /\ Top.form \notin BranchForms
  BY DEF EndBody, InList, BranchForms
<1>2. CASE Fatal
  BY <1>1, <1>2, MovesFatal
<1>3. CASE ~Fatal
  <2>1. stack' = Below
    BY <1>3 DEF EndBody, Finish
  <2>2. \/ code' = code \o <<Ret({})>>
        \/ \E v, ty, t, u : code' = code \o (EnsureLines(v, ty, t) \o <<Ret(u)>>)
    BY <1>3 DEF EndBody, Emit
  <2>3. \A v, ty, t, u : Plain(EnsureLines(v, ty, t) \o <<Ret(u)>>)
    BY PlainLines, PlainJoined
  <2> QED
    BY <1>1, <2>1, <2>2, <2>3, PlainLines DEF PlainMove, Unbranched
<1> QED
  BY <1>2, <1>3

-----------------------------------------------------------------------------
(* Steps that branch, and where their branches lead.                       *)

\* Lines that end in the only label among them, and branch to labels of E.
Turn(s, m, E) == /\ IsText(s) /\ Labels(s) = {m} /\ Targets(s) \subseteq E /\ Single(s)
                 /\ Len(s) \in DOMAIN s /\ s[Len(s)].op = "label" /\ s[Len(s)].to = {m}
                 /\ \A i \in DOMAIN s : i = Len(s) \/ (i < Len(s) /\ s[i].op # "label")

LEMMA LabelIs == \A m : LabelDef(m).op = "label" /\ LabelDef(m).to = {m}
BY DEF LabelDef, Line

LEMMA Extended ==
    ASSUME NEW j, IsText(j), NEW x
    PROVE  /\ \A i \in DOMAIN j : (j \o <<x>>)[i] = j[i] /\ i \in DOMAIN (j \o <<x>>)
           /\ \A i \in DOMAIN (j \o <<x>>) : i \in DOMAIN j \/ (j \o <<x>>)[i] = x
<1> DEFINE b == <<x>>
           s == j \o b
           n == Len(j)
<1>1. IsText(b) /\ Len(b) = 1 /\ b[1] = x
  <2> DEFINE T == {x}
  <2>1. b \in Seq(T)
    OBVIOUS
  <2> HIDE DEF T
  <2>2. IsText(b)
    BY <2>1 DEF IsText
  <2> QED
    BY <2>2
<1> HIDE DEF b
<1>2. /\ DOMAIN j = 1..n /\ DOMAIN s = 1..n + Len(b) /\ n \in Nat
      /\ \A i \in 1..n : s[i] = j[i]
      /\ \A i \in 1..Len(b) : s[n + i] = b[i]
  <2>1. IsText(j) /\ IsText(b)
    BY <1>1
  <2> QED
    BY ONLY <2>1, Joined
<1> HIDE DEF s, n
<1>3. s[n + 1] = x /\ DOMAIN s = 1..n + 1 /\ \A i \in 1..n + 1 : i = n + 1 \/ i \in 1..n
  BY <1>1, <1>2
<1>4. \A i \in 1..n : i \in 1..n + 1
  BY <1>2
<1> QED
  BY <1>2, <1>3, <1>4 DEF s, b

LEMMA TurnMade ==
    ASSUME NEW j, IsText(j), NEW E, Targets(j) \subseteq E, \A i \in DOMAIN j : j[i].op # "label", NEW m
    PROVE  Turn(j \o <<LabelDef(m)>>, m, E)
<1> DEFINE b == <<LabelDef(m)>>
           s == j \o b
           n == Len(j)
<1>1. IsText(b) /\ Labels(b) = {m} /\ Targets(b) = {}
  BY BranchLines DEF Piece
<1>2. Len(b) = 1 /\ b[1].op = "label" /\ b[1].to = {m}
  BY DEF LabelDef, Line
<1> HIDE DEF b
<1>3. /\ DOMAIN j = 1..n /\ DOMAIN s = 1..n + 1 /\ IsText(s) /\ Len(s) = n + 1
      /\ n \in Nat /\ \A i \in 1..n : s[i] = j[i]
      /\ s[n + 1] = b[1]
  <2>1. /\ IsText(s) /\ DOMAIN j = 1..n /\ DOMAIN s = 1..n + Len(b) /\ Len(s) = n + Len(b) /\ n \in Nat
        /\ \A i \in 1..n : s[i] = j[i]
        /\ \A i \in 1..Len(b) : s[n + i] = b[i]
    BY <1>1, Joined
  <2> HIDE DEF s, n
  <2> QED
    BY <1>2, <2>1
<1>4. Labels(s) = Labels(j) \cup {m} /\ Targets(s) = Targets(j)
  <2>1. Labels(s) = Labels(j) \cup Labels(b) /\ Targets(s) = Targets(j) \cup Targets(b)
    BY ONLY JoinedLabels, IsText(j), <1>1
  <2> QED
    BY <1>1, <2>1
<1>5. Labels(j) = {}
  BY DEF Labels
<1>6. s[n + 1].op = "label" /\ s[n + 1].to = {m}
  BY <1>2, <1>3
<1> HIDE DEF s
<1>7. \A i \in 1..n + 1 : i = n + 1 \/ (i \in 1..n /\ i < n + 1)
  BY <1>3
<1>8. n + 1 \in 1..n + 1 /\ \A i \in 1..n : i \in 1..n + 1
  BY <1>3
<1>9. \A i \in 1..n + 1 : i = n + 1 \/ (i < n + 1 /\ s[i].op # "label")
  BY <1>3, <1>7
<1>10. Single(s)
  BY <1>3, <1>6, <1>9 DEF Single
<1>11. Turn(s, m, E)
  <2> HIDE DEF n
  <2> QED
    BY <1>3, <1>4, <1>5, <1>6, <1>8, <1>9, <1>10 DEF Turn
<1> QED
  BY <1>11 DEF s, b

LEMMA TurnLeads ==
    ASSUME NEW s, NEW m, NEW E, Turn(s, m, E)
    PROVE  /\ \A i \in DOMAIN s : s[i].op = "br" /\ m \in s[i].to => Forward(s, i)
           /\ \A c : IsText(c) => /\ IsHead(c \o s, Len(c \o s), m)
                                  /\ Labels(c \o s) = Labels(c) \cup {m}
<1>1. ASSUME NEW i \in DOMAIN s, s[i].op = "br", m \in s[i].to
      PROVE  Forward(s, i)
  <2>1. i # Len(s)
    BY <1>1 DEF Turn
  <2>2. Len(s) > i
    <3>1. DOMAIN s = 1..Len(s) /\ Len(s) \in Nat
      BY DEF Turn, IsText
    <3>2. i < Len(s)
      BY <2>1 DEF Turn
    <3> QED
      BY <3>1, <3>2
  <2> QED
    BY <1>1, <2>2 DEF Turn, Forward
<1>2. ASSUME NEW c, IsText(c)
      PROVE  IsHead(c \o s, Len(c \o s), m) /\ Labels(c \o s) = Labels(c) \cup {m}
  <2>1. IsText(s) /\ Len(s) \in DOMAIN s /\ Labels(s) = {m}
    BY DEF Turn
  <2>2. Labels(c \o s) = Labels(c) \cup Labels(s)
    BY ONLY JoinedLabels, <1>2, <2>1
  <2>3. /\ DOMAIN s = 1..Len(s) /\ DOMAIN (c \o s) = 1..Len(c) + Len(s) /\ Len(c \o s) = Len(c) + Len(s)
        /\ \A i \in 1..Len(s) : Len(c) + i \in 1..Len(c) + Len(s) /\ (c \o s)[Len(c) + i] = s[i]
    BY ONLY Joined, <1>2, <2>1
  <2>4. Len(c \o s) \in DOMAIN (c \o s) /\ (c \o s)[Len(c \o s)] = s[Len(s)]
    BY <2>1, <2>3
  <2> QED
    BY <2>1, <2>2, <2>4 DEF IsHead, Turn
<1> QED
  BY <1>1, <1>2

\* A jump, or none where control has returned, and the label after it.
Jumped(s, j, l, m) == /\ Turn(s, m, {l})
                      /\ j = <<>> => Targets(s) = {}
                      /\ \A i \in DOMAIN s : s[i].op = "br" => s[i].to = {l}

LEMMA JumpTurn ==
    ASSUME NEW j, NEW l, NEW m, j = <<>> \/ j = <<Br(l)>>
    PROVE  Jumped(j \o <<LabelDef(m)>>, j, l, m)
<1>1. /\ IsText(j) /\ Targets(j) \subseteq {l} /\ \A i \in DOMAIN j : i = 1 /\ j = <<Br(l)>> /\ j[i] = Br(l)
      /\ j = <<>> => Targets(j) = {}
  <2>1. CASE j = <<>>
    <3>1. IsText(j) /\ DOMAIN j = {}
      BY <2>1, EmptyTakes DEF Takes
    <3> QED
      BY <3>1 DEF Targets
  <2>2. CASE j = <<Br(l)>>
    <3>1. IsText(j) /\ Targets(j) = {l}
      BY <2>2, BranchLines DEF Piece
    <3>2. j # <<>> /\ DOMAIN j = {1} /\ j[1] = Br(l)
      BY <2>2
    <3> QED
      BY <2>2, <3>1, <3>2
  <2> QED
    BY <2>1, <2>2
<1>2. Br(l).op = "br" /\ Br(l).to = {l}
  BY DEF Br, Line
<1>3. \A i \in DOMAIN j : j[i].op # "label"
  BY <1>1, <1>2
<1> DEFINE s == j \o <<LabelDef(m)>>
<1>4. /\ Turn(s, m, {l}) /\ Turn(s, m, Targets(j))
      /\ \A i \in DOMAIN j : s[i] = j[i]
      /\ \A i \in DOMAIN s : i \in DOMAIN j \/ s[i].op = "label"
  <2> DEFINE E1 == {l}
             E2 == Targets(j)
  <2>1. IsText(j) /\ E2 \subseteq E1 /\ E2 \subseteq E2
    BY <1>1
  <2> HIDE DEF E1, E2
  <2>2. Turn(s, m, E1)
    BY <1>1, <1>3, <2>1, TurnMade DEF E2
  <2>3. Turn(s, m, E2)
    BY <1>3, <2>1, TurnMade DEF E2
  <2>4. /\ \A i \in DOMAIN j : s[i] = j[i]
        /\ \A i \in DOMAIN s : i \in DOMAIN j \/ s[i].op = "label"
    BY <1>1, Extended, LabelIs
  <2> QED
    BY <2>2, <2>3, <2>4 DEF E1, E2
<1> HIDE DEF s
<1>5. j = <<>> => Targets(s) = {}
  BY <1>1, <1>4 DEF Turn
<1>6. \A i \in DOMAIN s : s[i].op = "br" => s[i].to = {l}
  BY <1>1, <1>2, <1>4
<1> QED
  BY <1>4, <1>5, <1>6 DEF s, Jumped

\* A condition and the label it goes on to: its branch is the only one.
Tested(s, a, b) == /\ Turn(s, a, {a, b})
                   /\ \E p \in DOMAIN s : /\ s[p].op = "br" /\ s[p].to = {a, b}
                                          /\ \A q \in DOMAIN s : q < p => s[q].op \in {"inst", "ret"}
                   /\ \A q \in DOMAIN s : s[q].op = "br" => s[q].to = {a, b}

LEMMA CondTurn ==
    ASSUME NEW v, NEW t, NEW a, NEW b
    PROVE  Tested(CondLines(v, t, a, b) \o <<LabelDef(a)>>, a, b)
<1> DEFINE c == t + EnsureTemps(v, "i32")
           e == EnsureLines(v, "i32", t) \o <<Inst({Temp(c)}, Ensured(v, "i32", t).reg)>>
           d == <<CondBr(Temp(c), a, b)>>
           cl == CondLines(v, t, a, b)
           s == cl \o <<LabelDef(a)>>
<1>1. Plain(e)
  BY PlainLines, PlainJoined
<1>2. cl = e \o d
  <2> DEFINE x == EnsureLines(v, "i32", t)
             y == <<Inst({Temp(c)}, Ensured(v, "i32", t).reg)>>
  <2>1. cl = x \o (y \o d)
    BY DEF CondLines
  <2>2. IsText(x) /\ IsText(y) /\ IsText(d)
    BY PlainLines, PlainPiece, BranchLines DEF Piece
  <2>3. PICK S : x \in Seq(S) /\ y \in Seq(S) /\ d \in Seq(S)
    <3>1. PICK A, B, C : x \in Seq(A) /\ y \in Seq(B) /\ d \in Seq(C)
      BY <2>2 DEF IsText
    <3> HIDE DEF x, y, d
    <3>2. x \in Seq(A \cup B \cup C) /\ y \in Seq(A \cup B \cup C) /\ d \in Seq(A \cup B \cup C)
      BY <3>1
    <3> QED
      BY <3>2
  <2>4. e = x \o y
    OBVIOUS
  <2> HIDE DEF x, y, d, e, cl
  <2> QED
    BY <2>1, <2>3, <2>4
<1>3. IsText(d) /\ Targets(d) = {a, b} /\ Len(d) = 1 /\ d[1].op = "br" /\ d[1].to = {a, b}
  <2>1. IsText(d) /\ Targets(d) = {a, b}
    BY BranchLines DEF Piece
  <2>2. Len(d) = 1 /\ d[1].op = "br" /\ d[1].to = {a, b}
    BY DEF CondBr, Line
  <2> QED
    BY <2>1, <2>2
<1> HIDE DEF e, d, c, cl
<1>4. IsText(e) /\ Targets(e) = {} /\ \A i \in DOMAIN e : e[i].op \in {"inst", "ret"}
  <2>1. Piece(e, {}, {})
    BY <1>1, PlainPiece
  <2>2. PICK S : e \in Seq(S) /\ \A line \in S : line.op \in {"inst", "ret"}
    BY <1>1 DEF Plain
  <2> QED
    BY <2>1, <2>2 DEF Piece
<1> DEFINE p == Len(e) + 1
<1>5. /\ IsText(cl) /\ DOMAIN cl = 1..p /\ Len(e) \in Nat /\ p \in 1..p
      /\ \A i \in 1..p : i = p \/ i \in 1..Len(e)
      /\ \A i \in 1..Len(e) : cl[i].op \in {"inst", "ret"}
      /\ cl[p].op = "br" /\ cl[p].to = {a, b}
  <2>1. /\ IsText(e \o d) /\ DOMAIN e = 1..Len(e) /\ DOMAIN (e \o d) = 1..Len(e) + 1 /\ Len(e) \in Nat
        /\ \A i \in 1..Len(e) : (e \o d)[i] = e[i]
        /\ (e \o d)[Len(e) + 1] = d[1]
    <3>1. /\ IsText(e \o d) /\ DOMAIN e = 1..Len(e) /\ DOMAIN (e \o d) = 1..Len(e) + Len(d) /\ Len(e) \in Nat
          /\ \A i \in 1..Len(e) : (e \o d)[i] = e[i]
          /\ \A i \in 1..Len(d) : (e \o d)[Len(e) + i] = d[i]
      <4>1. IsText(e) /\ IsText(d)
        BY <1>3, <1>4
      <4> QED
        BY ONLY <4>1, Joined
    <3> DEFINE x == e \o d
    <3> HIDE DEF x
    <3>2. 1 \in 1..Len(d)
      BY <1>3
    <3> QED
      BY <1>3, <3>1, <3>2
  <2> QED
    BY <1>2, <1>3, <1>4, <2>1
<1>6. Targets(cl) = {a, b}
  <2>1. Targets(e \o d) = Targets(e) \cup Targets(d)
    BY ONLY JoinedLabels, <1>3, <1>4
  <2> QED
    BY <1>2, <1>3, <1>4, <2>1
<1> HIDE DEF p
<1>7. /\ \A i \in DOMAIN cl : cl[i].op # "label"
      /\ \A i \in DOMAIN cl : i # p => cl[i].op \in {"inst", "ret"}
  BY <1>5
<1>8. /\ Turn(s, a, {a, b})
      /\ \A i \in DOMAIN cl : s[i] = cl[i] /\ i \in DOMAIN s
      /\ \A i \in DOMAIN s : i \in DOMAIN cl \/ s[i].op = "label"
  <2> DEFINE E == {a, b}
  <2>1. IsText(cl) /\ Targets(cl) \subseteq E
    BY <1>5, <1>6
  <2> HIDE DEF E
  <2>2. Turn(s, a, E)
    BY <1>7, <2>1, TurnMade
  <2>3. /\ \A i \in DOMAIN cl : s[i] = cl[i] /\ i \in DOMAIN s
        /\ \A i \in DOMAIN s : i \in DOMAIN cl \/ s[i].op = "label"
    BY <2>1, Extended, LabelIs
  <2> QED
    BY <2>2, <2>3 DEF E
<1> HIDE DEF s
<1>9. p \in DOMAIN s /\ s[p].op = "br" /\ s[p].to = {a, b}
  BY <1>5, <1>8
<1>10. \A q \in DOMAIN s : s[q].op = "br" => s[q].to = {a, b}
  BY <1>5, <1>7, <1>8
<1>11. ASSUME NEW q \in DOMAIN s, q < p
       PROVE  s[q].op \in {"inst", "ret"}
  <2>1. q \in DOMAIN cl
    <3>1. DOMAIN s = 1..Len(s) /\ p \in Nat
      BY <1>5, <1>8 DEF Turn, IsText
    <3>2. q \in 1..p
      BY <1>11, <3>1
    <3> QED
      BY <1>5, <3>2
  <2>2. q # p
    BY <1>5, <1>11, <2>1
  <2> QED
    BY <1>7, <1>8, <2>1, <2>2
<1> QED
  BY <1>8, <1>9, <1>10, <1>11 DEF s, cl, Tested

\* TrapStep for lines that end in a label.
LEMMA TurnStep ==
    ASSUME IInv, ctl.mode # "done", TrapInv, NEW s, NEW m, NEW E, Turn(s, m, E), code' = code \o s, MovesOn(s),
           \A i \in DOMAIN s : s[i].op = "br" => \/ Forward(s, i)
                                                 \/ ~(s[i].to \subseteq Labels(code'))
                                                 \/ Escapes(code', Len(code) + i)
    PROVE  TrapInv'
<1>1. TypeOK /\ stack # <<>>
  BY TopFacts DEF IInv
<1>2. IsText(s) /\ Single(s)
  BY DEF Turn
<1> QED
  BY <1>1, <1>2, TrapStep

\* What a piece that ends in a label leaves in the text.
LEMMA TurnText ==
    ASSUME IInv, ctl.mode # "done", NEW s, NEW m, NEW E, Turn(s, m, E), code' = code \o s
    PROVE  /\ IsText(code) /\ Labels(code') = Labels(code) \cup {m}
           /\ IsHead(code', Len(code'), m) /\ Targets(s) \subseteq E
<1>1. IsText(code)
  BY TopFacts, CodeIs DEF IInv
<1>2. IsHead(code \o s, Len(code \o s), m) /\ Labels(code \o s) = Labels(code) \cup {m}
  BY <1>1, TurnLeads
<1> QED
  BY <1>1, <1>2 DEF Turn

LEMMA TrapIfs ==
    ASSUME IInv, TextInv, TrapInv, IfCond
    PROVE  TrapInv'
<1>1. ctl.mode # "done" /\ Top.form = "if-cond"
  BY DEF IfCond, Valued
<1>2. CASE Fatal
  BY <1>1, <1>2, MovesFatal, PlainTrap
<1>3. CASE ~Fatal
  <2> DEFINE f == [Top EXCEPT !.form = "if-then", !.lab = nlabel]
             b == nlabel + 1
             s == CondLines(ctl.val, ntemp, nlabel, b) \o <<LabelDef(nlabel)>>
             E == {nlabel, b}
  <2>1. Goto(f) /\ code' = code \o s
    BY <1>3 DEF IfCond, Emit
  <2>2. f.lab = nlabel /\ f.form = "if-then"
    BY <1>1, TopDues DEF FrameOf
  <2> HIDE DEF f
  <2>3. Heads(f) = {} /\ Promised(f) = {b} /\ Promised(Top) = {}
    BY <1>1, <2>2 DEF Heads, Promised
  <2>4. Turn(s, nlabel, E) /\ \A q \in DOMAIN s : s[q].op = "br" => nlabel \in s[q].to
    <3>1. Tested(s, nlabel, b)
      BY CondTurn
    <3> HIDE DEF s
    <3> QED
      BY <3>1 DEF Tested
  <2> HIDE DEF s, E, b
  <2>5. Labels(code') = Labels(code) \cup {nlabel} /\ Targets(s) \subseteq E
    BY <1>1, <2>1, <2>4, TurnText
  <2>6. MovesOn(s)
    <3>1. Targets(s) \cup Promised(Top) \subseteq Labels(code') \cup Promised(f)
      BY <2>3, <2>5 DEF E
    <3> QED
      BY <2>1, <2>3, <3>1 DEF MovesOn
  <2>7. \A i \in DOMAIN s : s[i].op = "br" => Forward(s, i)
    BY <2>4, TurnLeads
  <2> QED
    BY <1>1, <2>1, <2>4, <2>6, <2>7, TurnStep
<1> QED
  BY <1>2, <1>3

LEMMA TrapLoops ==
    ASSUME IInv, TextInv, TrapInv, WhileCond
    PROVE  TrapInv'
<1>1. ctl.mode # "done" /\ Top.form = "while-cond"
  BY DEF WhileCond, Valued
<1>2. CASE Fatal
  BY <1>1, <1>2, MovesFatal, PlainTrap
<1>3. CASE ~Fatal
  <2> DEFINE f == [Top EXCEPT !.form = "while-body"]
             h == Top.lab
             a == h + 1
             b == h + 2
             s == CondLines(ctl.val, ntemp, a, b) \o <<LabelDef(a)>>
             E == {a, b}
  <2>1. Goto(f) /\ code' = code \o s
    BY <1>3 DEF WhileCond, Emit
  <2>2. f.lab = h /\ f.form = "while-body"
    BY <1>1, TopDues DEF FrameOf
  <2> HIDE DEF f
  <2>3. Heads(f) = {h} /\ Heads(Top) = {h} /\ Promised(f) = {b} /\ Promised(Top) = {}
    BY <1>1, <2>2 DEF Heads, Promised
  <2>4. /\ Turn(s, a, E) /\ \A q \in DOMAIN s : s[q].op = "br" => a \in s[q].to
        /\ \E p \in DOMAIN s : /\ s[p].op = "br" /\ b \in s[p].to
                               /\ \A q \in DOMAIN s : q < p => s[q].op \in {"inst", "ret"}
    <3>1. Tested(s, a, b)
      BY CondTurn
    <3> HIDE DEF s, a, b
    <3> QED
      BY <3>1 DEF Tested
  <2>9. \A x : x \in {h} => x + 2 = b
    OBVIOUS
  <2> HIDE DEF s, E, a, b
  <2>5. IsText(code) /\ Labels(code') = Labels(code) \cup {a} /\ Targets(s) \subseteq E
    BY <1>1, <2>1, <2>4, TurnText
  <2>6. \A x : IsHead(code, x, h) /\ Within(code, x, Labels(code)) => Leaves(code', x, b)
    <3>1. LeadsOn(code) /\ IsText(s)
      BY <2>4 DEF TrapInv, Turn
    <3>2. ASSUME NEW x, IsHead(code, x, h), Within(code, x, Labels(code))
          PROVE  Leaves(code \o s, x, b)
      BY <2>4, <2>5, <3>1, <3>2, LoopLeft
    <3> QED
      BY <2>1, <3>2
  <2>7. MovesOn(s)
    <3>1. Targets(s) \cup Promised(Top) \subseteq Labels(code') \cup Promised(f)
      BY <2>3, <2>5 DEF E
    <3>2. Labels(code) \cup Promised(Top) = Labels(code)
      BY <2>3
    <3>3. Heads(f) \subseteq Heads(Top) /\ \A l \in Heads(f) : l = h /\ l + 2 = b
      BY <2>3, <2>9
    <3>4. \A l \in Heads(f) : \A x :
             IsHead(code, x, l) /\ Within(code, x, Labels(code) \cup Promised(Top)) => Leaves(code', x, l + 2)
      BY <2>6, <3>2, <3>3
    <3> QED
      BY <2>1, <3>1, <3>3, <3>4 DEF MovesOn
  <2>8. \A i \in DOMAIN s : s[i].op = "br" => Forward(s, i)
    BY <2>4, TurnLeads
  <2> QED
    BY <1>1, <2>1, <2>4, <2>7, <2>8, TurnStep
<1> QED
  BY <1>2, <1>3

LEMMA TrapWhiles ==
    ASSUME IInv, TextInv, TrapInv, CallWhile
    PROVE  TrapInv'
<1>1. ctl.mode # "done"
  BY DEF CallWhile, StmtCalled
<1> DEFINE f == [Frame("while-cond", "?") EXCEPT !.lab = nlabel]
           j == <<Br(nlabel)>>
           s == j \o <<LabelDef(nlabel)>>
           E == {nlabel}
<1>2. stack' = Append(stack, f) /\ code' = code \o s
  <2>1. <<Br(nlabel), LabelDef(nlabel)>> = <<Br(nlabel)>> \o <<LabelDef(nlabel)>>
    OBVIOUS
  <2> QED
    BY <2>1 DEF CallWhile, Enter, Emit
<1>3. f.lab = nlabel /\ f.form = "while-cond"
  BY DEF Frame
<1>4. Turn(s, nlabel, E) /\ \A i \in DOMAIN s : s[i].op = "br" => nlabel \in s[i].to
  <2>1. Jumped(s, j, nlabel, nlabel)
    BY JumpTurn
  <2> HIDE DEF s
  <2> QED
    BY <2>1 DEF Jumped
<1> HIDE DEF f, s, E
<1>5. Heads(f) = {nlabel} /\ f.form # "while-body"
  BY <1>3 DEF Heads
<1>6. Labels(code') = Labels(code) \cup {nlabel} /\ IsHead(code', Len(code'), nlabel) /\ Targets(s) \subseteq E
  BY <1>1, <1>2, <1>4, TurnText
<1>7. MovesOn(s)
  <2>1. Targets(s) \subseteq Labels(code') \cup Promised(f)
    BY <1>6 DEF E
  <2> QED
    BY <1>2, <1>5, <1>6, <2>1 DEF MovesOn
<1>8. \A i \in DOMAIN s : s[i].op = "br" => Forward(s, i)
  BY <1>4, TurnLeads
<1> QED
  BY <1>1, <1>2, <1>4, <1>7, <1>8, TurnStep

LEMMA TrapThens ==
    ASSUME IInv, TextInv, TrapInv, IfThen
    PROVE  TrapInv'
<1>1. ctl.mode # "done" /\ Top.form = "if-then"
  BY DEF IfThen
<1> DEFINE f == [Top EXCEPT !.form = "if-else", !.ret = ctl.ret]
           m == Top.lab + 1
           l == Top.lab + 2
           j == JumpUnless(ctl.ret, l)
           s == j \o <<LabelDef(m)>>
           E == {l}
<1>2. Goto(f) /\ code' = code \o s
  BY DEF IfThen, Emit
<1>3. /\ Pending(Top) \cap Labels(code) = {} /\ Top.lab \in Nat /\ Top \in FrameOf(Registers)
  BY <1>1, TopDues
<1>4. f.lab = Top.lab /\ f.form = "if-else" /\ f.ret = ctl.ret
  BY <1>3 DEF FrameOf
<1>5. j = <<>> \/ j = <<Br(l)>>
  BY DEF JumpUnless
<1>6. ctl.ret => j = <<>>
  BY DEF JumpUnless
<1> HIDE DEF f, j
<1>7. Heads(f) = {} /\ Promised(Top) = {m} /\ l \notin Labels(code) /\ l # m
  BY <1>1, <1>3, <1>4 DEF Heads, Promised, Pending
<1>8. ~ctl.ret => Promised(f) = {l}
  BY <1>4 DEF Promised
<1> HIDE DEF l, m
<1>9. /\ Turn(s, m, E)
      /\ j = <<>> => Targets(s) = {}
      /\ \A i \in DOMAIN s : s[i].op = "br" => s[i].to = E
  <2>1. Jumped(s, j, l, m)
    BY <1>5, JumpTurn
  <2> HIDE DEF s
  <2> QED
    BY <2>1 DEF Jumped
<1> HIDE DEF s
<1>10. Labels(code') = Labels(code) \cup {m} /\ Targets(s) \subseteq E
  BY <1>1, <1>2, <1>9, TurnText
<1>11. Targets(s) \subseteq Promised(f)
  <2>1. CASE ctl.ret
    BY <1>6, <1>9, <2>1
  <2>2. CASE ~ctl.ret
    BY <1>8, <1>10, <2>2
  <2> QED
    BY <2>1, <2>2
<1>12. MovesOn(s)
  <2>1. Targets(s) \cup Promised(Top) \subseteq Labels(code') \cup Promised(f)
    BY <1>7, <1>10, <1>11
  <2> QED
    BY <1>2, <1>7, <2>1 DEF MovesOn
<1>13. \A i \in DOMAIN s : s[i].op = "br" => ~(s[i].to \subseteq Labels(code'))
  BY <1>7, <1>9, <1>10
<1> QED
  BY <1>1, <1>2, <1>9, <1>12, <1>13, TurnStep

LEMMA TrapElses ==
    ASSUME IInv, TextInv, TrapInv, IfElse
    PROVE  TrapInv'
<1>1. ctl.mode # "done" /\ Top.form = "if-else"
  BY DEF IfElse
<1> DEFINE l == Top.lab + 2
           j == JumpUnless(ctl.ret, l)
           s == j \o <<LabelDef(l)>>
           E == {l}
<1>2. stack' = Below
  BY DEF IfElse, Finish
<1>3. CASE Top.ret /\ ctl.ret
  <2> DEFINE z == <<>>
  <2>1. code' = code \o z
    <3>1. j = z
      BY <1>3 DEF JumpUnless
    <3>2. code' = code \o (j \o z)
      BY <1>3 DEF IfElse, Emit, BothReturned
    <3>3. z \o z = z
      OBVIOUS
    <3> HIDE DEF j, z
    <3> QED
      BY <3>1, <3>2, <3>3
  <2>2. IsText(z) /\ DOMAIN z = {}
    BY EmptyTakes DEF Takes
  <2> HIDE DEF z
  <2>3. Targets(z) = {} /\ Promised(Top) = {}
    BY <1>1, <1>3, <2>2 DEF Promised, Targets
  <2>4. MovesOn(z)
    BY <1>2, <2>3 DEF MovesOn
  <2>5. TypeOK /\ stack # <<>>
    BY <1>1, TopFacts DEF IInv
  <2> QED
    BY <2>1, <2>2, <2>4, <2>5, TrapStep DEF Single
<1>4. CASE ~(Top.ret /\ ctl.ret)
  <2>1. code' = code \o s
    BY <1>4 DEF IfElse, Emit, BothReturned
  <2>2. j = <<>> \/ j = <<Br(l)>>
    BY DEF JumpUnless
  <2> HIDE DEF j
  <2>3. Promised(Top) \subseteq E
    BY <1>1 DEF Promised
  <2> HIDE DEF l
  <2>4. Turn(s, l, E) /\ \A i \in DOMAIN s : s[i].op = "br" => l \in s[i].to
    <3>1. Jumped(s, j, l, l)
      BY <2>2, JumpTurn
    <3> HIDE DEF s
    <3> QED
      BY <3>1 DEF Jumped
  <2> HIDE DEF s
  <2>5. Labels(code') = Labels(code) \cup {l} /\ Targets(s) \subseteq E
    BY <1>1, <2>1, <2>4, TurnText
  <2>6. MovesOn(s)
    BY <1>2, <2>3, <2>5 DEF MovesOn
  <2>7. \A i \in DOMAIN s : s[i].op = "br" => Forward(s, i)
    BY <2>4, TurnLeads
  <2> QED
    BY <1>1, <2>1, <2>4, <2>6, <2>7, TurnStep
<1> QED
  BY <1>3, <1>4

\* The branch back to the head of a loop leads on through the branch that leaves it.
LEMMA TrapBacks ==
    ASSUME IInv, TextInv, TrapInv, WhileBody
    PROVE  TrapInv'
<1>1. ctl.mode # "done" /\ Top.form = "while-body"
  BY DEF WhileBody
<1> DEFINE g == Top.lab
           l == g + 2
           j == JumpUnless(ctl.ret, g)
           s == j \o <<LabelDef(l)>>
           E == {g}
<1>2. stack' = Below /\ code' = code \o s
  BY DEF WhileBody, Finish, Emit, LoopHead
<1>3. Promised(Top) = {l} /\ Heads(Top) = {g}
  BY <1>1 DEF Promised, Heads
<1>4. Heads(Top) \subseteq Labels(code) /\ TypeOK /\ stack # <<>>
  BY <1>1, TopDues
<1>5. j = <<>> \/ j = <<Br(g)>>
  BY DEF JumpUnless
<1>6. PICK h : IsHead(code, h, g) /\ Leaves(code, h, l)
  <2> DEFINE n == Len(stack)
  <2>1. n \in DOMAIN stack /\ Top = stack[n]
    BY <1>4 DEF TypeOK, Top
  <2>2. LoopHeld(code, stack, n) /\ g \in Heads(stack[n]) /\ stack[n].form = "while-body"
    BY <1>1, <1>3, <2>1 DEF TrapInv
  <2> HIDE DEF n
  <2> QED
    BY <2>2 DEF LoopHeld
<1> HIDE DEF j, l, g
<1>7. /\ Turn(s, l, E)
      /\ \A i \in DOMAIN s : s[i].op = "br" => s[i].to = {g}
  <2>1. Jumped(s, j, g, l)
    BY <1>5, JumpTurn
  <2> HIDE DEF s
  <2> QED
    BY <2>1 DEF Jumped
<1> HIDE DEF s
<1>8. IsText(code) /\ Labels(code') = Labels(code) \cup {l} /\ Targets(s) \subseteq E /\ IsHead(code', Len(code'), l)
  BY <1>1, <1>2, <1>7, TurnText
<1>9. MovesOn(s)
  BY <1>2, <1>3, <1>4, <1>8 DEF MovesOn
<1>10. ASSUME NEW i \in DOMAIN s, s[i].op = "br"
       PROVE  Escapes(code', Len(code) + i)
  <2> DEFINE x == Len(code) + i
  <2>1. /\ x \in DOMAIN code' /\ code'[x].op = "br" /\ code'[x].to = {g}
        /\ x < Len(code')
        /\ \A y \in DOMAIN code : y \in DOMAIN code' /\ code'[y] = code[y]
    <3>1. /\ DOMAIN s = 1..Len(s) /\ DOMAIN (code \o s) = 1..Len(code) + Len(s)
          /\ DOMAIN code = 1..Len(code) /\ Len(code \o s) = Len(code) + Len(s)
          /\ Len(code) \in Nat /\ Len(s) \in Nat
          /\ \A y \in 1..Len(code) : (code \o s)[y] = code[y]
          /\ \A y \in 1..Len(s) : (code \o s)[Len(code) + y] = s[y]
      <4>1. IsText(code) /\ IsText(s)
        BY <1>7, <1>8 DEF Turn
      <4> QED
        BY ONLY <4>1, Joined
    <3>2. i < Len(s)
      BY <1>7, <1>10 DEF Turn
    <3> DEFINE e == code \o s
    <3> HIDE DEF e
    <3>3. x \in DOMAIN e /\ x < Len(e) /\ e[x] = s[i]
      BY <3>1, <3>2 DEF e
    <3>4. \A y \in DOMAIN code : y \in DOMAIN e /\ e[y] = code[y]
      BY <3>1 DEF e
    <3>5. code' = e
      BY <1>2 DEF e
    <3>6. s[i].op = "br" /\ s[i].to = {g}
      BY <1>7, <1>10
    <3> HIDE DEF x
    <3> QED
      BY <3>3, <3>4, <3>5, <3>6
  <2>2. Leaves(code', h, l)
    <3>1. IsText(s) /\ h \in DOMAIN code
      BY <1>6, <1>7 DEF Turn, IsHead
    <3> QED
      BY <1>2, <1>6, <1>8, <3>1, EscapesOn
  <2> HIDE DEF x
  <2>3. h \in Successors(code', x)
    BY <1>6, <2>1 DEF Successors, IsHead
  <2>4. \A y \in DOMAIN code' : Jumps(code', y, l) => Len(code') \in Successors(code', y)
    BY <1>8 DEF Jumps, Successors, IsHead
  <2>5. Len(code') > x
    BY <1>8, <2>1 DEF IsHead, x
  <2>6. Escapes(code', x)
    <3> SUFFICES ASSUME NEW K \in SUBSET DOMAIN code', Closed(code', K, {}), x \in K
                 PROVE  \E y \in K : code'[y].op = "ret" \/ y > x
      BY DEF Escapes
    <3>1. h \in K
      BY <2>3 DEF Closed
    <3>2. PICK y \in K : code'[y].op = "ret" \/ Jumps(code', y, l)
      BY <2>2, <3>1 DEF Leaves
    <3>3. CASE Jumps(code', y, l)
      <4>1. Len(code') \in K
        BY <2>4, <3>3 DEF Closed
      <4> QED
        BY <2>5, <4>1
    <3> QED
      BY <3>2, <3>3
  <2> QED
    BY <2>6 DEF x
<1> QED
  BY <1>1, <1>2, <1>7, <1>9, <1>10, TurnStep

LEMMA TrapInitially ==
    ASSUME Init
    PROVE  TrapInv
<1>1. \A i \in DOMAIN code : code[i].op = "inst"
  BY DEF Init, Header, Inst, Line
<1>2. LeadsOn(code)
  BY <1>1 DEF LeadsOn
<1>3. DOMAIN stack = {1} /\ stack[1] = ListFrame("body")
  BY DEF Init
<1>4. Heads(ListFrame("body")) = {}
  BY DEF Heads, ListFrame, Frame
<1> QED
  BY <1>2, <1>3, <1>4 DEF TrapInv, LoopHeld

LEMMA TrapInductive ==
    ASSUME IInv, TextInv, TrapInv, [Next]_vars
    PROVE  TrapInv'
<1>1. CASE Statements
  BY <1>1, MovesCalls, PlainTrap, TrapWhiles DEF Statements
<1>2. CASE Expressions
  BY <1>2, MovesCalls, MovesLines, MovesOperands, PlainTrap DEF Expressions
<1>3. CASE Results
  BY <1>3, MovesLines, MovesLists, PlainTrap, TrapIfs, TrapThens, TrapElses, TrapLoops, TrapBacks DEF Results
<1>4. CASE Lists
  BY <1>4, MovesCalls, MovesLists, MovesEnds, PlainTrap DEF Lists
<1>5. CASE UNCHANGED vars
  BY <1>5 DEF vars, TrapInv
<1> QED
  BY <1>1, <1>2, <1>3, <1>4, <1>5 DEF Next, Finished

\* Where branches lead on and the text is complete, every way comes to a return:
\* its last line is one, or control goes on to a later line.
LEMMA ReturnReached ==
    ASSUME NEW c, NEW n \in Nat, DOMAIN c = 1..n, n = Len(c), LeadsOn(c), Targets(c) \subseteq Labels(c),
           EndsInTerminator(c), NEW i \in 1..n
    PROVE  \E j \in Reach(c, {i}, {}) : c[j].op = "ret"
<1> DEFINE R == Reach(c, {i}, {})
<1>1. i \in R /\ R \in SUBSET (1..n) /\ Closed(c, R, {})
  <2> DEFINE from == {i}
             avoid == {}
  <2>1. from \in SUBSET (1..n) /\ i \in from \ avoid
    OBVIOUS
  <2> HIDE DEF from, avoid
  <2>2. from \ avoid \subseteq Reach(c, from, avoid) /\ Reach(c, from, avoid) \subseteq 1..n
        /\ Closed(c, Reach(c, from, avoid), avoid)
    BY <2>1, Reachable
  <2> QED
    BY <2>1, <2>2 DEF from, avoid
<1> HIDE DEF R
<1>2. PICK x \in R : \A y \in R : y <= x
  BY <1>1, Greatest
<1>3. CASE c[x].op = "ret"
  BY <1>2, <1>3 DEF R
<1>4. CASE c[x].op = "br"
  <2>1. Escapes(c, x)
    <3>1. c[x].to \subseteq Targets(c)
      BY <1>1, <1>2, <1>4 DEF Targets
    <3> QED
      BY <1>1, <1>2, <1>4, <3>1 DEF LeadsOn
  <2>2. PICK y \in R : c[y].op = "ret" \/ y > x
    BY <1>1, <1>2, <2>1 DEF Escapes
  <2>3. ~(y > x)
    <3>1. y \in 1..n /\ x \in 1..n /\ y <= x
      BY <1>1, <1>2, <2>2
    <3> QED
      BY <3>1
  <2> QED
    BY <2>2, <2>3 DEF R
<1>5. CASE c[x].op \notin {"ret", "br"}
  <2>1. x # n
    BY <1>5 DEF EndsInTerminator, IsTerminator
  <2>2. x + 1 \in 1..n /\ ~(x + 1 <= x)
    <3>1. x \in 1..n /\ n \in Nat
      BY <1>1, <1>2
    <3> QED
      BY ONLY <2>1, <3>1
  <2>3. x + 1 \in Successors(c, x)
    BY <1>5, <2>2 DEF Successors
  <2>4. x + 1 \in R
    BY <1>1, <1>2, <2>3 DEF Closed
  <2> QED
    BY <1>2, <2>2, <2>4
<1> QED
  BY <1>3, <1>4, <1>5

\* From every point of a finished function control can still return, for every
\* program: the only branches back are those to the head of a loop, and the branch
\* of its condition leaves the loop (stmt.c:242-283).
THEOREM ReturnsReached == Spec => []NoTrap
<1>1. Init => IInv /\ TextInv /\ TrapInv
  BY Initially, TextInitially, TrapInitially DEF IInv
<1>2. IInv /\ TextInv /\ TrapInv /\ [Next]_vars => IInv' /\ TextInv' /\ TrapInv'
  BY Inductive, TextInductive, TrapInductive
<1>3. IInv /\ TextInv /\ TrapInv => NoTrap
  <2> SUFFICES ASSUME IInv, TextInv, TrapInv, ctl.mode = "done"
               PROVE  CanReturn(code)
    BY DEF NoTrap
  <2>1. stack = <<>> /\ TypeOK
    BY DEF IInv, TypeInv, StackDiscipline
  <2>2. DOMAIN code = 1..Len(code) /\ Len(code) \in Nat
    BY <2>1 DEF TypeOK
  <2>3. Targets(code) \subseteq Labels(code)
    <3>1. DOMAIN stack = {}
      BY <2>1
    <3> QED
      BY <3>1 DEF TextInv, LandingHeld
  <2>4. LeadsOn(code) /\ EndsInTerminator(code)
    BY DEF TrapInv, TextInv, DoneHeld
  <2>5. \A i \in 1..Len(code) : \E j \in Reach(code, {i}, {}) : code[j].op = "ret"
    BY <2>2, <2>3, <2>4, ReturnReached
  <2>6. Reach(code, Entry(code), {}) \subseteq 1..Len(code)
    <3> DEFINE from == Entry(code)
               avoid == {}
    <3>1. from \in SUBSET (1..Len(code))
      BY <2>2 DEF Entry
    <3> HIDE DEF from, avoid
    <3>2. Reach(code, from, avoid) \subseteq 1..Len(code)
      BY <2>2, <3>1, Reachable
    <3> QED
      BY <3>2 DEF from, avoid
  <2> QED
    BY <2>5, <2>6 DEF CanReturn
<1> QED
  BY <1>1, <1>2, <1>3, PTL DEF Spec

=============================================================================
