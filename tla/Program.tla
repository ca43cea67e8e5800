------------------------------- MODULE Program -------------------------------
(***************************************************************************)
(* How weavec0 compiles a whole program (compile_to_llvm_ir): three passes *)
(* over its declarations - types into the type environment, signatures     *)
(* into the function table, functions into text - and what the forms that  *)
(* depend on those tables write: calls, ccalls, loads and stores, struct   *)
(* construction and field assignment.                                      *)
(*                                                                         *)
(* Control flow and registers are Codegen's subject. Here an operand is    *)
(* its type, and a line of text the types it writes beside the types its   *)
(* operands have. An operand is a literal, a variable, its address, or the *)
(* value of the form compiled last, which so is nested in this one.        *)
(*                                                                         *)
(* A definition whose name ends in _Bug is a mistake the code could have   *)
(* made; only the mutation runs use it, in place of the one after it.      *)
(***************************************************************************)
EXTENDS Naturals, SequencesExt, FiniteSets

CONSTANTS
    Programs,  \* bound: programs, each a sequence of declarations
    Forms,     \* forms its functions may have
    MaxForms   \* bound: forms of its functions together

\* The syntax of a type: a name, the pointers around it, and whether it says (struct Name).
TypeNodes == [name : STRING, stars : Nat, struct : BOOLEAN]

\* A declaration. A parameter is (name T), a name alone, or (), a hole.
Decls ==
    [kind   : {"alias", "struct", "fn", "entry"}, name : STRING, node : TypeNodes,
     fields : Seq([name : STRING, node : TypeNodes]),
     params : Seq([shape : {"typed", "atom", "hole"}, name : STRING, node : TypeNodes])]

\* The operands a form is read with; a call or a ccall has any number.
OneOperand  == {"load", "make", "let", "set"}
TwoOperands == {"store", "ptr-add", "set-field", "llvm-jit"}

\* The bases of the compiler's own types: as no atom has a parenthesis, no program can
\* give one of these names to a type of its own.
Bases == {"(i32)", "(i8*)", "(void)", "(none)"}

ASSUME ProgramAssumption ==
    /\ Programs \subseteq Seq(Decls)
    /\ \A p \in Programs : \A i \in DOMAIN p : p[i].name \notin Bases
    /\ \A f \in Forms :
          /\ f \in [form : OneOperand \cup TwoOperands \cup {"call", "ccall"}, name : STRING,
                    node : TypeNodes, nodes : Seq(TypeNodes), n : Nat]
          /\ f.form \in OneOperand => f.n = 1
          /\ f.form \in TwoOperands => f.n = 2
          /\ f.form = "ccall" => f.n = Len(f.nodes)
    /\ MaxForms \in Nat

VARIABLES
    decls,     \* the program
    phase,     \* the pass compile_to_llvm_ir is in, how it ended
    at,        \* the declaration it is at
    aliases,   \* TypeEnv: alias |-> type
    structs,   \* TypeEnv: struct |-> sequence of fields
    fns,       \* FnTable: function |-> signature
    text,      \* typedefs, decls and funcs of the IR, each line with its types
    declared,  \* ir->declared_ccalls
    env,       \* variables of the function being compiled
    it,        \* the value of the form compiled last
    last,      \* last_expr: the last value a statement left
    nforms,    \* forms compiled so far
    asked      \* the field assignments the program asked for: base type and field

vars == <<decls, phase, at, aliases, structs, fns, text, declared, env, it, last, nforms, asked>>
tables == <<aliases, structs, fns>>
function == <<env, it, last>>

-----------------------------------------------------------------------------
(* Types (types.c). A type is a base and the pointers around it; its       *)
(* syntax the same with a name for the base, sometimes as (struct Name).   *)

T(base, stars) == [base |-> base, stars |-> stars]
I32   == T("(i32)", 0)
I8Ptr == T("(i8*)", 0)
Void  == T("(void)", 0)
Ptr(t)      == [t EXCEPT !.stars = @ + 1]
Pointee(t)  == [t EXCEPT !.stars = @ - 1]
IsPtr(t)    == t.stars > 0
IsStruct(t) == t.stars = 0 /\ t.base \notin Bases

Primitive == [Int32 |-> I32, String |-> I8Ptr, Void |-> Void]

\* parse_type_node: an alias is looked for before the name is taken for a struct's.
ParsedName_Bug(known, name) == T(name, 0)
ParsedName(known, name) == IF name \in DOMAIN known THEN known[name] ELSE T(name, 0)
Parse(known, n) ==
    LET t == IF n.struct THEN T(n.name, 0)
             ELSE IF n.name \in DOMAIN Primitive THEN Primitive[n.name]
             ELSE ParsedName(known, n.name)
    IN [t EXCEPT !.stars = @ + n.stars]

\* A value: its type, and what its text is: the constant 0, or something else.
Value(t, as) == [ty |-> t, as |-> as]
Reg(t)   == Value(t, "reg")
Zero     == Value(I32, "zero")
NoValue  == Value(T("(none)", 0), "none")

\* ensure_type_ctx_at, with the conversions it knows; anything else is fatal.
Fits(v, t) ==
    \/ v.ty = t
    \/ t = I8Ptr /\ (v = Zero \/ IsPtr(v.ty))
    \/ t = I32 /\ (IsPtr(v.ty) \/ v.ty = I8Ptr)
AllFit(vs, ts) == \A i \in DOMAIN vs : Fits(vs[i], ts[i])
Types(vs) == [i \in DOMAIN vs |-> vs[i].ty]

-----------------------------------------------------------------------------
(* Lines of the text. wrote are the types the line writes for its          *)
(* operands, has the types those have; ret is the type written for the     *)
(* result, val the type of the Value the compiler makes of it.             *)

TextLine(op, name, ret, wrote) ==
    [op |-> op, name |-> name, ret |-> ret, wrote |-> wrote, has |-> wrote, val |-> ret]
Uses(op, ret, wrote, has) == [TextLine(op, "", ret, wrote) EXCEPT !.has = has]

ArenaFields == [i \in 1..4 |-> [name |-> "", ty |-> I8Ptr]]
FieldTypes(fields) == [i \in DOMAIN fields |-> fields[i].ty]
\* The fields a struct has in the text: Arena is there whether declared or not.
Layout(s) == IF s \in DOMAIN structs THEN structs[s] ELSE IF s = "Arena" THEN ArenaFields ELSE <<>>
FieldAt(t, i) == IF i \in DOMAIN Layout(t.base) THEN Layout(t.base)[i].ty ELSE NoValue.ty

\* struct_field_index: 0 stands for no such field, or no such struct.
FieldIndex_Bug(s, field) ==
    IF s \notin DOMAIN structs \/ ~\E i \in DOMAIN structs[s] : i > 1 /\ structs[s][i].name = field THEN 0
    ELSE CHOOSE i \in DOMAIN structs[s] : i > 1 /\ structs[s][i].name = field
FieldIndex(s, field) ==
    LET fields == IF s \in DOMAIN structs THEN structs[s] ELSE <<>>
        hits   == {i \in DOMAIN fields : fields[i].name = field}
    IN IF hits = {} THEN 0 ELSE CHOOSE i \in hits : \A j \in hits : i <= j

\* type_env_add_alias, type_env_add_struct, fn_table_add: a name that is there already
\* is overwritten.
Over(f, g) == [k \in DOMAIN f \cup DOMAIN g |-> IF k \in DOMAIN f THEN f[k] ELSE g[k]]
Put_Bug(table, name, x) == Over(table, [k \in {name} |-> x])
Put(table, name, x) == Over([k \in {name} |-> x], table)

Init ==
    /\ decls \in Programs /\ phase = "types" /\ at = 1
    /\ aliases = <<>> /\ structs = <<>> /\ fns = <<>>
    /\ text = <<>> /\ declared = {}
    /\ env = <<>> /\ it = NoValue /\ last = NoValue
    /\ nforms = 0 /\ asked = <<>>

-----------------------------------------------------------------------------
(* First pass: collect_types. Modules only group declarations and are left *)
(* out.                                                                    *)

CollectType ==
    /\ phase = "types" /\ at <= Len(decls)
    /\ LET d == decls[at] IN
       \/ /\ d.kind = "alias"
          /\ aliases' = Put(aliases, d.name, Parse(aliases, d.node))
          /\ UNCHANGED structs
       \/ /\ d.kind = "struct"
          /\ structs' = Put(structs, d.name,
                [i \in DOMAIN d.fields |-> [name |-> d.fields[i].name, ty |-> Parse(aliases, d.fields[i].node)]])
          /\ UNCHANGED aliases
       \/ d.kind \in {"fn", "entry"} /\ UNCHANGED <<aliases, structs>>
    /\ at' = at + 1
    /\ UNCHANGED <<decls, phase, fns, text, declared, function, nforms, asked>>

TypedefLine(s) == TextLine("type", s, Void, FieldTypes(structs[s]))

\* The typedefs are written when all types are known.
TypesCollected ==
    /\ phase = "types" /\ at > Len(decls)
    /\ text' = SetToSeq({TypedefLine(s) : s \in DOMAIN structs})
    /\ phase' = "signatures" /\ at' = 1
    /\ UNCHANGED <<decls, tables, declared, function, nforms, asked>>

-----------------------------------------------------------------------------
(* Second pass: collect_signatures, and the functions that are built in.   *)

\* A parameter: () is a hole, an atom has no type, (name T) has one.
IsHole(p) == p.shape = "hole"
ParamType(p) == IF p.shape = "typed" THEN Parse(aliases, p.node) ELSE I32

\* (params ()) has no parameter; beside others () counts as one.
SignatureParams_Bug(d) == [i \in 1..Len(d.params) - 1 |-> ParamType(d.params[i + 1])]
SignatureParams(d) ==
    IF Len(d.params) = 1 /\ IsHole(d.params[1]) THEN <<>>
    ELSE [i \in DOMAIN d.params |-> ParamType(d.params[i])]
Signature(d) == [ret |-> Parse(aliases, d.node), params |-> SignatureParams(d)]

Sig(ret, params) == [ret |-> ret, params |-> params]
ArenaPtr == Ptr(T("Arena", 0))
Compilers == {"llvm-compile-ir-to-assembly", "llvm-compile-ir-to-object"}
BuiltIn ==
    [n \in {"arena-create", "arena-kind", "llvm-jit-compile", "llvm-jit-call", "llvm-link-objects"} \cup Compilers |->
        CASE n = "arena-create"      -> Sig(ArenaPtr, <<I32>>)
          [] n = "arena-kind"        -> Sig(I32, <<ArenaPtr, I32>>)
          [] n = "llvm-jit-compile"  -> Sig(I32, <<I8Ptr, I8Ptr>>)
          [] n = "llvm-jit-call"     -> Sig(I32, <<I8Ptr, I8Ptr, I32, I32>>)
          [] n = "llvm-link-objects" -> Sig(I32, <<I8Ptr, I8Ptr, I8Ptr>>)
          [] n \in Compilers         -> Sig(I32, <<I8Ptr, I8Ptr, I32>>)]

Skipped == {"arena-kind", "arena-create"}

CollectSignature ==
    /\ phase = "signatures" /\ at <= Len(decls)
    /\ LET d == decls[at] IN
       fns' = IF d.kind \in {"fn", "entry"} /\ d.name \notin Skipped
              THEN Put(fns, d.name, Signature(d)) ELSE fns
    /\ at' = at + 1
    /\ UNCHANGED <<decls, phase, aliases, structs, text, declared, function, nforms, asked>>

Preset == [malloc |-> Sig(I8Ptr, <<I32>>),
           llvm_jit_compile_and_get_ptr |-> Sig(I32, <<I8Ptr, I8Ptr>>),
           llvm_jit_call_i32_i32_i32 |-> Sig(I32, <<I8Ptr, I8Ptr, I32, I32>>),
           llvm_compile_ir_to_assembly |-> Sig(I32, <<I8Ptr, I8Ptr, I32>>),
           llvm_compile_ir_to_object |-> Sig(I32, <<I8Ptr, I8Ptr, I32>>),
           llvm_link_objects |-> Sig(I32, <<I8Ptr, I8Ptr, I8Ptr>>)]
DeclareLine(name, sig) == TextLine("declare", name, sig.ret, sig.params)

\* The struct Arena, unless the program has one, the declarations of the run time's C
\* functions, and arena-create, which stores null into the fields an Arena should have.
ArenaTypedef_Bug == <<TextLine("type", "Arena", Void, FieldTypes(ArenaFields))>>
ArenaTypedef == IF "Arena" \in DOMAIN structs THEN <<>> ELSE ArenaTypedef_Bug
ArenaLines ==
    <<TextLine("define", "arena-create", ArenaPtr, <<I32>>)>>
    \o [i \in 1..4 |-> Uses("store", I8Ptr, <<I8Ptr, Ptr(I8Ptr)>>, <<I8Ptr, Ptr(FieldAt(T("Arena", 0), i))>>)]

RegisterBuiltIns ==
    /\ phase = "signatures" /\ at > Len(decls)
    /\ fns' = Over(BuiltIn, fns)
    /\ text' = text \o ArenaTypedef
                    \o SetToSeq({DeclareLine(n, Preset[n]) : n \in DOMAIN Preset}) \o ArenaLines
    /\ declared' = DOMAIN Preset
    /\ phase' = "functions" /\ at' = 1
    /\ UNCHANGED <<decls, aliases, structs, function, nforms, asked>>

-----------------------------------------------------------------------------
(* Third pass: emit_fn_forms. The header leaves holes out, but the comma   *)
(* before the next parameter stays.                                        *)

\* The parameters that are no holes, in order.
Kept(d, k)  == {i \in 1..k : ~IsHole(d.params[i])}
NotHoles(d) ==
    [i \in 1..Cardinality(Kept(d, Len(d.params))) |->
        d.params[CHOOSE k \in Kept(d, Len(d.params)) : Cardinality(Kept(d, k)) = i]]
HeaderParams(d) == [i \in DOMAIN NotHoles(d) |-> ParamType(NotHoles(d)[i])]

SkipDecl ==
    /\ phase = "functions" /\ at <= Len(decls)
    /\ decls[at].kind \in {"alias", "struct"}
    /\ at' = at + 1
    /\ UNCHANGED <<decls, phase, tables, text, declared, function, nforms, asked>>

OpenFn ==
    /\ phase = "functions" /\ at <= Len(decls)
    /\ LET d == decls[at] IN
          /\ d.kind \in {"fn", "entry"}
          /\ text' = Append(text, TextLine("define", d.name, Parse(aliases, d.node), HeaderParams(d)))
          /\ env' = [i \in DOMAIN NotHoles(d) |->
                        [name |-> NotHoles(d)[i].name, ty |-> ParamType(NotHoles(d)[i])]]
    /\ it' = NoValue /\ last' = NoValue
    /\ phase' = "body"
    /\ UNCHANGED <<decls, at, tables, declared, nforms, asked>>

Finished ==
    /\ phase = "functions" /\ at > Len(decls)
    /\ phase' = "done"
    /\ UNCHANGED <<decls, at, tables, text, declared, function, nforms, asked>>

-----------------------------------------------------------------------------
(* Bodies.                                                                 *)

EnvType(x) == IF \E i \in DOMAIN env : env[i].name = x
              THEN env[CHOOSE i \in DOMAIN env : env[i].name = x
                          /\ \A j \in DOMAIN env : env[j].name = x => j <= i].ty
              ELSE I32

Atoms == {Zero, Reg(I8Ptr)}
         \cup UNION {{Reg(EnvType(env[i].name)), Reg(Ptr(EnvType(env[i].name)))} : i \in DOMAIN env}

\* n operands, one of them the form before this one when that is nested in it.
Operands(n, nested) ==
    IF nested THEN {vs \in [1..n -> Atoms \cup {it}] : it # NoValue /\ \E i \in 1..n : vs[i] = it}
    ELSE [1..n -> Atoms]

\* A form that is not nested was a statement, whose value the body may return.
LastAfter(nested) == IF ~nested /\ it # NoValue THEN it ELSE last

Compiling(f) == phase = "body" /\ nforms < MaxForms /\ f \in Forms

\* What every form does: it writes lines and leaves a value.
Emits(lines, v, nested) ==
    /\ text' = text \o lines
    /\ it' = v /\ last' = LastAfter(nested)
    /\ nforms' = nforms + 1
    /\ UNCHANGED <<decls, phase, at, tables>>

\* die, diag_fatal.
Stops(how) ==
    /\ phase' = how
    /\ UNCHANGED <<decls, at, tables, text, declared, function, nforms, asked>>

\* Each operand is brought to the type the callee is known for, Int32 when it is not.
Expected(sig, n) == [i \in 1..n |-> IF i \in DOMAIN sig.params THEN sig.params[i] ELSE I32]
Checked_Bug(vs, ts) == TRUE
Checked(vs, ts) == AllFit(vs, ts)
Passed(vs, ts) == [i \in DOMAIN vs |-> IF Fits(vs[i], ts[i]) THEN ts[i] ELSE vs[i].ty]

CallLine(op, name, sig, ts, vs) ==
    [TextLine(op, name, sig.ret, ts) EXCEPT !.has = Passed(vs, ts)]
ResultOf(t) == IF t = Void THEN Zero ELSE Reg(t)

Call(f, vs, nested) ==
    /\ f.form = "call"
    /\ LET sig == IF f.name \in DOMAIN fns THEN fns[f.name] ELSE Sig(I32, <<>>)
           ts  == Expected(sig, f.n)
       IN \/ ~Checked(vs, ts) /\ Stops("fatal")
          \/ /\ Checked(vs, ts)
             /\ Emits(<<CallLine("call", f.name, sig, ts, vs)>>, ResultOf(sig.ret), nested)
             /\ UNCHANGED <<declared, env, asked>>

\* printf is declared and called as i32 (i8*, ...) whatever the form says it returns.
CcallSig(f) == Sig(Parse(aliases, f.node), [i \in DOMAIN f.nodes |-> Parse(aliases, f.nodes[i])])
WrittenSig(name, sig) == IF name = "printf" THEN [sig EXCEPT !.ret = I32] ELSE sig
CcallDeclares_Bug(name, sig) == <<>>
CcallDeclares(name, sig) ==
    IF name \in declared THEN <<>> ELSE <<DeclareLine(name, WrittenSig(name, sig))>>

Ccall(f, vs, nested) ==
    /\ f.form = "ccall"
    /\ LET sig  == CcallSig(f)
           line == [CallLine("ccall", f.name, WrittenSig(f.name, sig), sig.params, vs)
                       EXCEPT !.val = IF sig.ret = Void THEN @ ELSE sig.ret]
       IN \/ ~Checked(vs, sig.params) /\ Stops("fatal")
          \/ /\ Checked(vs, sig.params)
             /\ Emits(CcallDeclares(f.name, sig) \o <<line>>, ResultOf(sig.ret), nested)
             /\ declared' = declared \cup {f.name}
             /\ UNCHANGED <<env, asked>>

\* The kind of the Value that llvm-jit returns is not set: its text may as well be a constant.
Jit(f, vs, nested) ==
    /\ f.form = "llvm-jit"
    /\ \/ ~Checked(vs, <<I32, I32>>) /\ Stops("fatal")
       \/ /\ Checked(vs, <<I32, I32>>)
          /\ \E v \in {Zero, Reg(I32)} :
                Emits(<<TextLine("ccall", "llvm_jit_call_i32_i32_i32", I32, <<I8Ptr, I8Ptr, I32, I32>>)>>, v, nested)
          /\ declared' = declared \cup {"llvm_jit_call_i32_i32_i32"}
          /\ UNCHANGED <<env, asked>>

Load(f, vs, nested) ==
    /\ f.form = "load"
    /\ LET t == Parse(aliases, f.node) IN
       \/ ~IsPtr(vs[1].ty) /\ Stops("fatal")
       \/ /\ IsPtr(vs[1].ty)
          /\ Emits(<<Uses("load", t, <<Ptr(t)>>, Types(vs))>>, Reg(t), nested)
          /\ UNCHANGED <<declared, env, asked>>

PtrAdd(f, vs, nested) ==
    /\ f.form = "ptr-add"
    /\ LET t == Parse(aliases, f.node) IN
       \/ ~Checked(<<vs[2]>>, <<I32>>) /\ Stops("fatal")
       \/ /\ Checked(<<vs[2]>>, <<I32>>)
          /\ Emits(<<Uses("gep", Ptr(t), <<Ptr(t), I32>>, <<vs[1].ty>> \o Passed(<<vs[2]>>, <<I32>>))>>,
                   Reg(Ptr(t)), nested)
          /\ UNCHANGED <<declared, env, asked>>

\* A field the struct does not have is taken for its first one, of type i32.
Make(f, vs, nested) ==
    /\ f.form = "make"
    /\ LET t   == Parse(aliases, f.node)
           k   == FieldIndex(t.base, f.name)
           fty == IF k = 0 THEN I32 ELSE FieldAt(t, k)
       IN \/ ~IsStruct(t) /\ Stops("fatal")
          \/ /\ IsStruct(t)
             /\ Emits(<<Uses("make", Ptr(t), <<fty, Ptr(fty)>>, <<vs[1].ty, Ptr(FieldAt(t, IF k = 0 THEN 1 ELSE k))>>)>>,
                      Reg(Ptr(t)), nested)
             /\ UNCHANGED <<declared, env, asked>>

Store(f, vs, nested) ==
    /\ f.form = "store"
    /\ LET t == Parse(aliases, f.node) IN
       \/ ~Checked(<<vs[2]>>, <<t>>) /\ Stops("fatal")
       \/ /\ Checked(<<vs[2]>>, <<t>>)
          /\ Emits(<<Uses("store", t, <<t, Ptr(t)>>, Passed(<<vs[2]>>, <<t>>) \o <<vs[1].ty>>)>>, NoValue, nested)
          /\ UNCHANGED <<declared, env, asked>>

\* A base that is no struct, nor points to one that has the field, costs nothing, and
\* the value is not even compiled. A pointer to anything but a struct has no name to
\* compare: strcmp reads from NULL as soon as there is a struct to compare it with.
BaseStruct(t) == IF IsPtr(t) THEN Pointee(t) ELSE t
SetField(f, vs, nested) ==
    /\ f.form = "set-field"
    /\ LET s    == BaseStruct(vs[1].ty)
           k    == IF IsStruct(s) THEN FieldIndex(s.base, f.name) ELSE 0
           fty  == FieldAt(s, k)
       IN \/ IsPtr(vs[1].ty) /\ ~IsStruct(s) /\ DOMAIN structs # {} /\ Stops("crashed")
          \/ k # 0 /\ ~Checked(<<vs[2]>>, <<fty>>) /\ Stops("fatal")
          \/ /\ IsPtr(vs[1].ty) /\ ~IsStruct(s) => DOMAIN structs = {}
             /\ k # 0 => Checked(<<vs[2]>>, <<fty>>)
             /\ Emits(IF k = 0 THEN <<>>
                      ELSE <<Uses("set-field", fty, <<Ptr(s), fty>>, <<vs[1].ty>> \o Passed(<<vs[2]>>, <<fty>>))>>,
                      NoValue, nested)
             /\ asked' = Append(asked, [base |-> vs[1].ty, field |-> f.name])
             /\ UNCHANGED <<declared, env>>

\* A pointer to a value of the variable's type is read through first.
LetStored(v, t) == IF v.ty = Ptr(t) THEN t ELSE v.ty
Let(f, vs, nested) ==
    /\ f.form = "let"
    /\ LET t == Parse(aliases, f.node) IN
       /\ Emits(<<Uses("let", t, <<t>>, <<LetStored(vs[1], t)>>)>>, NoValue, nested)
       /\ env' = Append(env, [name |-> f.name, ty |-> t])
    /\ UNCHANGED <<declared, asked>>

Set(f, vs, nested) ==
    /\ f.form = "set"
    /\ Emits(<<Uses("set", EnvType(f.name), <<EnvType(f.name)>>, Types(vs))>>, NoValue, nested)
    /\ UNCHANGED <<declared, env, asked>>

Form(f) ==
    /\ Compiling(f)
    /\ \E nested \in BOOLEAN : \E vs \in Operands(f.n, nested) :
          Call(f, vs, nested) \/ Ccall(f, vs, nested) \/ Jit(f, vs, nested)
          \/ Load(f, vs, nested) \/ PtrAdd(f, vs, nested) \/ Make(f, vs, nested)
          \/ Store(f, vs, nested) \/ SetField(f, vs, nested)
          \/ Let(f, vs, nested) \/ Set(f, vs, nested)

\* The body is over, and the function with it.
Closes_Bug(lines) ==
    /\ text' = text \o lines
    /\ phase' = "functions" /\ at' = at + 1
    /\ UNCHANGED <<decls, tables, declared, function, nforms, asked>>
Closes(lines) ==
    /\ text' = text \o lines
    /\ phase' = "functions" /\ at' = at + 1
    /\ env' = <<>> /\ it' = NoValue /\ last' = NoValue
    /\ UNCHANGED <<decls, tables, declared, nforms, asked>>

RetType == Parse(aliases, decls[at].node)

Return(nested) ==
    /\ phase = "body" /\ nforms > 0
    /\ \E vs \in Operands(1, nested) :
          Closes(<<IF RetType = Void THEN TextLine("ret", "", Void, <<>>)
                   ELSE Uses("ret", RetType, <<RetType>>, Types(vs))>>)

\* The implicit return: of the last value, or a default of the type.
EndBody ==
    /\ phase = "body"
    /\ LET v == LastAfter(FALSE) IN
       \/ RetType # Void /\ v # NoValue /\ ~Checked(<<v>>, <<RetType>>) /\ Stops("fatal")
       \/ /\ RetType # Void /\ v # NoValue => Checked(<<v>>, <<RetType>>)
          /\ Closes(<<IF RetType = Void \/ v = NoValue THEN TextLine("ret", "", RetType, <<>>)
                      ELSE Uses("implicit-ret", RetType, <<RetType>>, Passed(<<v>>, <<RetType>>))>>)

Next ==
    \/ CollectType \/ TypesCollected \/ CollectSignature \/ RegisterBuiltIns
    \/ SkipDecl \/ OpenFn \/ Finished
    \/ \E f \in Forms : Form(f)
    \/ \E nested \in BOOLEAN : Return(nested)
    \/ EndBody

Spec == Init /\ [][Next]_vars

-----------------------------------------------------------------------------
(* Properties.                                                             *)

Lines(ops) == {i \in DOMAIN text : text[i].op \in ops}
DeclaredFns(name) == {i \in DOMAIN decls : decls[i].kind \in {"fn", "entry"} /\ decls[i].name = name}
DeclaredAs(kind)  == {decls[i].name : i \in {j \in DOMAIN decls : decls[j].kind = kind}}
LastStruct(s)     == CHOOSE i \in DOMAIN decls :
                        /\ decls[i].kind = "struct" /\ decls[i].name = s
                        /\ \A j \in i + 1..Len(decls) : decls[j].kind = "struct" => decls[j].name # s

\* Every variable is in its range; the passes walk the declarations in order, no table
\* has an entry that the program does not declare, a body is compiled only for a
\* function, and no variable or value outlives it.
TypeOK ==
    /\ decls \in Programs /\ at \in 1..Len(decls) + 1 /\ nforms \in 0..MaxForms
    /\ phase \in {"types", "signatures", "functions", "body", "done", "fatal", "crashed"}
    /\ phase # "types" => DOMAIN aliases = DeclaredAs("alias") /\ DOMAIN structs = DeclaredAs("struct")
    /\ DOMAIN fns \subseteq DOMAIN BuiltIn \cup DeclaredAs("fn") \cup DeclaredAs("entry")
    /\ phase = "body" => decls[at].kind \in {"fn", "entry"}
    /\ phase \in {"types", "signatures"} => declared = {} /\ asked = <<>>
    /\ phase \in {"types", "signatures", "functions", "done"} => function = <<<<>>, NoValue, NoValue>>

\* The operands a line may get with another type than it writes: what let, set, return
\* and make store, and the address that load, store, ptr-add and set-field go through.
\* Nothing else reaches the text unconverted, whatever aliases and signatures say, and a
\* call's Value has the type the line gives it, printf apart (ensure_type_ctx_at at each
\* use; stmt.c:36-49, 124-153, 166-183 and expr.c:180-245 have none).
Unchecked == {"let", "set", "ret", "make"} \X {1, 2} \cup {"load", "gep", "set-field"} \X {1} \cup {<<"store", 2>>}

OperandsChecked ==
    \A i \in DOMAIN text : LET l == text[i] IN
        /\ \A k \in DOMAIN l.wrote : l.has[k] # l.wrote[k] => <<l.op, k>> \in Unchecked
        /\ l.val # l.ret => l.name = "printf"

\* Where a type is a name, the name denotes one type for the whole program: a field has
\* the type its text has at the end, unless the alias in it was declared only later, or
\* again (collect_types is one pass, program.c:435-466).
SameMeaning ==
    phase # "types" =>
        \A s \in DOMAIN structs : \A k \in DOMAIN structs[s] :
            LET n == decls[LastStruct(s)].fields[k].node IN
            \/ structs[s][k].ty = Parse(aliases, n)
            \/ \E j \in LastStruct(s)..Len(decls) : decls[j].kind = "alias" /\ decls[j].name = n.name

Nodes(d) == IF d.kind = "struct" THEN {d.fields[i].node : i \in DOMAIN d.fields}
            ELSE IF d.kind = "alias" THEN {d.node}
            ELSE {d.node} \cup {d.params[i].node : i \in DOMAIN d.params}

\* An alias taken for a struct: named by a type before it is declared, or as (struct Name),
\* be that in a form.
TakenForStruct(a) ==
    \/ \E f \in Forms : \E n \in {f.node} \cup Range(f.nodes) : n.name = a /\ n.struct
    \/ \E i \in DOMAIN decls : \E n \in Nodes(decls[i]) :
          /\ n.name = a
          /\ \/ n.struct
             \/ /\ decls[i].kind \in {"alias", "struct"}
                /\ \A j \in 1..i - 1 : decls[j].kind = "alias" => decls[j].name # a

Mentioned(l) == {l.ret.base} \cup {l.wrote[k].base : k \in DOMAIN l.wrote}

\* The text defines every struct it mentions, Arena too, unless the program declares it
\* nowhere or takes an alias for it: LLVM refuses a text with a type left undefined.
TypesDefined ==
    phase = "done" =>
        \A i \in DOMAIN text : \A b \in Mentioned(text[i]) :
            \/ ~IsStruct(T(b, 0))
            \/ \E j \in Lines({"type"}) : text[j].name = b
            \/ /\ b \notin DeclaredAs("struct") \cup {"Arena"}
               /\ b \in DeclaredAs("alias") => TakenForStruct(b)

\* A name for a type denotes the same type wherever it stands, and one that the text
\* defines (program.c:405-467, types.c:113-124).
NamesDenote == SameMeaning /\ TypesDefined

\* No struct is defined twice, and no function, unless the program itself declares a
\* function twice or declares arena-create, or one of its functions is declared as the
\* run time's or because a ccall names it.
DefinedOnce ==
    /\ \A i, j \in Lines({"type"}) : text[i].name = text[j].name => i = j
    /\ \A i, j \in Lines({"define", "declare"}) : text[i].name = text[j].name /\ i # j =>
          LET n == text[i].name IN
          \/ \E p, q \in DeclaredFns(n) : p # q
          \/ n = "arena-create" /\ DeclaredFns(n) # {}
          \/ /\ DeclaredFns(n) # {} \/ n = "arena-create"
             /\ n \in DOMAIN Preset \/ \E c \in Lines({"ccall"}) : text[c].name = n

HasHole(d) == d.params # <<>> /\ \E i \in DOMAIN d.params : IsHole(d.params[i])

\* A call of a function the program declares once agrees with its definition, wherever in
\* the program that is: the signature collected before any text and the header written
\* later read the parameters the same way, but for holes, which only the first counts,
\* and for the two names whose signature is built in. How many arguments there are is the
\* call's own affair (program.c:304-382 and 11-40, expr.c:578-634).
CallsMatch ==
    phase = "done" =>
        \A c \in Lines({"call"}) : LET n == text[c].name IN
            \A p \in DeclaredFns(n) :
                DeclaredFns(n) = {p} /\ ~HasHole(decls[p]) /\ n \notin DOMAIN BuiltIn =>
                    \E d \in Lines({"define"}) :
                        /\ text[d].name = n /\ text[d].ret = text[c].ret
                        /\ \A k \in DOMAIN text[c].wrote :
                              text[c].wrote[k] = IF k \in DOMAIN text[d].wrote THEN text[d].wrote[k] ELSE I32

\* Every symbol reached by ccall is declared, for the types of the form that used it
\* first, or those of the run time; later uses with other types keep that declaration
\* (expr.c:526-543).
CcallsDeclared ==
    \A c \in Lines({"ccall"}) : \E d \in Lines({"declare"}) :
        /\ text[d].name = text[c].name
        /\ \/ text[c].name \in DOMAIN Preset
           \/ \E b \in Lines({"ccall"}) : b < c /\ text[b].name = text[c].name
           \/ text[d].ret = text[c].ret /\ text[d].wrote = text[c].wrote

\* What calls and ccalls write agrees with what defines or declares their callee
\* (expr.c:485-634).
CallsAgree == CallsMatch /\ CcallsDeclared

FieldDeclared(a) ==
    \E s \in DeclaredAs("struct") :
        /\ a.base \in {T(s, 0), T(s, 1)}
        /\ LET fields == decls[LastStruct(s)].fields IN \E i \in DOMAIN fields : fields[i].name = a.field

\* Each assignment to a field that the last declaration of the struct has is in the text,
\* whatever was declared before it or in between, and none is that the program does not
\* ask for (stmt.c:78-107). What becomes of the others is left to FieldsValidated.
AssignmentsKept ==
    LET kept == Cardinality(Lines({"set-field"})) IN
    /\ Cardinality({i \in DOMAIN asked : FieldDeclared(asked[i])}) <= kept
    /\ kept <= Len(asked)

\* What docs/coding_guidelines/syntax.md says: set-field "Emits GEP + store", "Field names
\* are validated against struct definitions at compile time". An assignment through a
\* pointer to a declared struct is refused or in the text.
FieldsValidated ==
    Cardinality({i \in DOMAIN asked : \E s \in DeclaredAs("struct") : asked[i].base = T(s, 1)})
        <= Cardinality(Lines({"set-field"}))

=============================================================================
